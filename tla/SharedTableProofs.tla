------------------------- MODULE SharedTableProofs -------------------------
(***************************************************************************)
(* What the components promise that several instances share as tables of   *)
(* one database, each statement a step: the cooldowns (IpBan), the event   *)
(* log and the policies of the iKuai profiles.  The components are proved  *)
(* one by one; they have the instances and the clock in common.            *)
(***************************************************************************)
EXTENDS IpBan, Integers, TLAPS

CONSTANTS
  Writer, Retention, Backlog, Batch, MaxBatches, MaxId, MaxStops,  \* EventLog
  Save, Profile, Policy, Default,                                  \* PolicyStore
  None
VARIABLES
  event, lastId, adding, stored, window, sweep, stops,             \* EventLog
  row, phase, default, copies, save, edited, excused               \* PolicyStore

Log == INSTANCE EventLog
Pol == INSTANCE PolicyStore WITH cache <- copies

\* What the two modules assume of their constants.
LogAssumption ==
  Log!BoundAssumption /\ Log!BatchAssumption /\ Log!RetentionAssumption /\ Log!NoneAssumption
PolAssumption == Pol!DefaultAssumption /\ Pol!NoneAssumption

-----------------------------------------------------------------------------
(* IpBan. *)

\* A job at work has an instance, and works for no longer than Delay.
JobInv ==
  \A j \in Job :
    /\ job[j].since <= now
    /\ ~At(j, "idle") => Home(j) \in Node /\ now <= job[j].since + Delay

TimeInv == unsettled <= now /\ \A n \in Node : refreshed[n] <= now

\* What the table says, as far as it matters now.
Right(v) == Standing \/ v > now => v = ban

\* Until unsettled a decision may have been missed.  A job that began later
\* has read the table, or found a view young enough; and if it drops an entry
\* that it found expired, it began after every view from before.
SeesAt(j) ==
  /\ At(j, "store") /\ job[j].since > unsettled => Right(job[j].until)
  /\ At(j, "look") /\ job[j].since > unsettled => job[j].since <= refreshed[Home(j)] + TTL
  /\ At(j, "drop") /\ job[j].since > unsettled + TTL + Delay => ~Standing

\* A view stored by a job that began later is right, but for an entry that was
\* dropped by one that had found an older entry expired.
ViewAt(n) ==
  /\ refreshed[n] > unsettled + Delay /\ cache[n] # 0 => Right(cache[n])
  /\ refreshed[n] > unsettled + TTL + 2 * Delay => Right(cache[n])

SeesInv == \A j \in Job : SeesAt(j)
ViewInv == \A n \in Node : ViewAt(n)

BanInv == TypeOK /\ JobInv /\ TimeInv /\ SeesInv /\ ViewInv

-----------------------------------------------------------------------------
LEMMA Numbers ==
  /\ EscalateAt \in Nat /\ BanTime \in Nat \ {0} /\ TTL \in Nat /\ Delay \in Nat /\ MaxTime \in Nat
  /\ Nowhere \notin Node
BY NumberAssumption, NowhereAssumption

LEMMA Untils ==
  /\ Permanent \in Until /\ 0 \in Until /\ Until \subseteq Nat
  /\ \A t \in 0 .. MaxTime : t + BanTime \in Until
BY Numbers DEF Until, Permanent

LEMMA IdleIsJob == Idle \in JobState
BY Untils, Numbers DEF Idle, JobState, Stage, Purpose

LEMMA JobParts ==
  ASSUME NEW r \in JobState
  PROVE  /\ r.stage \in Stage /\ r.node \in Node \cup {Nowhere} /\ r.for \in Purpose
         /\ r.since \in 0 .. MaxTime /\ r.until \in Until
BY DEF JobState

\* What a step makes of a record.
LEMMA JobMade ==
  /\ \A r \in JobState, s \in Stage : [r EXCEPT !.stage = s] \in JobState
  /\ \A r \in JobState, s \in Stage, u \in Until :
       [r EXCEPT !.stage = s, !.until = u] \in JobState
  /\ \A s \in Stage, n \in Node, p \in Purpose, t \in 0 .. MaxTime :
       [Idle EXCEPT !.stage = s, !.node = n, !.for = p, !.since = t] \in JobState
BY IdleIsJob DEF JobState

\* Every step gives at most one job another record.
Becomes(j, r) == job' = [job EXCEPT ![j] = r]

LEMMA BanTypeStep == TypeOK /\ [Next]_vars => TypeOK'
<1> SUFFICES ASSUME TypeOK, [Next]_vars PROVE TypeOK'
  OBVIOUS
<1>0. ASSUME NEW j \in Job, NEW r \in JobState, Becomes(j, r) PROVE job' \in [Job -> JobState]
  BY <1>0 DEF Becomes, TypeOK
<1>a. ASSUME NEW j \in Job, NEW s \in Stage, NEW u \in Until,
             job' = [job EXCEPT ![j].stage = s, ![j].until = u]
      PROVE  \E r \in JobState : Becomes(j, r)
  <2>1. Becomes(j, [job[j] EXCEPT !.stage = s, !.until = u])
    BY <1>a DEF Becomes, TypeOK
  <2> QED BY <2>1, JobMade DEF TypeOK
<1>1. ASSUME NEW j \in Job, NEW n \in Node, Operation(j, n) PROVE TypeOK'
  <2>1. PICK p \in Purpose, s \in Stage : Begin(j, n, p, s)
    BY <1>1 DEF Operation, Gate, Fail, Succeed, AdminReset, Sweep, Ask, Lift, Purpose, Stage
  <2>2. job' \in [Job -> JobState]
    <3>1. Becomes(j, [Idle EXCEPT !.stage = s, !.node = n, !.for = p, !.since = now])
      BY <2>1 DEF Begin, Becomes
    <3> QED BY <3>1, <1>0, JobMade DEF TypeOK
  <2>3. ban' \in Until /\ unsettled' \in 0 .. MaxTime /\ UNCHANGED <<offences, views, now>>
    BY <1>1, Untils DEF Operation, Gate, Fail, Succeed, AdminReset, Sweep, Ask, Lift, TypeOK, tables
  <2> QED BY <2>2, <2>3 DEF TypeOK, views
<1>2. ASSUME NEW j \in Job, Reload(j) \/ Count(j) \/ HistoryFails(j) PROVE TypeOK'
  <2>1. \E s \in Stage, u \in Until : job' = [job EXCEPT ![j].stage = s, ![j].until = u]
    <3>1. CASE Reload(j)
      BY <3>1, Untils DEF Reload, TypeOK, Stage
    <3>2. CASE Count(j) \/ HistoryFails(j)
      <4>1. "banRow" \in Stage /\ Permanent \in Until /\ now + BanTime \in Until
        BY Untils DEF Stage, TypeOK
      <4> QED BY <3>2, <4>1 DEF Count, HistoryFails
    <3> QED BY <1>2, <3>1, <3>2
  <2>2. job' \in [Job -> JobState]
    BY <2>1, <1>a, <1>0
  <2> QED BY <1>2, <2>2 DEF Reload, Count, HistoryFails, TypeOK, tables, views
<1>3. ASSUME NEW j \in Job, NEW r \in JobState, Becomes(j, r) \/ UNCHANGED job,
             UNCHANGED <<tables, now>>, unsettled' \in 0 .. MaxTime,
             cache' \in [Node -> Until], refreshed' \in [Node -> 0 .. MaxTime]
      PROVE  TypeOK'
  BY <1>0, <1>3 DEF TypeOK, tables
<1>4. ASSUME NEW j \in Job, AfterRefresh(j) PROVE \E r \in JobState : Becomes(j, r)
  <2>1. CASE job[j].for = "sweep"
    BY <1>4, <2>1, IdleIsJob DEF AfterRefresh, Finish, Becomes
  <2>2. CASE job[j].for # "sweep"
    BY <1>4, <2>2, <1>a, Untils DEF AfterRefresh, Stage
  <2> QED BY <2>1, <2>2
<1>5. ASSUME NEW j \in Job, Clear(j) PROVE \E r \in JobState : Becomes(j, r)
  <2>1. CASE job[j].for = "gate"
    BY <1>5, <2>1, IdleIsJob DEF Clear, Finish, Becomes
  <2>2. CASE job[j].for # "gate"
    <3>1. /\ (IF EscalateAt = 0 THEN "banRow" ELSE "offend") \in Stage
          /\ (IF EscalateAt = 0 THEN now + BanTime ELSE 0) \in Until
      BY Untils DEF Stage, TypeOK
    <3> QED BY <1>5, <2>2, <3>1, <1>a DEF Clear
  <2> QED BY <2>1, <2>2
<1>6. ASSUME NEW j \in Job, NEW s \in Stage, Go(j, s) PROVE \E r \in JobState : Becomes(j, r)
  <2>1. Becomes(j, [job[j] EXCEPT !.stage = s])
    BY <1>6 DEF Go, Becomes
  <2> QED BY <2>1, JobMade DEF TypeOK
<1>7. ASSUME NEW j \in Job, Finish(j) PROVE \E r \in JobState : Becomes(j, r)
  BY <1>7, IdleIsJob DEF Finish, Becomes
<1>8. ASSUME NEW j \in Job, IsBanned(j), ~Reload(j) PROVE TypeOK'
  <2>1. \E r \in JobState : Becomes(j, r)
    BY <1>4, <1>5, <1>6, <1>7, <1>8
       DEF IsBanned, ReloadFails, Store, LookMissing, LookBanned, LookExpired, DropEntry, Stage
  <2>2. /\ UNCHANGED <<tables, now>> /\ unsettled' \in 0 .. MaxTime
        /\ cache' \in [Node -> Until] /\ refreshed' \in [Node -> 0 .. MaxTime]
    BY <1>8, Untils, JobParts
       DEF IsBanned, ReloadFails, Store, LookMissing, LookBanned, LookExpired, DropEntry, TypeOK,
              views
  <2> QED BY <2>1, <2>2, <1>3
<1>9. ASSUME NEW j \in Job, BanCache(j) \/ UnbanCache(j) PROVE TypeOK'
  <2>1. \E r \in JobState : Becomes(j, r)
    BY <1>6, <1>7, <1>9 DEF BanCache, UnbanCache, Stage
  <2>2. /\ UNCHANGED <<tables, now>> /\ unsettled' \in 0 .. MaxTime
        /\ cache' \in [Node -> Until] /\ refreshed' \in [Node -> 0 .. MaxTime]
    BY <1>9, Untils, JobParts DEF BanCache, UnbanCache, TypeOK
  <2> QED BY <2>1, <2>2, <1>3
<1>10. ASSUME NEW j \in Job, Offend(j) \/ BanRow(j) \/ BanRowFails(j) \/ Forget(j) PROVE TypeOK'
  <2>1. \E r \in JobState : Becomes(j, r)
    BY <1>6, <1>7, <1>10 DEF Offend, BanRow, BanRowFails, Forget, Stage
  <2>2. job' \in [Job -> JobState]
    BY <2>1, <1>0
  <2>3. ban' \in Until /\ offences' \in 0 .. EscalateAt
    BY <1>10, Numbers, JobParts DEF Offend, BanRow, BanRowFails, Forget, UpTo, TypeOK, tables
  <2>4. UNCHANGED <<views, now>> /\ unsettled' \in 0 .. MaxTime
    BY <1>10 DEF Offend, BanRow, BanRowFails, Forget, TypeOK
  <2> QED BY <2>2, <2>3, <2>4 DEF TypeOK, views
<1>11. CASE Tick
  BY <1>11, Numbers DEF Tick, TypeOK, tables, views
<1>12. CASE UNCHANGED vars
  BY <1>12 DEF vars, tables, views, TypeOK
<1> QED BY <1>1, <1>2, <1>8, <1>9, <1>10, <1>11, <1>12 DEF Next, IsBanned, Punish, Clean

\* A job begins, goes on with what it has, or is over.
Begins(j)  == At(j, "idle") /\ job'[j].since = now /\ job'[j].node \in Node
GoesOn(j)  == ~At(j, "idle") /\ job'[j].since = job[j].since /\ job'[j].node = job[j].node
Changes(j) ==
  /\ Begins(j) \/ GoesOn(j) \/ job'[j] = Idle
  /\ \A k \in Job \ {j} : job'[k] = job[k]
  /\ now' = now

LEMMA OneJob ==
  ASSUME TypeOK, NEW j \in Job,
         (\E n \in Node : Operation(j, n)) \/ IsBanned(j) \/ Punish(j) \/ Clean(j)
  PROVE  Changes(j)
<1> USE DEF Changes, GoesOn, Begins, TypeOK, At
<1>1. ASSUME NEW n \in Node, Operation(j, n) PROVE Changes(j)
  <2>1. /\ now' = now /\ \E p \in Purpose, s \in Stage : Begin(j, n, p, s)
    BY <1>1 DEF Operation, Gate, Fail, Succeed, AdminReset, Sweep, Ask, Lift, Purpose, Stage
  <2> QED BY <2>1 DEF Begin, Idle
<1>2. ASSUME job' = job \/ (\E s, u : job' = [job EXCEPT ![j].stage = s, ![j].until = u])
                \/ (\E s : Go(j, s)) \/ Finish(j),
             now' = now, ~At(j, "idle")
      PROVE  Changes(j)
  <2>1. job[j] \in JobState
    OBVIOUS
  <2>2. ASSUME NEW u, NEW v, job' = [job EXCEPT ![j].stage = u, ![j].until = v]
        PROVE  job'[j].since = job[j].since /\ job'[j].node = job[j].node
    BY <2>1, <2>2 DEF JobState
  <2>3. ASSUME NEW u, Go(j, u)
        PROVE  job'[j].since = job[j].since /\ job'[j].node = job[j].node
    BY <2>1, <2>3 DEF Go, JobState
  <2>4. Finish(j) => job'[j] = Idle
    BY DEF Finish
  <2>5. job'[j] = Idle \/ (job'[j].since = job[j].since /\ job'[j].node = job[j].node)
    BY <1>2, <2>2, <2>3, <2>4
  <2>6. \A k \in Job \ {j} : job'[k] = job[k]
    BY <1>2 DEF Go, Finish
  <2> QED BY <1>2, <2>5, <2>6
<1>3. CASE IsBanned(j)
  <2>1. CASE Reload(j) \/ ReloadFails(j) \/ Store(j)
    BY <1>2, <2>1 DEF Reload, ReloadFails, Store, AfterRefresh
  <2>2. CASE LookMissing(j) \/ LookBanned(j) \/ LookExpired(j) \/ DropEntry(j)
    BY <1>2, <2>2 DEF LookMissing, LookBanned, LookExpired, DropEntry, Clear
  <2> QED BY <1>3, <2>1, <2>2 DEF IsBanned
<1>4. CASE Punish(j)
  BY <1>2, <1>4 DEF Punish, Offend, Count, HistoryFails, BanRow, BanRowFails, BanCache
<1>5. CASE Clean(j)
  BY <1>2, <1>5 DEF Clean, UnbanCache, Forget
<1> QED BY <1>1, <1>3, <1>4, <1>5

LEMMA JobStep == TypeOK /\ JobInv /\ TimeInv /\ [Next]_vars => JobInv' /\ TimeInv'
<1> SUFFICES ASSUME TypeOK, JobInv, TimeInv, [Next]_vars PROVE JobInv' /\ TimeInv'
  OBVIOUS
<1>0. /\ now \in Nat /\ now' \in Nat /\ Delay \in Nat /\ now <= now'
      /\ \A j \in Job : job[j].since \in Nat
  <2>1. now' = now \/ now' = now + 1
    BY OneJob DEF Next, Changes, Tick, vars
  <2> QED BY <2>1, Numbers, JobParts DEF TypeOK
<1>1. ASSUME NEW j \in Job, Changes(j) PROVE JobInv'
  <2> SUFFICES ASSUME NEW k \in Job PROVE JobInv!(k)'
    BY DEF JobInv
  <2>1. CASE k = j
    BY <1>0, <1>1, <2>1 DEF Changes, Begins, GoesOn, JobInv, At, Home, Idle
  <2>2. CASE k # j
    BY <1>0, <1>1, <2>2 DEF Changes, JobInv, At, Home
  <2> QED BY <2>1, <2>2
<1>2. ASSUME Tick PROVE JobInv'
  BY <1>0, <1>2 DEF Tick, JobInv, At, Home
<1>3. ASSUME UNCHANGED vars PROVE JobInv'
  BY <1>3 DEF vars, JobInv, At, Home
<1>4. TimeInv'
  <2> DEFINE Stamped == /\ unsettled' \in {unsettled, now}
                        /\ \A n \in Node : refreshed'[n] \in {refreshed[n], now}
  <2>1. ASSUME NEW j \in Job, NEW n \in Node, Operation(j, n) PROVE Stamped
    BY <2>1 DEF Operation, Gate, Fail, Succeed, AdminReset, Sweep, Ask, Lift, views
  <2>2. ASSUME NEW j \in Job, IsBanned(j) PROVE Stamped
    BY <2>2 DEF IsBanned, Reload, ReloadFails, Store, LookMissing, LookBanned, LookExpired,
           DropEntry,
                views, TypeOK
  <2>3. ASSUME NEW j \in Job, Punish(j) PROVE Stamped
    BY <2>3 DEF Punish, Offend, Count, HistoryFails, BanRow, BanRowFails, BanCache, views
  <2>4. ASSUME NEW j \in Job, Clean(j) PROVE Stamped
    BY <2>4 DEF Clean, UnbanCache, Forget, views, TypeOK
  <2>5. ASSUME Tick \/ UNCHANGED vars PROVE Stamped
    BY <2>5 DEF Tick, vars, views
  <2>6. Stamped
    BY <2>1, <2>2, <2>3, <2>4, <2>5 DEF Next
  <2> QED BY <1>0, <2>6 DEF TimeInv, TypeOK
<1> QED BY <1>1, <1>2, <1>3, <1>4, OneJob DEF Next

\* Nobody bans or lifts, and no reload fails; a sweep may have deleted a row.
Quiet == unsettled' = unsettled /\ (ban' = ban \/ (~Standing /\ ban' = 0)) /\ now' >= now

LEMMA QuietKeepsRight ==
  ASSUME TypeOK, now' \in Nat, Quiet
  PROVE  (~Standing => ~Standing') /\ \A v \in Until : Right(v) => Right(v)'
<1>1. ban \in Nat /\ now \in Nat
  BY Untils DEF TypeOK
<1> QED BY <1>1, Untils DEF Quiet, Standing, Right

\* Right after a ban, a lift or a failed reload there is nothing to know.
LEMMA AfterLoud ==
  ASSUME TypeOK', JobInv', TimeInv', unsettled' = now'
  PROVE  SeesInv' /\ ViewInv'
<1>1. /\ TTL \in Nat /\ Delay \in Nat /\ now' \in Nat
      /\ \A j \in Job : job'[j].since \in Nat /\ job'[j].since <= now'
      /\ \A n \in Node : refreshed'[n] \in Nat /\ refreshed'[n] <= now'
  BY Numbers, JobParts DEF TypeOK, JobInv, TimeInv
<1>2. SeesInv'
  BY <1>1 DEF SeesInv, SeesAt
<1>3. ViewInv'
  BY <1>1 DEF ViewInv, ViewAt
<1> QED BY <1>2, <1>3

LEMMA Naturals ==
  ASSUME TypeOK
  PROVE  /\ now \in Nat /\ unsettled \in Nat /\ ban \in Nat
         /\ \A j \in Job : job[j].since \in Nat /\ job[j].until \in Until
         /\ \A n \in Node : refreshed[n] \in Nat /\ cache[n] \in Until
BY Untils, JobParts DEF TypeOK

\* What a job sees, and a view, as long as they are left alone.
LEMMA SeesKept ==
  ASSUME TypeOK, TypeOK', JobInv, Quiet, NEW k \in Job, SeesAt(k), job'[k] = job[k],
         \A n \in Node : refreshed'[n] >= refreshed[n]
  PROVE  SeesAt(k)'
<1>1. /\ now' \in Nat /\ \A n \in Node : refreshed'[n] \in Nat
  BY DEF TypeOK
<1>2. At(k, "look") => Home(k) \in Node
  BY DEF JobInv, At
<1> QED BY <1>1, <1>2, Naturals, Numbers, QuietKeepsRight DEF SeesAt, At, Home, Quiet

LEMMA ViewKept ==
  ASSUME TypeOK, TypeOK', Quiet, NEW n \in Node, ViewAt(n),
         cache'[n] = cache[n], refreshed'[n] = refreshed[n]
  PROVE  ViewAt(n)'
<1>1. now' \in Nat
  BY DEF TypeOK
<1> QED BY <1>1, Naturals, Numbers, QuietKeepsRight DEF ViewAt, Quiet

LEMMA SeesNothing ==
  ASSUME NEW k \in Job, job'[k].stage \notin {"store", "look", "drop"}
  PROVE  SeesAt(k)'
BY DEF SeesAt, At

\* A quiet step of one job, that leaves the views alone.
LEMMA QuietJob ==
  ASSUME TypeOK, TypeOK', JobInv, SeesInv, ViewInv, Quiet, UNCHANGED views,
         NEW j \in Job, \A k \in Job \ {j} : job'[k] = job[k], SeesAt(j)'
  PROVE  SeesInv' /\ ViewInv'
<1>1. UNCHANGED <<cache, refreshed>> /\ \A n \in Node : refreshed[n] \in Nat
  BY Naturals DEF views
<1>2. \A k \in Job \ {j} : SeesAt(k)'
  BY <1>1, SeesKept DEF SeesInv
<1>3. \A n \in Node : ViewAt(n)'
  BY <1>1, ViewKept DEF ViewInv
<1> QED BY <1>2, <1>3 DEF SeesInv, ViewInv

LEMMA SeesStep ==
  ASSUME TypeOK, TypeOK', JobInv, JobInv', TimeInv, TimeInv', SeesInv, ViewInv, [Next]_vars
  PROVE  SeesInv' /\ ViewInv'
<1>0. /\ now \in Nat /\ now' \in Nat /\ TTL \in Nat /\ Delay \in Nat
      /\ unsettled \in Nat /\ unsettled <= now
      /\ \A n \in Node : refreshed[n] \in Nat /\ refreshed[n] <= now
      /\ \A k \in Job : job[k].since \in Nat /\ job[k].since <= now /\ job[k] \in JobState
  BY Naturals, Numbers DEF TypeOK, TimeInv, JobInv
<1>1. CASE unsettled' = now'
  BY <1>1, AfterLoud
<1>2. ASSUME NEW j \in Job, NEW n \in Node, NEW p \in Purpose, Ask(j, n, p)
      PROVE  SeesInv' /\ ViewInv'
  <2>1. /\ job'[j].stage \in {"reload", "look"} /\ job'[j].since = now /\ job'[j].node = n
        /\ job'[j].stage = "look" => now - refreshed[n] <= TTL
        /\ \A k \in Job \ {j} : job'[k] = job[k]
    <3>1. PICK s : s = (IF now - refreshed[n] > TTL THEN "reload" ELSE "look") /\ Begin(j, n, p, s)
      BY <1>2 DEF Ask
    <3>2. job'[j] = [Idle EXCEPT !.stage = s, !.node = n, !.for = p, !.since = now]
      BY <3>1 DEF Begin, TypeOK
    <3>3. \A k \in Job \ {j} : job'[k] = job[k]
      BY <3>1 DEF Begin, TypeOK
    <3>4. job'[j].stage = s /\ job'[j].since = now /\ job'[j].node = n
      BY <3>2 DEF Idle
    <3>5. s \in {"reload", "look"} /\ (s = "look" => now - refreshed[n] <= TTL)
      BY <1>0, <3>1
    <3> QED BY <3>3, <3>4, <3>5
  <2>2. Quiet /\ UNCHANGED views
    BY <1>2, <1>0 DEF Ask, Quiet, tables
  <2>3. SeesAt(j)'
    BY <1>0, <2>1, <2>2 DEF SeesAt, At, Home, views
  <2> QED BY <2>1, <2>2, <2>3, QuietJob
<1>3. ASSUME NEW j \in Job, NEW n \in Node, NEW p \in Purpose, Lift(j, n, p) \/ Sweep(j, n),
             unsettled' # now'
      PROVE  SeesInv' /\ ViewInv'
  <2>1. \E q \in Purpose, s \in {"unbanCache", "forget", "reload"} : Begin(j, n, q, s)
    BY <1>3 DEF Lift, Sweep, Purpose
  <2>2. /\ job'[j].stage \in {"unbanCache", "forget", "reload"}
        /\ \A k \in Job \ {j} : job'[k] = job[k]
    BY <2>1 DEF Begin, Idle, TypeOK
  <2>3. Quiet /\ UNCHANGED views
    BY <1>3, <1>0 DEF Lift, Sweep, Quiet, tables
  <2> QED BY <2>2, <2>3, SeesNothing, QuietJob
<1>4. ASSUME NEW j \in Job, Reload(j) PROVE SeesInv' /\ ViewInv'
  <2>1. /\ job'[j].stage = "store" /\ job'[j].until = (IF Standing THEN ban ELSE 0)
        /\ \A k \in Job \ {j} : job'[k] = job[k]
    BY <1>0, <1>4 DEF Reload, TypeOK, JobState
  <2>2. Quiet /\ UNCHANGED <<views, ban, now>>
    BY <1>0, <1>4 DEF Reload, Quiet, tables
  <2>3. SeesAt(j)'
    BY <1>0, <2>1, <2>2 DEF SeesAt, At, Right, Standing
  <2> QED BY <2>1, <2>2, <2>3, QuietJob
<1>5. ASSUME NEW j \in Job, Store(j) PROVE SeesInv' /\ ViewInv'
  <2>0. PICK n \in Node : n = Home(j)
    BY <1>5 DEF Store, JobInv, At
  <2>1. /\ Home(j) = n /\ now <= job[j].since + Delay /\ At(j, "store")
    BY <1>5, <2>0 DEF Store, JobInv, At
  <2>2. /\ cache'[n] = job[j].until /\ refreshed'[n] = now
        /\ \A m \in Node \ {n} : cache'[m] = cache[m] /\ refreshed'[m] = refreshed[m]
    BY <1>5, <2>1 DEF Store, TypeOK
  <2>3. Quiet /\ UNCHANGED <<ban, now, unsettled>>
    BY <1>0, <1>5 DEF Store, Quiet, tables
  <2>4. /\ \/ job'[j] = Idle
           \/ job'[j].stage = "look" /\ job'[j].node = n /\ job'[j].since = job[j].since
        /\ \A k \in Job \ {j} : job'[k] = job[k]
    <3>1. job[j].node = n /\ job[j] \in JobState
      BY <1>0, <2>1 DEF Home
    <3>2. job' = [job EXCEPT ![j] = Idle] \/ job' = [job EXCEPT ![j].stage = "look", ![j].until = 0]
      BY <1>5 DEF Store, AfterRefresh, Finish
    <3> QED BY <3>1, <3>2 DEF TypeOK, JobState
  <2>5. SeesAt(j)'
    BY <1>0, <2>1, <2>2, <2>3, <2>4 DEF SeesAt, At, Home, Idle
  <2>6. \A k \in Job \ {j} : SeesAt(k)'
    BY <1>0, <2>2, <2>3, <2>4, SeesKept DEF SeesInv
  <2>7. ViewAt(n)'
    <3>1. job[j].since > unsettled => Right(job[j].until)
      BY <2>1 DEF SeesInv, SeesAt
    <3>2. Right(job[j].until) => Right(cache[n])'
      BY <2>2, <2>3 DEF Right, Standing
    <3> QED BY <1>0, <2>1, <2>2, <2>3, <3>1, <3>2 DEF ViewAt
  <2>8. \A m \in Node \ {n} : ViewAt(m)'
    BY <2>2, <2>3, ViewKept DEF ViewInv
  <2> QED BY <2>5, <2>6, <2>7, <2>8 DEF SeesInv, ViewInv
<1>6. ASSUME NEW j \in Job, LookMissing(j) \/ LookBanned(j) PROVE SeesInv' /\ ViewInv'
  <2>1. /\ job'[j].stage \in {"idle", "banRow", "offend"}
        /\ \A k \in Job \ {j} : job'[k] = job[k]
    BY <1>0, <1>6 DEF LookMissing, LookBanned, Clear, Finish, Idle, TypeOK, JobState
  <2>2. Quiet /\ UNCHANGED views
    BY <1>0, <1>6 DEF LookMissing, LookBanned, Quiet, tables
  <2> QED BY <2>1, <2>2, SeesNothing, QuietJob
<1>7. ASSUME NEW j \in Job, LookExpired(j) PROVE SeesInv' /\ ViewInv'
  <2> DEFINE n == Home(j)
  <2>1. /\ n \in Node /\ At(j, "look") /\ cache[n] # 0 /\ now > cache[n]
    BY <1>7 DEF LookExpired, JobInv, At
  <2>2. /\ job'[j].stage = "drop" /\ job'[j].since = job[j].since
        /\ \A k \in Job \ {j} : job'[k] = job[k]
    BY <1>0, <1>7 DEF LookExpired, Go, TypeOK, JobState
  <2>3. Quiet /\ UNCHANGED <<views, ban, now, unsettled>>
    BY <1>0, <1>7 DEF LookExpired, Quiet, tables
  <2>4. job[j].since > unsettled + TTL + Delay => ~Standing
    <3> SUFFICES ASSUME job[j].since > unsettled + TTL + Delay PROVE ~Standing
      OBVIOUS
    <3>1. job[j].since <= refreshed[n] + TTL
      BY <1>0, <2>1 DEF SeesInv, SeesAt
    <3>2. Right(cache[n])
      BY <1>0, <2>1, <3>1 DEF ViewInv, ViewAt
    <3> QED BY <2>1, <3>2, Naturals DEF Right, Standing
  <2>5. SeesAt(j)'
    BY <2>2, <2>3, <2>4 DEF SeesAt, At, Standing
  <2> QED BY <2>2, <2>3, <2>5, QuietJob
<1>8. ASSUME NEW j \in Job, DropEntry(j) PROVE SeesInv' /\ ViewInv'
  <2>0. PICK n \in Node : n = Home(j)
    BY <1>8 DEF DropEntry, JobInv, At
  <2>1. /\ Home(j) = n /\ now <= job[j].since + Delay /\ At(j, "drop")
    BY <1>8, <2>0 DEF DropEntry, JobInv, At
  <2>2. /\ cache'[n] = 0 /\ \A m \in Node \ {n} : cache'[m] = cache[m]
        /\ refreshed' = refreshed
    BY <1>8, <2>1 DEF DropEntry, TypeOK
  <2>3. Quiet /\ UNCHANGED <<ban, now, unsettled>>
    BY <1>0, <1>8 DEF DropEntry, Quiet, tables
  <2>4. /\ job'[j].stage \in {"idle", "banRow", "offend"}
        /\ \A k \in Job \ {j} : job'[k] = job[k]
    BY <1>0, <1>8 DEF DropEntry, Clear, Finish, Idle, TypeOK, JobState
  <2>5. \A k \in Job \ {j} : SeesAt(k)'
    BY <1>0, <2>2, <2>3, <2>4, SeesKept DEF SeesInv
  <2>6. ViewAt(n)'
    <3>1. refreshed[n] > unsettled + TTL + 2 * Delay => ~Standing
      BY <1>0, <2>1 DEF SeesInv, SeesAt
    <3> QED BY <1>0, <2>2, <2>3, <3>1, Naturals DEF ViewAt, Right, Standing
  <2>7. \A m \in Node \ {n} : ViewAt(m)'
    BY <2>2, <2>3, ViewKept DEF ViewInv
  <2> QED BY <2>4, <2>5, <2>6, <2>7, SeesNothing DEF SeesInv, ViewInv
<1>9. ASSUME NEW j \in Job, Offend(j) \/ Count(j) \/ HistoryFails(j) \/ BanRowFails(j) \/ Forget(j)
      PROVE  SeesInv' /\ ViewInv'
  <2>1. /\ job'[j].stage \in {"idle", "count", "banRow", "banCache"}
        /\ \A k \in Job \ {j} : job'[k] = job[k]
    BY <1>0, <1>9 DEF Offend, Count, HistoryFails, BanRowFails, Forget, Go, Finish, Idle, TypeOK,
           JobState
  <2>2. Quiet /\ UNCHANGED views
    BY <1>0, <1>9 DEF Offend, Count, HistoryFails, BanRowFails, Forget, Quiet, tables
  <2> QED BY <2>1, <2>2, SeesNothing, QuietJob
<1>10. CASE Tick \/ UNCHANGED vars
  <2>1. Quiet /\ UNCHANGED <<cache, refreshed, job>>
    BY <1>0, <1>10 DEF Tick, vars, Quiet, tables, views
  <2>2. SeesInv'
    BY <1>0, <2>1, SeesKept DEF SeesInv
  <2>3. ViewInv'
    BY <2>1, ViewKept DEF ViewInv
  <2> QED BY <2>2, <2>3
<1>11. \A j \in Job :
         ReloadFails(j) \/ BanRow(j) \/ BanCache(j) \/ UnbanCache(j) => unsettled' = now'
  BY DEF ReloadFails, BanRow, BanCache, UnbanCache
<1>12. ASSUME NEW j \in Job, NEW n \in Node, Operation(j, n), unsettled' # now'
       PROVE  SeesInv' /\ ViewInv'
  BY <1>2, <1>3, <1>12 DEF Operation, Gate, Fail, Succeed, AdminReset, Purpose
<1>13. ASSUME NEW j \in Job, IsBanned(j), unsettled' # now' PROVE SeesInv' /\ ViewInv'
  BY <1>4, <1>5, <1>6, <1>7, <1>8, <1>11, <1>13 DEF IsBanned
<1>14. ASSUME NEW j \in Job, Punish(j) \/ Clean(j), unsettled' # now' PROVE SeesInv' /\ ViewInv'
  BY <1>9, <1>11, <1>14 DEF Punish, Clean
<1> QED BY <1>1, <1>10, <1>12, <1>13, <1>14 DEF Next

LEMMA BanInit == Init => BanInv
<1> SUFFICES ASSUME Init PROVE BanInv
  OBVIOUS
<1>1. TypeOK
  BY IdleIsJob, Untils, Numbers DEF Init, TypeOK
<1>2. JobInv /\ TimeInv
  BY DEF Init, JobInv, TimeInv, At, Idle
<1>3. SeesInv /\ ViewInv
  BY Numbers DEF Init, SeesInv, SeesAt, ViewInv, ViewAt, At, Idle
<1> QED BY <1>1, <1>2, <1>3 DEF BanInv

LEMMA BanInvariance == Spec => []BanInv
<1>1. BanInv /\ [Next]_vars => BanInv'
  BY BanTypeStep, JobStep, SeesStep DEF BanInv
<1> QED BY BanInit, <1>1, PTL DEF Spec

-----------------------------------------------------------------------------
\* Every step of a request, a sweep, a reload and an administrator keeps every
\* variable of the cooldown in its type.
THEOREM BanTypeCorrect == Spec => []TypeOK
<1>1. BanInv => TypeOK
  BY DEF BanInv
<1> QED BY <1>1, BanInvariance, PTL

\* While a cooldown stands only somebody who lifts it brings its end closer.
THEOREM CooldownOnlyExtendsTheorem == Spec => CooldownOnlyExtends
<1> DEFINE Kept == Standing /\ ban' < ban =>
                     \E j \in Job, n \in Node : Succeed(j, n) \/ AdminReset(j, n)
<1>1. BanInv /\ [Next]_vars => Kept
  <2> SUFFICES ASSUME BanInv, [Next]_vars, Standing, ban' < ban,
                      \A j \in Job, n \in Node : ~Succeed(j, n) /\ ~AdminReset(j, n)
               PROVE  FALSE
    OBVIOUS
  <2>0. ban \in Nat /\ \A j \in Job : job[j].until \in Nat
    BY Naturals, Untils DEF BanInv
  <2>1. ASSUME NEW j \in Job, NEW n \in Node, Operation(j, n) PROVE ban' = ban
    BY <2>1 DEF Operation, Gate, Fail, Ask, Sweep, tables
  <2>2. ASSUME NEW j \in Job, IsBanned(j) PROVE ban' = ban
    BY <2>2 DEF IsBanned, Reload, ReloadFails, Store, LookMissing, LookBanned, LookExpired,
           DropEntry,
                tables
  <2>3. ASSUME NEW j \in Job, Punish(j) PROVE ~(ban' < ban)
    BY <2>0, <2>3 DEF Punish, Offend, Count, HistoryFails, BanRow, BanRowFails, BanCache, tables
  <2>4. ASSUME NEW j \in Job, Clean(j) PROVE ban' = ban
    BY <2>4 DEF Clean, UnbanCache, Forget, tables
  <2>5. ASSUME Tick \/ UNCHANGED vars PROVE ban' = ban
    BY <2>5 DEF Tick, vars, tables
  <2>6. ~(ban' < ban)
    BY <2>0, <2>1, <2>2, <2>3, <2>4, <2>5 DEF Next
  <2> QED BY <2>0, <2>6
<1>2. BanInv /\ [Next]_vars => [Kept]_vars
  BY <1>1
<1> QED BY <1>2, BanInvariance, PTL DEF Spec, CooldownOnlyExtends

\* Once Lag has passed since the last ban, lift or failed reload, every instance
\* decides by the table.
THEOREM AnswersAreCurrentTheorem == Spec => AnswersAreCurrent
<1> DEFINE Current(j) == now - unsettled > Lag =>
             /\ LookMissing(j) \/ DropEntry(j) => ~Standing
             /\ LookBanned(j) /\ cache[Home(j)] > now => Standing
<1>1. BanInv => \A j \in Job : Current(j)
  <2> SUFFICES ASSUME BanInv, NEW j \in Job, now - unsettled > Lag PROVE Current(j)
    OBVIOUS
  <2>0. /\ now \in Nat /\ unsettled \in Nat /\ TTL \in Nat /\ Delay \in Nat /\ job[j].since \in Nat
        /\ \A n \in Node : refreshed[n] \in Nat /\ cache[n] \in Nat
    BY Naturals, Untils, Numbers DEF BanInv
  <2>1. ~At(j, "idle") => /\ Home(j) \in Node
                          /\ job[j].since > unsettled + 2 * TTL + 2 * Delay
    BY <2>0 DEF BanInv, JobInv, Lag
  <2>2. ASSUME At(j, "look") PROVE Home(j) \in Node /\ Right(cache[Home(j)])
    <3>1. Home(j) \in Node /\ job[j].since > unsettled + 2 * TTL + 2 * Delay
      BY <2>1, <2>2 DEF At
    <3>2. job[j].since <= refreshed[Home(j)] + TTL
      BY <2>0, <2>2, <3>1 DEF BanInv, SeesInv, SeesAt
    <3> QED BY <2>0, <3>1, <3>2 DEF BanInv, ViewInv, ViewAt
  <2>3. LookMissing(j) => ~Standing
    BY <2>0, <2>2 DEF LookMissing, Right, Standing
  <2>4. LookBanned(j) /\ cache[Home(j)] > now => Standing
    BY <2>0, <2>2 DEF LookBanned, Right, Standing
  <2>5. DropEntry(j) => ~Standing
    BY <2>0, <2>1 DEF DropEntry, At, BanInv, SeesInv, SeesAt
  <2> QED BY <2>3, <2>4, <2>5
<1>2. BanInv /\ [Next]_vars => [\A j \in Job : Current(j)]_vars
  BY <1>1
<1> QED BY <1>2, BanInvariance, PTL DEF Spec, AnswersAreCurrent

-----------------------------------------------------------------------------
(* EventLog. *)

\* A sweep under way belongs to an instance that prunes, its cutoff does not
\* reach past the retention, and the keys it is about to delete are of rows
\* that existed and, where they still do, were before the cutoff.
SweepAt(n) ==
  ~Log!At(n, "idle") =>
    /\ Log!Prunes(n) /\ sweep[n].cutoff <= now - window[n]
    /\ sweep[n].ids \subseteq 1 .. lastId
    /\ \A i \in sweep[n].ids \cap Log!Rows : event[i] < sweep[n].cutoff

SweepInv == \A n \in Node : SweepAt(n)

LogInv == Log!TypeOK /\ SweepInv

-----------------------------------------------------------------------------
LEMMA LogNumbers ==
  ASSUME LogAssumption
  PROVE  /\ MaxId \in Nat /\ MaxTime \in Nat /\ MaxStops \in Nat
         /\ Backlog \in Nat /\ Backlog <= MaxId
         /\ MaxBatches \in Nat \ {0} /\ Retention \subseteq Nat /\ None \notin Nat
BY DEF LogAssumption, Log!BoundAssumption, Log!BatchAssumption, Log!RetentionAssumption,
       Log!NoneAssumption

LEMMA RestingIsSweep == LogAssumption => Log!Resting \in Log!Sweep
BY LogNumbers DEF Log!Resting, Log!Sweep

LEMMA SweepParts ==
  ASSUME NEW s \in Log!Sweep
  PROVE  s.cutoff \in Int /\ s.ids \subseteq Log!Id /\ s.round \in 0 .. MaxBatches - 1
BY DEF Log!Sweep

LEMMA SweepMade ==
  /\ \A c \in Int, r \in 0 .. MaxBatches - 1 : Log!Scanning(c, r) \in Log!Sweep
  /\ \A s \in Log!Sweep, ids \in SUBSET Log!Id : Log!Deleting(s, ids) \in Log!Sweep
BY DEF Log!Sweep, Log!Scanning, Log!Deleting

LEMMA LogInit ==
  LogAssumption /\ Log!Init => LogInv
<1> SUFFICES ASSUME LogAssumption, Log!Init PROVE LogInv
  OBVIOUS
<1>1. PICK k \in 0 .. Backlog : event = [i \in 1 .. k |-> 0] /\ lastId = k
  BY DEF Log!Init
<1>2. Log!TypeOK
  BY <1>1, LogNumbers, RestingIsSweep DEF Log!Init, Log!TypeOK, Log!Rows, Log!Time
<1>3. SweepInv
  BY DEF Log!Init, SweepInv, SweepAt, Log!At, Log!Resting
<1> QED BY <1>2, <1>3 DEF LogInv

\* The keys of a scan are keys of rows.
LEMMA FirstOfPast ==
  ASSUME NEW cutoff
  PROVE  /\ Log!FirstOf(Log!Past(cutoff)) \subseteq Log!Rows
         /\ \A i \in Log!FirstOf(Log!Past(cutoff)) : event[i] < cutoff
BY DEF Log!FirstOf, Log!Past

LEMMA LogTypeStep ==
  LogAssumption /\ Log!TypeOK /\ [Log!Next]_(Log!vars) => Log!TypeOK'
<1> SUFFICES ASSUME LogAssumption, Log!TypeOK, [Log!Next]_(Log!vars) PROVE Log!TypeOK'
  OBVIOUS
<1> USE LogNumbers DEF Log!TypeOK, Log!Rows, Log!Time
<1>1. ASSUME NEW w \in Writer, Log!Stamp(w) PROVE Log!TypeOK'
  BY <1>1 DEF Log!Stamp
<1>2. ASSUME NEW w \in Writer, Log!Insert(w) PROVE Log!TypeOK'
  <2>1. adding[w] \in Log!Time
    BY <1>2 DEF Log!Insert
  <2>2. event' = [i \in DOMAIN event \cup {lastId + 1} |->
                    IF i = lastId + 1 THEN adding[w] ELSE event[i]]
    BY <1>2 DEF Log!Insert, Log!NextId
  <2>3. \A i \in DOMAIN event : event[i] \in Log!Time
    OBVIOUS
  <2>4. /\ DOMAIN event' = DOMAIN event \cup {lastId + 1}
        /\ event' \in [DOMAIN event \cup {lastId + 1} -> Log!Time]
    <3> HIDE DEF Log!Time
    <3> QED BY <2>1, <2>2, <2>3
  <2> QED BY <1>2, <2>4 DEF Log!Insert
<1>3. ASSUME NEW w \in Writer, Log!InsertFails(w) PROVE Log!TypeOK'
  BY <1>3 DEF Log!InsertFails
<1>4. ASSUME NEW n \in Node, Log!Begin(n) PROVE Log!TypeOK'
  <2>1. window[n] \in Nat /\ now - window[n] \in Int
    BY <1>4 DEF Log!Begin, Log!Prunes
  <2>2. Log!Scanning(now - window[n], 0) \in Log!Sweep
    BY <2>1, SweepMade
  <2> QED BY <1>4, <2>2 DEF Log!Begin
<1>5. ASSUME NEW n \in Node, Log!Scan(n) PROVE Log!TypeOK'
  <2> DEFINE ids == Log!FirstOf(Log!Past(sweep[n].cutoff))
  <2>1. ids \subseteq Log!Id
    BY FirstOfPast DEF Log!Id
  <2>2. sweep' \in [Node -> Log!Sweep]
    <3>1. CASE ids = {}
      BY <1>5, <3>1, RestingIsSweep DEF Log!Scan, Log!Rest
    <3>2. CASE ids # {}
      <4>1. Log!Deleting(sweep[n], ids) \in Log!Sweep
        BY <2>1, SweepMade
      <4> QED BY <1>5, <3>2, <4>1 DEF Log!Scan
    <3> QED BY <3>1, <3>2
  <2> QED BY <1>5, <2>2 DEF Log!Scan
<1>6. ASSUME NEW n \in Node, Log!Delete(n) PROVE Log!TypeOK'
  <2>1. sweep' \in [Node -> Log!Sweep]
    <3>0. \/ sweep' = [sweep EXCEPT ![n] = Log!Resting]
          \/ /\ sweep[n].round + 1 # MaxBatches
             /\ sweep' = [sweep EXCEPT ![n] = Log!Scanning(sweep[n].cutoff, sweep[n].round + 1)]
      BY <1>6 DEF Log!Delete, Log!Rest
    <3>1. CASE sweep' = [sweep EXCEPT ![n] = Log!Resting]
      BY <3>1, RestingIsSweep
    <3>2. CASE /\ sweep[n].round + 1 # MaxBatches
               /\ sweep' = [sweep EXCEPT ![n] = Log!Scanning(sweep[n].cutoff, sweep[n].round + 1)]
      <4>1. sweep[n].cutoff \in Int /\ sweep[n].round \in 0 .. MaxBatches - 1
        BY SweepParts
      <4>2. sweep[n].round + 1 \in 0 .. MaxBatches - 1
        BY <3>2, <4>1
      <4>3. Log!Scanning(sweep[n].cutoff, sweep[n].round + 1) \in Log!Sweep
        BY <4>1, <4>2, SweepMade
      <4> QED BY <3>2, <4>3
    <3> QED BY <3>0, <3>1, <3>2
  <2>2. DOMAIN event' \subseteq DOMAIN event /\ event' \in [DOMAIN event' -> Log!Time]
    BY <1>6 DEF Log!Delete, Log!Without
  <2> QED BY <1>6, <2>1, <2>2 DEF Log!Delete
<1>7. ASSUME NEW n \in Node, Log!StatementFails(n) PROVE Log!TypeOK'
  BY <1>7, RestingIsSweep DEF Log!StatementFails, Log!Rest
<1>8. ASSUME NEW n \in Node, Log!Start(n) PROVE Log!TypeOK'
  BY <1>8 DEF Log!Start
<1>9. ASSUME NEW n \in Node, Log!Stop(n) PROVE Log!TypeOK'
  BY <1>9, RestingIsSweep DEF Log!Stop, Log!Rest
<1>10. ASSUME NEW r \in Retention, Log!SaveRetention(r) PROVE Log!TypeOK'
  BY <1>10 DEF Log!SaveRetention
<1>11. CASE Log!Tick
  BY <1>11 DEF Log!Tick
<1>12. CASE UNCHANGED Log!vars
  BY <1>12 DEF Log!vars
<1> QED BY <1>1, <1>2, <1>3, <1>4, <1>5, <1>6, <1>7, <1>8, <1>9, <1>10, <1>11, <1>12
        DEF Log!Next, Log!Appending, Log!Pruning

\* A step that leaves a sweep alone, changes no row and gives out only new keys
\* leaves it right.
LEMMA SweepKept ==
  ASSUME LogAssumption, Log!TypeOK, NEW n \in Node, SweepAt(n),
         sweep'[n] = sweep[n], window'[n] = window[n],
         now' \in Int, now' >= now, lastId' \in Int, lastId' >= lastId,
         \A i \in DOMAIN event' : (i \in Log!Rows /\ event'[i] = event[i]) \/ i > lastId
  PROVE  SweepAt(n)'
<1> SUFFICES ASSUME ~Log!At(n, "idle")' PROVE SweepAt(n)'
  BY DEF SweepAt
<1>1. /\ Log!Prunes(n) /\ sweep[n].cutoff <= now - window[n] /\ sweep[n].ids \subseteq 1 .. lastId
      /\ \A i \in sweep[n].ids \cap Log!Rows : event[i] < sweep[n].cutoff
  BY DEF SweepAt, Log!At
<1>2. Log!Prunes(n)'
  BY <1>1 DEF Log!Prunes
<1>3. window[n] \in Nat /\ now \in Int /\ sweep[n].cutoff \in Int /\ lastId \in Int
  <2>1. sweep[n] \in Log!Sweep
    BY DEF Log!TypeOK
  <2>2. window[n] \in Nat
    BY <1>1, LogNumbers DEF Log!Prunes, Log!TypeOK
  <2> QED BY <2>1, <2>2, SweepParts, LogNumbers DEF Log!TypeOK, Log!Time
<1>4. sweep'[n].cutoff <= now' - window'[n] /\ sweep'[n].ids \subseteq 1 .. lastId'
  BY <1>1, <1>3
<1>5. \A i \in sweep'[n].ids \cap DOMAIN event' : event'[i] < sweep'[n].cutoff
  BY <1>1, <1>3
<1> QED BY <1>2, <1>4, <1>5 DEF SweepAt, Log!Rows

LEMMA SweepStep ==
  LogAssumption /\ Log!TypeOK /\ SweepInv /\ [Log!Next]_(Log!vars) => SweepInv'
<1> SUFFICES ASSUME LogAssumption, Log!TypeOK, SweepInv, [Log!Next]_(Log!vars), NEW n \in Node
             PROVE  SweepAt(n)'
  BY DEF SweepInv
<1>0. /\ SweepAt(n) /\ now \in Int /\ lastId \in Int
  BY LogNumbers DEF SweepInv, Log!TypeOK, Log!Time
<1>1. CASE \E w \in Writer : Log!Appending(w)
  <2>1. /\ UNCHANGED <<sweep, window, now>> /\ lastId' \in Int /\ lastId' >= lastId
        /\ \A i \in DOMAIN event' : (i \in Log!Rows /\ event'[i] = event[i]) \/ i > lastId
    BY <1>0, <1>1 DEF Log!Appending, Log!Stamp, Log!Insert, Log!InsertFails, Log!NextId, Log!Rows
  <2> QED BY <1>0, <2>1, SweepKept
<1>2. ASSUME NEW m \in Node, Log!Pruning(m) \/ Log!Start(m) \/ Log!Stop(m), m # n PROVE SweepAt(n)'
  <2>1. /\ sweep'[n] = sweep[n] /\ window'[n] = window[n] /\ UNCHANGED <<now, lastId>>
        /\ \A i \in DOMAIN event' : i \in Log!Rows /\ event'[i] = event[i]
    BY <1>2 DEF Log!Pruning, Log!Begin, Log!Scan, Log!Delete, Log!StatementFails, Log!Start,
           Log!Stop, Log!Rest, Log!Rows, Log!Without, Log!TypeOK
  <2> QED BY <1>0, <2>1, SweepKept
<1>3. CASE Log!Begin(n)
  <2>1. sweep'[n] = [stage |-> "scan", cutoff |-> now - window[n], ids |-> {}, round |-> 0]
    BY <1>3 DEF Log!Begin, Log!Scanning, Log!TypeOK
  <2>2. window[n] \in Nat /\ Log!Prunes(n) /\ UNCHANGED <<window, now>>
    BY <1>3, LogNumbers DEF Log!Begin, Log!Prunes, Log!TypeOK
  <2> QED BY <1>0, <2>1, <2>2 DEF SweepAt, Log!Prunes
<1>4. CASE Log!Scan(n)
  <2> DEFINE ids == Log!FirstOf(Log!Past(sweep[n].cutoff))
  <2>1. CASE ids = {}
    BY <1>4, <2>1 DEF Log!Scan, Log!Rest, SweepAt, Log!At, Log!Resting, Log!TypeOK
  <2>2. CASE ids # {}
    <3>1. /\ sweep'[n].cutoff = sweep[n].cutoff /\ sweep'[n].ids = ids
          /\ UNCHANGED <<event, lastId, window, now>>
      BY <1>4, <2>2 DEF Log!Scan, Log!Deleting, Log!TypeOK
    <3>2. Log!Prunes(n) /\ sweep[n].cutoff <= now - window[n]
      BY <1>0, <1>4 DEF Log!Scan, SweepAt, Log!At
    <3>3. ids \subseteq 1 .. lastId /\ \A i \in ids : event[i] < sweep[n].cutoff
      BY FirstOfPast DEF Log!TypeOK
    <3> QED BY <3>1, <3>2, <3>3 DEF SweepAt, Log!Prunes, Log!Rows
  <2> QED BY <2>1, <2>2
<1>5. CASE Log!Delete(n)
  <2>1. \/ sweep'[n] = Log!Resting
        \/ sweep'[n].cutoff = sweep[n].cutoff /\ sweep'[n].ids = {}
    BY <1>5 DEF Log!Delete, Log!Rest, Log!Scanning, Log!TypeOK
  <2>2. Log!Prunes(n) /\ sweep[n].cutoff <= now - window[n] /\ UNCHANGED <<window, now>>
    BY <1>0, <1>5 DEF Log!Delete, SweepAt, Log!At
  <2> QED BY <2>1, <2>2 DEF SweepAt, Log!At, Log!Resting, Log!Prunes
<1>6. CASE Log!StatementFails(n) \/ Log!Stop(n)
  BY <1>6 DEF Log!StatementFails, Log!Stop, Log!Rest, SweepAt, Log!At, Log!Resting, Log!TypeOK
<1>7. CASE Log!Start(n)
  <2>1. Log!At(n, "idle")
    BY <1>0, <1>7 DEF Log!Start, SweepAt, Log!Prunes
  <2> QED BY <1>7, <2>1 DEF Log!Start, SweepAt, Log!At
<1>8. CASE (\E r \in Retention : Log!SaveRetention(r)) \/ Log!Tick \/ UNCHANGED Log!vars
  <2>1. /\ UNCHANGED <<event, lastId, sweep, window>> /\ now' \in Int /\ now' >= now
    BY <1>0, <1>8 DEF Log!SaveRetention, Log!Tick, Log!vars
  <2> QED BY <1>0, <2>1, SweepKept DEF Log!Rows
<1> QED BY <1>1, <1>2, <1>3, <1>4, <1>5, <1>6, <1>7, <1>8 DEF Log!Next, Log!Pruning

LEMMA LogInvariance == ASSUME LogAssumption PROVE Log!Spec => []LogInv
<1>1. LogInv /\ [Log!Next]_(Log!vars) => LogInv'
  BY LogTypeStep, SweepStep DEF LogInv
<1> QED BY LogInit, <1>1, PTL DEF Log!Spec

-----------------------------------------------------------------------------
\* Every variable has its type.
THEOREM LogTypeCorrect == ASSUME LogAssumption PROVE Log!Spec => []Log!TypeOK
<1>1. LogInv => Log!TypeOK
  BY DEF LogInv
<1> QED BY <1>1, LogInvariance, PTL

\* A row that goes was past the retention of an instance that prunes, whatever
\* the sweeps of others and the appends did between its SELECT and its DELETE.
THEOREM OnlyOverdueGoTheorem == ASSUME LogAssumption PROVE Log!Spec => Log!OnlyOverdueGo
<1> DEFINE Rightly == \A i \in Log!Rows \ DOMAIN event' : \E n \in Node : Log!Overdue(n, i)
<1>1. LogInv /\ [Log!Next]_(Log!vars) => Rightly
  <2> SUFFICES ASSUME LogInv, [Log!Next]_(Log!vars), NEW i \in Log!Rows \ DOMAIN event'
               PROVE  \E n \in Node : Log!Overdue(n, i)
    OBVIOUS
  <2>1. PICK n \in Node : Log!Delete(n)
    BY DEF Log!Next, Log!Appending, Log!Pruning, Log!Stamp, Log!Insert, Log!InsertFails, Log!Begin,
           Log!Scan, Log!StatementFails,
           Log!Start, Log!Stop, Log!SaveRetention, Log!Tick, Log!vars, Log!Rows
  <2>2. i \in sweep[n].ids
    BY <2>1 DEF Log!Delete, Log!Without
  <2>3. /\ Log!Prunes(n) /\ sweep[n].cutoff <= now - window[n] /\ event[i] < sweep[n].cutoff
    BY <2>1, <2>2 DEF LogInv, SweepInv, SweepAt, Log!Delete, Log!At
  <2>4. window[n] \in Int /\ now \in Int /\ sweep[n].cutoff \in Int /\ event[i] \in Int
    <3>1. sweep[n] \in Log!Sweep /\ window[n] \in Retention
      BY <2>3 DEF LogInv, Log!TypeOK, Log!Prunes
    <3> QED BY <3>1, SweepParts, LogNumbers DEF LogInv, Log!TypeOK, Log!Time, Log!Rows
  <2> QED BY <2>3, <2>4 DEF Log!Overdue
<1>2. LogInv /\ [Log!Next]_(Log!vars) => [Rightly]_(Log!vars)
  BY <1>1
<1> QED BY <1>2, LogInvariance, PTL DEF Log!Spec, Log!OnlyOverdueGo

-----------------------------------------------------------------------------
(* PolicyStore. *)

\* A save carries its data from the form on, and its copy once it has read.
SaveInv ==
  \A j \in Save :
    IF Pol!At(j, "idle") THEN save[j] = Pol!Idle
    ELSE /\ save[j].node \in Node /\ phase[save[j].node] = "up"
         /\ save[j].profile \in Profile /\ save[j].policy \in Policy
         /\ Pol!At(j, "swap") => save[j].rows \in Pol!Rows

\* An instance past its seeding has a row, and a copy, of every profile.
SeedInv ==
  \A n \in Node :
    /\ phase[n] = "seed" => default[n] \in Default
    /\ phase[n] \in {"load", "up"} => \A p \in Profile : row[p] # None
    /\ phase[n] = "up" => copies[n] \in Pol!Rows

Reads(n, j)   == Pol!At(j, "read") /\ save[j].node = n
Copies(n, j)  == Pol!At(j, "swap") /\ save[j].node = n

\* What an instance holds when nothing excuses a stale copy: one copy at most
\* on its way, and the newest of copy on the way and copy in place is the
\* table, unless a save is still to read it.
FreshAt(n) ==
  phase[n] = "up" /\ ~excused[n] =>
    /\ \A j, k \in Save : Copies(n, j) /\ Copies(n, k) => j = k
    /\ (\A j \in Save : ~Reads(n, j)) =>
         /\ \A j \in Save : Copies(n, j) => save[j].rows = row
         /\ (\A j \in Save : ~Copies(n, j)) => copies[n] = row

FreshInv == \A n \in Node : FreshAt(n)

PolicyInv == Pol!TypeOK /\ SaveInv /\ SeedInv /\ Pol!EditSurvives /\ FreshInv

-----------------------------------------------------------------------------
LEMMA NoneIsNoPolicy ==
  ASSUME PolAssumption
  PROVE  None \notin Node \cup Policy /\ None \notin Pol!Rows /\ Default \subseteq Policy
BY DEF PolAssumption, Pol!DefaultAssumption, Pol!NoneAssumption, Pol!Rows

\* None is outside the tables; it stands for a copy that is not there.
LEMMA PolicyInit ==
  PolAssumption /\ Pol!Init => PolicyInv
<1> SUFFICES ASSUME PolAssumption, Pol!Init PROVE PolicyInv
  OBVIOUS
<1>1. Pol!TypeOK
  BY DEF Pol!Init, Pol!TypeOK, Pol!Rows, Pol!Saves, Pol!Stage, Pol!Idle
<1>2. SaveInv /\ SeedInv /\ Pol!EditSurvives /\ FreshInv
  BY DEF Pol!Init, SaveInv, SeedInv, Pol!EditSurvives, FreshInv, FreshAt, Pol!At, Pol!Idle
<1> QED BY <1>1, <1>2 DEF PolicyInv

LEMMA PolicyTypeStep ==
  PolAssumption /\ Pol!TypeOK /\ SaveInv /\ SeedInv /\ [Pol!Next]_(Pol!vars) => Pol!TypeOK'
<1> SUFFICES ASSUME PolAssumption, Pol!TypeOK, SaveInv, SeedInv, [Pol!Next]_(Pol!vars)
             PROVE  Pol!TypeOK'
  OBVIOUS
<1> USE NoneIsNoPolicy DEF Pol!TypeOK, Pol!Rows, Pol!Saves, Pol!Stage, Pol!Idle
<1>1. ASSUME NEW n \in Node, Pol!Start(n) PROVE Pol!TypeOK'
  BY <1>1 DEF Pol!Start
<1>2. ASSUME NEW n \in Node, Pol!Seed(n) PROVE Pol!TypeOK'
  BY <1>2 DEF Pol!Seed, SeedInv
<1>3. ASSUME NEW n \in Node, Pol!Load(n) PROVE Pol!TypeOK'
  BY <1>3 DEF Pol!Load
<1>4. ASSUME NEW n \in Node, Pol!Stop(n) PROVE Pol!TypeOK'
  BY <1>4 DEF Pol!Stop
<1>5. ASSUME NEW j \in Save, Pol!Begin(j) PROVE Pol!TypeOK'
  BY <1>5 DEF Pol!Begin
<1>6. ASSUME NEW j \in Save, Pol!Write(j) PROVE Pol!TypeOK'
  <2>1. save[j].policy \in Policy /\ save[j].profile \in Profile
    BY <1>6 DEF Pol!Write, SaveInv, Pol!At
  <2> QED BY <1>6, <2>1 DEF Pol!Write
<1>7. ASSUME NEW j \in Save, Pol!WriteFails(j) PROVE Pol!TypeOK'
  BY <1>7 DEF Pol!WriteFails
<1>8. ASSUME NEW j \in Save, Pol!Read(j) PROVE Pol!TypeOK'
  <2>0. [save[j] EXCEPT !.stage = "swap", !.rows = row] \in Pol!Saves
    <3> HIDE DEF Pol!Rows
    <3>1. save[j] \in Pol!Saves /\ row \in Pol!Rows
      OBVIOUS
    <3> QED BY <3>1
  <2>1. save' \in [Save -> Pol!Saves]
    BY <1>8, <2>0 DEF Pol!Read
  <2>2. excused' \in [Node -> BOOLEAN]
    BY <1>8 DEF Pol!Read
  <2> QED BY <1>8, <2>1, <2>2 DEF Pol!Read
<1>9. ASSUME NEW j \in Save, Pol!Swap(j) PROVE Pol!TypeOK'
  <2>1. save[j].rows \in Pol!Rows
    BY <1>9 DEF Pol!Swap, SaveInv, Pol!At
  <2> QED BY <1>9, <2>1 DEF Pol!Swap
<1>10. ASSUME NEW j \in Save, Pol!ReadFails(j) PROVE Pol!TypeOK'
  <2>1. save' \in [Save -> Pol!Saves]
    BY <1>10 DEF Pol!ReadFails
  <2>2. excused' \in [Node -> BOOLEAN]
    BY <1>10 DEF Pol!ReadFails
  <2> QED BY <1>10, <2>1, <2>2 DEF Pol!ReadFails
<1>11. CASE UNCHANGED Pol!vars
  BY <1>11 DEF Pol!vars
<1> QED BY <1>1, <1>2, <1>3, <1>4, <1>5, <1>6, <1>7, <1>8, <1>9, <1>10, <1>11
        DEF Pol!Next, Pol!Opening, Pol!Set

LEMMA SaveStep ==
  PolAssumption /\ Pol!TypeOK /\ SaveInv /\ [Pol!Next]_(Pol!vars) => SaveInv'
<1> SUFFICES ASSUME PolAssumption, Pol!TypeOK, SaveInv, [Pol!Next]_(Pol!vars) PROVE SaveInv'
  OBVIOUS
<1> USE DEF SaveInv, Pol!At, Pol!Idle
<1>1. ASSUME NEW n \in Node, Pol!Opening(n) PROVE SaveInv'
  BY <1>1 DEF Pol!Opening, Pol!Start, Pol!Seed, Pol!Load, Pol!TypeOK
<1>2. ASSUME NEW n \in Node, Pol!Stop(n) PROVE SaveInv'
  BY <1>2 DEF Pol!Stop, Pol!TypeOK
<1>3. ASSUME NEW j \in Save, Pol!Begin(j) PROVE SaveInv'
  BY <1>3 DEF Pol!Begin, Pol!TypeOK, Pol!Saves, Pol!Stage
<1>4. ASSUME NEW j \in Save, Pol!Write(j) PROVE SaveInv'
  BY <1>4 DEF Pol!Write, Pol!TypeOK, Pol!Saves, Pol!Stage
<1>5. ASSUME NEW j \in Save, Pol!WriteFails(j) \/ Pol!ReadFails(j) \/ Pol!Swap(j) PROVE SaveInv'
  BY <1>5 DEF Pol!WriteFails, Pol!ReadFails, Pol!Swap, Pol!TypeOK, Pol!Saves, Pol!Stage
<1>6. ASSUME NEW j \in Save, Pol!Read(j) PROVE SaveInv'
  BY <1>6 DEF Pol!Read, Pol!TypeOK, Pol!Saves, Pol!Stage
<1>7. CASE UNCHANGED Pol!vars
  BY <1>7 DEF Pol!vars
<1> QED BY <1>1, <1>2, <1>3, <1>4, <1>5, <1>6, <1>7 DEF Pol!Next, Pol!Set

LEMMA SeedStep ==
  PolAssumption /\ Pol!TypeOK /\ SaveInv /\ SeedInv /\ [Pol!Next]_(Pol!vars) => SeedInv'
<1> SUFFICES ASSUME PolAssumption, Pol!TypeOK, SaveInv, SeedInv, [Pol!Next]_(Pol!vars)
             PROVE  SeedInv'
  OBVIOUS
<1> USE NoneIsNoPolicy DEF SeedInv, Pol!TypeOK, Pol!At
<1>1. ASSUME NEW n \in Node, Pol!Start(n) PROVE SeedInv'
  BY <1>1 DEF Pol!Start
<1>2. ASSUME NEW n \in Node, Pol!Seed(n) PROVE SeedInv'
  BY <1>2 DEF Pol!Seed, Pol!Rows
<1>3. ASSUME NEW n \in Node, Pol!Load(n) \/ Pol!Stop(n) PROVE SeedInv'
  BY <1>3 DEF Pol!Load, Pol!Stop
<1>4. ASSUME NEW j \in Save, Pol!Write(j) PROVE SeedInv'
  BY <1>4 DEF Pol!Write, SaveInv, Pol!Rows
<1>5. ASSUME NEW j \in Save, Pol!Begin(j) \/ Pol!WriteFails(j) \/ Pol!Read(j) \/ Pol!ReadFails(j)
      PROVE  SeedInv'
  BY <1>5 DEF Pol!Begin, Pol!WriteFails, Pol!Read, Pol!ReadFails
<1>6. ASSUME NEW j \in Save, Pol!Swap(j) PROVE SeedInv'
  BY <1>6 DEF Pol!Swap, SaveInv
<1>7. CASE UNCHANGED Pol!vars
  BY <1>7 DEF Pol!vars
<1> QED BY <1>1, <1>2, <1>3, <1>4, <1>5, <1>6, <1>7 DEF Pol!Next, Pol!Opening, Pol!Set

LEMMA EditStep ==
  PolAssumption /\ Pol!TypeOK /\ SaveInv /\ Pol!EditSurvives /\ [Pol!Next]_(Pol!vars)
    => Pol!EditSurvives'
<1> SUFFICES ASSUME PolAssumption, Pol!TypeOK, SaveInv, Pol!EditSurvives, [Pol!Next]_(Pol!vars)
             PROVE  Pol!EditSurvives'
  OBVIOUS
<1> USE DEF Pol!EditSurvives, Pol!TypeOK, Pol!Rows
<1>1. ASSUME NEW n \in Node, Pol!Seed(n) PROVE Pol!EditSurvives'
  BY <1>1 DEF Pol!Seed
<1>2. ASSUME NEW j \in Save, Pol!Write(j) PROVE Pol!EditSurvives'
  BY <1>2 DEF Pol!Write
<1>3. CASE UNCHANGED <<row, edited>>
  BY <1>3
<1> QED BY <1>1, <1>2, <1>3
        DEF Pol!Next, Pol!Opening, Pol!Set, Pol!Start, Pol!Load, Pol!Stop, Pol!Begin,
               Pol!WriteFails, Pol!Read, Pol!ReadFails, Pol!Swap, Pol!vars

LEMMA FreshStep ==
  PolAssumption /\ Pol!TypeOK /\ SaveInv /\ FreshInv /\ [Pol!Next]_(Pol!vars) => FreshInv'
<1> SUFFICES ASSUME PolAssumption, Pol!TypeOK, SaveInv, FreshInv, [Pol!Next]_(Pol!vars)
             PROVE  FreshInv'
  OBVIOUS
<1> USE DEF Pol!TypeOK, Reads, Copies, Pol!At
<1>1. ASSUME NEW n \in Node, Pol!Start(n) PROVE FreshInv'
  BY <1>1 DEF Pol!Start, FreshInv, FreshAt
<1>2. ASSUME NEW n \in Node, Pol!Seed(n) PROVE FreshInv'
  BY <1>2 DEF Pol!Seed, FreshInv, FreshAt
<1>3. ASSUME NEW n \in Node, Pol!Load(n) PROVE FreshInv'
  <2>1. \A j \in Save : save[j].node = n => Pol!At(j, "idle")
    BY <1>3 DEF Pol!Load, SaveInv
  <2> QED BY <1>3, <2>1 DEF Pol!Load, FreshInv, FreshAt
<1>4. ASSUME NEW n \in Node, Pol!Stop(n) PROVE FreshInv'
  BY <1>4 DEF Pol!Stop, FreshInv, FreshAt, Pol!Idle
<1>5. ASSUME NEW j \in Save, Pol!Begin(j) \/ Pol!WriteFails(j) PROVE FreshInv'
  <2>1. /\ UNCHANGED <<row, phase, copies, excused>>
        /\ \A k \in Save \ {j} : save'[k] = save[k]
        /\ save[j].stage \in {"idle", "write"} /\ save'[j].stage \in {"idle", "write"}
    BY <1>5 DEF Pol!Begin, Pol!WriteFails, Pol!Idle, Pol!Saves
  <2>2. \A n \in Node, k \in Save :
          /\ Reads(n, k)' <=> Reads(n, k)
          /\ Copies(n, k)' <=> Copies(n, k)
          /\ Copies(n, k) => save'[k].rows = save[k].rows
    BY <2>1
  <2> QED BY <2>1, <2>2 DEF FreshInv, FreshAt
<1>6. ASSUME NEW j \in Save, Pol!Write(j) PROVE FreshInv'
  <2>0. PICK m \in Node : m = save[j].node
    BY <1>6 DEF Pol!Write, SaveInv
  <2>1. /\ \A k \in Save \ {j} : save'[k] = save[k]
        /\ save'[j].stage = "read" /\ save'[j].node = m
    BY <1>6, <2>0 DEF Pol!Write, Pol!Saves, SaveInv
  <2>2. \A n \in Node \ {m} : excused'[n]
    BY <1>6, <2>0 DEF Pol!Write
  <2>3. excused'[m] = excused[m] /\ phase' = phase
    BY <1>6, <2>0 DEF Pol!Write
  <2>4. \A k \in Save : Copies(m, k)' => Copies(m, k)
    BY <2>1
  <2>5. Reads(m, j)'
    BY <2>1
  <2>6. ASSUME NEW n \in Node \ {m} PROVE FreshAt(n)'
    BY <2>2 DEF FreshAt
  <2>7. FreshAt(m)'
    BY <2>1, <2>3, <2>4, <2>5 DEF FreshInv, FreshAt
  <2> QED BY <2>6, <2>7 DEF FreshInv
<1>7. ASSUME NEW j \in Save, Pol!Read(j) PROVE FreshInv'
  <2> DEFINE m == save[j].node
  <2>1. /\ \A k \in Save \ {j} : save'[k] = save[k]
        /\ save'[j].stage = "swap" /\ save'[j].node = m /\ save'[j].rows = row
        /\ m \in Node /\ UNCHANGED <<row, phase, copies>>
    BY <1>7 DEF Pol!Read, Pol!Saves, SaveInv
  <2>2. \A n \in Node \ {m} : excused'[n] = excused[n]
    BY <1>7 DEF Pol!Read
  <2>3. ASSUME NEW n \in Node \ {m}, NEW k \in Save
        PROVE  /\ Reads(n, k)' <=> Reads(n, k)
               /\ Copies(n, k)' <=> Copies(n, k)
               /\ Copies(n, k) => save'[k].rows = save[k].rows
    BY <2>1
  <2>4. ~excused'[m] => \A k \in Save \ {j} : ~Copies(m, k)
    BY <1>7, <2>1 DEF Pol!Read, Pol!Holding
  <2>5. ~excused'[m] => \A k \in Save \ {j} : ~Copies(m, k)'
    BY <2>1, <2>4
  <2>6. Copies(m, j)' /\ (save[j].rows)' = row'
    BY <2>1
  <2> QED BY <2>1, <2>2, <2>3, <2>5, <2>6 DEF FreshInv, FreshAt
<1>8. ASSUME NEW j \in Save, Pol!ReadFails(j) PROVE FreshInv'
  BY <1>8 DEF Pol!ReadFails, FreshInv, FreshAt, Pol!Idle, Pol!Saves
<1>9. ASSUME NEW j \in Save, Pol!Swap(j) PROVE FreshInv'
  BY <1>9 DEF Pol!Swap, FreshInv, FreshAt, Pol!Idle, Pol!Saves
<1>10. CASE UNCHANGED Pol!vars
  BY <1>10 DEF Pol!vars, FreshInv, FreshAt
<1> QED BY <1>1, <1>2, <1>3, <1>4, <1>5, <1>6, <1>7, <1>8, <1>9, <1>10
        DEF Pol!Next, Pol!Opening, Pol!Set

LEMMA PolicyInvariance == ASSUME PolAssumption PROVE Pol!Spec => []PolicyInv
<1>1. PolicyInv /\ [Pol!Next]_(Pol!vars) => PolicyInv'
  BY PolicyTypeStep, SaveStep, SeedStep, EditStep, FreshStep DEF PolicyInv
<1> QED BY PolicyInit, <1>1, PTL DEF Pol!Spec

-----------------------------------------------------------------------------
\* Every variable has its type.
THEOREM PolicyTypeCorrect == ASSUME PolAssumption PROVE Pol!Spec => []Pol!TypeOK
<1>1. PolicyInv => Pol!TypeOK
  BY DEF PolicyInv
<1> QED BY <1>1, PolicyInvariance, PTL

\* No start of an instance, whatever its defaults, undoes what an administrator
\* has saved.
THEOREM EditSurvivesTheorem == ASSUME PolAssumption PROVE Pol!Spec => []Pol!EditSurvives
<1>1. PolicyInv => Pol!EditSurvives
  BY DEF PolicyInv
<1> QED BY <1>1, PolicyInvariance, PTL

\* The copy of an instance at rest is the table, but for the writes of others,
\* a failed reload and two reloads in one.
THEOREM QuietIsFreshTheorem == ASSUME PolAssumption PROVE Pol!Spec => []Pol!QuietIsFresh
<1>1. PolicyInv => Pol!QuietIsFresh
  <2> SUFFICES ASSUME PolicyInv, NEW n \in Node, phase[n] = "up", Pol!Quiet(n), ~excused[n],
                      NEW p \in Profile
               PROVE  Pol!Serves(n, p) = row[p] /\ row[p] # None
    BY DEF Pol!QuietIsFresh
  <2>1. \A j \in Save : ~Reads(n, j) /\ ~Copies(n, j)
    BY DEF Pol!Quiet, Reads, Copies, Pol!At
  <2>2. copies[n] = row /\ row[p] # None /\ copies[n] \in Pol!Rows
    BY <2>1 DEF PolicyInv, FreshInv, FreshAt, SeedInv
  <2> QED BY <2>2, NoneIsNoPolicy DEF Pol!Serves
<1> QED BY <1>1, PolicyInvariance, PTL
=============================================================================
