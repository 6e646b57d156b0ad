------------------------------- MODULE IpBan -------------------------------
(***************************************************************************)
(* IP cooldowns shared by every instance (store_ipban.go), the failure     *)
(* accounting that issues them (App.recordIPFailure), the escalation       *)
(* history (banHistory in store_policy.go) and the paths that lift them.   *)
(*                                                                         *)
(* The table ip_ban is the shared decision; each instance answers isBanned *)
(* from a write-through cache it reloads when older than banCacheTTL.  A   *)
(* job is a goroutine of one instance running one operation; a database    *)
(* statement and a critical section of the cache mutex are one step each,  *)
(* and jobs interleave between them.  The module follows one address:      *)
(* every statement is keyed by the address or treats all of them alike.    *)
(***************************************************************************)
EXTENDS Naturals

CONSTANTS
  Node,        \* portal instances
  Job,         \* goroutines at work at the same time
  Nowhere,     \* the instance of a job that is idle
  EscalateAt,  \* IPBanEscalateAt, 0 disables escalation
  BanTime,     \* IPBanDuration
  TTL,         \* banCacheTTL
  Delay,       \* bound on the time one operation takes
  MaxTime      \* bound on the clock

ASSUME NowhereAssumption == Nowhere \notin Node
ASSUME NumberAssumption ==
  /\ EscalateAt \in Nat /\ BanTime \in Nat \ {0}
  /\ TTL \in Nat /\ Delay \in Nat /\ MaxTime \in Nat

VARIABLES
  ban,        \* until of the ip_ban row, 0 if there is none
  offences,   \* count of the ban_history row, 0 if none, up to EscalateAt
  cache,      \* cache[n]: until in the cache of n, 0 if absent
  refreshed,  \* refreshed[n]: when n last reloaded its cache
  job,        \* job[j]: what goroutine j is doing
  now,        \* wall clock
  unsettled   \* history: when a ban or a lift last acted, or a reload failed

tables  == <<ban, offences>>
views   == <<cache, refreshed>>
vars    == <<ban, offences, cache, refreshed, job, now, unsettled>>

Permanent == MaxTime + BanTime + 1       \* PermanentBanUntil
Until     == 0 .. Permanent
Purpose   == {"gate", "failure", "success", "reset", "clear", "sweep"}
Stage     == {"idle", "reload", "store", "look", "drop", "offend", "count",
              "banRow", "banCache", "unbanCache", "forget"}

\* node, for: where the job runs and what it does.  since: when it began.
\* until: the expiry it read or is about to write.
JobState == [stage : Stage, node : Node \cup {Nowhere}, for : Purpose,
             since : 0 .. MaxTime, until : Until]
Idle     == [stage |-> "idle", node |-> Nowhere, for |-> "gate",
             since |-> 0, until |-> 0]

Home(j)      == job[j].node
At(j, stage) == job[j].stage = stage
Go(j, stage) == job' = [job EXCEPT ![j].stage = stage]
Finish(j)    == job' = [job EXCEPT ![j] = Idle]
Standing     == ban > now
UpTo(n, max) == IF n < max THEN n ELSE max

-----------------------------------------------------------------------------
(* The operations, each begun by a request, an administrator or a ticker.  *)

Begin(j, n, purpose, stage) ==
  /\ At(j, "idle")
  /\ job' = [job EXCEPT ![j] = [Idle EXCEPT !.stage = stage, !.node = n,
                                            !.for = purpose, !.since = now]]

\* isBanned, to begin with: refreshIfStale.
Ask(j, n, purpose) ==
  /\ Begin(j, n, purpose, IF now - refreshed[n] > TTL THEN "reload" ELSE "look")
  /\ UNCHANGED <<tables, views, now, unsettled>>

\* bannedIPForRequest: a handler asks whether to serve the address.
Gate(j, n) == Ask(j, n, "gate")

\* recordIPFailure, past the early return: one more failure finds the counter
\* of this instance at IPFailsLimit, which can happen at any time.
Fail(j, n) == Ask(j, n, "failure")

\* unban and unbanAll, to begin with: the DELETE.  If it fails unban clears
\* its cache anyway, and unbanAll returns at once.
Lift(j, n, purpose) ==
  \/ /\ Begin(j, n, purpose, "unbanCache")
     /\ ban' = 0
     /\ unsettled' = now
     /\ UNCHANGED <<offences, views, now>>
  \/ /\ Begin(j, n, purpose, IF purpose = "clear" THEN "forget" ELSE "unbanCache")
     /\ UNCHANGED <<tables, views, now, unsettled>>

\* clearSuccessfulAuthState: after the counters, lift the cooldown.
Succeed(j, n) == Lift(j, n, "success")

\* handleRateLimitReset with type ip_ban, and handleRateLimitResetAll.
AdminReset(j, n) == Lift(j, n, "reset") \/ Lift(j, n, "clear")

\* gcLoop: delete the row if it has expired (or fail to), reload either way.
Sweep(j, n) ==
  /\ Begin(j, n, "sweep", "reload")
  /\ ban' \in {ban, IF Standing THEN ban ELSE 0}
  /\ UNCHANGED <<offences, views, now, unsettled>>

-----------------------------------------------------------------------------
(* isBanned: refresh, then the cache.                                      *)

\* refresh, first half: SELECT the rows with until > now.
Reload(j) ==
  /\ At(j, "reload")
  /\ job' = [job EXCEPT ![j].stage = "store", ![j].until = IF Standing THEN ban ELSE 0]
  /\ UNCHANGED <<tables, views, now, unsettled>>

AfterRefresh(j) ==
  IF job[j].for = "sweep" THEN Finish(j)
  ELSE job' = [job EXCEPT ![j].stage = "look", ![j].until = 0]

\* refresh, on an error: the previous view is kept, and stays stale.
ReloadFails(j) ==
  /\ At(j, "reload")
  /\ AfterRefresh(j)
  /\ unsettled' = now
  /\ UNCHANGED <<tables, views, now>>

\* Mutation: what was read is merged into the old view.
StoreMerges(j) ==
  /\ At(j, "store")
  /\ cache'     = [cache EXCEPT ![Home(j)] = IF job[j].until = 0 THEN @ ELSE job[j].until]
  /\ refreshed' = [refreshed EXCEPT ![Home(j)] = now]
  /\ AfterRefresh(j)
  /\ UNCHANGED <<tables, now, unsettled>>

\* refresh, second half: the cache becomes what was read.
Store(j) ==
  /\ At(j, "store")
  /\ cache'     = [cache EXCEPT ![Home(j)] = job[j].until]
  /\ refreshed' = [refreshed EXCEPT ![Home(j)] = now]
  /\ AfterRefresh(j)
  /\ UNCHANGED <<tables, now, unsettled>>

\* isBanned is false: the request is served, or the failure is an offence.
\* With escalation disabled the history is bypassed.
Clear(j) ==
  IF job[j].for = "gate" THEN Finish(j)
  ELSE job' = [job EXCEPT ![j].stage = IF EscalateAt = 0 THEN "banRow" ELSE "offend",
                          ![j].until = IF EscalateAt = 0 THEN now + BanTime ELSE 0]

LookMissing(j) ==
  /\ At(j, "look") /\ cache[Home(j)] = 0
  /\ Clear(j)
  /\ UNCHANGED <<tables, views, now, unsettled>>

\* isBanned is true: the request is refused, the failure not counted again.
LookBanned(j) ==
  /\ At(j, "look") /\ cache[Home(j)] # 0 /\ now <= cache[Home(j)]
  /\ Finish(j)
  /\ UNCHANGED <<tables, views, now, unsettled>>

\* The entry has expired; it is dropped in a second critical section.
LookExpired(j) ==
  /\ At(j, "look") /\ cache[Home(j)] # 0 /\ now > cache[Home(j)]
  /\ Go(j, "drop")
  /\ UNCHANGED <<tables, views, now, unsettled>>

DropEntry(j) ==
  /\ At(j, "drop")
  /\ cache' = [cache EXCEPT ![Home(j)] = 0]
  /\ Clear(j)
  /\ UNCHANGED <<tables, refreshed, now, unsettled>>

-----------------------------------------------------------------------------
(* The rest of recordIPFailure: escalation, then the ban.                  *)

\* banHistory.increment, the atomic upsert.
Offend(j) ==
  /\ At(j, "offend")
  /\ offences' = UpTo(offences + 1, EscalateAt)
  /\ Go(j, "count")
  /\ UNCHANGED <<ban, views, now, unsettled>>

\* Mutation: the permanent instant taken for a duration from now.
CountDuration(j) ==
  /\ At(j, "count")
  /\ job' = [job EXCEPT ![j].stage = "banRow",
                        ![j].until = now + (IF offences >= EscalateAt THEN Permanent ELSE BanTime)]
  /\ UNCHANGED <<tables, views, now, unsettled>>

\* increment reads the total back in a second statement.
Count(j) ==
  /\ At(j, "count")
  /\ job' = [job EXCEPT ![j].stage = "banRow",
                        ![j].until = IF offences >= EscalateAt THEN Permanent ELSE now + BanTime]
  /\ UNCHANGED <<tables, views, now, unsettled>>

\* Either statement fails: the count is 0 and the cooldown a short one.
HistoryFails(j) ==
  /\ At(j, "offend") \/ At(j, "count")
  /\ job' = [job EXCEPT ![j].stage = "banRow", ![j].until = now + BanTime]
  /\ UNCHANGED <<tables, views, now, unsettled>>

\* Mutation: the upsert assigns the new expiry whatever the row holds.
BanRowOverwrites(j) ==
  /\ At(j, "banRow")
  /\ ban' = job[j].until
  /\ unsettled' = now
  /\ Go(j, "banCache")
  /\ UNCHANGED <<offences, views, now>>

\* ban, the upsert: an existing expiry only moves forward.
BanRow(j) ==
  /\ At(j, "banRow")
  /\ ban' = IF ban > job[j].until THEN ban ELSE job[j].until
  /\ unsettled' = now
  /\ Go(j, "banCache")
  /\ UNCHANGED <<offences, views, now>>

\* The upsert fails: this instance enforces what it decided all the same.
BanRowFails(j) ==
  /\ At(j, "banRow")
  /\ Go(j, "banCache")
  /\ UNCHANGED <<tables, views, now, unsettled>>

BanCache(j) ==
  /\ At(j, "banCache")
  /\ cache' = [cache EXCEPT ![Home(j)] = IF job[j].until > @ THEN job[j].until ELSE @]
  /\ unsettled' = now
  /\ Finish(j)
  /\ UNCHANGED <<tables, refreshed, now>>

-----------------------------------------------------------------------------
(* The rest of unban, and the counters an administrator clears after it.   *)

\* unbanAll also marks its emptied cache as fresh.
UnbanCache(j) ==
  /\ At(j, "unbanCache")
  /\ cache' = [cache EXCEPT ![Home(j)] = 0]
  /\ unsettled' = now
  /\ \/ job[j].for = "success" /\ Finish(j) /\ UNCHANGED refreshed
     \/ job[j].for = "reset" /\ Go(j, "forget") /\ UNCHANGED refreshed
     \/ job[j].for = "clear" /\ Go(j, "forget") /\ refreshed' = [refreshed EXCEPT ![Home(j)] = now]
  /\ UNCHANGED <<tables, now>>

\* banHistory.reset and resetAll, which may fail.
Forget(j) ==
  /\ At(j, "forget")
  /\ offences' \in {0, offences}
  /\ Finish(j)
  /\ UNCHANGED <<ban, views, now, unsettled>>

-----------------------------------------------------------------------------
Tick ==
  /\ now < MaxTime
  /\ \A j \in Job : At(j, "idle") \/ now < job[j].since + Delay
  /\ now' = now + 1
  /\ UNCHANGED <<tables, views, job, unsettled>>

Init ==
  /\ ban = 0 /\ offences = 0
  /\ cache = [n \in Node |-> 0] /\ refreshed = [n \in Node |-> 0]
  /\ job = [j \in Job |-> Idle]
  /\ now = 0 /\ unsettled = 0

Operation(j, n) == Gate(j, n) \/ Fail(j, n) \/ Succeed(j, n) \/ AdminReset(j, n) \/ Sweep(j, n)

IsBanned(j) ==
  \/ Reload(j) \/ ReloadFails(j) \/ Store(j)
  \/ LookMissing(j) \/ LookBanned(j) \/ LookExpired(j) \/ DropEntry(j)

Punish(j) == Offend(j) \/ Count(j) \/ HistoryFails(j) \/ BanRow(j) \/ BanRowFails(j) \/ BanCache(j)
Clean(j)  == UnbanCache(j) \/ Forget(j)

Next ==
  \/ \E j \in Job : (\E n \in Node : Operation(j, n)) \/ IsBanned(j) \/ Punish(j) \/ Clean(j)
  \/ Tick

Spec == Init /\ [][Next]_vars

-----------------------------------------------------------------------------
(* Correctness.                                                            *)

TypeOK ==
  /\ ban \in Until /\ offences \in 0 .. EscalateAt
  /\ cache \in [Node -> Until] /\ refreshed \in [Node -> 0 .. MaxTime]
  /\ job \in [Job -> JobState]
  /\ now \in 0 .. MaxTime /\ unsettled \in 0 .. MaxTime

\* ban "only ever [moves] the expiry forward": while a cooldown stands its
\* expiry is never brought closer, whichever instances and goroutines write,
\* unless somebody lifts it.  In particular a short cooldown computed before
\* a concurrent escalation never replaces the permanent one.
CooldownOnlyExtends ==
  [][Standing /\ ban' < ban =>
       \E j \in Job, n \in Node : Succeed(j, n) \/ AdminReset(j, n)]_vars

\* How long an instance may go on not knowing a decision: one TTL for the
\* view, another when a goroutine drops the entry a reload has just renewed
\* (expiryOf deletes without looking again), and the operations themselves.
Lag == 2 * TTL + 3 * Delay

\* Serving a request whose address is in cooldown, or refusing one whose
\* address is not, happens only within Lag of the last ban, lift or failed
\* reload (store_ipban.go: the view is at most banCacheTTL old).  At the very
\* instant a cooldown ends it may still refuse: expiryOf has it end after that
\* instant, and the statements that select and delete rows at it.
AnswersAreCurrent ==
  [][\A j \in Job :
       now - unsettled > Lag =>
         /\ LookMissing(j) \/ DropEntry(j) => ~Standing
         /\ LookBanned(j) /\ cache[Home(j)] > now => Standing]_vars
=============================================================================
