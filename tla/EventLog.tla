------------------------------ MODULE EventLog ------------------------------
(***************************************************************************)
(* The event log (store_eventlog.go): instances that share one table, the  *)
(* handlers that append to it and the goroutine of every instance that     *)
(* prunes it, beside an operator who saves another retention.              *)
(*                                                                         *)
(* An append takes its time first and is one INSERT later.  A sweep is a   *)
(* cutoff and then batches, each a SELECT of keys and a DELETE by key, so  *)
(* the sweeps of two instances overlap, and so do appends and sweeps.      *)
(* Retention and clock count in the same unit, and the ticker of a sweep   *)
(* is finer: a sweep may begin whenever none is under way.                 *)
(***************************************************************************)
EXTENDS Integers, FiniteSets, SequencesExt

CONSTANTS
  Node,        \* instances
  Writer,      \* handlers in logLogin or logAdminAction at the same time
  Retention,   \* eventlog.retention_days an operator enters; 0 keeps all
  Backlog,     \* bound on the rows an import has left, all of time 0
  Batch,       \* pruneBatch
  MaxBatches,  \* pruneMaxBatches
  MaxId,       \* bound on the rows ever inserted
  MaxTime,     \* bound on the clock
  MaxStops,    \* bound on the crashes
  None         \* an instance that is down, a handler without an event

ASSUME BoundAssumption ==
  /\ Backlog \in Nat /\ MaxId \in Nat /\ Backlog <= MaxId
  /\ MaxTime \in Nat /\ MaxStops \in Nat
ASSUME BatchAssumption == Batch \in Nat \ {0} /\ MaxBatches \in Nat \ {0}
ASSUME RetentionAssumption == Retention \subseteq Nat /\ Retention # {}
ASSUME NoneAssumption == None \notin Nat

VARIABLES
  event,    \* event[i]: the time of the row with key i
  lastId,   \* the autoincrement counter of the table
  adding,   \* adding[w]: the time of the event handler w is about to insert
  stored,   \* the retention in the settings table
  window,   \* window[n]: the retention instance n was started with
  sweep,    \* sweep[n]: how far Prune is
  now,      \* wall clock
  stops     \* crashes so far

vars == <<event, lastId, adding, stored, window, sweep, now, stops>>

Id    == 1 .. MaxId
Time  == 0 .. MaxTime
Sweep == [stage : {"idle", "scan", "delete"}, cutoff : Int, ids : SUBSET Id,
          round : 0 .. MaxBatches - 1]
Resting == [stage |-> "idle", cutoff |-> 0, ids |-> {}, round |-> 0]
Scanning(cutoff, round) == [stage |-> "scan", cutoff |-> cutoff, ids |-> {}, round |-> round]
Deleting(s, ids) == [stage |-> "delete", cutoff |-> s.cutoff, ids |-> ids, round |-> s.round]

Rows      == DOMAIN event
At(n, s)  == sweep[n].stage = s
Rest(n)   == sweep' = [sweep EXCEPT ![n] = Resting]
Without(ids) == [i \in Rows \ ids |-> event[i]]

\* newEventLog was given a retention, so that gcLoop did not return at once.
Prunes(n) == window[n] \notin {None, 0}

-----------------------------------------------------------------------------
(* Append.                                                                 *)

\* logLogin, logAdminAction: the event carries no time and gets this one.
Stamp(w) ==
  /\ adding[w] = None
  /\ adding' = [adding EXCEPT ![w] = now]
  /\ UNCHANGED <<event, lastId, stored, window, sweep, now, stops>>

\* Mutation: without AUTOINCREMENT SQLite takes the largest key in use and one.
NextIdReused == IF Rows = {} THEN 1 ELSE Max(Rows) + 1

\* Event.ID, autoIncrement: a key that no row has had before.
NextId == lastId + 1

Insert(w) ==
  /\ adding[w] # None /\ lastId < MaxId
  /\ event'  = [i \in Rows \cup {NextId} |-> IF i = NextId THEN adding[w] ELSE event[i]]
  /\ lastId' = lastId + 1
  /\ adding' = [adding EXCEPT ![w] = None]
  /\ UNCHANGED <<stored, window, sweep, now, stops>>

\* The error is logged and the request goes on.
InsertFails(w) ==
  /\ adding[w] # None
  /\ adding' = [adding EXCEPT ![w] = None]
  /\ UNCHANGED <<event, lastId, stored, window, sweep, now, stops>>

-----------------------------------------------------------------------------
(* Prune.                                                                  *)

\* Mutation: the cutoff is taken once, before the loop, at time 0.
BeginOldCutoff(n) ==
  /\ Prunes(n) /\ At(n, "idle")
  /\ sweep' = [sweep EXCEPT ![n] = Scanning(0 - window[n], 0)]
  /\ UNCHANGED <<event, lastId, adding, stored, window, now, stops>>

\* At the start of gcLoop and at every tick.
Begin(n) ==
  /\ Prunes(n) /\ At(n, "idle")
  /\ sweep' = [sweep EXCEPT ![n] = Scanning(now - window[n], 0)]
  /\ UNCHANGED <<event, lastId, adding, stored, window, now, stops>>

Past(cutoff) == {i \in Rows : event[i] < cutoff}

\* ORDER BY id LIMIT pruneBatch.
FirstOf(ids) == {i \in ids : Cardinality({j \in ids : j < i}) < Batch}

Scan(n) ==
  /\ At(n, "scan")
  /\ LET ids == FirstOf(Past(sweep[n].cutoff))
     IN  IF ids = {} THEN Rest(n)
         ELSE sweep' = [sweep EXCEPT ![n] = Deleting(sweep[n], ids)]
  /\ UNCHANGED <<event, lastId, adding, stored, window, now, stops>>

\* A batch that is not full was the last one, and so is the MaxBatches-th.
Delete(n) ==
  /\ At(n, "delete")
  /\ event' = Without(sweep[n].ids)
  /\ IF Cardinality(sweep[n].ids) < Batch \/ sweep[n].round + 1 = MaxBatches THEN Rest(n)
     ELSE sweep' = [sweep EXCEPT ![n] = Scanning(sweep[n].cutoff, sweep[n].round + 1)]
  /\ UNCHANGED <<lastId, adding, stored, window, now, stops>>

\* Prune returns; the ticker starts another sweep.
StatementFails(n) ==
  /\ At(n, "scan") \/ At(n, "delete")
  /\ Rest(n)
  /\ UNCHANGED <<event, lastId, adding, stored, window, now, stops>>

-----------------------------------------------------------------------------
(* Instances, the operator and the clock.                                  *)

\* main: the retention is read once and handed to newEventLog.
Start(n) ==
  /\ window[n] = None
  /\ window' = [window EXCEPT ![n] = stored]
  /\ UNCHANGED <<event, lastId, adding, stored, sweep, now, stops>>

Stop(n) ==
  /\ window[n] # None /\ stops < MaxStops
  /\ window' = [window EXCEPT ![n] = None]
  /\ Rest(n)
  /\ stops' = stops + 1
  /\ UNCHANGED <<event, lastId, adding, stored, now>>

\* The save reloads the runtime, which no EventLog looks at.
SaveRetention(r) ==
  /\ stored # r
  /\ stored' = r
  /\ UNCHANGED <<event, lastId, adding, window, sweep, now, stops>>

Tick ==
  /\ now < MaxTime
  /\ now' = now + 1
  /\ UNCHANGED <<event, lastId, adding, stored, window, sweep, stops>>

Init ==
  /\ \E k \in 0 .. Backlog : event = [i \in 1 .. k |-> 0] /\ lastId = k
  /\ adding = [w \in Writer |-> None]
  /\ stored \in Retention
  /\ window = [n \in Node |-> None]
  /\ sweep = [n \in Node |-> Resting]
  /\ now = 0 /\ stops = 0

Appending(w) == Stamp(w) \/ Insert(w) \/ InsertFails(w)
Pruning(n)   == Begin(n) \/ Scan(n) \/ Delete(n) \/ StatementFails(n)

Next ==
  \/ \E w \in Writer : Appending(w)
  \/ \E n \in Node : Pruning(n) \/ Start(n) \/ Stop(n)
  \/ \E r \in Retention : SaveRetention(r)
  \/ Tick

\* The ticker fires, and a statement tried again and again succeeds at last.
Fairness == \A n \in Node : WF_vars(Begin(n)) /\ SF_vars(Scan(n)) /\ SF_vars(Delete(n))

Spec == Init /\ [][Next]_vars /\ Fairness

-----------------------------------------------------------------------------
(* Correctness.                                                            *)

TypeOK ==
  /\ lastId \in 0 .. MaxId /\ Rows \subseteq 1 .. lastId
  /\ event \in [Rows -> Time]
  /\ adding \in [Writer -> Time \cup {None}]
  /\ stored \in Retention /\ window \in [Node -> Retention \cup {None}]
  /\ sweep \in [Node -> Sweep]
  /\ now \in Time /\ stops \in 0 .. MaxStops

\* The event has outlived the retention instance n runs with.
Overdue(n, i) == Prunes(n) /\ i \in Rows /\ event[i] < now - window[n]

\* Prune "must remove exactly the events past retention and no others"
\* (regressions_test.go), whatever another instance has deleted or a handler
\* inserted between the SELECT of its keys and the DELETE.
OnlyOverdueGo == [][\A i \in Rows \ DOMAIN event' : \E n \in Node : Overdue(n, i)]_vars

\* An overdue event does not stay: failed statements, full batches, sweeps
\* that end early and sweeps of others only put its end off.
OverdueGoes == \A n \in Node, i \in Id : Overdue(n, i) ~> ~Overdue(n, i)
=============================================================================
