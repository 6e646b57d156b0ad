---------------------------- MODULE PolicyStore ----------------------------
(***************************************************************************)
(* The iKuai allow-policies (store_policy.go): one table with a row per    *)
(* profile, and in every instance a copy of it that is replaced whole.     *)
(*                                                                         *)
(* A save is an UPSERT, then a SELECT of the whole table, then a swap of   *)
(* the pointer, and nothing holds a lock across the three: the saves of    *)
(* one instance overlap, and those of two instances do not see each other. *)
(* A policy is one value here; the comment and the numbers in it are not   *)
(* told apart.                                                             *)
(***************************************************************************)

CONSTANTS
  Node,      \* instances
  Save,      \* requests that save a policy at the same time
  Profile,   \* sso, duo, guest
  Policy,    \* policies, normalised for their profile
  Default,   \* the policies among them that a configuration names
  None       \* a row that is not there, no copy, no edit

ASSUME DefaultAssumption == Default \subseteq Policy
ASSUME NoneAssumption ==
  None \notin Node \cup Profile \cup Policy /\ None \notin [Profile -> Policy \cup {None}]

VARIABLES
  row,       \* row[p]: the policy in the table
  phase,     \* phase[n]: down, in newIKuaiPolicyStore, or serving
  default,   \* default[n]: the policy that instance n was configured with
  cache,     \* cache[n]: the copy Get reads
  save,      \* save[j]: how far a request is
  edited,    \* history: edited[p] is the last policy saved for p
  excused    \* history: excused[n], the copy of n may lack what others wrote

vars == <<row, phase, default, cache, save, edited, excused>>

Rows  == [Profile -> Policy \cup {None}]
Stage == {"idle", "write", "read", "swap"}
Saves == [stage : Stage, node : Node \cup {None}, profile : Profile \cup {None},
          policy : Policy \cup {None}, rows : Rows \cup {None}]
Idle  == [stage |-> "idle", node |-> None, profile |-> None, policy |-> None, rows |-> None]

At(j, s) == save[j].stage = s
\* Saves of instance n, other than j, that hold a copy they will store.
Holding(n, j) == {k \in Save \ {j} : At(k, "swap") /\ save[k].node = n}

-----------------------------------------------------------------------------
(* newIKuaiPolicyStore.                                                    *)

Start(n) ==
  /\ phase[n] = "down"
  /\ phase' = [phase EXCEPT ![n] = "seed"]
  /\ \E d \in Default : default' = [default EXCEPT ![n] = d]
  /\ UNCHANGED <<row, cache, save, edited, excused>>

\* Mutation: the conflict is resolved in favour of the defaults.
SeedOverwrites(n) ==
  /\ phase[n] = "seed"
  /\ row' = [p \in Profile |-> default[n]]
  /\ phase' = [phase EXCEPT ![n] = "load"]
  /\ excused' = [m \in Node |-> TRUE]
  /\ UNCHANGED <<default, cache, save, edited>>

\* seedMissing, ON CONFLICT DO NOTHING.
Seed(n) ==
  /\ phase[n] = "seed"
  /\ row' = [p \in Profile |-> IF row[p] = None THEN default[n] ELSE row[p]]
  /\ phase' = [phase EXCEPT ![n] = "load"]
  /\ excused' = [m \in Node |-> excused[m] \/ row' # row]
  /\ UNCHANGED <<default, cache, save, edited>>

\* Refresh; no request is served yet, so that nothing else swaps the copy.
Load(n) ==
  /\ phase[n] = "load"
  /\ cache' = [cache EXCEPT ![n] = row]
  /\ phase' = [phase EXCEPT ![n] = "up"]
  /\ excused' = [excused EXCEPT ![n] = FALSE]
  /\ UNCHANGED <<row, default, save, edited>>

\* Either statement fails: main ends the process. Or it is killed, with the
\* saves it was serving.
Stop(n) ==
  /\ phase[n] # "down"
  /\ phase' = [phase EXCEPT ![n] = "down"]
  /\ default' = [default EXCEPT ![n] = None]
  /\ cache' = [cache EXCEPT ![n] = None]
  /\ save' = [j \in Save |-> IF save[j].node = n THEN Idle ELSE save[j]]
  /\ UNCHANGED <<row, edited, excused>>

-----------------------------------------------------------------------------
(* Get and Set.                                                            *)

\* Get: the copy, else the configured default.
Serves(n, p) == IF cache[n] # None /\ cache[n][p] # None THEN cache[n][p] ELSE default[n]

\* handleIKuaiPolicyUpdate has parsed and validated the form.
Begin(j) ==
  /\ At(j, "idle")
  /\ \E n \in Node, p \in Profile, q \in Policy :
       /\ phase[n] = "up"
       /\ save' = [save EXCEPT ![j] = [stage |-> "write", node |-> n, profile |-> p,
                                       policy |-> q, rows |-> None]]
  /\ UNCHANGED <<row, phase, default, cache, edited, excused>>

\* Mutation: Set takes its copy of the table before it writes.
WriteAfterRead(j) ==
  /\ At(j, "write")
  /\ row' = [row EXCEPT ![save[j].profile] = save[j].policy]
  /\ edited' = [edited EXCEPT ![save[j].profile] = save[j].policy]
  /\ save' = [save EXCEPT ![j] = [@ EXCEPT !.stage = "swap", !.rows = row]]
  /\ excused' = [m \in Node |-> excused[m] \/ m # save[j].node]
  /\ UNCHANGED <<phase, default, cache>>

Write(j) ==
  /\ At(j, "write")
  /\ row' = [row EXCEPT ![save[j].profile] = save[j].policy]
  /\ edited' = [edited EXCEPT ![save[j].profile] = save[j].policy]
  /\ save' = [save EXCEPT ![j].stage = "read"]
  /\ excused' = [m \in Node |-> excused[m] \/ m # save[j].node]
  /\ UNCHANGED <<phase, default, cache>>

WriteFails(j) ==
  /\ At(j, "write")
  /\ save' = [save EXCEPT ![j] = Idle]
  /\ UNCHANGED <<row, phase, default, cache, edited, excused>>

\* Refresh selects the table. Two copies of one instance at a time may be
\* stored in either order.
Read(j) ==
  /\ At(j, "read")
  /\ save' = [save EXCEPT ![j] = [@ EXCEPT !.stage = "swap", !.rows = row]]
  /\ excused' = [excused EXCEPT ![save[j].node] = Holding(save[j].node, j) # {}]
  /\ UNCHANGED <<row, phase, default, cache, edited>>

\* Saved but not reloaded: Set reports no error.
ReadFails(j) ==
  /\ At(j, "read")
  /\ save' = [save EXCEPT ![j] = Idle]
  /\ excused' = [excused EXCEPT ![save[j].node] = TRUE]
  /\ UNCHANGED <<row, phase, default, cache, edited>>

Swap(j) ==
  /\ At(j, "swap")
  /\ cache' = [cache EXCEPT ![save[j].node] = save[j].rows]
  /\ save' = [save EXCEPT ![j] = Idle]
  /\ UNCHANGED <<row, phase, default, edited, excused>>

Init ==
  /\ row = [p \in Profile |-> None]
  /\ phase = [n \in Node |-> "down"]
  /\ default = [n \in Node |-> None]
  /\ cache = [n \in Node |-> None]
  /\ save = [j \in Save |-> Idle]
  /\ edited = [p \in Profile |-> None]
  /\ excused = [n \in Node |-> FALSE]

Opening(n) == Start(n) \/ Seed(n) \/ Load(n)
Set(j) == Begin(j) \/ Write(j) \/ WriteFails(j) \/ Read(j) \/ ReadFails(j) \/ Swap(j)

Next ==
  \/ \E n \in Node : Opening(n) \/ Stop(n)
  \/ \E j \in Save : Set(j)

Spec == Init /\ [][Next]_vars

-----------------------------------------------------------------------------
(* Correctness.                                                            *)

TypeOK ==
  /\ row \in Rows /\ edited \in Rows
  /\ phase \in [Node -> {"down", "seed", "load", "up"}]
  /\ default \in [Node -> Default \cup {None}]
  /\ cache \in [Node -> Rows \cup {None}]
  /\ save \in [Save -> Saves]
  /\ excused \in [Node -> BOOLEAN]

\* What an administrator saved last is what the table holds, whichever
\* instance starts with whichever defaults, and between which two steps of a
\* save: "an existing row is never overwritten by a default, which matters on
\* every restart after the first" (seedMissing).
EditSurvives == \A p \in Profile : edited[p] # None => row[p] = edited[p]

\* No save of n is between its UPSERT and its swap.
Quiet(n) == \A j \in Save : save[j].node = n => save[j].stage \in {"idle", "write"}

\* An instance that serves, with no save under way, grants by what the table
\* says: unless another instance has written since, a reload has failed, or
\* two reloads of its own overlapped.
QuietIsFresh ==
  \A n \in Node : phase[n] = "up" /\ Quiet(n) /\ ~excused[n] =>
    \A p \in Profile : Serves(n, p) = row[p] /\ row[p] # None
=============================================================================
