------------------------- MODULE LegacyImportProofs -------------------------
(***************************************************************************)
(* The import, for every number of instances, sections, files and parts,   *)
(* and whatever goes wrong: a file that was renamed is stored, nothing is  *)
(* imported twice, what an operator has done stays, and an undisturbed     *)
(* import is complete.                                                     *)
(***************************************************************************)
EXTENDS LegacyImport, TLAPS

USE EnvAssumption, PartsAssumption, OrderAssumption

Steps      == DOMAIN Order
AtWork(n)  == node[n].stage \in {"insert", "rename"}
Untouched  == /\ \A f \in File : file[f] = "there" /\ \A i \in Part : rows[f][i] = 0
              /\ deleted = {}

\* Where an instance can be: it is at a part only while it inserts, and at the
\* first file until the settings are in the table.
PlaceInv ==
  \A n \in Node :
    /\ AtWork(n) => node[n].at \in Steps
    /\ ~AtWork(n) => node[n].part = 1
    /\ node[n].stage \in {"defaults", "env"} => node[n].at = 1
    /\ At(n, "env") => node[n].todo \subseteq Env

\* The sections that an instance is through with are in the table, and nobody
\* touches a file or its rows before there is one.
SavedInv ==
  /\ \A n \in Node :
       /\ At(n, "defaults") => \A s \in Section \ node[n].todo : settings[s] # "none"
       /\ node[n].stage \notin {"down", "defaults"} => ~Empty
  /\ Empty => Untouched

\* An instance goes on to the next part, or to rename a file, with the earlier
\* parts stored, unless somebody has deleted them since.
Through(n, i) == At(n, "rename") \/ i < node[n].part
StoredInv ==
  \A n \in Node : AtWork(n) /\ Current(n) \notin deleted =>
    \A i \in Part : Through(n, i) /\ ~Lenient(Current(n), i) => rows[Current(n)][i] > 0

\* Instance n has yet to insert part i of file Order[k].
Ahead(n, k, i) == k > node[n].at \/ (k = node[n].at /\ ~At(n, "rename") /\ i >= node[n].part)

\* An instance that imports by itself: none other imports or runs, no console
\* has touched anything, and what lies ahead is not in the table.
AloneAt(n) ==
  /\ \A m \in Node \ {n} : At(m, "down")
  /\ deleted = {} /\ \A s \in Section : settings[s] # "edited"
  /\ \A k \in Steps, i \in Part : Ahead(n, k, i) => rows[Order[k]][i] = 0

AloneInv ==
  ~accompanied =>
    /\ \A n \in Node : Importing(n) => AloneAt(n)
    /\ \A f \in File, i \in Part : rows[f][i] <= 1
    /\ \A f \in deleted, i \in Part : rows[f][i] = 0

\* How far an import that nothing has disturbed has brought each thing.
Target(s)  == IF s \in Env THEN "env" ELSE "default"
Settled(s) == settings[s] \in {"edited", Target(s)}
Imported(f) ==
  /\ file[f] = IF f \in Corrupt THEN "there" ELSE "migrated"
  /\ f \notin Corrupt \cup deleted => \A i \in Part : rows[f][i] = 1
Complete == (\A s \in Section : Settled(s)) /\ \A f \in File : Imported(f)

SmoothAt(n) ==
  /\ \A s \in Section :
       settings[s] = CASE At(n, "defaults") -> IF s \in node[n].todo THEN "none" ELSE "default"
                       [] At(n, "env")      -> IF s \in Env \ node[n].todo THEN "env" ELSE "default"
                       [] OTHER             -> Target(s)
  /\ AtWork(n) => Current(n) \notin Corrupt /\ \A i \in Part : Through(n, i) => rows[Current(n)][i] = 1
  /\ \A k \in Steps : IF k < node[n].at THEN Imported(Order[k]) ELSE file[Order[k]] = "there"

SmoothInv ==
  smooth =>
    /\ ~accompanied
    /\ \A n \in Node : Importing(n) => SmoothAt(n)
    /\ (\A n \in Node : ~Importing(n)) => Empty \/ Complete

ImportInv == TypeOK /\ PlaceInv /\ SavedInv /\ StoredInv /\ RenamedIsStored /\ AloneInv /\ SmoothInv

-----------------------------------------------------------------------------
(* The files, and the records of the instances.                            *)

LEMMA Files == Len(Order) \in Nat /\ Steps = 1 .. Len(Order) /\ \A k \in Steps : Order[k] \in File
BY DEF File, ToSet, Steps

LEMMA Records ==
  /\ Down \in State /\ Running \in State
  /\ \A at \in 1 .. Len(Order) + 1 : [Down EXCEPT !.stage = "read", !.at = at] \in State
  /\ [Down EXCEPT !.stage = "read"] \in State
  /\ [Down EXCEPT !.stage = "defaults", !.todo = Section] \in State
<1>1. 1 \in Part /\ 1 \in 1 .. Len(Order) + 1
  BY Files DEF Part
<1>2. Down = [stage |-> "down", todo |-> {}, at |-> 1, part |-> 1]
  BY DEF Down
<1>3. Down \in State /\ [Down EXCEPT !.stage = "defaults", !.todo = Section] \in State
  BY <1>1, <1>2 DEF State, Stage
<1>4. Running \in State /\ [Down EXCEPT !.stage = "read"] \in State
  BY <1>1, <1>2 DEF Running, State, Stage
<1>5. \A at \in 1 .. Len(Order) + 1 : [Down EXCEPT !.stage = "read", !.at = at] \in State
  BY <1>1, <1>2 DEF State, Stage
<1> QED BY <1>3, <1>4, <1>5

LEMMA Changes ==
  ASSUME NEW r \in State
  PROVE  /\ \A s \in Stage : [r EXCEPT !.stage = s] \in State
         /\ \A todo \in SUBSET Section : [r EXCEPT !.todo = todo] \in State
         /\ [r EXCEPT !.stage = "env", !.todo = Env] \in State
         /\ \A i \in Part : [r EXCEPT !.part = i] \in State
BY DEF State, Stage

\* An instance that is at a file: in the loop over them, or at work on one.
LEMMA AtFile ==
  ASSUME TypeOK, PlaceInv, NEW n \in Node, (At(n, "read") /\ node[n].at <= Len(Order)) \/ AtWork(n)
  PROVE  /\ node[n].at \in Steps /\ Current(n) \in File /\ node[n].part \in Part
         /\ node[n].at + 1 \in 1 .. Len(Order) + 1
BY Files DEF TypeOK, State, PlaceInv, Current

LEMMA ImportInit == Init => ImportInv
<1> SUFFICES ASSUME Init PROVE ImportInv
  OBVIOUS
<1>1. TypeOK
  BY Records DEF Init, TypeOK, Value, Lenient
<1>2. /\ \A n \in Node : node[n] = Down
      /\ Untouched /\ Empty
  BY DEF Init, Untouched, Empty
<1>3. PlaceInv /\ SavedInv /\ StoredInv
  BY <1>2 DEF PlaceInv, SavedInv, StoredInv, AtWork, Down, At
<1>4. RenamedIsStored
  BY <1>2 DEF Untouched, RenamedIsStored
<1>5. AloneInv /\ SmoothInv
  BY <1>2 DEF Init, AloneInv, SmoothInv, Untouched, Importing, Down
<1> QED BY <1>1, <1>3, <1>4, <1>5 DEF ImportInv

-----------------------------------------------------------------------------
(* Types and places.                                                       *)

\* One instance goes on to r.
LEMMA OneMoves ==
  ASSUME TypeOK, NEW n \in Node, NEW r \in State, Move(n, r)
  PROVE  /\ node' \in [Node -> State] /\ node'[n] = r
         /\ \A m \in Node \ {n} : node'[m] = node[m]
BY DEF TypeOK, Move

LEMMA TypeStep == TypeOK /\ PlaceInv /\ [Next]_vars => TypeOK'
<1> SUFFICES ASSUME TypeOK, PlaceInv, [Next]_vars PROVE TypeOK'
  OBVIOUS
<1> USE DEF history
<1>0. ASSUME NEW n \in Node PROVE node[n] \in State /\ node[n].todo \in SUBSET Section
  BY DEF TypeOK, State
<1>1. ASSUME NEW n \in Node, Adopt(n) \/ Skip(n) PROVE TypeOK'
  BY <1>1, Records, OneMoves DEF Adopt, Skip, Start, TypeOK
<1>2. ASSUME NEW n \in Node, SaveDefaults(n) \/ SaveEnv(n) PROVE TypeOK'
  <2>1. PICK s \in Section : Move(n, [node[n] EXCEPT !.todo = @ \ {s}])
    BY <1>0, <1>2 DEF SaveDefaults, SaveEnv
  <2>2. node' \in [Node -> State]
    BY <1>0, <2>1, Changes, OneMoves
  <2>3. settings' \in [Section -> Value] /\ UNCHANGED <<file, rows, deleted, accompanied>> /\ smooth' \in BOOLEAN
    BY <1>2 DEF SaveDefaults, SaveEnv, Fails, TypeOK, Value
  <2> QED BY <2>2, <2>3 DEF TypeOK
<1>3. ASSUME NEW n \in Node, Fatal(n) PROVE TypeOK'
  BY <1>3, Records, OneMoves DEF Fatal, Fails, TypeOK
<1>4. ASSUME NEW n \in Node, DefaultsDone(n) \/ EnvDone(n) PROVE TypeOK'
  <2>1. node' \in [Node -> State]
    BY <1>0, <1>4, Records, Changes, OneMoves DEF DefaultsDone, EnvDone
  <2> QED BY <1>4, <2>1 DEF DefaultsDone, EnvDone, TypeOK
<1>5. ASSUME NEW n \in Node, NextFile(n), node[n].at \in Steps PROVE node' \in [Node -> State]
  <2>1. node[n].at + 1 \in 1 .. Len(Order) + 1
    BY <1>5, Files
  <2> QED BY <1>5, <2>1, Records, OneMoves DEF NextFile
<1>6. ASSUME NEW n \in Node, Read(n) \/ ReadFails(n) PROVE TypeOK'
  <2>1. node[n].at \in Steps
    BY <1>6, AtFile DEF Read, ReadFails
  <2>2. node' \in [Node -> State]
    BY <1>0, <1>5, <1>6, <2>1, Changes, OneMoves DEF Read, ReadFails, Stage
  <2> QED BY <1>6, <2>2 DEF Read, ReadFails, Fails, TypeOK
<1>7. ASSUME NEW n \in Node, FilesDone(n) PROVE TypeOK'
  BY <1>7, Records, OneMoves DEF FilesDone, TypeOK
<1>8. ASSUME NEW n \in Node, Insert(n) PROVE TypeOK'
  <2> DEFINE f == Current(n)
             i == node[n].part
  <2>1. f \in File /\ i \in Part
    BY <1>8, AtFile DEF Insert, At, AtWork
  <2>2. node' \in [Node -> State]
    <3>1. i # Parts => i + 1 \in Part
      BY <2>1 DEF Part
    <3> QED BY <1>0, <1>8, <3>1, Changes, OneMoves DEF Insert, Stage
  <2>3. rows' = [rows EXCEPT ![f][i] = @ + 1] /\ rows \in [File -> [Part -> Nat]]
    BY <1>8 DEF Insert, TypeOK
  <2>4. /\ rows' \in [File -> [Part -> Nat]]
        /\ rows'[f][i] = rows[f][i] + 1
        /\ \A g \in File, j \in Part : g # f \/ j # i => rows'[g][j] = rows[g][j]
    BY <2>1, <2>3
  <2>5. \A j, k \in Part : Lenient(Codes, j) /\ rows'[Codes][j] > 0 => rows'[Codes][k] > 0
    <3> SUFFICES ASSUME NEW j \in Part, NEW k \in Part, Lenient(Codes, j), rows'[Codes][j] > 0,
                        k # j
                 PROVE  rows'[Codes][k] > 0
      OBVIOUS
    <3>1. rows[Codes][k] > 0 => rows'[Codes][k] > 0
      BY <2>1, <2>3, <2>4
    <3>2. CASE f = Codes /\ i = j
      BY <1>8, <3>1, <3>2 DEF Insert, Insertable
    <3>3. CASE ~(f = Codes /\ i = j)
      BY <2>4, <3>1, <3>3 DEF TypeOK
    <3> QED BY <3>2, <3>3
  <2> QED BY <1>8, <2>2, <2>4, <2>5 DEF Insert, TypeOK
<1>9. ASSUME NEW n \in Node, InsertFails(n) PROVE TypeOK'
  <2>1. node[n].at \in Steps
    BY <1>9, AtFile DEF InsertFails, At, AtWork
  <2>2. node' \in [Node -> State]
    BY <1>0, <1>5, <1>9, <2>1, Changes, OneMoves DEF InsertFails, Stage
  <2> QED BY <1>9, <2>2 DEF InsertFails, Fails, TypeOK
<1>10. ASSUME NEW n \in Node, Rename(n) PROVE TypeOK'
  <2>1. node[n].at \in Steps
    BY <1>10, AtFile DEF Rename, At, AtWork
  <2>2. node' \in [Node -> State]
    BY <1>5, <1>10, <2>1 DEF Rename
  <2>3. file' \in [File -> {"there", "migrated"}]
    BY <1>10 DEF Rename, TypeOK
  <2> QED BY <1>10, <2>2, <2>3 DEF Rename, Fails, TypeOK
<1>11. ASSUME NEW n \in Node, Stop(n) PROVE TypeOK'
  BY <1>11, Records, OneMoves DEF Stop, TypeOK
<1>12. ASSUME NEW n \in Node, Edit(n) PROVE TypeOK'
  BY <1>12 DEF Edit, TypeOK, Value
<1>13. ASSUME NEW n \in Node, Delete(n) PROVE TypeOK'
  <2>1. PICK f \in File : /\ rows' = [rows EXCEPT ![f] = [i \in Part |-> 0]]
                          /\ deleted' = deleted \cup {f}
    BY <1>13 DEF Delete
  <2> QED BY <1>13, <2>1 DEF Delete, TypeOK
<1>14. CASE UNCHANGED vars
  BY <1>14 DEF vars, TypeOK
<1> QED
  BY <1>1, <1>2, <1>3, <1>4, <1>6, <1>7, <1>8, <1>9, <1>10, <1>11, <1>12, <1>13, <1>14
  DEF Next, Adopting, Moving

\* In and out of the loop over the files.
LEMMA PlaceStep == TypeOK /\ PlaceInv /\ [Next]_vars => PlaceInv'
<1> SUFFICES ASSUME TypeOK, PlaceInv, [Next]_vars PROVE PlaceInv'
  OBVIOUS
<1> DEFINE Placed(r) == /\ r.stage \in {"insert", "rename"} => r.at \in Steps
                        /\ r.stage \notin {"insert", "rename"} => r.part = 1
                        /\ r.stage \in {"defaults", "env"} => r.at = 1
                        /\ r.stage = "env" => r.todo \subseteq Env
<1>0. /\ \A n \in Node : Placed(node[n])
      /\ (\A n \in Node : Placed(node'[n])) => PlaceInv'
  BY DEF PlaceInv, AtWork, At
<1> HIDE DEF Placed
<1>1. ASSUME NEW n \in Node, NEW r, Placed(r), Move(n, r) PROVE PlaceInv'
  BY <1>0, <1>1 DEF Move, TypeOK
<1>2. CASE UNCHANGED node
  BY <1>0, <1>2
<1>3. ASSUME NEW n \in Node, Adopting(n) PROVE PlaceInv'
  <2>1. CASE Adopt(n)
    BY <1>1, <2>1 DEF Adopt, Placed, Down
  <2>2. CASE Skip(n)
    BY <1>1, <2>2 DEF Skip, Placed, Running, Down
  <2>3. CASE SaveDefaults(n) \/ SaveEnv(n)
    <3>1. PICK s \in node[n].todo : Move(n, [node[n] EXCEPT !.todo = @ \ {s}])
      BY <2>3 DEF SaveDefaults, SaveEnv
    <3>2. Placed([node[n] EXCEPT !.todo = @ \ {s}])
      BY <1>0 DEF Placed, TypeOK, State
    <3> QED BY <1>1, <3>1, <3>2
  <2>4. CASE Fatal(n)
    BY <1>1, <2>4 DEF Fatal, Placed, Down
  <2>5. CASE DefaultsDone(n)
    <3>1. Placed([node[n] EXCEPT !.stage = "env", !.todo = Env])
      <4>1. node[n].at = 1 /\ node[n].part = 1
        BY <1>0, <2>5 DEF DefaultsDone, At, Placed
      <4>2. node[n] \in State
        BY DEF TypeOK
      <4>3. ASSUME NEW r, r = [node[n] EXCEPT !.stage = "env", !.todo = Env]
            PROVE  r.stage = "env" /\ r.todo = Env /\ r.at = 1 /\ r.part = 1
        BY <4>1, <4>2, <4>3 DEF State
      <4> QED BY <4>3 DEF Placed
    <3> QED BY <1>1, <2>5, <3>1 DEF DefaultsDone
  <2>6. CASE EnvDone(n)
    BY <1>1, <2>6 DEF EnvDone, Placed, Down
  <2> QED BY <1>3, <2>1, <2>2, <2>3, <2>4, <2>5, <2>6 DEF Adopting
<1>4. ASSUME NEW n \in Node, NextFile(n) PROVE PlaceInv'
  BY <1>1, <1>4 DEF NextFile, Placed, Down
<1>5. ASSUME NEW n \in Node, Moving(n) \/ Stop(n) PROVE PlaceInv'
  <2>0. node[n] \in State
    BY DEF TypeOK
  <2>1. CASE Read(n) \/ ReadFails(n)
    <3>1. /\ node[n].at \in Steps
          /\ Placed([node[n] EXCEPT !.stage = "insert"])
      BY <1>0, <2>0, <2>1, AtFile DEF Read, ReadFails, Placed, State
    <3> QED BY <1>1, <1>4, <2>1, <3>1 DEF Read, ReadFails
  <2>2. CASE FilesDone(n) \/ Stop(n)
    BY <1>1, <2>2 DEF FilesDone, Stop, Placed, Running, Down
  <2>3. CASE Insert(n) \/ InsertFails(n) \/ Rename(n)
    <3>1. node[n].at \in Steps
      BY <2>3, AtFile DEF Insert, InsertFails, Rename, At, AtWork
    <3>2. /\ Placed([node[n] EXCEPT !.stage = "rename"])
          /\ At(n, "insert") => Placed([node[n] EXCEPT !.part = @ + 1])
      BY <2>0, <3>1 DEF Placed, State, At
    <3> QED BY <1>1, <1>4, <2>3, <3>2 DEF Insert, InsertFails, Rename
  <2> QED BY <1>5, <2>1, <2>2, <2>3 DEF Moving
<1> QED
  BY <1>2, <1>3, <1>5 DEF Next, Edit, Delete, vars

-----------------------------------------------------------------------------
(* The table of the settings fills first.                                  *)

LEMMA SavedStep == TypeOK /\ PlaceInv /\ SavedInv /\ [Next]_vars => SavedInv'
<1> SUFFICES ASSUME TypeOK, PlaceInv, SavedInv, [Next]_vars PROVE SavedInv'
  OBVIOUS
<1> USE DEF SavedInv, At, Empty, history
<1>0. /\ \A n \in Node : node[n] \in State
      /\ node \in [Node -> State]
  BY DEF TypeOK
\* Sections only come into the table.
<1>1. \A s \in Section : settings[s] # "none" => settings'[s] # "none"
  BY DEF Next, Adopting, Moving, Adopt, Skip, Start, SaveDefaults, Fatal, DefaultsDone, SaveEnv,
         EnvDone, Read, ReadFails, FilesDone, Insert, InsertFails, Rename, Stop, Edit, Delete, vars, TypeOK
<1>2. ASSUME NEW n \in Node, Adopting(n) PROVE SavedInv'
  <2>1. UNCHANGED <<file, rows, deleted>>
    BY <1>2 DEF Adopting, Adopt, Skip, Start, SaveDefaults, Fatal, Fails, DefaultsDone, SaveEnv, EnvDone
  <2>2. Empty' => Untouched'
    BY <1>1, <2>1 DEF Untouched
  <2>3. ASSUME NEW m \in Node \ {n} PROVE node'[m] = node[m]
    BY <1>0, <1>2 DEF Adopting, Adopt, Skip, SaveDefaults, Fatal, DefaultsDone, SaveEnv, EnvDone, Move
  <2>4. /\ At(n, "defaults")' => \A s \in Section \ node'[n].todo : settings'[s] # "none"
        /\ node'[n].stage \notin {"down", "defaults"} => ~Empty'
    <3>1. CASE Adopt(n)
      BY <1>0, <3>1 DEF Adopt, Move, Down
    <3>2. CASE Skip(n)
      BY <1>0, <1>1, <3>2 DEF Skip, Move, Down, Running
    <3>3. CASE SaveDefaults(n)
      <4>1. PICK s \in node[n].todo : /\ settings' = [settings EXCEPT ![s] = "default"]
                                      /\ Move(n, [node[n] EXCEPT !.todo = @ \ {s}])
        BY <3>3 DEF SaveDefaults
      <4>2. node'[n].stage = "defaults" /\ node'[n].todo = node[n].todo \ {s}
        BY <1>0, <3>3, <4>1 DEF SaveDefaults, Move, State
      <4> QED BY <3>3, <4>1, <4>2 DEF SaveDefaults, TypeOK
    <3>4. CASE Fatal(n)
      BY <1>0, <3>4 DEF Fatal, Move, Down
    <3>5. CASE DefaultsDone(n)
      BY <1>0, <1>1, <3>5 DEF DefaultsDone, Move, State
    <3>6. CASE SaveEnv(n) \/ EnvDone(n)
      <4>1. node'[n].stage \in {"env", "read"}
        BY <1>0, <3>6 DEF SaveEnv, EnvDone, Move, State, Down
      <4> QED BY <1>1, <3>6, <4>1 DEF SaveEnv, EnvDone
    <3> QED BY <1>2, <3>1, <3>2, <3>3, <3>4, <3>5, <3>6 DEF Adopting
  <2> QED BY <1>1, <2>2, <2>3, <2>4
<1>3. ASSUME NEW n \in Node, Moving(n) \/ Stop(n) \/ Edit(n) \/ Delete(n) PROVE SavedInv'
  <2>1. ASSUME NEW m \in Node \ {n} PROVE node'[m] = node[m]
    BY <1>0, <1>3 DEF Moving, Read, ReadFails, FilesDone, Insert, InsertFails, Rename, NextFile, Stop, Edit, Delete, Move
  <2>2. node'[n].stage # "defaults" \/ node'[n] = node[n]
    <3>1. ASSUME NextFile(n) PROVE node'[n].stage = "read"
      BY <1>0, <3>1 DEF NextFile, Move, Down
    <3>2. CASE Read(n) \/ ReadFails(n)
      BY <1>0, <3>1, <3>2 DEF Read, ReadFails, Move, State
    <3>3. CASE FilesDone(n) \/ Stop(n)
      BY <1>0, <3>3 DEF FilesDone, Stop, Move, Running, Down
    <3>4. CASE Insert(n) \/ InsertFails(n) \/ Rename(n)
      BY <1>0, <3>1, <3>4 DEF Insert, InsertFails, Rename, Move, State
    <3>5. CASE Edit(n) \/ Delete(n)
      BY <3>5 DEF Edit, Delete
    <3> QED BY <1>3, <3>2, <3>3, <3>4, <3>5 DEF Moving
  <2>3. CASE ~Empty
    BY <1>1, <2>1, <2>2, <2>3
  <2>4. CASE Empty
    <3>1. Stop(n)
      BY <1>3, <2>4 DEF Moving, Read, ReadFails, FilesDone, Insert, InsertFails, Rename, Edit, Delete
    <3>2. node'[n].stage = "down" /\ UNCHANGED <<settings, file, rows, deleted>>
      BY <1>0, <3>1 DEF Stop, Move, Down
    <3> QED BY <2>1, <3>2 DEF Untouched
  <2> QED BY <2>3, <2>4
<1>4. CASE UNCHANGED vars
  BY <1>4 DEF vars, Untouched
<1> QED BY <1>2, <1>3, <1>4 DEF Next

-----------------------------------------------------------------------------
(* A file is renamed only after its rows.                                  *)

\* A part of a file leaves its table only with an operator.
LEMMA RowsStay ==
  ASSUME TypeOK, PlaceInv, [Next]_vars, NEW f \in File \ deleted', NEW i \in Part
  PROVE  f \notin deleted /\ (rows[f][i] > 0 => rows'[f][i] > 0)
<1> USE DEF TypeOK, history
<1>1. ASSUME NEW n \in Node, Insert(n) PROVE f \notin deleted /\ (rows[f][i] > 0 => rows'[f][i] > 0)
  <2>1. Current(n) \in File /\ node[n].part \in Part
    BY <1>1, AtFile DEF Insert, At, AtWork
  <2> QED BY <1>1, <2>1 DEF Insert
<1>2. ASSUME NEW n \in Node, Delete(n) PROVE f \notin deleted /\ rows'[f] = rows[f]
  <2>1. PICK g \in File : rows' = [rows EXCEPT ![g] = [j \in Part |-> 0]] /\ deleted' = deleted \cup {g}
    BY <1>2 DEF Delete
  <2> QED BY <2>1
<1>3. ASSUME NEW n \in Node, Next, ~Insert(n), ~Delete(n),
             Adopting(n) \/ Moving(n) \/ Stop(n) \/ Edit(n) \/ Delete(n)
      PROVE  UNCHANGED <<rows, deleted>>
  BY <1>3 DEF Adopting, Moving, Adopt, Skip, Start, SaveDefaults, Fatal, Fails, DefaultsDone, SaveEnv,
         EnvDone, Read, ReadFails, FilesDone, InsertFails, Rename, Stop, Edit
<1> QED BY <1>1, <1>2, <1>3 DEF Next, vars

LEMMA StoredStep ==
  TypeOK /\ PlaceInv /\ StoredInv /\ RenamedIsStored /\ [Next]_vars => StoredInv' /\ RenamedIsStored'
<1> SUFFICES ASSUME TypeOK, PlaceInv, StoredInv, RenamedIsStored, [Next]_vars
             PROVE  StoredInv' /\ RenamedIsStored'
  OBVIOUS
<1> USE DEF history
<1> DEFINE StoredAt(n) ==
      AtWork(n) /\ Current(n) \notin deleted =>
        \A i \in Part : Through(n, i) /\ ~Lenient(Current(n), i) => rows[Current(n)][i] > 0
<1>0. /\ \A n \in Node : StoredAt(n)
      /\ (\A n \in Node : StoredAt(n)') => StoredInv'
      /\ \A n \in Node : node[n] \in State
      /\ node \in [Node -> State]
  BY DEF StoredInv, TypeOK
\* What one was through with is still stored.
<1>1. ASSUME NEW n \in Node, AtWork(n), NEW i \in Part, Through(n, i), ~Lenient(Current(n), i),
             Current(n) \notin deleted'
      PROVE  rows'[Current(n)][i] > 0
  <2>1. Current(n) \in File
    BY <1>1, AtFile
  <2> QED BY <1>0, <1>1, <2>1, RowsStay
<1>2. ASSUME NEW n \in Node, node'[n] = node[n] PROVE StoredAt(n)'
  BY <1>1, <1>2 DEF AtWork, Current, Through, At
<1>3. ASSUME NEW n \in Node, node'[n].stage \notin {"insert", "rename"} PROVE StoredAt(n)'
  BY <1>3 DEF AtWork
<1>4. ASSUME \A f \in File : file[f] # "migrated" => file'[f] # "migrated"
      PROVE  RenamedIsStored'
  <2> SUFFICES ASSUME NEW f \in File \ deleted', NEW i \in Part, file'[f] = "migrated", ~Lenient(f, i)
               PROVE  rows'[f][i] > 0
    BY DEF RenamedIsStored, Lenient
  <2> QED BY <1>4, RowsStay DEF RenamedIsStored
<1>5. ASSUME NEW n \in Node, \A m \in Node \ {n} : node'[m] = node[m], StoredAt(n)' PROVE StoredInv'
  BY <1>0, <1>2, <1>5
<1> HIDE DEF StoredAt
<1>6. ASSUME NEW n \in Node, NextFile(n) PROVE StoredInv'
  <2>1. node'[n].stage = "read" /\ \A m \in Node \ {n} : node'[m] = node[m]
    BY <1>0, <1>6 DEF NextFile, Move, Down
  <2> QED BY <1>3, <1>5, <2>1
<1>7. ASSUME NEW n \in Node, Adopting(n) PROVE StoredInv' /\ RenamedIsStored'
  <2>1. UNCHANGED file /\ \A m \in Node \ {n} : node'[m] = node[m]
    BY <1>0, <1>7 DEF Adopting, Adopt, Skip, Start, SaveDefaults, Fatal, DefaultsDone, SaveEnv, EnvDone, Move
  <2>2. node'[n].stage \notin {"insert", "rename"}
    <3>1. CASE Adopt(n)
      BY <1>0, <3>1 DEF Adopt, Move, Down
    <3>4. CASE Skip(n) \/ Fatal(n)
      BY <1>0, <3>4 DEF Skip, Fatal, Move, Down, Running
    <3>2. CASE SaveDefaults(n) \/ SaveEnv(n)
      BY <1>0, <3>2 DEF SaveDefaults, SaveEnv, Move, State, At
    <3>3. CASE DefaultsDone(n)
      BY <1>0, <3>3 DEF DefaultsDone, Move, State
    <3>5. CASE EnvDone(n)
      BY <1>0, <3>5 DEF EnvDone, Move, Down
    <3> QED BY <1>7, <3>1, <3>2, <3>3, <3>4, <3>5 DEF Adopting
  <2> QED BY <1>3, <1>4, <1>5, <2>1, <2>2
<1>8. ASSUME NEW n \in Node, Read(n) \/ ReadFails(n) PROVE StoredInv' /\ RenamedIsStored'
  <2>1. UNCHANGED file
    BY <1>8 DEF Read, ReadFails
  <2>2. CASE Move(n, [node[n] EXCEPT !.stage = "insert"]) /\ Read(n)
    <3>1. /\ node'[n].stage = "insert" /\ node'[n].part = 1
          /\ \A m \in Node \ {n} : node'[m] = node[m]
      BY <1>0, <2>2 DEF Move, Read, At, PlaceInv, AtWork, State
    <3>2. StoredAt(n)'
      BY <3>1 DEF StoredAt, Through, At, Part
    <3> QED BY <1>4, <1>5, <2>1, <3>1, <3>2
  <2>3. CASE NextFile(n)
    BY <1>4, <1>6, <2>1, <2>3
  <2> QED BY <1>8, <2>2, <2>3 DEF Read, ReadFails
<1>9. ASSUME NEW n \in Node, Insert(n) PROVE StoredInv' /\ RenamedIsStored'
  <2> DEFINE f == Current(n)
             p == node[n].part
  <2>1. f \in File /\ p \in Part /\ AtWork(n)
    BY <1>9, AtFile DEF Insert, At, AtWork
  <2>2. rows' = [rows EXCEPT ![f][p] = @ + 1] /\ UNCHANGED <<file, deleted>>
    BY <1>9 DEF Insert
  <2>3. rows'[f][p] > 0
    BY <2>1, <2>2 DEF TypeOK
  <2>4. /\ Current(n)' = f
        /\ \A m \in Node \ {n} : node'[m] = node[m]
        /\ \A i \in Part : Through(n, i)' => i = p \/ Through(n, i)
    <3>1. CASE p = Parts
      BY <1>0, <1>9, <2>1, <3>1 DEF Insert, Move, State, Current, Through, At, Part
    <3>2. CASE p # Parts
      BY <1>0, <1>9, <2>1, <3>2 DEF Insert, Move, State, Current, Through, At, Part
    <3> QED BY <3>1, <3>2
  <2>5. StoredAt(n)'
    <3> SUFFICES ASSUME f \notin deleted, NEW i \in Part, Through(n, i)', ~Lenient(f, i)
                 PROVE  rows'[f][i] > 0
      BY <2>2, <2>4 DEF StoredAt, Lenient
    <3> QED BY <1>1, <2>1, <2>2, <2>3, <2>4
  <2> QED BY <1>4, <1>5, <2>2, <2>4, <2>5
<1>10. ASSUME NEW n \in Node, InsertFails(n) PROVE StoredInv' /\ RenamedIsStored'
  <2>1. UNCHANGED file /\ At(n, "insert") /\ AtWork(n) /\ node[n].part \in Part
    BY <1>10, AtFile DEF InsertFails, At, AtWork
  <2>2. CASE Lenient(Current(n), node[n].part)
    <3>1. /\ Current(n)' = Current(n) /\ node'[n].stage = "rename"
          /\ \A m \in Node \ {n} : node'[m] = node[m]
      BY <1>0, <1>10, <2>2 DEF InsertFails, Move, State, Current
    <3>2. \A i \in Part : Lenient(Current(n), i) \/ Through(n, i)
      BY <2>1, <2>2 DEF Lenient, Through, Part
    <3>3. StoredAt(n)'
      <4> SUFFICES ASSUME Current(n) \notin deleted', NEW i \in Part, ~Lenient(Current(n), i)
                   PROVE  rows'[Current(n)][i] > 0
        BY <3>1 DEF StoredAt, Lenient
      <4> QED BY <1>1, <2>1, <3>2
    <3> QED BY <1>4, <1>5, <2>1, <3>1, <3>3
  <2>3. CASE ~Lenient(Current(n), node[n].part)
    BY <1>4, <1>6, <1>10, <2>1, <2>3 DEF InsertFails
  <2> QED BY <2>2, <2>3
<1>11. ASSUME NEW n \in Node, Rename(n) PROVE StoredInv' /\ RenamedIsStored'
  <2>1. NextFile(n) /\ At(n, "rename") /\ AtWork(n) /\ UNCHANGED <<rows, deleted>>
    BY <1>11 DEF Rename, AtWork, At, Fails
  <2>2. Current(n) \in File
    BY <2>1, AtFile
  <2>3. CASE UNCHANGED file
    BY <1>4, <1>6, <2>1, <2>3
  <2>4. CASE file' = [file EXCEPT ![Current(n)] = "migrated"]
    <3> SUFFICES ASSUME NEW f \in File \ deleted, NEW i \in Part, file'[f] = "migrated", ~Lenient(f, i)
                 PROVE  rows'[f][i] > 0
      BY <1>6, <2>1 DEF RenamedIsStored, Lenient
    <3>1. CASE f = Current(n)
      BY <1>1, <2>1, <3>1 DEF Through
    <3>2. CASE f # Current(n)
      BY <2>1, <2>4, <3>2 DEF RenamedIsStored, TypeOK
    <3> QED BY <3>1, <3>2
  <2> QED BY <1>11, <2>3, <2>4 DEF Rename
<1>12. ASSUME NEW n \in Node, FilesDone(n) \/ Stop(n) PROVE StoredInv' /\ RenamedIsStored'
  <2>1. /\ UNCHANGED file /\ node'[n].stage \in {"running", "down"}
        /\ \A m \in Node \ {n} : node'[m] = node[m]
    BY <1>0, <1>12 DEF FilesDone, Stop, Move, Running, Down
  <2> QED BY <1>3, <1>4, <1>5, <2>1
<1>13. ASSUME NEW n \in Node, Edit(n) \/ Delete(n) PROVE StoredInv' /\ RenamedIsStored'
  BY <1>2, <1>4, <1>5, <1>13 DEF Edit, Delete
<1>14. CASE UNCHANGED vars
  <2>1. UNCHANGED <<node, rows, deleted, file>>
    BY <1>14 DEF vars
  <2>2. StoredInv'
    BY <1>0, <1>2, <2>1
  <2> QED BY <2>1, <2>2 DEF RenamedIsStored, Lenient
<1> QED
  BY <1>7, <1>8, <1>9, <1>10, <1>11, <1>12, <1>13, <1>14 DEF Next, Moving

-----------------------------------------------------------------------------
(* An instance that imports by itself.                                     *)

\* An instance that was started beside no import: if it finds the settings
\* empty, it is the only one.
LEMMA StartsAlone ==
  ASSUME TypeOK, SavedInv, NEW n \in Node, Start(n), ~accompanied'
  PROVE  /\ ~accompanied /\ \A m \in Node : ~Importing(m)
         /\ Empty => Untouched /\ \A m \in Node : At(m, "down")
BY DEF Start, SavedInv, Importing, At

\* What lies ahead of an instance in its next state lay ahead of it before.
LEMMA AheadShrinks ==
  ASSUME TypeOK, PlaceInv, NEW n \in Node, Importing(n), Importing(n)',
         Adopting(n) \/ Moving(n), NEW k \in Steps, NEW i \in Part, Ahead(n, k, i)'
  PROVE  Ahead(n, k, i) /\ (Insert(n) => k # node[n].at \/ i # node[n].part)
<1>0. /\ node[n] \in State /\ node \in [Node -> State]
      /\ node[n].at \in Nat /\ node[n].part \in Nat /\ k \in Nat /\ i \in Nat /\ i >= 1
  <2>1. node[n] \in State /\ node \in [Node -> State]
    BY DEF TypeOK
  <2>2. node[n].at \in 1 .. Len(Order) + 1 /\ node[n].part \in 1 .. Parts
    BY <2>1 DEF State, Part
  <2>3. k \in 1 .. Len(Order) /\ Len(Order) \in Nat /\ i \in 1 .. Parts /\ Parts \in Nat
    BY Files DEF Part
  <2> QED BY <2>1, <2>2, <2>3
<1>1. CASE NextFile(n) /\ (Read(n) \/ ReadFails(n) \/ InsertFails(n) \/ Rename(n)) /\ ~Insert(n)
  <2>1. node'[n].at = node[n].at + 1
    BY <1>0, <1>1 DEF NextFile, Move, Down
  <2> QED BY <1>0, <1>1, <2>1 DEF Ahead
<1>2. CASE Adopting(n)
  <2>1. CASE SaveDefaults(n) \/ SaveEnv(n)
    <3>1. node'[n].at = node[n].at /\ node'[n].part = node[n].part /\ node'[n].stage = node[n].stage
      BY <1>0, <2>1 DEF SaveDefaults, SaveEnv, Move, State
    <3> QED BY <2>1, <3>1 DEF Ahead, At, SaveDefaults, SaveEnv, Insert
  <2>2. CASE DefaultsDone(n) \/ EnvDone(n)
    <3>1. node[n].at = 1 /\ node[n].part = 1 /\ ~At(n, "rename") /\ ~At(n, "insert")
      BY <2>2 DEF PlaceInv, AtWork, DefaultsDone, EnvDone, At
    <3> QED BY <1>0, <2>2, <3>1, Files DEF Ahead, Insert
  <2>3. CASE Adopt(n) \/ Skip(n) \/ Fatal(n)
    <3>1. ~(Adopt(n) \/ Skip(n))
      BY DEF Adopt, Skip, Start, At, Importing
    <3>2. node'[n].stage = "down"
      BY <1>0, <2>3, <3>1 DEF Fatal, Move, Down
    <3> QED BY <3>2 DEF Importing
  <2> QED BY <1>2, <2>1, <2>2, <2>3 DEF Adopting
<1>3. CASE Read(n) \/ ReadFails(n)
  <2>1. CASE Move(n, [node[n] EXCEPT !.stage = "insert"])
    BY <1>0, <1>3, <2>1 DEF Move, Ahead, At, State, Read, ReadFails, Insert
  <2> QED BY <1>1, <1>3, <2>1 DEF Read, ReadFails, Insert, At
<1>4. CASE FilesDone(n)
  <2>1. node'[n].stage = "running"
    BY <1>0, <1>4 DEF FilesDone, Move, Running, Down
  <2> QED BY <2>1 DEF Importing
<1>5. CASE Insert(n)
  <2>1. CASE node[n].part = Parts
    <3>1. node' = [node EXCEPT ![n] = [node[n] EXCEPT !.stage = "rename"]] /\ At(n, "insert")
      BY <1>5, <2>1 DEF Insert, Move
    <3>2. node'[n].at = node[n].at /\ node'[n].stage = "rename"
      BY <1>0, <3>1 DEF State
    <3> QED BY <1>0, <3>1, <3>2 DEF Ahead, At
  <2>2. CASE node[n].part # Parts
    <3>1. /\ node'[n].at = node[n].at /\ node'[n].part = node[n].part + 1
          /\ node'[n].stage = "insert" /\ At(n, "insert")
      BY <1>0, <1>5, <2>2 DEF Insert, Move, State, At
    <3> QED BY <1>0, <3>1 DEF Ahead, At
  <2> QED BY <2>1, <2>2
<1>6. CASE InsertFails(n) /\ ~Insert(n)
  <2>1. CASE Move(n, [node[n] EXCEPT !.stage = "rename"])
    BY <1>0, <1>6, <2>1 DEF Move, Ahead, At, State
  <2> QED BY <1>1, <1>6, <2>1 DEF InsertFails
<1>7. CASE Rename(n)
  BY <1>1, <1>7 DEF Rename, Insert, At
<1> QED BY <1>2, <1>3, <1>4, <1>5, <1>6, <1>7 DEF Moving

LEMMA AloneStep ==
  TypeOK /\ PlaceInv /\ SavedInv /\ AloneInv /\ [Next]_vars => AloneInv'
<1> SUFFICES ASSUME TypeOK, PlaceInv, SavedInv, AloneInv, [Next]_vars, ~accompanied'
             PROVE  /\ \A n \in Node : Importing(n)' => AloneAt(n)'
                    /\ \A f \in File, i \in Part : rows'[f][i] <= 1
                    /\ \A f \in deleted', i \in Part : rows'[f][i] = 0
  BY DEF AloneInv
<1> DEFINE Alone == /\ \A n \in Node : Importing(n)' => AloneAt(n)'
                    /\ \A f \in File, i \in Part : rows'[f][i] <= 1
                    /\ \A f \in deleted', i \in Part : rows'[f][i] = 0
<1> USE DEF history
<1>0. /\ node \in [Node -> State] /\ \A n \in Node : node[n] \in State
      /\ rows \in [File -> [Part -> Nat]] /\ deleted \subseteq File
      /\ settings \in [Section -> Value]
  BY DEF TypeOK
<1>1. /\ ~accompanied
      /\ \A n \in Node : Importing(n) => AloneAt(n)
      /\ \A f \in File, i \in Part : rows[f][i] <= 1
      /\ \A f \in deleted, i \in Part : rows[f][i] = 0
  <2>1. ~accompanied
    BY DEF Next, Adopting, Moving, Adopt, Skip, Start, SaveDefaults, Fatal, Fails, DefaultsDone, SaveEnv,
         EnvDone, Read, ReadFails, FilesDone, Insert, InsertFails, Rename, Stop, Edit, Delete, vars
  <2> QED BY <2>1 DEF AloneInv
<1>2. ASSUME NEW n \in Node, Adopt(n) \/ Skip(n) PROVE Alone
  <2>1. /\ \A m \in Node : ~Importing(m)
        /\ Empty => Untouched /\ \A m \in Node : At(m, "down")
        /\ UNCHANGED <<rows, deleted, settings>>
    BY <1>2, StartsAlone DEF Adopt, Skip, Start
  <2>2. \A m \in Node \ {n} : node'[m] = node[m]
    BY <1>0, <1>2 DEF Adopt, Skip, Move
  <2>3. CASE Adopt(n)
    <3>1. AloneAt(n)'
      BY <2>1, <2>2, <2>3, Files DEF Adopt, Empty, Untouched, AloneAt, At
    <3> QED BY <1>1, <2>1, <2>2, <3>1 DEF Importing
  <2>4. CASE Skip(n)
    <3>1. ~Importing(n)'
      BY <1>0, <2>4 DEF Skip, Move, Running, Down, Importing
    <3> QED BY <1>1, <2>1, <2>2, <3>1 DEF Importing
  <2> QED BY <1>2, <2>3, <2>4
\* A step of the import, and its end.
<1>3. ASSUME NEW n \in Node, Importing(n), \A m \in Node \ {n} : node'[m] = node[m], UNCHANGED deleted,
             \A s \in Section : settings'[s] # "edited",
             \A f \in File, i \in Part : rows'[f][i] <= 1,
             Importing(n)' => \A k \in Steps, i \in Part : Ahead(n, k, i)' => rows'[Order[k]][i] = 0
      PROVE  Alone
  <2>1. AloneAt(n)
    BY <1>1, <1>3
  <2>2. \A m \in Node \ {n} : At(m, "down") /\ At(m, "down")'
    BY <1>3, <2>1 DEF AloneAt, At
  <2>3. Importing(n)' => AloneAt(n)'
    BY <1>3, <2>1, <2>2 DEF AloneAt
  <2>4. \A m \in Node : Importing(m)' => m = n
    BY <2>2 DEF Importing, At
  <2>5. deleted' = {}
    BY <1>3, <2>1 DEF AloneAt
  <2> QED BY <1>3, <2>3, <2>4, <2>5
<1>4. ASSUME NEW n \in Node, Adopting(n) \/ Moving(n), ~Adopt(n), ~Skip(n) PROVE Alone
  <2>1. Importing(n)
    BY <1>4 DEF Adopting, Moving, SaveDefaults, Fatal, DefaultsDone, SaveEnv, EnvDone, Read, ReadFails, FilesDone,
                Insert, InsertFails, Rename, At, Importing
  <2>2. \A m \in Node \ {n} : node'[m] = node[m]
    BY <1>0, <1>4 DEF Adopting, Moving, SaveDefaults, Fatal, DefaultsDone, SaveEnv, EnvDone, Read, ReadFails,
                FilesDone, Insert, InsertFails, Rename, NextFile, Move
  <2>3. UNCHANGED deleted
    BY <1>4 DEF Adopting, Moving, SaveDefaults, Fatal, DefaultsDone, SaveEnv, EnvDone, Read, ReadFails, FilesDone,
                Insert, InsertFails, Rename, Fails
  <2>4. \A s \in Section : settings[s] # "edited"
    BY <1>1, <2>1 DEF AloneAt
  <2>5. \A s \in Section : settings'[s] # "edited"
    BY <1>0, <1>4, <2>4 DEF Adopting, Moving, SaveDefaults, Fatal, DefaultsDone, SaveEnv, EnvDone, Read, ReadFails,
                FilesDone, Insert, InsertFails, Rename
  <2>6. CASE Insert(n)
    <3> DEFINE f == Current(n)
               p == node[n].part
    <3>1. /\ f = Order[node[n].at] /\ node[n].at \in Steps /\ f \in File /\ p \in Part /\ At(n, "insert")
      BY <2>6, AtFile DEF Insert, At, AtWork, Current
    <3>2. Ahead(n, node[n].at, p)
      BY <3>1 DEF Ahead, At, Part
    <3>3. rows[f][p] = 0 /\ rows' = [rows EXCEPT ![f][p] = @ + 1]
      BY <1>1, <2>1, <2>6, <3>1, <3>2 DEF AloneAt, Insert
    <3>4. /\ rows'[f][p] = 1
          /\ \A g \in File, i \in Part : g # f \/ i # p => rows'[g][i] = rows[g][i]
      BY <1>0, <3>1, <3>3
    <3>5. \A g \in File, i \in Part : rows'[g][i] <= 1
      BY <1>1, <3>4
    <3>6. ASSUME Importing(n)', NEW k \in Steps, NEW i \in Part, Ahead(n, k, i)'
          PROVE  rows'[Order[k]][i] = 0
      <4>1. Ahead(n, k, i) /\ (k # node[n].at \/ i # p)
        BY <1>4, <2>1, <2>6, <3>6, AheadShrinks
      <4>2. Order[k] \in File /\ (Order[k] # f \/ i # p)
        BY <3>1, <4>1, Files DEF Steps
      <4> QED BY <1>1, <2>1, <3>4, <4>1, <4>2 DEF AloneAt
    <3> HIDE DEF Alone
    <3> QED BY <1>3, <2>1, <2>2, <2>3, <2>5, <3>5, <3>6
  <2>7. CASE ~Insert(n)
    <3>1. UNCHANGED rows
      BY <1>4, <2>7 DEF Adopting, Moving, SaveDefaults, Fatal, DefaultsDone, SaveEnv, EnvDone, Read, ReadFails,
                FilesDone, InsertFails, Rename
    <3>2. ASSUME Importing(n)', NEW k \in Steps, NEW i \in Part, Ahead(n, k, i)'
          PROVE  rows'[Order[k]][i] = 0
      BY <1>1, <1>4, <2>1, <3>1, <3>2, AheadShrinks DEF AloneAt
    <3> HIDE DEF Alone
    <3> QED BY <1>1, <1>3, <2>1, <2>2, <2>3, <2>5, <3>1, <3>2
  <2> QED BY <2>6, <2>7
<1>5. ASSUME NEW n \in Node, Stop(n) \/ Edit(n) \/ Delete(n) PROVE Alone
  <2>1. CASE Importing(n)
    <3>1. /\ ~Importing(n)' /\ \A m \in Node \ {n} : node'[m] = node[m]
          /\ UNCHANGED <<settings, rows, deleted>>
      BY <1>0, <1>5, <2>1 DEF Stop, Edit, Delete, At, Importing, Move, Down
    <3>2. \A s \in Section : settings[s] # "edited"
      BY <1>1, <2>1 DEF AloneAt
    <3> HIDE DEF Alone
    <3> QED BY <1>1, <1>3, <2>1, <3>1, <3>2
  <2>2. CASE ~Importing(n)
    <3>1. At(n, "running")
      BY <1>5, <2>2 DEF Stop, Edit, Delete, At, Importing
    <3>2. \A m \in Node : ~Importing(m)
      BY <1>1, <3>1 DEF AloneAt, Importing, At
    <3>3. \A m \in Node : ~Importing(m)'
      <4>1. node' = node \/ node' = [node EXCEPT ![n] = Down]
        BY <1>5 DEF Stop, Edit, Delete, Move
      <4>2. ASSUME NEW m \in Node PROVE node'[m] = node[m] \/ node'[m] = Down
        BY <1>0, <4>1
      <4>3. Down.stage = "down"
        BY DEF Down
      <4> QED BY <3>2, <4>2, <4>3 DEF Importing
    <3>4. CASE UNCHANGED <<rows, deleted>>
      BY <1>1, <3>3, <3>4
    <3>5. CASE Delete(n)
      <4>1. PICK f \in File : /\ rows' = [rows EXCEPT ![f] = [i \in Part |-> 0]]
                              /\ deleted' = deleted \cup {f}
        BY <3>5 DEF Delete
      <4>2. \A g \in File, i \in Part : rows'[g][i] = IF g = f THEN 0 ELSE rows[g][i]
        BY <1>0, <4>1
      <4> QED BY <1>0, <1>1, <3>3, <4>1, <4>2
    <3> QED BY <1>5, <3>4, <3>5 DEF Stop, Edit
  <2> QED BY <2>1, <2>2
<1>6. CASE UNCHANGED vars
  BY <1>1, <1>6 DEF vars, AloneAt, Importing, At, Ahead
<1> QED BY <1>2, <1>4, <1>5, <1>6 DEF Next

-----------------------------------------------------------------------------
(* An import that nothing disturbs.                                        *)

\* What a step must show of an instance that imports: how far it is, or, when
\* it is through, that everything is there.
LEMMA SmoothStep ==
  TypeOK /\ PlaceInv /\ SavedInv /\ AloneInv /\ SmoothInv /\ [Next]_vars => SmoothInv'
<1> SUFFICES ASSUME TypeOK, PlaceInv, SavedInv, AloneInv, SmoothInv, [Next]_vars, smooth'
             PROVE  /\ ~accompanied'
                    /\ \A n \in Node : Importing(n)' => SmoothAt(n)'
                    /\ (\A n \in Node : ~Importing(n)') => Empty' \/ Complete'
  BY DEF SmoothInv
<1> DEFINE Smooth == /\ ~accompanied'
                     /\ \A n \in Node : Importing(n)' => SmoothAt(n)'
                     /\ (\A n \in Node : ~Importing(n)') => Empty' \/ Complete'
<1> USE DEF history
<1>0. /\ node \in [Node -> State] /\ \A n \in Node : node[n] \in State
      /\ rows \in [File -> [Part -> Nat]] /\ deleted \subseteq File
      /\ settings \in [Section -> Value] /\ file \in [File -> {"there", "migrated"}]
  BY DEF TypeOK
<1>1. /\ smooth /\ ~accompanied /\ ~accompanied'
      /\ \A n \in Node : Importing(n) => SmoothAt(n) /\ AloneAt(n)
      /\ (\A n \in Node : ~Importing(n)) => Empty \/ Complete
  <2>1. smooth
    BY DEF Next, Adopting, Moving, Adopt, Skip, Start, SaveDefaults, Fatal, Fails, DefaultsDone, SaveEnv,
         EnvDone, Read, ReadFails, FilesDone, Insert, InsertFails, Rename, Stop, Edit, Delete, vars
  <2>2. ~accompanied
    BY <2>1 DEF SmoothInv
  <2>3. ~accompanied'
    BY <2>1, <2>2 DEF Next, Adopting, Moving, Adopt, Skip, Start, SaveDefaults, Fatal, Fails, DefaultsDone, SaveEnv,
         EnvDone, Read, ReadFails, FilesDone, Insert, InsertFails, Rename, Stop, Edit, Delete, vars
  <2> QED BY <2>1, <2>2, <2>3 DEF SmoothInv, AloneInv
<1>2. ASSUME NEW n \in Node, Adopt(n) \/ Skip(n) PROVE Smooth
  <2>1. /\ \A m \in Node : ~Importing(m)
        /\ Empty => Untouched /\ \A m \in Node : At(m, "down")
        /\ UNCHANGED <<rows, file, deleted, settings>>
    BY <1>1, <1>2, StartsAlone DEF Adopt, Skip, Start
  <2>2. \A m \in Node \ {n} : node'[m] = node[m]
    BY <1>0, <1>2 DEF Adopt, Skip, Move
  <2>3. CASE Adopt(n)
    <3>1. /\ node'[n].stage = "defaults" /\ node'[n].todo = Section /\ node'[n].at = 1
          /\ \A s \in Section : settings'[s] = "none"
          /\ \A f \in File : file'[f] = "there"
      BY <1>0, <2>1, <2>3 DEF Adopt, Move, Down, Empty, Untouched
    <3>2. SmoothAt(n)'
      BY <3>1, Files DEF SmoothAt, At, AtWork
    <3>3. Importing(n)' /\ \A m \in Node \ {n} : ~Importing(m)'
      BY <2>1, <2>2, <3>1 DEF Importing
    <3> QED BY <1>1, <3>2, <3>3
  <2>4. CASE Skip(n)
    <3>1. \A m \in Node : ~Importing(m)'
      BY <1>0, <2>1, <2>2, <2>4 DEF Skip, Move, Running, Down, Importing
    <3>2. Complete
      BY <1>1, <2>1, <2>4 DEF Skip
    <3>3. Complete'
      BY <2>1, <3>2 DEF Complete, Settled, Imported
    <3> QED BY <1>1, <3>1, <3>3
  <2> QED BY <1>2, <2>3, <2>4
\* A step of the import, and its end.
<1>3. ASSUME NEW n \in Node, Importing(n), \A m \in Node \ {n} : node'[m] = node[m],
             Importing(n)' => SmoothAt(n)', ~Importing(n)' => Complete'
      PROVE  Smooth
  <2>1. \A m \in Node \ {n} : At(m, "down")'
    BY <1>1, <1>3 DEF AloneAt, At
  <2>2. \A m \in Node \ {n} : ~Importing(m)'
    BY <2>1 DEF At, Importing
  <2> QED BY <1>1, <1>3, <2>2
<1>4. ASSUME NEW n \in Node, Adopting(n) \/ Moving(n), ~Adopt(n), ~Skip(n)
      PROVE  /\ Importing(n) /\ SmoothAt(n) /\ AloneAt(n)
             /\ \A m \in Node \ {n} : node'[m] = node[m]
             /\ UNCHANGED deleted /\ deleted = {}
  <2>1. Importing(n)
    BY <1>4 DEF Adopting, Moving, SaveDefaults, Fatal, DefaultsDone, SaveEnv, EnvDone, Read, ReadFails, FilesDone,
                Insert, InsertFails, Rename, At, Importing
  <2>2. \A m \in Node \ {n} : node'[m] = node[m]
    BY <1>0, <1>4 DEF Adopting, Moving, SaveDefaults, Fatal, DefaultsDone, SaveEnv, EnvDone, Read, ReadFails,
                FilesDone, Insert, InsertFails, Rename, NextFile, Move
  <2>3. UNCHANGED deleted
    BY <1>4 DEF Adopting, Moving, SaveDefaults, Fatal, DefaultsDone, SaveEnv, EnvDone, Read, ReadFails, FilesDone,
                Insert, InsertFails, Rename, Fails
  <2> QED BY <1>1, <2>1, <2>2, <2>3 DEF AloneAt
<1> HIDE DEF Smooth
<1>5. ASSUME NEW n \in Node, Adopting(n), ~Adopt(n), ~Skip(n) PROVE Smooth
  <2>1. /\ Importing(n) /\ SmoothAt(n) /\ \A m \in Node \ {n} : node'[m] = node[m]
        /\ UNCHANGED <<file, rows>> /\ node[n].stage \in {"defaults", "env"}
        /\ node[n].at = 1 /\ node[n].todo \subseteq Section
    BY <1>0, <1>4, <1>5, Files DEF Adopting, SaveDefaults, Fatal, DefaultsDone, SaveEnv, EnvDone, At, PlaceInv, State
  <2>2. ~Fatal(n)
    BY DEF Fatal, Fails
  <2>3. \A k \in Steps : file[Order[k]] = "there"
    BY <2>1, Files DEF SmoothAt
  <2>4. ASSUME node'[n].stage \in {"defaults", "env", "read"}, node'[n].at = 1,
               \A s \in Section :
                 settings'[s] = CASE At(n, "defaults")' -> IF s \in node'[n].todo THEN "none" ELSE "default"
                                 [] At(n, "env")'      -> IF s \in Env \ node'[n].todo THEN "env" ELSE "default"
                                 [] OTHER              -> Target(s)
        PROVE  Smooth
    <3>1. ~AtWork(n)' /\ Importing(n)'
      BY <2>4 DEF AtWork, Importing
    <3>2. \A k \in Steps : ~(k < node'[n].at) /\ file'[Order[k]] = "there"
      BY <2>1, <2>3, <2>4, Files
    <3>3. SmoothAt(n)'
      BY <2>4, <3>1, <3>2 DEF SmoothAt, Target
    <3> QED BY <1>3, <2>1, <3>1, <3>3
  <2>5. CASE SaveDefaults(n)
    <3>1. PICK s \in node[n].todo : /\ settings' = [settings EXCEPT ![s] = "default"]
                                    /\ Move(n, [node[n] EXCEPT !.todo = @ \ {s}])
      BY <2>5 DEF SaveDefaults
    <3>2. /\ node'[n].stage = "defaults" /\ node'[n].todo = node[n].todo \ {s} /\ node'[n].at = 1
      BY <1>0, <2>1, <2>5, <3>1 DEF SaveDefaults, Move, State, At
    <3>3. \A t \in Section : settings[t] = IF t \in node[n].todo THEN "none" ELSE "default"
      BY <2>1, <2>5 DEF SmoothAt, SaveDefaults, At
    <3>4. \A t \in Section : settings'[t] = IF t \in node'[n].todo THEN "none" ELSE "default"
      BY <1>0, <2>1, <3>1, <3>2, <3>3
    <3> QED BY <2>4, <3>2, <3>4 DEF At
  <2>6. CASE DefaultsDone(n)
    <3>1. node'[n].stage = "env" /\ node'[n].todo = Env /\ node'[n].at = 1 /\ UNCHANGED settings
      BY <1>0, <2>1, <2>6 DEF DefaultsDone, Move, State
    <3>2. \A t \in Section : settings[t] = "default"
      BY <2>1, <2>6 DEF SmoothAt, DefaultsDone, At
    <3> QED BY <2>4, <3>1, <3>2 DEF At
  <2>7. CASE SaveEnv(n)
    <3>1. PICK s \in node[n].todo : /\ settings' = [settings EXCEPT ![s] = "env"]
                                    /\ Move(n, [node[n] EXCEPT !.todo = @ \ {s}])
      BY <2>7 DEF SaveEnv, Fails
    <3>2. /\ node'[n].stage = "env" /\ node'[n].todo = node[n].todo \ {s} /\ node'[n].at = 1
          /\ s \in Env
      BY <1>0, <2>1, <2>7, <3>1 DEF SaveEnv, Move, State, At, PlaceInv
    <3>3. \A t \in Section : settings[t] = IF t \in Env \ node[n].todo THEN "env" ELSE "default"
      BY <2>1, <2>7 DEF SmoothAt, SaveEnv, At
    <3>4. \A t \in Section : settings'[t] = IF t \in Env \ node'[n].todo THEN "env" ELSE "default"
      BY <1>0, <2>1, <3>1, <3>2, <3>3
    <3> QED BY <2>4, <3>2, <3>4 DEF At
  <2>8. CASE EnvDone(n)
    <3>1. node'[n].stage = "read" /\ node'[n].at = 1 /\ UNCHANGED settings
      BY <1>0, <2>8 DEF EnvDone, Move, Down
    <3>2. \A t \in Section : settings[t] = Target(t)
      BY <2>1, <2>8 DEF SmoothAt, EnvDone, At, Target
    <3>3. ~At(n, "defaults")' /\ ~At(n, "env")'
      BY <3>1 DEF At
    <3> QED BY <2>4, <3>1, <3>2, <3>3
  <2> QED BY <1>5, <2>2, <2>5, <2>6, <2>7, <2>8 DEF Adopting
<1>6. ASSUME NEW n \in Node, Moving(n) PROVE Smooth
  <2>p. PICK k0, p : k0 = node[n].at /\ p = node[n].part
    OBVIOUS
  <2> DEFINE f == Order[k0]
  <2>c. Current(n) = f
    BY <2>p DEF Current
  <2>0. ~Adopt(n) /\ ~Skip(n)
    BY <1>6 DEF Moving, Adopt, Skip, Start, Read, ReadFails, FilesDone, Insert, InsertFails, Rename, At
  <2>1. /\ Importing(n) /\ SmoothAt(n) /\ AloneAt(n) /\ \A m \in Node \ {n} : node'[m] = node[m]
        /\ UNCHANGED <<settings, deleted>> /\ deleted = {}
        /\ node[n].stage \in {"read", "insert", "rename"}
    BY <1>4, <1>6, <2>0 DEF Moving, Read, ReadFails, FilesDone, Insert, InsertFails, Rename, At
  <2>2. /\ \A s \in Section : settings[s] = Target(s)
        /\ AtWork(n) => f \notin Corrupt /\ \A i \in Part : Through(n, i) => rows[f][i] = 1
        /\ \A k \in Steps : IF k < k0 THEN Imported(Order[k]) ELSE file[Order[k]] = "there"
        /\ \A k \in Steps, i \in Part : Ahead(n, k, i) => rows[Order[k]][i] = 0
    BY <2>1, <2>p, <2>c DEF SmoothAt, AloneAt, At
  <2>3. ~ReadFails(n)
    BY DEF ReadFails, Fails
  <2>4. ASSUME node'[n].stage \in {"read", "insert", "rename"},
               AtWork(n)' => Current(n)' \notin Corrupt /\ \A i \in Part : Through(n, i)' => rows'[Current(n)'][i] = 1,
               \A k \in Steps : IF k < node'[n].at THEN Imported(Order[k])' ELSE file'[Order[k]] = "there"
        PROVE  Smooth
    <3>1. Importing(n)' /\ ~At(n, "defaults")' /\ ~At(n, "env")'
      BY <2>4 DEF Importing, At
    <3>2. \A s \in Section : settings'[s] = Target(s)'
      BY <2>1, <2>2 DEF Target
    <3>3. SmoothAt(n)'
      BY <2>4, <3>1, <3>2 DEF SmoothAt
    <3> QED BY <1>3, <2>1, <3>1, <3>3
  <2>5. /\ k0 \in Nat /\ Steps = 1 .. Len(Order) /\ Len(Order) \in Nat
        /\ p \in Part
    BY <1>0, <2>p, Files DEF State
  \* On to the next file, when this one is as it should be.
  <2>6. ASSUME NextFile(n), k0 \in Steps, Imported(f)',
               \A k \in Steps \ {k0} : UNCHANGED <<file[Order[k]], rows[Order[k]]>>
        PROVE  Smooth
    <3>1. node'[n].stage = "read" /\ node'[n].at = k0 + 1
      BY <1>0, <2>6, <2>p DEF NextFile, Move, Down
    <3>2. ASSUME NEW k \in Steps
          PROVE  IF k < k0 + 1 THEN Imported(Order[k])' ELSE file'[Order[k]] = "there"
      <4>1. CASE k = k0
        BY <2>5, <2>6, <4>1 DEF Imported
      <4>2. CASE k # k0
        BY <2>1, <2>2, <2>5, <2>6, <4>2 DEF Imported
      <4> QED BY <4>1, <4>2
    <3> QED BY <2>4, <3>1, <3>2 DEF AtWork
  <2>7. CASE Read(n)
    <3>1. k0 \in Steps /\ f \in File /\ file[f] = "there" /\ UNCHANGED <<file, rows>> /\ p = 1
      BY <2>2, <2>5, <2>7, <2>p, <2>c, AtFile DEF Read, PlaceInv, AtWork, At
    <3>2. CASE f \in Corrupt
      <4>1. Imported(f)'
        BY <3>1, <3>2 DEF Imported
      <4> QED BY <2>6, <2>7, <2>c, <3>1, <3>2, <4>1 DEF Read
    <3>3. CASE f \notin Corrupt
      <4>1. /\ node'[n].stage = "insert" /\ node'[n].at = k0 /\ node'[n].part = 1
        <5>1. node'[n] = [node[n] EXCEPT !.stage = "insert"]
          BY <1>0, <2>7, <2>c, <3>1, <3>3 DEF Read, Move
        <5> QED BY <1>0, <2>p, <3>1, <5>1 DEF State
      <4>2. Current(n)' = f /\ \A i \in Part : ~Through(n, i)'
        BY <4>1 DEF Current, Through, At, Part
      <4>3. \A k \in Steps : IF k < k0 THEN Imported(Order[k])' ELSE file'[Order[k]] = "there"
        BY <2>1, <2>2, <3>1 DEF Imported
      <4> QED BY <2>4, <3>3, <4>1, <4>2, <4>3
    <3> QED BY <3>2, <3>3
  <2>8. CASE FilesDone(n)
    <3>1. ~Importing(n)' /\ UNCHANGED <<file, rows>>
      BY <1>0, <2>8 DEF FilesDone, Move, Running, Down, Importing
    <3>2. \A g \in File : \E k \in Steps : g = Order[k]
      BY DEF File, ToSet, Steps
    <3>3. ASSUME NEW g \in File PROVE Imported(g)
      <4>1. PICK k \in Steps : g = Order[k]
        BY <3>2
      <4>2. Imported(Order[k])
        BY <2>2, <2>5, <2>8, <2>p DEF FilesDone
      <4> QED BY <4>1, <4>2
    <3>4. Complete'
      BY <2>1, <2>2, <3>1, <3>3 DEF Complete, Settled, Target, Imported
    <3> QED BY <1>3, <2>1, <3>1, <3>4
  <2>9. CASE At(n, "insert") \/ At(n, "rename")
    <3>1. k0 \in Steps /\ f = Order[k0] /\ f \in File /\ AtWork(n) /\ f \notin Corrupt
          /\ file[f] = "there"
      BY <2>2, <2>5, <2>9, <2>p, <2>c, AtFile DEF AtWork, At
    <3>2. \A k \in Steps \ {k0} : Order[k] \in File /\ Order[k] # f
      BY <3>1, Files DEF Steps
    <3>3. At(n, "insert") => \A i \in Part : rows[f][i] = IF i < p THEN 1 ELSE 0
      BY <2>2, <2>5, <2>p, <3>1 DEF Through, Ahead, At, Part
    <3>4. CASE Insert(n)
      <4>1. /\ rows' = [rows EXCEPT ![f][p] = @ + 1] /\ UNCHANGED file /\ At(n, "insert")
        BY <3>4, <2>p, <2>c DEF Insert
      <4>a. /\ \A i \in Part : rows'[f][i] = IF i = p THEN rows[f][i] + 1 ELSE rows[f][i]
            /\ \A g \in File : g # f => rows'[g] = rows[g]
        BY <1>0, <3>1, <4>1
      <4>2. \A i \in Part : rows'[f][i] = IF i < p \/ i = p THEN 1 ELSE 0
        BY <2>5, <3>3, <4>1, <4>a DEF Part
      <4>3. /\ node'[n].stage \in {"insert", "rename"} /\ node'[n].at = k0
            /\ \A i \in Part : Through(n, i)' => i < p \/ i = p
        <5>1. CASE p = Parts
          <6>1. node'[n] = [node[n] EXCEPT !.stage = "rename"]
            BY <1>0, <2>p, <3>4, <5>1 DEF Insert, Move
          <6> QED BY <1>0, <2>5, <2>p, <5>1, <6>1 DEF State, Part
        <5>2. CASE p # Parts
          <6>1. node'[n] = [node[n] EXCEPT !.part = p + 1] /\ node[n].stage = "insert"
            BY <1>0, <2>p, <3>4, <5>2 DEF Insert, Move, At
          <6>2. node'[n].stage = "insert" /\ node'[n].at = k0 /\ node'[n].part = p + 1
            BY <1>0, <2>p, <6>1 DEF State
          <6> QED BY <2>5, <6>2 DEF Through, At, Part
        <5> QED BY <5>1, <5>2
      <4>4. Current(n)' = f
        BY <4>3 DEF Current
      <4>5. \A k \in Steps : IF k < k0 THEN Imported(Order[k])' ELSE file'[Order[k]] = "there"
        BY <2>1, <2>2, <2>5, <3>2, <4>1, <4>a DEF Imported
      <4> QED BY <2>4, <3>1, <4>2, <4>3, <4>4, <4>5
    <3>5. ~InsertFails(n)
      <4>1. ~Fails("database")
        BY DEF Fails
      <4>2. At(n, "insert") => Insertable(f, p)
        <5>1. CASE Lenient(f, p)
          BY <2>5, <3>3, <5>1 DEF Insertable, Lenient, Part
        <5>2. CASE ~Lenient(f, p)
          BY <2>5, <3>3, <5>2 DEF Insertable, Part
        <5> QED BY <5>1, <5>2
      <4> QED BY <4>1, <4>2, <2>p, <2>c DEF InsertFails
    <3>6. CASE Rename(n)
      <4>1. /\ file' = [file EXCEPT ![f] = "migrated"] /\ UNCHANGED rows /\ NextFile(n)
            /\ At(n, "rename")
        BY <2>c, <3>6 DEF Rename, Fails
      <4>2. \A i \in Part : rows[f][i] = 1
        BY <2>2, <3>1, <4>1 DEF Through
      <4>3. Imported(f)'
        BY <1>0, <2>1, <3>1, <4>1, <4>2 DEF Imported
      <4>4. \A k \in Steps \ {k0} : UNCHANGED <<file[Order[k]], rows[Order[k]]>>
        BY <1>0, <3>2, <4>1
      <4> QED BY <2>6, <3>1, <4>1, <4>3, <4>4
    <3> QED BY <1>6, <2>3, <2>9, <3>4, <3>5, <3>6 DEF Moving, Read, FilesDone, At
  <2> QED BY <1>6, <2>3, <2>7, <2>8, <2>9 DEF Moving, Insert, InsertFails, Rename
<1>7. ASSUME NEW n \in Node, Stop(n) \/ Edit(n) \/ Delete(n) PROVE Smooth
  <2>1. At(n, "running")
    BY <1>7, <1>1 DEF Stop, Edit, Delete, At, Importing
  <2>2. \A m \in Node : ~Importing(m)
    BY <1>1, <2>1 DEF AloneAt, Importing, At
  <2>3. \A m \in Node : ~Importing(m)'
    <3>1. node' = node \/ node' = [node EXCEPT ![n] = Down]
      BY <1>7 DEF Stop, Edit, Delete, Move
    <3>2. ASSUME NEW m \in Node PROVE node'[m] = node[m] \/ node'[m] = Down
      BY <1>0, <3>1
    <3>3. Down.stage = "down"
      BY DEF Down
    <3> QED BY <2>2, <3>2, <3>3 DEF Importing
  <2>4. Complete
    BY <1>1, <2>1, <2>2 DEF SavedInv, At
  <2>5. Complete'
    <3>1. CASE Stop(n)
      BY <2>4, <3>1 DEF Stop, Complete, Settled, Target, Imported
    <3>2. CASE Edit(n)
      BY <1>0, <2>4, <3>2 DEF Edit, Complete, Settled, Target, Imported
    <3>3. CASE Delete(n)
      <4>1. PICK f \in File : /\ rows' = [rows EXCEPT ![f] = [i \in Part |-> 0]]
                              /\ deleted' = deleted \cup {f} /\ UNCHANGED <<file, settings>>
        BY <3>3 DEF Delete
      <4> QED BY <1>0, <2>4, <4>1 DEF Complete, Settled, Target, Imported
    <3> QED BY <1>7, <3>1, <3>2, <3>3
  <2> QED BY <1>1, <2>3, <2>5 DEF Smooth
<1>8. CASE UNCHANGED vars
  <2>1. UNCHANGED <<settings, file, rows, node, deleted>>
    BY <1>8 DEF vars
  <2>2. \A n \in Node : SmoothAt(n)' = SmoothAt(n) /\ Importing(n)' = Importing(n)
    BY <2>1 DEF SmoothAt, Importing, Current, Through, At, AtWork, Imported, Target
  <2>3. Empty' = Empty /\ Complete' = Complete
    BY <2>1 DEF Empty, Complete, Settled, Target, Imported
  <2> QED BY <1>1, <2>2, <2>3 DEF Smooth
<1> QED BY <1>2, <1>5, <1>6, <1>7, <1>8 DEF Next, Smooth

-----------------------------------------------------------------------------
\* The inductive invariant: where the instances are, what is stored, and how
\* far an import by itself and one that nothing disturbs have come.
THEOREM ImportInvariant == Spec => []ImportInv
<1>1. ImportInv /\ [Next]_vars => ImportInv'
  BY TypeStep, PlaceStep, SavedStep, StoredStep, AloneStep, SmoothStep DEF ImportInv
<1> QED BY ImportInit, <1>1, PTL DEF Spec

\* The variables keep their types, and no use is stored without its code.
THEOREM TypeCorrect == Spec => []TypeOK
BY ImportInvariant, PTL DEF ImportInv

\* A file is renamed to *.migrated only after its rows are in their table,
\* whatever has failed and whoever imports at the same time.
THEOREM RenamedIsStoredTheorem == Spec => []RenamedIsStored
BY ImportInvariant, PTL DEF ImportInv

\* Nothing is imported twice unless two instances import together.
THEOREM ImportedOnceTheorem == Spec => []ImportedOnce
<1>1. ImportInv => ImportedOnce
  BY DEF ImportInv, AloneInv, ImportedOnce
<1> QED BY <1>1, ImportInvariant, PTL

\* Once an instance runs after imports that nothing disturbed, every setting
\* and every readable file is there.
THEOREM ImportIsCompleteTheorem == Spec => []ImportIsComplete
<1>1. ASSUME ImportInv PROVE ImportIsComplete
  <2> SUFFICES ASSUME smooth, NEW n \in Node, At(n, "running") PROVE Complete
    BY DEF ImportIsComplete, Complete, Settled, Target, Imported
  <2>1. \A m \in Node : ~Importing(m)
    BY <1>1 DEF ImportInv, SmoothInv, AloneInv, AloneAt, Importing, At
  <2> QED BY <1>1, <2>1 DEF ImportInv, SmoothInv, SavedInv, At
<1> QED BY <1>1, ImportInvariant, PTL

\* What an operator edits or deletes in the console no later start resets or
\* brings back.
THEOREM OperatorDecidesTheorem == Spec => OperatorDecides
<1> DEFINE kept == ~accompanied' => /\ \A s \in Section : settings[s] = "edited" => settings'[s] = "edited"
                                    /\ \A f \in deleted : rows'[f] = rows[f]
<1>1. ASSUME ImportInv, ImportInv', [Next]_vars, ~accompanied'
      PROVE  /\ \A s \in Section : settings[s] = "edited" => settings'[s] = "edited"
             /\ \A f \in deleted : rows'[f] = rows[f]
  <2> USE DEF history
  <2>1. /\ settings \in [Section -> Value] /\ rows \in [File -> [Part -> Nat]] /\ deleted \subseteq File
        /\ rows' \in [File -> [Part -> Nat]]
    BY <1>1 DEF ImportInv, TypeOK
  <2>2. ~accompanied /\ deleted \subseteq deleted'
    <3>1. ASSUME NEW n \in Node, Adopting(n) PROVE (accompanied => accompanied') /\ UNCHANGED deleted
      <4>1. CASE Start(n)
        BY <4>1 DEF Start
      <4>2. CASE Fails("database") \/ UNCHANGED history
        BY <4>2 DEF Fails
      <4> QED BY <3>1, <4>1, <4>2 DEF Adopting, Adopt, Skip, SaveDefaults, Fatal, DefaultsDone, SaveEnv, EnvDone
    <3>2. ASSUME NEW n \in Node, Moving(n) \/ Stop(n) \/ Edit(n) PROVE UNCHANGED <<accompanied, deleted>>
      BY <3>2 DEF Moving, Read, ReadFails, FilesDone, Insert, InsertFails, Rename, Fails, Stop, Edit
    <3>3. ASSUME NEW n \in Node, Delete(n) PROVE UNCHANGED accompanied /\ deleted \subseteq deleted'
      BY <3>3 DEF Delete
    <3> QED BY <1>1, <3>1, <3>2, <3>3 DEF Next, vars
  <2>3. \A f \in deleted, i \in Part : rows[f][i] = 0 /\ rows'[f][i] = 0
    BY <1>1, <2>2 DEF ImportInv, AloneInv
  <2>4. ASSUME NEW f \in deleted PROVE rows'[f] = rows[f]
    <3>1. rows[f] \in [Part -> Nat] /\ rows'[f] \in [Part -> Nat]
      BY <2>1
    <3> QED BY <2>3, <3>1
  <2>5. ASSUME NEW s \in Section, settings[s] = "edited" PROVE settings'[s] = "edited"
    <3>1. \A n \in Node : ~Importing(n)
      BY <1>1, <2>2, <2>5 DEF ImportInv, AloneInv, AloneAt
    <3>2. \A n \in Node : ~SaveDefaults(n) /\ ~SaveEnv(n)
      BY <3>1 DEF SaveDefaults, SaveEnv, Importing, At
    <3> QED BY <1>1, <2>1, <2>5, <3>2 DEF Next, Adopting, Moving, Adopt, Skip, Start, Fatal, DefaultsDone,
         EnvDone, Read, ReadFails, FilesDone, Insert, InsertFails, Rename, Stop, Edit, Delete, vars
  <2> QED BY <2>4, <2>5
<1>2. ImportInv /\ ImportInv' /\ [Next]_vars => [kept]_vars
  BY <1>1
<1> QED BY <1>2, ImportInvariant, PTL DEF Spec, OperatorDecides
=============================================================================
