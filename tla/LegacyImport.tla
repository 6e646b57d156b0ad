---------------------------- MODULE LegacyImport ----------------------------
(***************************************************************************)
(* The one-time import (migrate_legacy.go) of an installation that kept    *)
(* its settings in the environment and its state in files, by instances    *)
(* that start on one database and one data directory, and the console of   *)
(* those that run.                                                         *)
(*                                                                         *)
(* A statement, a read of a file and a rename each end a step.  The parts  *)
(* of a file are the statements that write its rows: batches, and for the  *)
(* guest codes the batch of their uses at the end.                         *)
(***************************************************************************)
EXTENDS Naturals, Sequences, SequencesExt

CONSTANTS
  Node,    \* instances
  Section, \* sections of the settings; each has defaults
  Env,     \* those with a variable in the environment
  Order,   \* the state files, in the order of the import
  Codes,   \* the file of the guest codes and their uses
  Events,  \* the file of the events, whose rows have no key of their own
  Parts,   \* statements per file
  Corrupt, \* files that do not parse
  Faults   \* what may go wrong: subset of {"database", "disk", "crash"}

File == ToSet(Order)

ASSUME EnvAssumption   == Env \subseteq Section /\ Corrupt \subseteq File
ASSUME PartsAssumption == Parts \in Nat \ {0} /\ Section # {}
\* The import names each file once, that of the codes among them,
\* which is not that of the events.
ASSUME OrderAssumption ==
  /\ Order \in Seq(File) /\ Codes \in File /\ Codes # Events
  /\ \A i, j \in DOMAIN Order : Order[i] = Order[j] => i = j

VARIABLES
  settings,    \* settings[s]: what the table has of a section
  file,        \* file[f]: under its name, or renamed
  rows,        \* rows[f][i]: how often part i of f is in its table
  node,        \* node[n]: how far instance n is
  deleted,     \* history: files whose rows an operator has deleted
  accompanied, \* history: an instance was started while another imported
  smooth       \* history: neither that, nor a crash or a failure in an import

history == <<deleted, accompanied, smooth>>
vars    == <<settings, file, rows, node, history>>

Part  == 1 .. Parts
Value == {"none", "default", "env", "edited"}
Stage == {"down", "defaults", "env", "read", "insert", "rename", "running"}
\* todo: sections to be saved; at, part: the file and the part at hand.
State == [stage : Stage, todo : SUBSET Section, at : 1 .. Len(Order) + 1, part : Part]
Down  == [stage |-> "down", todo |-> {}, at |-> 1, part |-> 1]
Running == [Down EXCEPT !.stage = "running"]

At(n, stage)  == node[n].stage = stage
Move(n, next) == node' = [node EXCEPT ![n] = next]
Importing(n)  == node[n].stage \notin {"down", "running"}
Current(n)    == Order[node[n].at]
May(fault)    == fault \in Faults
Fails(fault)  == May(fault) /\ smooth' = FALSE /\ UNCHANGED <<deleted, accompanied>>

-----------------------------------------------------------------------------
(* importLegacyState.                                                      *)

\* Mutation: an installation without guest codes counts as a new one.
EmptyByCodes == \A i \in Part : rows[Codes][i] = 0

\* dbstore.IsEmpty.
Empty == \A s \in Section : settings[s] = "none"

Start(n) ==
  /\ At(n, "down")
  /\ accompanied' = (accompanied \/ \E m \in Node : Importing(m))
  /\ smooth' = (smooth /\ ~accompanied')
  /\ UNCHANGED <<settings, file, rows, deleted>>

Adopt(n) ==
  /\ Start(n) /\ Empty
  /\ Move(n, [Down EXCEPT !.stage = "defaults", !.todo = Section])

Skip(n) ==
  /\ Start(n) /\ ~Empty
  /\ Move(n, Running)

\* The sections come in the order of a Go map.
SaveDefaults(n) ==
  /\ At(n, "defaults") /\ node[n].todo # {}
  /\ \E s \in node[n].todo :
       /\ settings' = [settings EXCEPT ![s] = "default"]
       /\ Move(n, [node[n] EXCEPT !.todo = @ \ {s}])
  /\ UNCHANGED <<file, rows, history>>

\* The import returns the error, and run ends the process.
Fatal(n) ==
  /\ At(n, "defaults") /\ node[n].todo # {}
  /\ Fails("database")
  /\ Move(n, Down)
  /\ UNCHANGED <<settings, file, rows>>

DefaultsDone(n) ==
  /\ At(n, "defaults") /\ node[n].todo = {}
  /\ Move(n, [node[n] EXCEPT !.stage = "env", !.todo = Env])
  /\ UNCHANGED <<settings, file, rows, history>>

\* importEnvSettings; a section that fails is left out.
SaveEnv(n) ==
  /\ At(n, "env")
  /\ \E s \in node[n].todo :
       /\ Move(n, [node[n] EXCEPT !.todo = @ \ {s}])
       /\ \/ settings' = [settings EXCEPT ![s] = "env"] /\ UNCHANGED history
          \/ Fails("database") /\ UNCHANGED settings
  /\ UNCHANGED <<file, rows>>

EnvDone(n) ==
  /\ At(n, "env") /\ node[n].todo = {}
  /\ Move(n, [Down EXCEPT !.stage = "read"])
  /\ UNCHANGED <<settings, file, rows, history>>

-----------------------------------------------------------------------------
(* importLegacyStateFiles.                                                 *)

NextFile(n) == Move(n, [Down EXCEPT !.stage = "read", !.at = node[n].at + 1])

\* Mutation: a file that does not parse ends the import.
ReadOrEnd(n) ==
  /\ At(n, "read") /\ node[n].at <= Len(Order)
  /\ IF file[Current(n)] = "there" /\ Current(n) \notin Corrupt
       THEN Move(n, [node[n] EXCEPT !.stage = "insert"])
       ELSE Move(n, Running)
  /\ UNCHANGED <<settings, file, rows, history>>

\* A file that is not there, or does not parse, is passed over.
Read(n) ==
  /\ At(n, "read") /\ node[n].at <= Len(Order)
  /\ IF file[Current(n)] = "there" /\ Current(n) \notin Corrupt
       THEN Move(n, [node[n] EXCEPT !.stage = "insert"])
       ELSE NextFile(n)
  /\ UNCHANGED <<settings, file, rows, history>>

ReadFails(n) ==
  /\ At(n, "read") /\ node[n].at <= Len(Order)
  /\ Fails("disk") /\ NextFile(n)
  /\ UNCHANGED <<settings, file, rows>>

FilesDone(n) ==
  /\ At(n, "read") /\ node[n].at > Len(Order)
  /\ Move(n, Running)
  /\ UNCHANGED <<settings, file, rows, history>>

\* The uses, whose loss does not keep the file from being renamed.
Lenient(f, i) == f = Codes /\ i = Parts /\ Parts > 1

\* Mutation: no foreign key.
InsertableAnyway(f, i) == f = Events \/ Lenient(f, i) \/ rows[f][i] = 0

\* A key that is taken and a use without its code fail the statement.
Insertable(f, i) ==
  \/ f = Events
  \/ Lenient(f, i) /\ \A j \in Part \ {i} : rows[f][j] > 0
  \/ ~Lenient(f, i) /\ rows[f][i] = 0

Insert(n) ==
  /\ At(n, "insert") /\ Insertable(Current(n), node[n].part)
  /\ rows' = [rows EXCEPT ![Current(n)][node[n].part] = @ + 1]
  /\ Move(n, IF node[n].part = Parts THEN [node[n] EXCEPT !.stage = "rename"]
                                     ELSE [node[n] EXCEPT !.part = @ + 1])
  /\ UNCHANGED <<settings, file, history>>

\* Mutation: the file is renamed whatever became of its rows.
InsertFailsRenames(n) ==
  /\ At(n, "insert")
  /\ \/ Fails("database")
     \/ ~Insertable(Current(n), node[n].part) /\ UNCHANGED history
  /\ Move(n, [node[n] EXCEPT !.stage = "rename"])
  /\ UNCHANGED <<settings, file, rows>>

\* The rows of the earlier parts stay: SkipDefaultTransaction lets every batch of
\* CreateInBatches commit by itself.
InsertFails(n) ==
  /\ At(n, "insert")
  /\ \/ Fails("database")
     \/ ~Insertable(Current(n), node[n].part) /\ UNCHANGED history
  /\ IF Lenient(Current(n), node[n].part)
       THEN Move(n, [node[n] EXCEPT !.stage = "rename"])
       ELSE NextFile(n)
  /\ UNCHANGED <<settings, file, rows>>

\* markMigrated; a failure, as when another instance was first, is logged.
Rename(n) ==
  /\ At(n, "rename")
  /\ \/ file' = [file EXCEPT ![Current(n)] = "migrated"] /\ UNCHANGED history
     \/ Fails("disk") /\ UNCHANGED file
  /\ NextFile(n)
  /\ UNCHANGED <<settings, rows>>

-----------------------------------------------------------------------------
(* The process, and the console of one that runs.                          *)

\* A crash, or the end of an instance that runs.
Stop(n) ==
  /\ May("crash") /\ ~At(n, "down")
  /\ Move(n, Down)
  /\ smooth' = (smooth /\ ~Importing(n))
  /\ UNCHANGED <<settings, file, rows, deleted, accompanied>>

Edit(n) ==
  /\ At(n, "running")
  /\ \E s \in Section : settings' = [settings EXCEPT ![s] = "edited"]
  /\ UNCHANGED <<file, rows, node, history>>

Delete(n) ==
  /\ At(n, "running")
  /\ \E f \in File :
       /\ \E i \in Part : rows[f][i] > 0
       /\ rows' = [rows EXCEPT ![f] = [i \in Part |-> 0]]
       /\ deleted' = deleted \cup {f}
  /\ UNCHANGED <<settings, file, node, accompanied, smooth>>

Init ==
  /\ settings = [s \in Section |-> "none"]
  /\ file = [f \in File |-> "there"]
  /\ rows = [f \in File |-> [i \in Part |-> 0]]
  /\ node = [n \in Node |-> Down]
  /\ deleted = {} /\ accompanied = FALSE /\ smooth = TRUE

Adopting(n) == Adopt(n) \/ Skip(n) \/ SaveDefaults(n) \/ Fatal(n) \/ DefaultsDone(n) \/ SaveEnv(n) \/ EnvDone(n)
Moving(n)   == Read(n) \/ ReadFails(n) \/ FilesDone(n) \/ Insert(n) \/ InsertFails(n) \/ Rename(n)

Next == \E n \in Node : Adopting(n) \/ Moving(n) \/ Stop(n) \/ Edit(n) \/ Delete(n)

Spec == Init /\ [][Next]_vars

-----------------------------------------------------------------------------
(* Correctness.                                                            *)

\* No use is without its code.
TypeOK ==
  /\ settings \in [Section -> Value]
  /\ file \in [File -> {"there", "migrated"}]
  /\ rows \in [File -> [Part -> Nat]]
  /\ \A i, j \in Part : Lenient(Codes, i) /\ rows[Codes][i] > 0 => rows[Codes][j] > 0
  /\ node \in [Node -> State]
  /\ deleted \subseteq File /\ accompanied \in BOOLEAN /\ smooth \in BOOLEAN

\* "Each file is renamed to *.migrated only after its rows are committed", but
\* for the uses, whose history may be missing.
RenamedIsStored ==
  \A f \in File \ deleted, i \in Part :
    file[f] = "migrated" /\ ~Lenient(f, i) => rows[f][i] > 0

\* "An operator who deletes every guest code must not have them resurrected",
\* nor find an edited setting reset: what was changed in the console stays,
\* through every restart, unless it was changed while an instance imported.
OperatorDecides ==
  [][~accompanied' =>
       /\ \A s \in Section : settings[s] = "edited" => settings'[s] = "edited"
       /\ \A f \in deleted : rows'[f] = rows[f]]_vars

\* Nothing is imported twice, however the import was interrupted.
ImportedOnce == ~accompanied => \A f \in File, i \in Part : rows[f][i] <= 1

\* "A file that cannot be parsed is reported and skipped", and everything else
\* is there when an instance runs, with the environment over the defaults.
ImportIsComplete ==
  smooth /\ (\E n \in Node : At(n, "running")) =>
    /\ \A s \in Section : settings[s] \in {"edited", IF s \in Env THEN "env" ELSE "default"}
    /\ \A f \in File :
         /\ file[f] = IF f \in Corrupt THEN "there" ELSE "migrated"
         /\ f \notin Corrupt \cup deleted => \A i \in Part : rows[f][i] = 1

\* A failure part-way "leaves the remaining files in place and the next start
\* retries them": a start without an import has nothing left to import.
NextStartRetries ==
  [][\A n \in Node : Skip(n) => \A f \in File \ Corrupt : file[f] = "migrated"]_vars
=============================================================================
