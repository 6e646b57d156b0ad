------------------------------ MODULE Denylist ------------------------------
(***************************************************************************)
(* The denied devices (store_denylist.go): a table keyed by MAC, an        *)
(* administrator who bans and unbans, and uploads of many MACs.            *)
(*                                                                         *)
(* An upload is one transaction of one INSERT per line.  Until it commits  *)
(* nobody sees its rows, and another INSERT of such a MAC waits for it;    *)
(* the database ends one of two uploads that wait for each other, which is *)
(* one of the ways in which an upload may fail.                            *)
(***************************************************************************)
EXTENDS Sequences, FiniteSets, SequencesExt

CONSTANTS
  Mac,     \* devices
  File,    \* files an administrator may upload: sequences of lines
  Upload,  \* uploads at the same time
  None     \* a line that is not a MAC

ASSUME FileAssumption == File \subseteq Seq(Mac \cup {None}) /\ None \notin Mac

VARIABLES
  denied,   \* the committed rows
  upload,   \* upload[u]: a transaction of AddMACMany, or what came of it
  made      \* history: made[u], the rows that upload u has made visible

denyVars == <<denied, upload, made>>

Line    == Mac \cup {None}
Uploads == [stage : {"idle", "rows", "done"}, todo : Seq(Line), fresh : SUBSET Mac,
            added : Nat, skipped : Nat]
NoUpload == [stage |-> "idle", todo |-> <<>>, fresh |-> {}, added |-> 0, skipped |-> 0]
\* With lines to do, and uncommitted rows, and with its counters returned.
Open(todo, fresh, added, skipped) ==
  [stage |-> "rows", todo |-> todo, fresh |-> fresh, added |-> added, skipped |-> skipped]
Answer(added, skipped) ==
  [stage |-> "done", todo |-> <<>>, fresh |-> {}, added |-> added, skipped |-> skipped]
Becomes(u, r) == upload' = [upload EXCEPT ![u] = r]

\* MACs with a row that is not committed.
Pending == UNION {upload[u].fresh : u \in Upload}

-----------------------------------------------------------------------------
(* AddMAC, DeleteMAC, DeleteAllMACs.                                       *)

\* INSERT ... DO NOTHING: the row it makes, or the one it finds. When that one
\* is deleted before it is read, AddMAC fails and nothing has changed.
Ban(m) ==
  /\ m \notin Pending
  /\ denied' = denied \cup {m}
  /\ UNCHANGED <<upload, made>>

Unban(m) ==
  /\ m \in denied
  /\ denied' = denied \ {m}
  /\ UNCHANGED <<upload, made>>

UnbanAll ==
  /\ denied # {}
  /\ denied' = {}
  /\ UNCHANGED <<upload, made>>

-----------------------------------------------------------------------------
(* handleDenylistImportCSV, AddMACMany.                                    *)

BeginUpload(u) ==
  /\ upload[u].stage # "rows"
  /\ \E f \in File : Becomes(u, Open(f, {}, 0, 0))
  /\ made' = [made EXCEPT ![u] = {}]
  /\ UNCHANGED denied

\* Mutation: whatever stands in the file is inserted.
SkipsKnown(u, line) == line \in denied \cup upload[u].fresh

\* A line that is not a MAC, or one with a row, of the table or of this upload.
Skips(u, line) == line = None \/ line \in denied \cup upload[u].fresh

InsertLine(u) ==
  /\ upload[u].stage = "rows" /\ upload[u].todo # <<>>
  /\ LET r == upload[u]  line == Head(r.todo)
     IN  IF Skips(u, line) THEN Becomes(u, Open(Tail(r.todo), r.fresh, r.added, r.skipped + 1))
         ELSE /\ line \notin Pending
              /\ Becomes(u, Open(Tail(r.todo), r.fresh \cup {line}, r.added + 1, r.skipped))
  /\ UNCHANGED <<denied, made>>

CommitUpload(u) ==
  /\ upload[u].stage = "rows" /\ upload[u].todo = <<>>
  /\ denied' = denied \cup upload[u].fresh
  /\ made' = [made EXCEPT ![u] = upload[u].fresh \ denied]
  /\ Becomes(u, Answer(upload[u].added, upload[u].skipped))

\* Mutation: the counters of the failed transaction are returned.
UploadFailsCounted(u) ==
  /\ upload[u].stage = "rows"
  /\ Becomes(u, Answer(upload[u].added, upload[u].skipped + Len(upload[u].todo)))
  /\ UNCHANGED <<denied, made>>

\* A statement or the commit: rolled back, and all lines reported as skipped.
UploadFails(u) ==
  /\ upload[u].stage = "rows"
  /\ LET r == upload[u] IN Becomes(u, Answer(0, r.added + r.skipped + Len(r.todo)))
  /\ UNCHANGED <<denied, made>>

\* The process ends: its transactions are rolled back.
StopUploads ==
  /\ upload' = [u \in Upload |-> IF upload[u].stage = "rows" THEN NoUpload ELSE upload[u]]
  /\ UNCHANGED <<denied, made>>

DenyInit ==
  /\ denied \in SUBSET Mac
  /\ upload = [u \in Upload |-> NoUpload]
  /\ made = [u \in Upload |-> {}]

Uploading(u) == BeginUpload(u) \/ InsertLine(u) \/ CommitUpload(u) \/ UploadFails(u)
Unbanning == UnbanAll \/ \E m \in Mac : Unban(m)

-----------------------------------------------------------------------------
(* Correctness.                                                            *)

DenyTypeOK ==
  /\ denied \subseteq Mac
  /\ upload \in [Upload -> Uploads]
  /\ made \in [Upload -> SUBSET Mac]

\* An upload tells the administrator how many devices it has banned: that many
\* rows became visible by it, none when it failed half-way, whoever bans and
\* unbans meanwhile; "the caller reports exact added/skipped counts" (AddMACMany).
UploadReportsTruth ==
  \A u \in Upload : upload[u].stage = "done" => upload[u].added = Cardinality(made[u])
=============================================================================
