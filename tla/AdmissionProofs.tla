--------------------------- MODULE AdmissionProofs ---------------------------
(* What the gates, the uploads of the denylist and the count of guesses     *)
(* promise, for every number of devices, browsers, uploads and files.       *)
EXTENDS Admission, FiniteSetTheorems, TLAPS

GateTypes == /\ session \in [Session -> [stage : Stage, mac : Mac]]
             /\ open \in [Session -> BOOLEAN]

\* A request before its gate had its moment if it would be let through now, and
\* one behind it had it.
GateInv == \A s \in Session : /\ At(s, {"asked", "returned"}) /\ ~Denied(s) => open[s]
                              /\ At(s, {"guessing", "in"}) => open[s]

\* An upload counts its pending rows, the table has none of them and no other
\* upload has one.
RowsAt(u) ==
  /\ upload[u].fresh \subseteq Mac /\ IsFiniteSet(upload[u].fresh)
  /\ upload[u].fresh \cap denied = {}
  /\ upload[u].stage = "rows" => upload[u].added = Cardinality(upload[u].fresh) /\ made[u] = {}
  /\ upload[u].stage # "rows" => upload[u].fresh = {}
  /\ upload[u].stage = "done" => upload[u].added = Cardinality(made[u])

Apart == \A u, v \in Upload : u # v => upload[u].fresh \cap upload[v].fresh = {}

UploadTypes == /\ upload \in [Upload -> Uploads] /\ made \in [Upload -> SUBSET Mac]
               /\ denied \subseteq Mac

UploadInv == UploadTypes /\ Apart /\ \A u \in Upload : RowsAt(u)

-----------------------------------------------------------------------------
(* The gates.                                                              *)

LEMMA GateInit == Init => GateTypes /\ GateInv
BY DEF Init, GateTypes, GateInv, At, Stage

LEMMA GateStep == GateTypes /\ GateInv /\ [Next]_vars => GateTypes' /\ GateInv'
<1> SUFFICES ASSUME GateTypes, GateInv, [Next]_vars PROVE GateTypes' /\ GateInv'
  OBVIOUS
<1> USE DEF GateTypes, GateInv, At, Denied, MacOf, Stage
<1>1. ASSUME NEW s \in Session, Portal(s) PROVE GateTypes' /\ GateInv'
  BY <1>1 DEF Portal, Request, denyVars
<1>2. ASSUME NEW s \in Session, Proceed(s) \/ CallbackFails(s) \/ Lookup(s) PROVE GateTypes' /\ GateInv'
  BY <1>2 DEF Proceed, CallbackFails, Lookup, Go, Request, denyVars
<1>3. ASSUME NEW s \in Session, Callback(s) \/ Submit(s) PROVE GateTypes' /\ GateInv'
  <2>1. /\ open' = [open EXCEPT ![s] = session[s].mac \notin denied] /\ denied' = denied
        /\ \E g \in {"returned", "asked"} : session' = [session EXCEPT ![s].stage = g]
    BY <1>3 DEF Callback, Submit, Go, Request, denyVars
  <2>2. /\ session'[s].mac = session[s].mac /\ session'[s].stage \in {"returned", "asked"}
        /\ open'[s] = (session[s].mac \notin denied)
        /\ \A t \in Session \ {s} : session'[t] = session[t] /\ open'[t] = open[t]
    BY <2>1
  <2>3. GateTypes'
    BY <2>1
  <2> QED BY <2>1, <2>2, <2>3
<1>4. ASSUME NEW s \in Session, Admit(s) \/ Accept(s) \/ Miss(s) PROVE GateTypes' /\ GateInv'
  BY <1>4 DEF Admit, Accept, Grant, Miss, Go, Request, denyVars
<1>5. ASSUME NEW s \in Session, LookupFails(s) PROVE GateTypes' /\ GateInv'
  BY <1>5 DEF LookupFails, Go, Request, denyVars
<1>6. CASE Console
  BY <1>6 DEF Console, Banning, Listing, Witness, Busy, gateVars
<1>7. CASE ClearCounts \/ Prune \/ Tick \/ (\E w \in Window : SaveWindow(w)) \/ UNCHANGED vars
  BY <1>7 DEF ClearCounts, Prune, Tick, SaveWindow, vars, denyVars, gateVars
<1>8. CASE Restart
  BY <1>8 DEF Restart, StopUploads, Busy
<1> QED BY <1>1, <1>2, <1>3, <1>4, <1>5, <1>6, <1>7, <1>8 DEF Next, Browsing

-----------------------------------------------------------------------------
(* The uploads.                                                            *)

LEMMA EmptySet == IsFiniteSet({}) /\ Cardinality({}) = 0
BY FS_EmptySet

LEMMA UploadParts ==
  ASSUME NEW r \in Uploads
  PROVE  r.todo \in Seq(Line) /\ r.fresh \subseteq Mac /\ r.added \in Nat /\ r.skipped \in Nat
BY DEF Uploads

LEMMA UploadMade ==
  ASSUME NEW added \in Nat, NEW skipped \in Nat
  PROVE  /\ Answer(added, skipped) \in Uploads
         /\ \A todo \in Seq(Line), fresh \in SUBSET Mac : Open(todo, fresh, added, skipped) \in Uploads
BY DEF Uploads, Answer, Open

LEMMA UploadInit == Init => UploadInv
<1> SUFFICES ASSUME Init PROVE UploadInv
  OBVIOUS
<1>1. NoUpload \in Uploads
  BY DEF NoUpload, Uploads
<1> QED BY <1>1, EmptySet DEF Init, DenyInit, NoUpload, UploadInv, UploadTypes, Apart, RowsAt

\* Steps that leave the uploads alone and put nothing into the table that an
\* upload has pending.
LEMMA UploadKept ==
  ASSUME UploadInv, UNCHANGED <<upload, made>>, denied' \subseteq Mac,
         \A u \in Upload : upload[u].fresh \cap denied' = {}
  PROVE  UploadInv'
BY DEF UploadInv, UploadTypes, Apart, RowsAt

\* A step of one upload, which keeps apart from what the others have pending.
LEMMA UploadMoves ==
  ASSUME UploadInv, NEW u \in Upload, NEW r \in Uploads, Becomes(u, r),
         made' \in [Upload -> SUBSET Mac], \A v \in Upload \ {u} : made'[v] = made[v],
         denied' \subseteq Mac,
         \A v \in Upload \ {u} : upload[v].fresh \cap (denied' \cup r.fresh) = {},
         RowsAt(u)'
  PROVE  UploadInv'
<1>1. /\ upload' \in [Upload -> Uploads] /\ upload'[u] = r
      /\ \A v \in Upload \ {u} : upload'[v] = upload[v]
  BY DEF UploadInv, UploadTypes, Becomes
<1>2. \A v \in Upload \ {u} : RowsAt(v)'
  BY <1>1 DEF UploadInv, RowsAt
<1>3. Apart'
  BY <1>1 DEF UploadInv, Apart
<1> QED BY <1>1, <1>2, <1>3 DEF UploadInv, UploadTypes

LEMMA UploadStep == UploadInv /\ [Next]_vars => UploadInv'
<1> SUFFICES ASSUME UploadInv, [Next]_vars PROVE UploadInv'
  OBVIOUS
<1>0. /\ \A u \in Upload : RowsAt(u) /\ upload[u] \in Uploads
      /\ denied \subseteq Mac /\ Apart
  BY DEF UploadInv, UploadTypes
<1>1. CASE UNCHANGED <<denied, upload, made>>
  BY <1>0, <1>1, UploadKept DEF RowsAt
<1>2. ASSUME NEW m \in Mac, Ban(m) PROVE UploadInv'
  <2>1. \A u \in Upload : m \notin upload[u].fresh
    BY <1>2 DEF Ban, Pending
  <2> QED BY <1>0, <1>2, <2>1, UploadKept DEF Ban, RowsAt
<1>3. CASE Unbanning
  BY <1>0, <1>3, UploadKept DEF Unbanning, Unban, UnbanAll, RowsAt
<1>4. ASSUME NEW u \in Upload, BeginUpload(u) PROVE UploadInv'
  <2>1. PICK f \in File : Becomes(u, Open(f, {}, 0, 0))
    BY <1>4 DEF BeginUpload
  <2>2. f \in Seq(Line) /\ Open(f, {}, 0, 0) \in Uploads
    BY FileAssumption, UploadMade DEF Line
  <2>3. made' = [made EXCEPT ![u] = {}] /\ denied' = denied
    BY <1>4 DEF BeginUpload
  <2>4. upload'[u] = Open(f, {}, 0, 0) /\ made'[u] = {}
    BY <2>1, <2>3 DEF Becomes, UploadInv, UploadTypes
  <2>5. RowsAt(u)'
    BY <2>4, EmptySet DEF RowsAt, Open
  <2>6. made' \in [Upload -> SUBSET Mac] /\ \A v \in Upload \ {u} : made'[v] = made[v]
    BY <2>3 DEF UploadInv, UploadTypes
  <2>7. \A v \in Upload \ {u} : upload[v].fresh \cap (denied' \cup Open(f, {}, 0, 0).fresh) = {}
    BY <1>0, <2>3 DEF RowsAt, Open
  <2> QED BY <1>0, <2>1, <2>2, <2>3, <2>5, <2>6, <2>7, UploadMoves
<1>5. ASSUME NEW u \in Upload, InsertLine(u) PROVE UploadInv'
  <2> DEFINE r == upload[u]
             line == Head(r.todo)
  <2>1. r.stage = "rows" /\ r.todo # <<>> /\ UNCHANGED <<denied, made>>
    BY <1>5 DEF InsertLine
  <2>2. /\ r.todo \in Seq(Line) /\ r.fresh \subseteq Mac /\ r.added \in Nat /\ r.skipped \in Nat
    BY <1>0, UploadParts
  <2>3. line \in Line /\ Tail(r.todo) \in Seq(Line)
    BY <2>1, <2>2
  <2>4. made' \in [Upload -> SUBSET Mac] /\ \A v \in Upload \ {u} : made'[v] = made[v]
    BY <2>1 DEF UploadInv, UploadTypes
  <2>5. CASE Skips(u, line)
    <3> DEFINE q == Open(Tail(r.todo), r.fresh, r.added, r.skipped + 1)
    <3>0. q \in Uploads
      <4>1. r.skipped + 1 \in Nat /\ r.fresh \in SUBSET Mac
        BY <2>2
      <4> QED BY <2>2, <2>3, <4>1, UploadMade
    <3>1. Becomes(u, q) /\ q \in Uploads
      BY <1>5, <2>5, <3>0 DEF InsertLine
    <3>2. upload'[u] = q
      BY <3>1 DEF Becomes, UploadInv, UploadTypes
    <3>3. RowsAt(u)'
      BY <1>0, <2>1, <3>2 DEF RowsAt, Open
    <3>4. \A v \in Upload \ {u} : upload[v].fresh \cap (denied' \cup q.fresh) = {}
      BY <1>0, <2>1 DEF RowsAt, Open, Apart
    <3> QED BY <1>0, <2>1, <2>4, <3>1, <3>3, <3>4, UploadMoves
  <2>6. CASE ~Skips(u, line)
    <3> DEFINE q == Open(Tail(r.todo), r.fresh \cup {line}, r.added + 1, r.skipped)
    <3>1. /\ line \in Mac /\ line \notin denied /\ line \notin r.fresh
          /\ \A v \in Upload : line \notin upload[v].fresh
      BY <1>5, <2>3, <2>6 DEF Skips, Line, InsertLine, Pending
    <3>2. Becomes(u, q)
      BY <1>5, <2>6 DEF InsertLine
    <3>3. r.fresh \cup {line} \in SUBSET Mac /\ r.added + 1 \in Nat
      BY <2>2, <3>1
    <3>4. q \in Uploads
      BY <2>2, <2>3, <3>3, UploadMade
    <3>5. upload'[u] = q
      BY <3>2 DEF Becomes, UploadInv, UploadTypes
    <3>6. /\ IsFiniteSet(r.fresh \cup {line})
          /\ Cardinality(r.fresh \cup {line}) = Cardinality(r.fresh) + 1
      BY <1>0, <3>1, FS_AddElement DEF RowsAt
    <3>7. /\ r.added = Cardinality(r.fresh) /\ made[u] = {} /\ r.fresh \cap denied = {}
      BY <1>0, <2>1 DEF RowsAt
    <3>8. RowsAt(u)'
      BY <2>1, <3>1, <3>3, <3>5, <3>6, <3>7 DEF RowsAt, Open
    <3>9. \A v \in Upload \ {u} : upload[v].fresh \cap (denied' \cup q.fresh) = {}
      BY <1>0, <2>1, <3>1 DEF RowsAt, Open, Apart
    <3> QED BY <1>0, <2>1, <2>4, <3>2, <3>4, <3>8, <3>9, UploadMoves
  <2> QED BY <2>5, <2>6
<1>6. ASSUME NEW u \in Upload, CommitUpload(u) PROVE UploadInv'
  <2> DEFINE r == upload[u]
             q == Answer(r.added, r.skipped)
  <2>1. /\ Becomes(u, q) /\ denied' = denied \cup r.fresh /\ r.stage = "rows"
        /\ made' = [made EXCEPT ![u] = r.fresh \ denied]
    BY <1>6 DEF CommitUpload
  <2>2. /\ r.fresh \ denied = r.fresh /\ r.fresh \subseteq Mac
        /\ r.added = Cardinality(r.fresh) /\ q \in Uploads
    BY <1>0, <2>1, UploadParts, UploadMade DEF RowsAt
  <2>3. upload'[u] = q /\ made'[u] = r.fresh
    BY <2>1, <2>2 DEF Becomes, UploadInv, UploadTypes
  <2>4. RowsAt(u)'
    BY <2>2, <2>3, EmptySet DEF RowsAt, Answer
  <2>5. made' \in [Upload -> SUBSET Mac] /\ \A v \in Upload \ {u} : made'[v] = made[v]
    BY <2>1, <2>2 DEF UploadInv, UploadTypes
  <2>6. \A v \in Upload \ {u} : upload[v].fresh \cap (denied' \cup q.fresh) = {}
    BY <1>0, <2>1 DEF RowsAt, Answer, Apart
  <2> QED BY <1>0, <2>1, <2>2, <2>4, <2>5, <2>6, UploadMoves
<1>7. ASSUME NEW u \in Upload, UploadFails(u) PROVE UploadInv'
  <2> DEFINE r == upload[u]
             q == Answer(0, r.added + r.skipped + Len(r.todo))
  <2>1. Becomes(u, q) /\ UNCHANGED <<denied, made>> /\ r.stage = "rows"
    BY <1>7 DEF UploadFails
  <2>2. Len(r.todo) \in Nat /\ r.added + r.skipped + Len(r.todo) \in Nat
    BY <1>0, UploadParts
  <2>3. upload'[u] = q /\ q \in Uploads
    BY <2>1, <2>2, UploadMade DEF Becomes, UploadInv, UploadTypes
  <2>4. made[u] = {}
    BY <1>0, <2>1 DEF RowsAt
  <2>5. RowsAt(u)'
    BY <2>1, <2>3, <2>4, EmptySet DEF RowsAt, Answer
  <2>6. \A v \in Upload \ {u} : upload[v].fresh \cap (denied' \cup q.fresh) = {}
    BY <1>0, <2>1 DEF RowsAt, Answer
  <2>7. made' \in [Upload -> SUBSET Mac]
    BY <2>1 DEF UploadInv, UploadTypes
  <2> QED BY <1>0, <2>1, <2>3, <2>5, <2>6, <2>7, UploadMoves
<1>8. CASE Restart
  <2>1. upload' = [u \in Upload |-> IF upload[u].stage = "rows" THEN NoUpload ELSE upload[u]]
        /\ UNCHANGED <<denied, made>>
    BY <1>8 DEF Restart, StopUploads
  <2>2. NoUpload \in Uploads
    BY DEF NoUpload, Uploads
  <2>3. \A u \in Upload : RowsAt(u)'
    BY <1>0, <2>1, EmptySet DEF RowsAt, NoUpload
  <2>4. Apart'
    BY <1>0, <2>1 DEF Apart, NoUpload
  <2> QED BY <1>0, <2>1, <2>2, <2>3, <2>4 DEF UploadInv, UploadTypes
<1> QED
  BY <1>1, <1>2, <1>3, <1>4, <1>5, <1>6, <1>7, <1>8
  DEF Next, Browsing, Portal, Proceed, Callback, CallbackFails, Admit, Grant, Submit, Lookup,
      LookupFails, Accept, Miss, Request, denyVars, Console, Banning, Listing, Uploading,
      ClearCounts, Prune, Tick, SaveWindow, vars

-----------------------------------------------------------------------------
(* Sums over finite sets.                                                  *)

\* The fold of Total takes an element of s away at a time.
Pick(s) == CHOOSE x \in s : TRUE
SumStep(f, g, s) == IF s = {} THEN 0 ELSE f[Pick(s)] + g[s \ {Pick(s)}]
IsSumTable(f, S, g) == g = [s \in SUBSET S |-> SumStep(f, g, s)]
SumTable(f, S)   == CHOOSE g : IsSumTable(f, S, g)

\* What the library computes.
LEMMA TotalIsTable == ASSUME NEW f, NEW S PROVE Total(f, S) = SumTable(f, S)[S]
BY DEF Total, SumTable, IsSumTable, SumStep, Pick, MapThenSumSet, MapThenFoldSet

\* Finite sets are well-founded by inclusion: the induction below is over them.
LEMMA MinimalSubset ==
  ASSUME NEW S, NEW T, T \subseteq FiniteSubsetsOf(S), T # {}
  PROVE  \E x \in T : \A y \in T : y \subseteq x => y = x
<1>1. PICK x \in T : \A y \in T : <<y, x>> \notin StrictSubsetOrdering(S)
  BY FS_StrictSubsetOrderingWellFounded, WFMin
<1>2. \A y \in T : y \subseteq S /\ x \subseteq S
  BY DEF FiniteSubsetsOf
<1> QED BY <1>1, <1>2 DEF StrictSubsetOrdering

\* The sets in which a counterexample is sought.
LEMMA FinitePart == ASSUME NEW S, IsFiniteSet(S), NEW T, T \subseteq SUBSET S
                    PROVE  T \subseteq FiniteSubsetsOf(S)
BY FS_FiniteSubsetsOfFinite

\* A table has in each place what the step computes from it.
LEMMA TableValue ==
  ASSUME NEW f, NEW S, NEW g, IsSumTable(f, S, g), NEW s \in SUBSET S
  PROVE  g[s] = SumStep(f, g, s)
<1> DEFINE t(y) == SumStep(f, g, y)
<1>1. g = [y \in SUBSET S |-> t(y)]
  BY DEF IsSumTable
<1> HIDE DEF t
<1>2. g[s] = t(s)
  BY <1>1
<1> QED BY <1>2 DEF t

\* There is only one table, on whatever set it is computed.
LEMMA TablesAgree ==
  ASSUME NEW f, NEW S, IsFiniteSet(S), NEW R \in SUBSET S, NEW g, NEW h,
         IsSumTable(f, S, g), IsSumTable(f, R, h)
  PROVE  \A s \in SUBSET R : g[s] = h[s]
<1> DEFINE differ == {s \in SUBSET R : g[s] # h[s]}
<1> SUFFICES ASSUME differ # {} PROVE FALSE
  OBVIOUS
<1>1. PICK x \in differ : \A y \in differ : y \subseteq x => y = x
  <2>1. differ \subseteq FiniteSubsetsOf(S)
    BY FinitePart
  <2> HIDE DEF differ
  <2> QED BY <2>1, MinimalSubset
<1>2. x \in SUBSET S /\ x \in SUBSET R /\ g[x] # h[x]
  OBVIOUS
<1>3. g[x] = SumStep(f, g, x) /\ h[x] = SumStep(f, h, x)
  BY <1>2, TableValue
<1>4. x # {}
  BY <1>2, <1>3 DEF SumStep
<1>5. Pick(x) \in x
  BY <1>4 DEF Pick
<1>6. g[x \ {Pick(x)}] = h[x \ {Pick(x)}]
  BY <1>1, <1>2, <1>5
<1> QED BY <1>2, <1>3, <1>6 DEF SumStep

\* And there is one: a smallest set without would get its own from the
\* tables of its subsets.
LEMMA TableExists ==
  ASSUME NEW f, NEW S, IsFiniteSet(S)
  PROVE  IsSumTable(f, S, SumTable(f, S))
<1> DEFINE Fixed(s) == IsSumTable(f, s, SumTable(f, s))
           missing  == {s \in SUBSET S : ~Fixed(s)}
<1> SUFFICES ASSUME missing # {} PROVE FALSE
  OBVIOUS
<1>1. PICK x \in missing : \A y \in missing : y \subseteq x => y = x
  <2>1. missing \subseteq FiniteSubsetsOf(S)
    BY FinitePart
  <2> HIDE DEF missing
  <2> QED BY <2>1, MinimalSubset
<1>2. x \in SUBSET S /\ ~Fixed(x) /\ \A y \in SUBSET x : y # x => Fixed(y)
  <2>1. x \in SUBSET S /\ ~Fixed(x)
    BY DEF missing
  <2>2. \A y \in SUBSET x : y # x => y \notin missing
    BY <1>1
  <2> HIDE DEF Fixed
  <2> QED BY <2>1, <2>2
<1> DEFINE val(s) == SumTable(f, s)[s]
           g == [s \in SUBSET x |-> IF s = {} THEN 0 ELSE f[Pick(s)] + val(s \ {Pick(s)})]
<1>3. ASSUME NEW u \in SUBSET x, u # x PROVE g[u] = val(u)
  <2>1. Fixed(u)
    BY <1>2, <1>3
  <2>2. val(u) = SumStep(f, SumTable(f, u), u)
    BY <2>1, TableValue
  <2>3. CASE u = {}
    BY <2>2, <2>3 DEF SumStep
  <2>4. CASE u # {}
    <3> DEFINE v == u \ {Pick(u)}
    <3>1. v \in SUBSET u /\ v # x /\ v \in SUBSET x
      BY <1>3
    <3>2. Fixed(v)
      BY <1>2, <3>1
    <3>3. IsFiniteSet(u)
      BY <1>2, FS_Subset
    <3>4. SumTable(f, u)[v] = val(v)
      BY <2>1, <3>1, <3>2, <3>3, TablesAgree
    <3>5. g[u] = f[Pick(u)] + val(v)
      BY <2>4
    <3> HIDE DEF g
    <3> QED BY <2>2, <2>4, <3>4, <3>5 DEF SumStep
  <2> QED BY <2>3, <2>4
<1>4. IsSumTable(f, x, g)
  <2>1. ASSUME NEW s \in SUBSET x PROVE g[s] = SumStep(f, g, s)
    <3>1. CASE s = {}
      BY <3>1 DEF SumStep
    <3>2. CASE s # {}
      <4>1. Pick(s) \in s
        BY <3>2 DEF Pick
      <4>2. g[s \ {Pick(s)}] = val(s \ {Pick(s)})
        BY <1>3, <4>1
      <4>3. g[s] = f[Pick(s)] + val(s \ {Pick(s)})
        BY <3>2
      <4> HIDE DEF g, val
      <4> QED BY <3>2, <4>2, <4>3 DEF SumStep
    <3> QED BY <3>1, <3>2
  <2>2. g = [s \in SUBSET x |-> g[s]]
    OBVIOUS
  <2> HIDE DEF g
  <2> QED BY <2>1, <2>2 DEF IsSumTable
<1>5. Fixed(x)
  <2> HIDE DEF g
  <2>1. \E h : IsSumTable(f, x, h)
    BY <1>4
  <2> QED BY <2>1 DEF SumTable
<1> QED BY <1>2, <1>5

\* A sum over a set is an element of it, whichever the fold takes, and the rest.
LEMMA TotalStep ==
  ASSUME NEW f, NEW S, IsFiniteSet(S)
  PROVE  /\ S = {} => Total(f, S) = 0
         /\ S # {} => Pick(S) \in S /\ Total(f, S) = f[Pick(S)] + Total(f, S \ {Pick(S)})
<1>1. Total(f, S) = SumStep(f, SumTable(f, S), S)
  BY TotalIsTable, TableExists, TableValue
<1>2. CASE S = {}
  BY <1>1, <1>2 DEF SumStep
<1>3. CASE S # {}
  <2> DEFINE R == S \ {Pick(S)}
  <2>1. Pick(S) \in S
    BY <1>3 DEF Pick
  <2>2. IsFiniteSet(R) /\ R \in SUBSET S
    BY FS_Subset
  <2>3. SumTable(f, S)[R] = Total(f, R)
    <3>1. IsSumTable(f, S, SumTable(f, S)) /\ IsSumTable(f, R, SumTable(f, R))
      BY <2>2, TableExists
    <3>2. SumTable(f, S)[R] = SumTable(f, R)[R]
      <4> HIDE DEF R
      <4> DEFINE g == SumTable(f, S)
                 h == SumTable(f, R)
      <4>1. IsFiniteSet(S) /\ R \in SUBSET S /\ IsSumTable(f, S, g) /\ IsSumTable(f, R, h)
        BY <2>2, <3>1
      <4> SUFFICES g[R] = h[R]
        OBVIOUS
      <4> HIDE DEF g, h
      <4> QED BY <4>1, TablesAgree
    <3> QED BY <3>2, TotalIsTable
  <2> QED BY <1>1, <1>3, <2>1, <2>3 DEF SumStep
<1> QED BY <1>2, <1>3

\* Sums of naturals are naturals.
LEMMA TotalType ==
  ASSUME NEW f, NEW S, IsFiniteSet(S), \A t \in S : f[t] \in Nat
  PROVE  Total(f, S) \in Nat
<1> DEFINE bad == {s \in SUBSET S : Total(f, s) \notin Nat}
<1> SUFFICES ASSUME bad # {} PROVE FALSE
  OBVIOUS
<1>1. PICK x \in bad : \A y \in bad : y \subseteq x => y = x
  <2>1. bad \subseteq FiniteSubsetsOf(S)
    BY FinitePart
  <2> HIDE DEF bad
  <2> QED BY <2>1, MinimalSubset
<1>2. x \in SUBSET S /\ Total(f, x) \notin Nat /\ IsFiniteSet(x)
  BY FS_Subset
<1>3. x # {} /\ Pick(x) \in x /\ Total(f, x) = f[Pick(x)] + Total(f, x \ {Pick(x)})
  <2>1. ASSUME x = {} PROVE FALSE
    <3>1. Total(f, x) = 0
      BY <1>2, <2>1, TotalStep
    <3> QED BY <1>2, <3>1
  <2> QED BY <1>2, <2>1, TotalStep
<1>4. Total(f, x \ {Pick(x)}) \in Nat
  BY <1>1, <1>2, <1>3
<1>5. f[Pick(x)] \in Nat
  BY <1>2, <1>3
<1> QED BY <1>2, <1>3, <1>4, <1>5

\* Any element may be taken out first.
LEMMA TotalRemove ==
  ASSUME NEW f, NEW S, IsFiniteSet(S), \A t \in S : f[t] \in Nat, NEW t \in S
  PROVE  Total(f, S) = f[t] + Total(f, S \ {t})
<1> DEFINE ok(s) == \A u \in s : Total(f, s) = f[u] + Total(f, s \ {u})
           bad   == {s \in SUBSET S : ~ok(s)}
<1> SUFFICES ASSUME bad # {} PROVE FALSE
  <2>1. S \in SUBSET S
    OBVIOUS
  <2> QED BY <2>1
<1>1. PICK x \in bad : \A y \in bad : y \subseteq x => y = x
  <2>1. bad \subseteq FiniteSubsetsOf(S)
    BY FinitePart
  <2> HIDE DEF bad
  <2> QED BY <2>1, MinimalSubset
<1>2. x \in SUBSET S /\ IsFiniteSet(x)
  BY FS_Subset
<1>3. PICK u \in x : Total(f, x) # f[u] + Total(f, x \ {u})
  OBVIOUS
<1> DEFINE c == Pick(x)
<1>4. c \in x /\ Total(f, x) = f[c] + Total(f, x \ {c})
  BY <1>2, <1>3, TotalStep
<1>5. c # u
  BY <1>3, <1>4
<1>6. ASSUME NEW y \in SUBSET x, y # x PROVE ok(y)
  BY <1>1, <1>2, <1>6
<1>7. Total(f, x \ {c}) = f[u] + Total(f, (x \ {c}) \ {u})
  <2>1. x \ {c} \in SUBSET x /\ x \ {c} # x /\ u \in x \ {c}
    BY <1>4, <1>5
  <2> HIDE DEF c
  <2> QED BY <1>6, <2>1
<1>8. Total(f, x \ {u}) = f[c] + Total(f, (x \ {u}) \ {c})
  <2>1. x \ {u} \in SUBSET x /\ x \ {u} # x /\ c \in x \ {u}
    BY <1>4, <1>5
  <2> HIDE DEF c
  <2> QED BY <1>6, <2>1
<1> DEFINE rest == Total(f, (x \ {u}) \ {c})
<1>9. Total(f, x \ {c}) = f[u] + rest
  <2>1. (x \ {c}) \ {u} = (x \ {u}) \ {c}
    OBVIOUS
  <2> QED BY <1>7, <2>1
<1>10. f[u] \in Nat /\ f[c] \in Nat /\ rest \in Nat
  <2>1. IsFiniteSet((x \ {u}) \ {c})
    BY <1>2, FS_Subset
  <2> QED BY <1>2, <1>4, <2>1, TotalType
<1>11. Total(f, x) = f[c] + (f[u] + rest) /\ Total(f, x \ {u}) = f[c] + rest
  BY <1>4, <1>8, <1>9
<1> HIDE DEF c, rest
<1>12. f[c] + (f[u] + rest) = f[u] + (f[c] + rest)
  BY <1>10
<1> QED BY <1>3, <1>11, <1>12

\* Less in each place of S, and nothing outside R, is less in all.
LEMMA TotalAtMost ==
  ASSUME NEW f, NEW g, NEW S, IsFiniteSet(S), NEW R,
         \A t \in S : /\ f[t] \in Nat /\ g[t] \in Nat
                      /\ IF t \in R THEN f[t] <= g[t] ELSE f[t] = 0
  PROVE  Total(f, S) <= Total(g, S \cap R)
<1> DEFINE bad == {s \in SUBSET S : ~(Total(f, s) <= Total(g, s \cap R))}
<1> SUFFICES ASSUME bad # {} PROVE FALSE
  <2>1. S \in SUBSET S
    OBVIOUS
  <2> QED BY <2>1
<1>1. PICK x \in bad : \A y \in bad : y \subseteq x => y = x
  <2>1. bad \subseteq FiniteSubsetsOf(S)
    BY FinitePart
  <2> HIDE DEF bad
  <2> QED BY <2>1, MinimalSubset
<1>2. x \in SUBSET S /\ IsFiniteSet(x) /\ ~(Total(f, x) <= Total(g, x \cap R))
  BY FS_Subset
<1>3. IsFiniteSet(x \cap R) /\ \A t \in x : IsFiniteSet(x \ {t}) /\ IsFiniteSet((x \ {t}) \cap R)
  BY <1>2, FS_Subset
<1>4. x # {}
  <2>1. ASSUME x = {} PROVE FALSE
    <3>1. x \cap R = {} /\ Total(f, x) = 0 /\ Total(g, x \cap R) = 0
      BY <1>2, <1>3, <2>1, TotalStep
    <3> QED BY <1>2, <3>1
  <2> QED BY <2>1
<1>5. PICK t : t \in x
  BY <1>4
<1>6. Total(f, x) = f[t] + Total(f, x \ {t})
  BY <1>2, <1>5, TotalRemove
<1>7. Total(f, x \ {t}) <= Total(g, (x \ {t}) \cap R)
  BY <1>1, <1>2, <1>5
<1>8. /\ Total(f, x \ {t}) \in Nat /\ Total(g, (x \ {t}) \cap R) \in Nat
      /\ f[t] \in Nat /\ g[t] \in Nat
  BY <1>2, <1>3, <1>5, TotalType
<1>9. CASE t \in R
  <2>1. (x \ {t}) \cap R = (x \cap R) \ {t} /\ t \in x \cap R /\ \A u \in x \cap R : g[u] \in Nat
    BY <1>2, <1>5, <1>9
  <2>2. Total(g, x \cap R) = g[t] + Total(g, (x \ {t}) \cap R)
    BY <1>3, <2>1, TotalRemove
  <2>3. f[t] <= g[t]
    BY <1>2, <1>5, <1>9
  <2> QED BY <1>2, <1>6, <1>7, <1>8, <2>2, <2>3
<1>10. CASE t \notin R
  <2>1. (x \ {t}) \cap R = x \cap R /\ f[t] = 0
    BY <1>2, <1>5, <1>10
  <2>2. Total(f, x \ {t}) <= Total(g, x \cap R)
    BY <1>7, <2>1
  <2>3. Total(f, x) = Total(f, x \ {t})
    BY <1>6, <1>8, <2>1
  <2> QED BY <1>2, <2>2, <2>3
<1> QED BY <1>9, <1>10

\* One more in one place is one more in all.
LEMMA TotalMore ==
  ASSUME NEW f, NEW g, NEW S, IsFiniteSet(S), NEW t \in S,
         \A u \in S : f[u] \in Nat /\ g[u] = IF u = t THEN f[u] + 1 ELSE f[u]
  PROVE  Total(g, S) = Total(f, S) + 1
<1> DEFINE R == S \ {t}
<1>1. IsFiniteSet(R) /\ R \cap R = R
  BY FS_Subset
<1>2. \A u \in R : f[u] \in Nat /\ g[u] \in Nat /\ f[u] <= g[u] /\ g[u] <= f[u]
  OBVIOUS
<1>3. f[t] \in Nat /\ g[t] = f[t] + 1 /\ \A u \in S : f[u] \in Nat /\ g[u] \in Nat
  OBVIOUS
<1>4. Total(f, S) = f[t] + Total(f, R) /\ Total(g, S) = g[t] + Total(g, R)
  BY <1>3, TotalRemove
<1> HIDE DEF R
<1>5. Total(f, R) \in Nat /\ Total(g, R) \in Nat
  BY <1>1, <1>2, TotalType
<1>6. Total(f, R) <= Total(g, R)
  <2>1. Total(f, R) <= Total(g, R \cap R)
    BY <1>1, <1>2, TotalAtMost
  <2> QED BY <1>1, <2>1
<1>7. Total(g, R) <= Total(f, R)
  <2>1. Total(g, R) <= Total(f, R \cap R)
    BY <1>1, <1>2, TotalAtMost
  <2> QED BY <1>1, <2>1
<1> QED BY <1>3, <1>4, <1>5, <1>6, <1>7

-----------------------------------------------------------------------------
(* The guesses.                                                            *)

CounterTypes == /\ fails \in [Mac -> [Time -> Nat]] /\ misses \in [Mac -> [Time -> Nat]]
                /\ window \in Window /\ horizon \in Window /\ now \in Time

\* Requests whose guess at m was counted and is not yet answered.
Guessing(m) == {s \in Session : session[s].stage = "guessing" /\ session[s].mac = m}

\* The counter has every wrong guess that any window still covers.
MissInv == \A m \in Mac, t \in Time :
  /\ misses[m][t] <= fails[m][t]
  /\ misses[m][t] > 0 => t > now - Narrowest

\* Every guess under way may still become a wrong one.
GuessInv == \A m \in Mac :
  Total(misses[m], Time) + Cardinality(Guessing(m)) <= Limit + Cardinality(Session) - 1

USE LimitAssumption, WindowAssumption, SessionAssumption

\* The narrowest window is one, and is as narrow as any.
LEMMA NarrowestIsLeast == Narrowest \in Window /\ \A w \in Window : Narrowest <= w
<1> DEFINE below(w) == {v \in Window : v <= w}
           all      == {below(w) : w \in Window}
<1>1. all # {} /\ all \subseteq FiniteSubsetsOf(Window)
  <2>1. all \subseteq SUBSET Window
    OBVIOUS
  <2>2. PICK w : w \in Window
    OBVIOUS
  <2>3. below(w) \in all
    BY <2>2
  <2> HIDE DEF all
  <2> QED BY <2>1, <2>3, FinitePart
<1>2. PICK x \in all : \A y \in all : y \subseteq x => y = x
  <2> HIDE DEF all
  <2> QED BY <1>1, MinimalSubset
<1>3. PICK w \in Window : x = below(w)
  OBVIOUS
<1>4. ASSUME NEW v \in Window PROVE w <= v
  <2>1. CASE v <= w
    <3>1. ASSUME NEW u \in below(v) PROVE u \in x
      <4>1. u \in Window /\ u \in Nat /\ v \in Nat /\ w \in Nat /\ u <= v
        OBVIOUS
      <4>2. u <= w
        BY <2>1, <4>1
      <4> QED BY <1>3, <4>1, <4>2
    <3>2. below(v) = x
      <4>1. below(v) \in all /\ below(v) \subseteq x
        BY <3>1
      <4> HIDE DEF below, all
      <4> QED BY <1>2, <4>1
    <3>3. v \in below(v)
      OBVIOUS
    <3> QED BY <1>3, <3>2, <3>3
  <2>2. CASE ~(v <= w)
    BY <2>2
  <2> QED BY <2>1, <2>2
<1> QED BY <1>4 DEF Narrowest, Min

LEMMA TimeIsFinite == IsFiniteSet(Time) /\ Time \subseteq Nat
BY FS_Interval DEF Time

\* Where there is nothing there is no sum.
LEMMA TotalZero ==
  ASSUME NEW f, \A t \in Time : f[t] = 0
  PROVE  Total(f, Time) = 0
<1>0. \A t \in Time : f[t] \in Nat /\ (IF t \in {} THEN f[t] <= f[t] ELSE f[t] = 0)
  OBVIOUS
<1>1. Total(f, Time) <= Total(f, Time \cap {})
  BY <1>0, TimeIsFinite, TotalAtMost
<1>2. Total(f, Time \cap {}) = 0
  <2>1. Time \cap {} = {}
    OBVIOUS
  <2> QED BY <2>1, TotalStep, FS_EmptySet
<1>3. Total(f, Time) \in Nat
  BY <1>0, TimeIsFinite, TotalType
<1> QED BY <1>1, <1>2, <1>3

\* Where there is something there is a sum.
LEMMA TotalPositive ==
  ASSUME NEW f, \A t \in Time : f[t] \in Nat, NEW u \in Time, f[u] > 0
  PROVE  Total(f, Time) > 0
<1> DEFINE S == Time
<1>0. IsFiniteSet(S) /\ u \in S /\ \A t \in S : f[t] \in Nat
  BY TimeIsFinite
<1> HIDE DEF S
<1>1. Total(f, S) = f[u] + Total(f, S \ {u})
  BY <1>0, TotalRemove
<1>2. IsFiniteSet(S \ {u}) /\ \A t \in S \ {u} : f[t] \in Nat
  BY <1>0, FS_Subset
<1>3. Total(f, S \ {u}) \in Nat
  BY <1>2, TotalType
<1>4. Total(f, S) > 0
  BY <1>0, <1>1, <1>3
<1> QED BY <1>4 DEF S

\* No more guesses than there are browsers.
LEMMA GuessingIsFinite ==
  ASSUME NEW m
  PROVE  /\ IsFiniteSet(Guessing(m)) /\ Cardinality(Guessing(m)) \in Nat
         /\ Cardinality(Guessing(m)) <= Cardinality(Session) /\ Cardinality(Session) \in Nat
<1>1. Guessing(m) \subseteq Session
  BY DEF Guessing
<1> QED BY <1>1, FS_Subset, FS_CardinalityType

LEMMA CounterInit == Init => CounterTypes /\ MissInv /\ GuessInv
<1> SUFFICES ASSUME Init PROVE CounterTypes /\ MissInv /\ GuessInv
  OBVIOUS
<1>1. CounterTypes /\ MissInv
  BY DEF Init, CounterTypes, MissInv, Blank, Time
<1>2. ASSUME NEW m \in Mac PROVE Total(misses[m], Time) = 0 /\ Guessing(m) = {}
  BY <1>2, TotalZero DEF Init, Blank, Guessing
<1>3. GuessInv
  <2>1. Cardinality({}) = 0 /\ Cardinality(Session) \in Nat
    BY FS_EmptySet, FS_CardinalityType
  <2>2. ASSUME NEW m \in Mac
        PROVE  Total(misses[m], Time) + Cardinality(Guessing(m)) <= Limit + Cardinality(Session) - 1
    <3>1. Total(misses[m], Time) = 0 /\ Cardinality(Guessing(m)) = 0
      BY <1>2, <2>1
    <3> QED BY <2>1, <3>1
  <2> QED BY <2>2 DEF GuessInv
<1> QED BY <1>1, <1>3

\* Rule 5 lets nobody guess who has failed as often as he may: the sum over any
\* window in force has the misses of the narrowest.
LEMMA LookupBudget ==
  ASSUME CounterTypes, MissInv, NEW m \in Mac, ~Spent(m)
  PROVE  Total(misses[m], Time) <= Limit - 1
<1> DEFINE recent == {t \in Time : t > now - window}
<1>1. window \in Nat /\ now \in Nat /\ Narrowest \in Nat /\ Narrowest <= window
  BY NarrowestIsLeast, TimeIsFinite DEF CounterTypes
<1>2. \A t \in Time : /\ misses[m][t] \in Nat /\ fails[m][t] \in Nat
                      /\ IF t \in recent THEN misses[m][t] <= fails[m][t] ELSE misses[m][t] = 0
  BY <1>1, TimeIsFinite DEF CounterTypes, MissInv
<1>3. Time \cap recent = recent /\ IsFiniteSet(recent) /\ \A t \in recent : fails[m][t] \in Nat
  BY <1>2, TimeIsFinite, FS_Subset
<1>4. Total(misses[m], Time) <= Total(fails[m], recent)
  <2> HIDE DEF recent
  <2>1. Total(misses[m], Time) <= Total(fails[m], Time \cap recent)
    BY <1>2, TimeIsFinite, TotalAtMost
  <2> QED BY <1>3, <2>1
<1>5. Total(fails[m], recent) < Limit
  <2>1. Total(fails[m], recent) = countIn(m, window)
    BY DEF countIn
  <2>2. Total(fails[m], recent) \in Nat
    BY <1>3, TotalType
  <2> QED BY <2>1, <2>2 DEF Spent
<1>6. Total(misses[m], Time) \in Nat /\ Total(fails[m], recent) \in Nat
  BY <1>2, <1>3, TimeIsFinite, TotalType
<1> QED BY <1>4, <1>5, <1>6

\* An eviction drops a miss that counts only of a device that as many others
\* have overtaken as it leaves.
LEMMA EvictionEarned ==
  ASSUME CounterTypes, MissInv, NEW gone \in Evictions,
         NEW m \in Mac, m \in gone, ~Overtaken(m), NEW t \in Time
  PROVE  misses[m][t] = 0
<1> SUFFICES ASSUME misses[m][t] # 0 PROVE FALSE
  OBVIOUS
<1> DEFINE newer == Newer(fails, now - horizon)
           kept  == KeysOf(newer)
<1>1. \A k \in Mac, u \in Time :
        /\ fails[k][u] \in Nat
        /\ newer[k][u] = IF u > now - horizon THEN fails[k][u] ELSE 0
  BY DEF CounterTypes, Newer
<1>2. newer[m][t] > 0
  <2>1. misses[m][t] \in Nat /\ misses[m][t] <= fails[m][t]
        /\ (misses[m][t] > 0 => t > now - Narrowest)
    BY DEF CounterTypes, MissInv
  <2>2. Narrowest \in Nat /\ horizon \in Nat /\ Narrowest <= horizon /\ now \in Nat /\ t \in Nat
    BY NarrowestIsLeast, TimeIsFinite DEF CounterTypes
  <2>3. newer[m][t] = IF t > now - horizon THEN fails[m][t] ELSE 0
    BY <1>1
  <2> HIDE DEF newer
  <2> QED BY <1>1, <2>1, <2>2, <2>3
<1>3. kept \subseteq KeysOf(fails) /\ m \in kept
  <2>1. ASSUME NEW k \in Mac PROVE Total(newer[k], Time) <= Total(fails[k], Time)
    <3> DEFINE f == newer[k]
               g == fails[k]
    <3>1. \A u \in Time : f[u] \in Nat /\ g[u] \in Nat /\ f[u] <= g[u]
      BY <1>1
    <3>2. Time \cap Time = Time
      OBVIOUS
    <3> HIDE DEF f, g
    <3>3. Total(f, Time) <= Total(g, Time \cap Time)
      BY <3>1, TimeIsFinite, TotalAtMost
    <3>4. Total(f, Time) <= Total(g, Time)
      BY <3>2, <3>3
    <3> QED BY <3>4 DEF f, g
  <2>2. ASSUME NEW k \in Mac PROVE Total(newer[k], Time) \in Nat /\ Total(fails[k], Time) \in Nat
    <3>1. \A u \in Time : newer[k][u] \in Nat /\ fails[k][u] \in Nat
      BY <1>1
    <3> HIDE DEF newer
    <3> QED BY <3>1, TimeIsFinite, TotalType
  <2>3. Total(newer[m], Time) > 0
    <3>1. \A u \in Time : newer[m][u] \in Nat
      BY <1>1
    <3> HIDE DEF newer
    <3> QED BY <1>2, <3>1, TotalPositive
  <2> HIDE DEF newer
  <2> QED BY <2>1, <2>2, <2>3 DEF KeysOf
<1> HIDE DEF newer
<1>4. CASE gone = Mac \ kept
  BY <1>3, <1>4
<1>5. ASSUME NEW ks \in SUBSET kept, gone = Mac \ ks, Cardinality(ks) = Target,
             \A k \in ks, o \in kept \ ks : Latest(fails, o) <= Latest(fails, k)
      PROVE  FALSE
  <2>1. ks \subseteq Later(m)
    BY <1>3, <1>5 DEF Later
  <2>2. IsFiniteSet(Later(m))
    <3>1. Later(m) \subseteq Mac
      BY DEF Later, KeysOf
    <3> QED BY <3>1, FS_Subset
  <2>3. /\ Cardinality(ks) <= Cardinality(Later(m))
        /\ Cardinality(ks) \in Nat /\ Cardinality(Later(m)) \in Nat
    BY <2>1, <2>2, FS_Subset, FS_CardinalityType
  <2>4. Cardinality(Later(m)) >= Target
    BY <1>5, <2>3
  <2> QED BY <1>3, <2>4 DEF Overtaken
<1> QED BY <1>4, <1>5 DEF Evictions, kept, newer

\* A step that adds no miss, no guess, and forgets no failure that still counts.
LEMMA GuessesKept ==
  ASSUME CounterTypes, CounterTypes', GuessInv,
         \A m \in Mac, t \in Time : misses'[m][t] <= misses[m][t],
         \A m \in Mac : Guessing(m)' \subseteq Guessing(m)
  PROVE  GuessInv'
<1>1. SUFFICES ASSUME NEW m \in Mac
      PROVE  Total(misses'[m], Time) + Cardinality(Guessing(m)') <= Limit + Cardinality(Session) - 1
  BY DEF GuessInv
<1>2. \A t \in Time : misses'[m][t] \in Nat /\ misses[m][t] \in Nat /\ misses'[m][t] <= misses[m][t]
  BY DEF CounterTypes
<1>3. Total(misses'[m], Time) <= Total(misses[m], Time)
  <2>1. Total(misses'[m], Time) <= Total(misses[m], Time \cap Time)
    BY <1>2, TimeIsFinite, TotalAtMost
  <2>2. Time \cap Time = Time
    OBVIOUS
  <2> QED BY <2>1, <2>2
<1>4. Total(misses'[m], Time) \in Nat /\ Total(misses[m], Time) \in Nat
  BY <1>2, TimeIsFinite, TotalType
<1>5. Cardinality(Guessing(m)') \in Nat /\ Cardinality(Guessing(m)') <= Cardinality(Guessing(m))
  BY GuessingIsFinite, FS_Subset, FS_CardinalityType
<1> QED BY <1>3, <1>4, <1>5, GuessingIsFinite DEF GuessInv

\* A step counts what it lets through, or lets nothing more through.
LEMMA CounterStep ==
  GateTypes /\ CounterTypes /\ MissInv /\ GuessInv /\ [Next]_vars
    => CounterTypes' /\ MissInv' /\ GuessInv'
<1> SUFFICES ASSUME GateTypes, CounterTypes, MissInv, GuessInv, [Next]_vars
             PROVE  CounterTypes' /\ MissInv' /\ GuessInv'
  OBVIOUS
<1> DEFINE Good   == CounterTypes' /\ MissInv' /\ GuessInv'
           NoGuess == \A m \in Mac : Guessing(m)' \subseteq Guessing(m)
\* No browser comes to guess.
<1>1. ASSUME NEW s \in Session, NEW r, r.stage # "guessing", session' = [session EXCEPT ![s] = r]
      PROVE  NoGuess
  BY <1>1 DEF Guessing, GateTypes
<1>2. ASSUME NEW s \in Session, NEW g, g # "guessing", Go(s, g) PROVE NoGuess
  BY <1>2 DEF Guessing, GateTypes, Go
<1>3. UNCHANGED session => NoGuess
  BY DEF Guessing
<1> HIDE DEF NoGuess
\* Steps that leave the counts alone, and those that clear some.
<1>4. ASSUME UNCHANGED <<fails, misses, now>>, window' \in Window, horizon' \in Window, NoGuess PROVE Good
  <2>1. CounterTypes' /\ MissInv' /\ \A m \in Mac, t \in Time : misses'[m][t] <= misses[m][t]
    BY <1>4, TimeIsFinite DEF CounterTypes, MissInv
  <2> QED BY <1>4, <2>1, GuessesKept DEF NoGuess
<1>5. ASSUME NEW ms, Reset(ms), UNCHANGED <<window, now>>, horizon' \in Window, NoGuess PROVE Good
  <2>1. /\ fails' = [m \in Mac |-> IF m \in ms THEN Blank ELSE fails[m]]
        /\ misses' = [m \in Mac |-> IF m \in ms THEN Blank ELSE misses[m]]
    BY <1>5 DEF Reset, Clear
  <2>2. Blank \in [Time -> Nat] /\ \A t \in Time : Blank[t] = 0
    BY DEF Blank
  <2>3. CounterTypes'
    BY <1>5, <2>1, <2>2 DEF CounterTypes
  <2>4. ASSUME NEW m \in Mac, NEW t \in Time
        PROVE  /\ \/ misses'[m][t] = 0 /\ fails'[m][t] = 0
                  \/ misses'[m][t] = misses[m][t] /\ fails'[m][t] = fails[m][t]
               /\ misses[m][t] \in Nat
    <3>1. misses[m][t] \in Nat
      BY DEF CounterTypes
    <3>2. CASE m \in ms
      <4>1. misses'[m] = Blank /\ fails'[m] = Blank
        BY <2>1, <3>2
      <4>2. Blank[t] = 0
        BY <2>2
      <4>3. misses'[m][t] = 0 /\ fails'[m][t] = 0
        BY <4>1, <4>2, Zenon
      <4> QED BY <3>1, <4>3, Zenon
    <3>3. CASE m \notin ms
      BY <2>1, <3>1, <3>3
    <3> QED BY <3>2, <3>3
  <2>5. MissInv' /\ \A m \in Mac, t \in Time : misses'[m][t] <= misses[m][t]
    BY <1>5, <2>4 DEF MissInv
  <2> QED BY <1>5, <2>3, <2>5, GuessesKept DEF NoGuess
\* A lookup that lets a guess through.
<1>6. ASSUME NEW s \in Session, Go(s, "guessing"), ~Spent(MacOf(s)),
             UNCHANGED <<fails, misses, now, window, horizon>>
      PROVE  Good
  <2>1. CounterTypes' /\ MissInv'
    BY <1>6 DEF CounterTypes, MissInv
  <2>2. ASSUME NEW m \in Mac
        PROVE  Total(misses'[m], Time) + Cardinality(Guessing(m)') <= Limit + Cardinality(Session) - 1
    <3>1. CASE m = MacOf(s)
      <4>1. Total(misses[m], Time) <= Limit - 1
        BY <1>6, <3>1, LookupBudget
      <4>2. Total(misses[m], Time) \in Nat
        BY TimeIsFinite, TotalType DEF CounterTypes
      <4>3. /\ Cardinality(Guessing(m)') \in Nat /\ Cardinality(Session) \in Nat
            /\ Cardinality(Guessing(m)') <= Cardinality(Session)
        <5>1. Guessing(m)' \subseteq Session
          BY DEF Guessing
        <5> QED BY <5>1, FS_Subset, FS_CardinalityType
      <4>4. misses' = misses
        BY <1>6
      <4> QED BY <4>1, <4>2, <4>3, <4>4
    <3>2. CASE m # MacOf(s)
      <4>1. Guessing(m)' = Guessing(m)
        BY <1>6, <3>2 DEF Guessing, Go, MacOf, GateTypes
      <4> QED BY <1>6, <4>1 DEF GuessInv
    <3> QED BY <3>1, <3>2
  <2> QED BY <2>1, <2>2 DEF GuessInv
<1> HIDE DEF Good
<1>7. ASSUME NEW s \in Session, Portal(s) PROVE Good
  <2>1. PICK m \in Mac : session' = [session EXCEPT ![s] = [stage |-> "cookie", mac |-> m]]
    BY <1>7 DEF Portal
  <2>2. NoGuess
    BY <1>1, <2>1
  <2> QED BY <1>4, <1>7, <2>2 DEF Portal, Request, Quietly, CounterTypes
<1>8. ASSUME NEW s \in Session, Proceed(s) \/ Callback(s) \/ CallbackFails(s) \/ Submit(s) PROVE Good
  <2>1. \E g \in {"away", "returned", "cookie", "asked"} : Go(s, g)
    BY <1>8 DEF Proceed, Callback, CallbackFails, Submit
  <2>2. NoGuess
    BY <1>2, <2>1
  <2> QED BY <1>4, <1>8, <2>2 DEF Proceed, Callback, CallbackFails, Submit, Request, Quietly, CounterTypes
<1>9. ASSUME NEW s \in Session, Grant(s) PROVE Good
  <2>1. NoGuess
    BY <1>2, <1>9 DEF Grant
  <2> QED BY <1>5, <1>9, <2>1 DEF Grant, Request, CounterTypes
<1>10. ASSUME NEW s \in Session, Lookup(s) PROVE Good
  <2>1. CASE Go(s, "cookie")
    BY <1>2, <1>4, <1>10, <2>1 DEF Lookup, Request, Quietly, CounterTypes
  <2>2. CASE Go(s, "guessing") /\ ~Spent(MacOf(s))
    BY <1>6, <1>10, <2>2 DEF Lookup, Request, Quietly
  <2> QED BY <1>10, <2>1, <2>2 DEF Lookup
<1>11. ASSUME NEW s \in Session, LookupFails(s) PROVE Good
  <2>0. UNCHANGED <<window, horizon, now>> /\ window \in Window /\ horizon \in Window
    BY <1>11 DEF LookupFails, Request, CounterTypes
  <2>1. ASSUME NEW m \in Mac, session' = [session EXCEPT ![s] = [stage |-> "cookie", mac |-> m]], Quietly
        PROVE  Good
    <3>1. NoGuess
      BY <1>1, <2>1
    <3> QED BY <1>4, <2>0, <2>1, <3>1 DEF Quietly
  <2>2. CASE (Go(s, "away") \/ Go(s, "cookie")) /\ Quietly
    BY <1>2, <1>4, <2>0, <2>2 DEF Quietly
  <2>3. CASE Go(s, "guessing") /\ ~Spent(MacOf(s)) /\ Quietly
    BY <1>6, <2>0, <2>3 DEF Quietly
  <2>4. CASE Go(s, "in") /\ Reset({MacOf(s)})
    BY <1>2, <1>5, <2>0, <2>4
  <2> QED BY <1>11, <2>1, <2>2, <2>3, <2>4 DEF LookupFails
\* A wrong guess: one miss more, and one guess less under way.
<1>12. ASSUME NEW s \in Session, Miss(s) PROVE Good
  <2> DEFINE k == MacOf(s)
  <2>0. /\ k \in Mac /\ session[s].stage = "guessing" /\ session[s].mac = k
        /\ UNCHANGED <<window, horizon, now>>
        /\ now \in Time /\ Go(s, "cookie") /\ Record(k)
    BY <1>12 DEF Miss, At, MacOf, Request, GateTypes, CounterTypes
  \* What is recorded is added to what the eviction has left.
  <2>1. PICK F \in [Mac -> [Time -> Nat]], M \in [Mac -> [Time -> Nat]] :
          /\ fails' = [F EXCEPT ![k][now] = @ + 1] /\ misses' = [M EXCEPT ![k][now] = @ + 1]
          /\ \A m \in Mac, t \in Time : M[m][t] <= misses[m][t] /\ M[m][t] <= F[m][t]
    <3>1. CASE fails' = [fails EXCEPT ![k][now] = @ + 1] /\ misses' = [misses EXCEPT ![k][now] = @ + 1]
      <4>1. \A m \in Mac, t \in Time : misses[m][t] <= misses[m][t] /\ misses[m][t] <= fails[m][t]
        BY DEF CounterTypes, MissInv
      <4> QED BY <3>1, <4>1 DEF CounterTypes
    <3>2. ASSUME NEW gone \in Evictions,
                 /\ fails'  = [Clear(Newer(fails, now - horizon), gone) EXCEPT ![k][now] = @ + 1]
                 /\ misses' = [Clear(misses, {m \in gone : Overtaken(m)}) EXCEPT ![k][now] = @ + 1]
          PROVE  \E F \in [Mac -> [Time -> Nat]], M \in [Mac -> [Time -> Nat]] :
                   /\ fails' = [F EXCEPT ![k][now] = @ + 1] /\ misses' = [M EXCEPT ![k][now] = @ + 1]
                   /\ \A m \in Mac, t \in Time : M[m][t] <= misses[m][t] /\ M[m][t] <= F[m][t]
      <4> DEFINE F == Clear(Newer(fails, now - horizon), gone)
                 M == Clear(misses, {m \in gone : Overtaken(m)})
      <4>1. Blank \in [Time -> Nat] /\ \A t \in Time : Blank[t] = 0
        BY DEF Blank
      <4>2. F \in [Mac -> [Time -> Nat]] /\ M \in [Mac -> [Time -> Nat]]
        <5>1. Newer(fails, now - horizon) \in [Mac -> [Time -> Nat]]
          BY DEF Newer, CounterTypes
        <5> QED BY <4>1, <5>1 DEF Clear, CounterTypes
      <4>3. ASSUME NEW m \in Mac, NEW t \in Time PROVE M[m][t] <= misses[m][t] /\ M[m][t] <= F[m][t]
        <5>1. misses[m][t] \in Nat /\ fails[m][t] \in Nat /\ misses[m][t] <= fails[m][t]
          BY DEF CounterTypes, MissInv
        <5>2. misses[m][t] = 0 \/ t > now - horizon
          <6>1. misses[m][t] = 0 \/ t > now - Narrowest
            BY <5>1 DEF MissInv
          <6>2. Narrowest \in Nat /\ horizon \in Nat /\ Narrowest <= horizon /\ now \in Nat /\ t \in Nat
            BY NarrowestIsLeast, TimeIsFinite DEF CounterTypes
          <6> QED BY <6>1, <6>2
        <5>3. Newer(fails, now - horizon)[m][t] = IF t > now - horizon THEN fails[m][t] ELSE 0
          BY DEF Newer
        <5>4. CASE m \in gone
          <6>1. M[m][t] = 0
            <7>1. CASE Overtaken(m)
              BY <4>1, <5>4, <7>1 DEF Clear
            <7>2. CASE ~Overtaken(m)
              <8>1. misses[m][t] = 0
                BY <3>2, <5>4, <7>2, EvictionEarned
              <8> QED BY <7>2, <8>1 DEF Clear
            <7> QED BY <7>1, <7>2
          <6>2. F[m][t] = 0
            BY <4>1, <5>4 DEF Clear
          <6> QED BY <5>1, <6>1, <6>2
        <5>5. CASE m \notin gone
          <6>1. M[m] = misses[m] /\ F[m] = Newer(fails, now - horizon)[m]
            BY <5>5 DEF Clear
          <6> QED BY <5>1, <5>2, <5>3, <6>1
        <5> QED BY <5>4, <5>5
      <4> HIDE DEF F, M
      <4>4. fails' = [F EXCEPT ![k][now] = @ + 1] /\ misses' = [M EXCEPT ![k][now] = @ + 1]
        BY <3>2 DEF F, M
      <4> QED BY <4>2, <4>3, <4>4
    <3> QED BY <2>0, <3>1, <3>2 DEF Record
  <2>2. CounterTypes'
    <3>1. fails' \in [Mac -> [Time -> Nat]] /\ misses' \in [Mac -> [Time -> Nat]]
      BY <2>0, <2>1
    <3> QED BY <2>0, <3>1 DEF CounterTypes
  <2>3. ASSUME NEW m \in Mac, NEW t \in Time
        PROVE  /\ misses'[m][t] = IF m = k /\ t = now THEN M[m][t] + 1 ELSE M[m][t]
               /\ fails'[m][t] = IF m = k /\ t = now THEN F[m][t] + 1 ELSE F[m][t]
               /\ M[m][t] \in Nat /\ F[m][t] \in Nat /\ misses[m][t] \in Nat
    BY <2>0, <2>1 DEF CounterTypes
  <2>4. MissInv'
    <3>1. Narrowest \in Nat /\ Narrowest > 0 /\ now \in Nat
      BY NarrowestIsLeast, TimeIsFinite DEF CounterTypes
    <3>2. ASSUME NEW m \in Mac, NEW t \in Time
          PROVE  misses'[m][t] <= fails'[m][t] /\ (misses'[m][t] > 0 => t > now' - Narrowest)
      <4>1. M[m][t] <= misses[m][t] /\ M[m][t] <= F[m][t]
            /\ (misses[m][t] > 0 => t > now - Narrowest)
        BY <2>1 DEF MissInv
      <4>2. t \in Nat /\ now' = now
        BY <2>0, TimeIsFinite
      <4> QED BY <2>3, <3>1, <4>1, <4>2
    <3> QED BY <3>2 DEF MissInv
  <2>5. ASSUME NEW m \in Mac
        PROVE  Total(misses'[m], Time) + Cardinality(Guessing(m)') <= Limit + Cardinality(Session) - 1
    <3>1. Total(M[m], Time) <= Total(misses[m], Time)
      <4>1. Time \cap Time = Time
        OBVIOUS
      <4>2. \A t \in Time : M[m][t] \in Nat /\ misses[m][t] \in Nat /\ M[m][t] <= misses[m][t]
        BY <2>1, <2>3
      <4>3. Total(M[m], Time) <= Total(misses[m], Time \cap Time)
        BY <4>2, TimeIsFinite, TotalAtMost
      <4> QED BY <4>1, <4>3
    <3>2. Total(M[m], Time) \in Nat /\ Total(misses[m], Time) \in Nat
      BY <2>3, TimeIsFinite, TotalType
    <3>3. /\ IsFiniteSet(Guessing(m)) /\ Cardinality(Guessing(m)) \in Nat /\ Cardinality(Session) \in Nat
          /\ Total(misses[m], Time) + Cardinality(Guessing(m)) <= Limit + Cardinality(Session) - 1
      BY GuessingIsFinite DEF GuessInv
    <3>4. CASE m = k
      <4>1. Total(misses'[m], Time) = Total(M[m], Time) + 1
        <5> DEFINE old == M[m]
                   new == misses'[m]
        <5>1. \A u \in Time : old[u] \in Nat /\ new[u] = IF u = now THEN old[u] + 1 ELSE old[u]
          BY <2>3, <3>4
        <5> HIDE DEF old, new
        <5>2. now \in Time /\ IsFiniteSet(Time)
          BY <2>0, TimeIsFinite
        <5>3. Total(new, Time) = Total(old, Time) + 1
          BY <5>1, <5>2, TotalMore
        <5> QED BY <5>3 DEF old, new
      <4>2. Guessing(m)' = Guessing(m) \ {s} /\ s \in Guessing(m)
        BY <2>0, <3>4 DEF Guessing, Go, GateTypes
      <4>3. Cardinality(Guessing(m)') = Cardinality(Guessing(m)) - 1
        <5> DEFINE before == Guessing(m)
                   after  == Guessing(m)'
        <5>1. IsFiniteSet(before) /\ after = before \ {s} /\ s \in before
          BY <4>2, GuessingIsFinite
        <5> HIDE DEF before, after
        <5>2. Cardinality(after) = Cardinality(before) - 1
          BY <5>1, FS_RemoveElement
        <5> QED BY <5>2 DEF before, after
      <4> QED BY <3>1, <3>2, <3>3, <4>1, <4>3
    <3>5. CASE m # k
      <4>1. misses'[m] = M[m]
        BY <2>1, <3>5
      <4>2. Guessing(m)' = Guessing(m)
        BY <2>0, <3>5 DEF Guessing, Go, GateTypes
      <4> QED BY <3>1, <3>2, <3>3, <4>1, <4>2
    <3> QED BY <3>4, <3>5
  <2> QED BY <2>2, <2>4, <2>5 DEF Good, GuessInv
<1>13. ASSUME NEW s \in Session, Browsing(s) PROVE Good
  BY <1>7, <1>8, <1>9, <1>10, <1>11, <1>12, <1>13 DEF Browsing, Admit, Accept
<1>14. ASSUME Console PROVE Good
  <2>1. ASSUME NEW m \in Mac, Reset({m}), UNCHANGED <<session, window, horizon, now>> PROVE Good
    BY <1>3, <1>5, <2>1 DEF CounterTypes
  <2>2. CASE Listing
    <3>1. UNCHANGED <<session, fails, window, horizon, now, misses>>
      BY <2>2 DEF Listing, gateVars
    <3>2. window' \in Window /\ horizon' \in Window
      BY <3>1 DEF CounterTypes
    <3> QED BY <1>3, <1>4, <3>1, <3>2
  <2>3. CASE Banning
    <3>1. PICK m \in Mac : Reset({m}) /\ UNCHANGED <<session, window, horizon, now>>
      BY <2>3 DEF Banning
    <3> QED BY <2>1, <3>1
  <2> QED BY <1>14, <2>2, <2>3 DEF Console
<1>15. ASSUME ClearCounts PROVE Good
  <2>1. PICK ms : Reset(ms)
    BY <1>15 DEF ClearCounts
  <2>2. UNCHANGED <<session, window, now>> /\ horizon' \in Window
    BY <1>15 DEF ClearCounts, CounterTypes
  <2> QED BY <1>3, <1>5, <2>1, <2>2
<1>16. ASSUME Prune PROVE Good
  <2>1. CounterTypes'
    <3>1. fails' \in [Mac -> [Time -> Nat]]
      BY <1>16 DEF Prune, Newer, CounterTypes
    <3> QED BY <1>16, <3>1 DEF Prune, CounterTypes
  <2>2. MissInv'
    <3>1. ASSUME NEW m \in Mac, NEW t \in Time
          PROVE  misses'[m][t] <= fails'[m][t] /\ (misses'[m][t] > 0 => t > now' - Narrowest)
      <4>1. /\ misses[m][t] \in Nat /\ misses[m][t] <= fails[m][t]
            /\ misses[m][t] > 0 => t > now - Narrowest
        BY DEF CounterTypes, MissInv
      <4>2. Narrowest \in Nat /\ horizon \in Nat /\ Narrowest <= horizon /\ now \in Nat /\ t \in Nat
        BY NarrowestIsLeast, TimeIsFinite DEF CounterTypes
      <4>3. fails'[m][t] = IF t > now - horizon THEN fails[m][t] ELSE 0
        BY <1>16 DEF Prune, Newer
      <4>4. misses' = misses /\ now' = now
        BY <1>16 DEF Prune
      <4> QED BY <4>1, <4>2, <4>3, <4>4
    <3> QED BY <3>1 DEF MissInv
  <2>3. \A m \in Mac, t \in Time : misses'[m][t] <= misses[m][t]
    BY <1>16 DEF Prune, CounterTypes
  <2>4. NoGuess
    BY <1>3, <1>16 DEF Prune
  <2>5. GuessInv'
    BY <2>1, <2>3, <2>4, GuessesKept DEF NoGuess
  <2> QED BY <2>1, <2>2, <2>5 DEF Good
<1>17. ASSUME Restart PROVE Good
  <2>1. Reset(Mac) /\ UNCHANGED <<window, now>> /\ horizon' \in Window
    BY <1>17 DEF Restart, CounterTypes
  <2>2. NoGuess
    BY <1>17 DEF Restart, NoGuess, Guessing, Busy, At, GateTypes
  <2> QED BY <1>5, <2>1, <2>2, Zenon
<1>18. ASSUME Tick PROVE Good
  <2>1. /\ misses' = Newer(misses, now' - Narrowest) /\ now' = now + 1 /\ now' \in Time
        /\ UNCHANGED <<fails, window, horizon>>
    BY <1>18, TimeIsFinite DEF Tick, Time, CounterTypes
  <2>2. CounterTypes'
    <3>1. misses' \in [Mac -> [Time -> Nat]]
      BY <2>1 DEF Newer, CounterTypes
    <3> QED BY <2>1, <3>1 DEF CounterTypes
  <2>3. ASSUME NEW m \in Mac, NEW t \in Time
        PROVE  /\ misses'[m][t] <= fails'[m][t] /\ (misses'[m][t] > 0 => t > now' - Narrowest)
               /\ misses'[m][t] <= misses[m][t]
    <3>1. misses'[m][t] = IF t > now' - Narrowest THEN misses[m][t] ELSE 0
      BY <2>1 DEF Newer
    <3>2. misses[m][t] \in Nat /\ misses[m][t] <= fails[m][t] /\ fails[m][t] \in Nat /\ fails' = fails
      BY <2>1 DEF CounterTypes, MissInv
    <3> QED BY <3>1, <3>2
  <2>4. NoGuess
    BY <1>3, <1>18 DEF Tick
  <2>5. MissInv'
    BY <2>3 DEF MissInv
  <2>6. GuessInv'
    BY <2>2, <2>3, <2>4, GuessesKept DEF NoGuess
  <2> QED BY <2>2, <2>5, <2>6 DEF Good
<1>19. ASSUME NEW w \in Window, SaveWindow(w) PROVE Good
  BY <1>3, <1>4, <1>19 DEF SaveWindow, CounterTypes
<1>20. ASSUME UNCHANGED vars PROVE Good
  <2>1. UNCHANGED <<session, fails, window, horizon, now, misses>>
    BY <1>20 DEF vars, gateVars
  <2>2. window' \in Window /\ horizon' \in Window
    BY <2>1 DEF CounterTypes
  <2> QED BY <1>3, <1>4, <2>1, <2>2
<1> QED
  BY <1>13, <1>14, <1>15, <1>16, <1>17, <1>18, <1>19, <1>20 DEF Next, Good

-----------------------------------------------------------------------------
\* Every variable keeps its type.
THEOREM TypeCorrect == Spec => []TypeOK
<1>1. UploadInv /\ GateTypes /\ CounterTypes => TypeOK
  BY DEF UploadInv, UploadTypes, GateTypes, CounterTypes, TypeOK, DenyTypeOK
<1>2. UploadInv /\ GateTypes /\ GateInv /\ CounterTypes /\ MissInv /\ GuessInv /\ [Next]_vars
        => (UploadInv /\ GateTypes /\ GateInv /\ CounterTypes /\ MissInv /\ GuessInv)'
  BY UploadStep, GateStep, CounterStep
<1> QED BY <1>1, <1>2, UploadInit, GateInit, CounterInit, PTL DEF Spec

\* Within the narrowest window a device guesses no more often than the limit
\* and once more per request counted beside another, whatever is pruned and
\* whatever window is saved while the process runs. Its count starts again when
\* it is let in, banned or reset, at a restart, and at an eviction of the full
\* counter, which takes it only if as many other counted devices as the eviction
\* leaves failed no earlier (failCounter, handleGuestCode).
THEOREM MacBudgetTheorem == Spec => []MacBudget
<1>1. CounterTypes /\ GuessInv => MacBudget
  <2> SUFFICES ASSUME CounterTypes, GuessInv, NEW m \in Mac
               PROVE  Total(misses[m], Time) <= Limit + Cardinality(Session) - 1
    BY DEF MacBudget
  <2>1. Total(misses[m], Time) \in Nat
    BY TimeIsFinite, TotalType DEF CounterTypes
  <2>2. Total(misses[m], Time) + Cardinality(Guessing(m)) <= Limit + Cardinality(Session) - 1
    BY DEF GuessInv
  <2>3. Cardinality(Guessing(m)) \in Nat /\ Cardinality(Session) \in Nat
    BY GuessingIsFinite
  <2> QED BY <2>1, <2>2, <2>3
<1>2. GateTypes /\ GateInv /\ CounterTypes /\ MissInv /\ GuessInv /\ [Next]_vars
        => (GateTypes /\ GateInv /\ CounterTypes /\ MissInv /\ GuessInv)'
  BY GateStep, CounterStep
<1> QED BY <1>1, <1>2, GateInit, CounterInit, PTL DEF Spec

\* A device that is denied all the while a request is served is not let in by it.
THEOREM DeniedStaysOutTheorem == Spec => []DeniedStaysOut
<1>1. GateTypes /\ GateInv => DeniedStaysOut
  BY DEF GateInv, DeniedStaysOut, At
<1> QED BY <1>1, GateInit, GateStep, PTL DEF Spec

\* An upload reports as many bans as it has made, none when it was rolled back.
THEOREM UploadReportsTruthTheorem == Spec => []UploadReportsTruth
<1>1. UploadInv => UploadReportsTruth
  BY DEF UploadInv, RowsAt, UploadReportsTruth
<1> QED BY <1>1, UploadInit, UploadStep, PTL DEF Spec
=============================================================================
