------------------------ MODULE CertificatesProofs --------------------------
(***************************************************************************)
(* Type correctness of the certificates, that none is ever lost, that the  *)
(* renewal loop spares an upload it could know of, and that what is stored *)
(* is served, for any number of console requests and any faults.           *)
(***************************************************************************)
EXTENDS Certificates, FiniteSetTheorems, TLAPS

USE ThreadAssumption, FaultsAssumption, PairAssumption, RowAssumption

\* What TypeOK does not say of a thread: it saves a certificate that it has,
\* it serves one that it has, and the loop brings none of its own.
HandInv ==
  /\ \A t \in Thread : At(t, "save") \/ At(t, "set") => thread[t].cert # None
  /\ \A t \in Thread : ~At(t, "save") => thread[t].source = "acme"
  /\ thread[Loop].source = "acme"

\* The loop is at work on an uploaded certificate only if it is excused.
ExcuseInv ==
  Existing.source = "manual" /\ thread[Loop].stage \in {"wait", "register", "order", "save"}
    => excused

CertInv == TypeOK /\ HandInv /\ ExcuseInv

-----------------------------------------------------------------------------
\* There is always a certificate that nobody holds.
LEMMA NewIsPair == New \in Pair
<1> DEFINE held == {thread[t].cert : t \in Thread}
           hold == [t \in Thread |-> thread[t].cert]
           two  == {Stored, served}
<1>1. IsFiniteSet(Thread) /\ Cardinality(Thread) = Cardinality(Request) + 1
  BY FS_AddElement DEF Thread
<1>2. IsFiniteSet(held) /\ Cardinality(held) <= Cardinality(Request) + 1
  <2>1. hold \in Surjection(Thread, held)
    BY DEF Surjection
  <2> QED BY <1>1, <2>1, FS_Surjection
<1>3. IsFiniteSet(two) /\ Cardinality(two) <= 2
  <2>1. IsFiniteSet({Stored}) /\ Cardinality({Stored}) = 1
    BY FS_Singleton
  <2>2. /\ IsFiniteSet({Stored} \cup {served})
        /\ Cardinality({Stored} \cup {served})
             = IF served \in {Stored} THEN Cardinality({Stored}) ELSE Cardinality({Stored}) + 1
    BY <2>1, FS_AddElement
  <2>3. two = {Stored} \cup {served}
    OBVIOUS
  <2> HIDE DEF two
  <2> QED BY <2>1, <2>2, <2>3
<1>4. IsFiniteSet(two \cup held) /\ Cardinality(two \cup held) <= Cardinality(Request) + 3
  <2>1. /\ IsFiniteSet(two \cup held)
        /\ Cardinality(two \cup held) = Cardinality(two) + Cardinality(held) - Cardinality(two \cap held)
    BY <1>2, <1>3, FS_Union
  <2>2. IsFiniteSet(two \cap held)
    BY <1>2, FS_Subset
  <2>3. Cardinality(two) \in Nat /\ Cardinality(held) \in Nat /\ Cardinality(two \cap held) \in Nat
        /\ Cardinality(Request) \in Nat
    BY <1>2, <1>3, <2>2, FS_CardinalityType
  <2> HIDE DEF two, held
  <2> QED BY <1>2, <1>3, <2>1, <2>3
<1>5. \E c \in Pair : c \notin two \cup held
  <2> SUFFICES ASSUME Pair \subseteq two \cup held PROVE FALSE
    OBVIOUS
  <2>1. Cardinality(Pair) <= Cardinality(two \cup held)
    BY <1>4, FS_Subset
  <2>2. Cardinality(Pair) \in Nat /\ Cardinality(Request) \in Nat /\ Cardinality(two \cup held) \in Nat
    BY <1>4, FS_CardinalityType
  <2> HIDE DEF two, held
  <2> QED BY <1>4, <2>1, <2>2
<1> QED BY <1>5 DEF New

LEMMA InitCertInv == Init => CertInv
<1> SUFFICES ASSUME Init PROVE CertInv
  OBVIOUS
<1>1. thread \in [Thread -> ThreadState]
  <2>1. Idle \in ThreadState
    BY DEF ThreadState, Idle, Stage, Source
  <2> QED BY <2>1 DEF Init
<1>2. Existing.source = "acme"
  BY DEF Init, Existing, Blank
<1>3. TypeOK
  <2>1. Existing.source = "manual" => Stored # None
    BY <1>2
  <2>2. restarts \in 0 .. MaxRestarts
    BY DEF Init
  <2> QED BY <1>1, <2>1, <2>2, Zenon DEF Init, TypeOK
<1>4. HandInv /\ ExcuseInv
  <2>1. \A t \in Thread : thread[t] = Idle
    BY DEF Init
  <2>2. Loop \in Thread
    BY DEF Thread
  <2> QED BY <1>2, <2>1, <2>2 DEF HandInv, ExcuseInv, Idle, At
<1> QED BY <1>3, <1>4 DEF CertInv

\* The row that a statement finds or makes.
LEMMA ExistingIsRow == TypeOK => Existing \in Row /\ Stored \in Pair \cup {None}
BY DEF TypeOK, Existing, Stored, Row, Blank, Source

\* What becomes of the row, in the next state.
LEMMA RowType ==
  ASSUME TypeOK, row' \in Row, row'.source = "manual" => row'.cert # None
  PROVE  row' \in Row \cup {None} /\ (Existing'.source = "manual" => Stored' # None)
BY DEF Existing, Stored, Blank

\* Every action keeps every variable in its type.
LEMMA TypeStep == TypeOK /\ HandInv /\ [Next]_vars => TypeOK'
<1> SUFFICES ASSUME TypeOK, HandInv, [Next]_vars PROVE TypeOK'
  OBVIOUS
<1> DEFINE RowOK == row \in Row \cup {None} /\ (Existing.source = "manual" => Stored # None)
<1>0. /\ Loop \in Thread /\ \A r \in Request : r \in Thread
      /\ Idle \in ThreadState
      /\ Existing \in Row /\ Stored \in Pair \cup {None}
  BY ExistingIsRow DEF Thread, Idle, ThreadState, Stage, Source
<1>a. UNCHANGED row => RowOK'
  BY DEF TypeOK, Existing, Stored
<1> USE <1>0, <1>a, NewIsPair
<1> HIDE DEF New, RowOK
<1> USE DEF ThreadState, Stage, Source, At, Go, Finish, May, history
<1>1. ASSUME Renew \/ RenewBlind PROVE TypeOK'
  <2>1. UNCHANGED <<row, served, standalone, inFlight, restarts, current>> /\ excused' \in BOOLEAN
    BY <1>1 DEF Renew, RenewBlind
  <2>2. thread' = [thread EXCEPT ![Loop].stage = "wait"]
    BY <1>1 DEF Renew, RenewBlind
  <2> QED BY <2>1, <2>2 DEF TypeOK, RowOK
<1>2. ASSUME NEW r \in Request, Issue(r) \/ Upload(r) \/ Bind(r) PROVE TypeOK'
  <2>1. CASE Issue(r)
    BY <2>1 DEF Issue, TypeOK, RowOK
  <2>2. CASE Upload(r)
    BY <2>2 DEF Upload, TypeOK, RowOK
  <2>3. CASE Bind(r)
    BY <2>3 DEF Bind, TypeOK, RowOK
  <2> QED BY <1>2, <2>1, <2>2, <2>3
<1>3. ASSUME NEW t \in Thread, Issuing(t) PROVE TypeOK'
  <2>1. CASE Acquire(t)
    BY <2>1 DEF Acquire, TypeOK, RowOK
  <2>2. CASE Register(t)
    <3>1. row' = [Existing EXCEPT !.account = TRUE] => row' \in Row /\ (row'.source = "manual" => row'.cert # None)
      BY DEF TypeOK, Row, Stored
    <3>2. RowOK'
      BY <2>2, <3>1, RowType DEF Register, RowOK
    <3> QED BY <2>2, <3>2 DEF Register, TypeOK, RowOK
  <2>3. CASE Obtain(t)
    BY <2>3 DEF Obtain, TypeOK, RowOK
  <2>4. CASE Refuse(t)
    BY <2>4 DEF Refuse, TypeOK, RowOK
  <2> QED BY <1>3, <2>1, <2>2, <2>3, <2>4 DEF Issuing
<1>4. ASSUME NEW t \in Thread, Installing(t) PROVE TypeOK'
  <2>1. CASE Save(t)
    <3>1. row' \in Row /\ (row'.source = "manual" => row'.cert # None)
      BY <2>1 DEF Save, TypeOK, HandInv, Row, Blank
    <3>2. RowOK'
      BY <3>1, RowType DEF RowOK
    <3> QED BY <2>1, <3>2 DEF Save, Release, TypeOK, RowOK, Idle
  <2>2. CASE SaveFails(t)
    BY <2>2 DEF SaveFails, Release, TypeOK, RowOK, Idle
  <2>3. CASE RecordFailure(t)
    <3>1. row' = Existing => row' \in Row /\ (row'.source = "manual" => row'.cert # None)
      BY DEF TypeOK, Stored
    <3>2. RowOK'
      BY <2>3, <3>1, RowType DEF RecordFailure, RowOK
    <3> QED BY <2>3, <3>2 DEF RecordFailure, TypeOK, RowOK
  <2>4. CASE Load(t)
    BY <2>4 DEF Load, TypeOK, RowOK, Idle
  <2>5. CASE LoadFails(t)
    BY <2>5 DEF LoadFails, TypeOK, RowOK
  <2>6. CASE Set(t)
    BY <2>6 DEF Set, TypeOK, RowOK
  <2> QED BY <1>4, <2>1, <2>2, <2>3, <2>4, <2>5, <2>6 DEF Installing
<1>5. CASE Unbind
  BY <1>5 DEF Unbind, TypeOK, RowOK
<1>6. CASE Age
  <2>1. row' \in Row /\ (row'.source = "manual" => row'.cert # None)
    BY <1>6 DEF Age, TypeOK, Row, Existing, Stored, Blank
  <2>2. RowOK'
    BY <2>1, RowType DEF RowOK
  <2> QED BY <1>6, <2>2 DEF Age, TypeOK, RowOK
<1>7. CASE Restart
  <2>1. thread' \in [Thread -> ThreadState]
    BY <1>7 DEF Restart
  <2>2. served' \in Pair \cup {None} /\ current' \in BOOLEAN
    BY <1>7, Zenon DEF Restart, TypeOK
  <2>3. restarts' \in 0 .. MaxRestarts
    BY <1>7 DEF Restart, TypeOK
  <2> QED BY <1>7, <2>1, <2>2, <2>3 DEF Restart, TypeOK, RowOK
<1>8. CASE UNCHANGED vars
  BY <1>8 DEF vars, TypeOK, RowOK
<1> QED BY <1>1, <1>2, <1>3, <1>4, <1>5, <1>6, <1>7, <1>8 DEF Next
\* What a thread holds is what the next step needs.
LEMMA HandStep == TypeOK /\ HandInv /\ [Next]_vars => HandInv'
<1> SUFFICES ASSUME TypeOK, HandInv, [Next]_vars PROVE HandInv'
  OBVIOUS
<1>0. /\ Loop \in Thread /\ Loop \notin Request /\ \A r \in Request : r \in Thread
      /\ Stored \in Pair \cup {None} /\ New \in Pair
      /\ thread \in [Thread -> ThreadState]
  BY ExistingIsRow, NewIsPair DEF Thread, TypeOK
<1> USE <1>0
<1> HIDE DEF New, Stored
<1> USE DEF HandInv, ThreadState, Idle, At, Go, Finish
<1>1. ASSUME Renew \/ RenewBlind PROVE HandInv'
  <2>1. thread' = [thread EXCEPT ![Loop].stage = "wait"] /\ At(Loop, "idle")
    BY <1>1 DEF Renew, RenewBlind
  <2> QED BY <2>1
<1>2. ASSUME NEW r \in Request, Issue(r) \/ Upload(r) \/ Bind(r) PROVE HandInv'
  <2>1. CASE Issue(r)
    BY <2>1 DEF Issue
  <2>2. CASE Upload(r)
    BY <2>2 DEF Upload
  <2>3. CASE Bind(r)
    BY <2>3 DEF Bind
  <2> QED BY <1>2, <2>1, <2>2, <2>3
<1>3. ASSUME NEW t \in Thread, Issuing(t) PROVE HandInv'
  <2>1. CASE Acquire(t)
    BY <2>1 DEF Acquire
  <2>2. CASE Register(t)
    BY <2>2 DEF Register
  <2>3. CASE Obtain(t)
    BY <2>3 DEF Obtain
  <2>4. CASE Refuse(t)
    BY <2>4 DEF Refuse
  <2> QED BY <1>3, <2>1, <2>2, <2>3, <2>4 DEF Issuing
<1>4. ASSUME NEW t \in Thread, Installing(t) PROVE HandInv'
  <2>1. CASE Save(t)
    BY <2>1 DEF Save
  <2>2. CASE SaveFails(t)
    BY <2>2 DEF SaveFails
  <2>3. CASE RecordFailure(t)
    BY <2>3 DEF RecordFailure
  <2>4. CASE Load(t)
    BY <2>4 DEF Load
  <2>5. CASE LoadFails(t)
    BY <2>5 DEF LoadFails
  <2>6. CASE Set(t)
    BY <2>6 DEF Set
  <2> QED BY <1>4, <2>1, <2>2, <2>3, <2>4, <2>5, <2>6 DEF Installing
<1>5. ASSUME Unbind \/ Age \/ UNCHANGED vars PROVE HandInv'
  BY <1>5 DEF Unbind, Age, vars
<1>6. CASE Restart
  BY <1>6 DEF Restart
<1> QED BY <1>1, <1>2, <1>3, <1>4, <1>5, <1>6 DEF Next

\* A statement that leaves the source of the row alone leaves it acme or manual.
LEMMA SourceKept ==
  ASSUME row' = row \/ (row' \in Row /\ (row'.source = Existing.source \/ row'.source = "acme"))
  PROVE  Existing'.source = "manual" => Existing.source = "manual"
BY DEF Existing, Blank

\* Where the loop is at work on an uploaded certificate, it is excused.
LEMMA ExcuseStep == CertInv /\ [Next]_vars => ExcuseInv'
<1> SUFFICES ASSUME TypeOK, HandInv, ExcuseInv, [Next]_vars PROVE ExcuseInv'
  BY DEF CertInv
<1> DEFINE kept   == Existing'.source = "manual" => Existing.source = "manual"
           before == thread[Loop].stage \in {"wait", "register", "order", "save"}
<1>0. /\ Loop \in Thread /\ Loop \notin Request /\ \A r \in Request : r \in Thread
      /\ Existing \in Row /\ thread \in [Thread -> ThreadState]
  BY ExistingIsRow DEF Thread, TypeOK
<1>a. UNCHANGED row => kept
  BY SourceKept
\* A step that keeps the source, that does not bring the loop to work and that
\* withdraws no excuse.
<1>b. ASSUME kept, before' => before, excused => excused' PROVE ExcuseInv'
  BY <1>b DEF ExcuseInv
<1> USE <1>0
<1> HIDE DEF kept
<1> USE DEF ThreadState, Idle, At, Go, Finish, history
<1>1. CASE Renew
  BY <1>1, <1>a DEF Renew, ExcuseInv, kept
<1>2. CASE RenewBlind
  BY <1>2 DEF RenewBlind, ExcuseInv
<1>3. ASSUME NEW r \in Request, Issue(r) \/ Upload(r) \/ Bind(r) PROVE ExcuseInv'
  <2>1. UNCHANGED <<row, excused>>
    BY <1>3 DEF Issue, Upload, Bind
  <2>2. thread'[Loop] = thread[Loop]
    BY <1>3 DEF Issue, Upload, Bind
  <2> QED BY <1>a, <1>b, <2>1, <2>2
<1>4. ASSUME NEW t \in Thread, Issuing(t) PROVE ExcuseInv'
  <2>1. CASE Register(t)
    <3>1. UNCHANGED row \/ (row' \in Row /\ row'.source = Existing.source)
      BY <2>1 DEF Register, Row
    <3>2. kept
      BY <3>1, SourceKept DEF kept
    <3>3. (before' => before) /\ UNCHANGED excused
      BY <2>1 DEF Register
    <3> QED BY <1>b, <3>2, <3>3
  <2>2. CASE ~Register(t)
    <3>1. UNCHANGED <<row, excused>>
      BY <1>4, <2>2 DEF Issuing, Acquire, Obtain, Refuse
    <3>2. before' => before
      <4>1. CASE Acquire(t)
        BY <4>1 DEF Acquire
      <4>2. CASE Obtain(t)
        BY <4>2 DEF Obtain
      <4>3. CASE Refuse(t)
        BY <4>3 DEF Refuse
      <4> QED BY <1>4, <2>2, <4>1, <4>2, <4>3 DEF Issuing
    <3> QED BY <1>a, <1>b, <3>1, <3>2
  <2> QED BY <2>1, <2>2
<1>5. ASSUME NEW t \in Thread, Installing(t) PROVE ExcuseInv'
  <2>1. CASE Save(t)
    <3>1. CASE thread[t].source = "manual"
      BY <2>1, <3>1 DEF Save, ExcuseInv
    <3>2. CASE thread[t].source # "manual"
      <4>1. row' \in Row /\ row'.source = "acme"
        BY <2>1, <3>2 DEF Save, Row, Blank, Source, TypeOK
      <4>2. kept
        BY <4>1, SourceKept DEF kept
      <4>3. (before' => before) /\ (excused => excused')
        BY <2>1 DEF Save
      <4> QED BY <1>b, <4>2, <4>3
    <3> QED BY <3>1, <3>2
  <2>2. CASE RecordFailure(t)
    <3>1. UNCHANGED row \/ (row' \in Row /\ row'.source = Existing.source)
      BY <2>2 DEF RecordFailure
    <3>2. kept
      BY <3>1, SourceKept DEF kept
    <3>3. (before' => before) /\ UNCHANGED excused
      BY <2>2 DEF RecordFailure
    <3> QED BY <1>b, <3>2, <3>3
  <2>3. CASE SaveFails(t)
    BY <1>a, <1>b, <2>3 DEF SaveFails
  <2>4. CASE Load(t)
    BY <1>a, <1>b, <2>4 DEF Load
  <2>5. CASE LoadFails(t)
    BY <1>a, <1>b, <2>5 DEF LoadFails
  <2>6. CASE Set(t)
    BY <1>a, <1>b, <2>6 DEF Set
  <2> QED BY <1>5, <2>1, <2>2, <2>3, <2>4, <2>5, <2>6 DEF Installing
<1>6. CASE Age
  <2>1. row' \in Row /\ row'.source = Existing.source
    BY <1>6 DEF Age, TypeOK, Row, Existing, Stored, Blank
  <2>2. kept
    BY <2>1, SourceKept DEF kept
  <2> QED BY <1>6, <1>b, <2>2 DEF Age
<1>7. CASE Unbind \/ UNCHANGED vars
  BY <1>7, <1>a, <1>b DEF Unbind, vars
<1>8. CASE Restart
  BY <1>8, <1>a, <1>b DEF Restart
<1> QED BY <1>1, <1>2, <1>3, <1>4, <1>5, <1>6, <1>7, <1>8 DEF Next

LEMMA CertInvariant == Spec => []CertInv
<1>1. CertInv /\ [Next]_vars => CertInv'
  BY TypeStep, HandStep, ExcuseStep DEF CertInv
<1> QED BY <1>1, InitCertInv, PTL DEF Spec

\* Every variable keeps its type, and what is stored as uploaded is a
\* certificate: certStore writes no other row.
THEOREM TypeCorrect == Spec => []TypeOK
<1>1. CertInv => TypeOK
  BY DEF CertInv
<1> QED BY <1>1, CertInvariant, PTL

\* The renewal loop replaces an uploaded certificate only when it failed to
\* read the row, or the upload came during its order.
THEOREM LoopSparesUploadTheorem == Spec => LoopSparesUpload
<1>1. CertInv => [Save(Loop) /\ Existing.source = "manual" => excused]_vars
  BY DEF CertInv, ExcuseInv, Save, At
<1> QED BY <1>1, CertInvariant, PTL DEF LoopSparesUpload

\* A statement writes another certificate or leaves the one there is.
LEMMA KeepStep ==
  CertInv /\ [Next]_vars => /\ Stored # None => Stored' # None
                            /\ served # None => (served' # None \/ Restart)
<1> DEFINE keepsRow    == Stored # None => Stored' # None
           keepsServed == served # None => (served' # None \/ Restart)
<1>1. CertInv /\ [Next]_vars => keepsRow /\ keepsServed
  <2> SUFFICES ASSUME TypeOK, HandInv, [Next]_vars PROVE keepsRow /\ keepsServed
    BY DEF CertInv
  <2>0. Existing \in Row
    BY ExistingIsRow
  <2>a. UNCHANGED row => keepsRow
    BY DEF Stored, Existing
  <2>b. row' \in Row /\ (row'.cert = Stored \/ row'.cert # None) => keepsRow
    BY DEF Stored, Existing
  <2> HIDE DEF keepsRow
  <2>1. CASE UNCHANGED <<row, served>>
    BY <2>1, <2>a
  <2>2. ASSUME NEW t \in Thread, Register(t) \/ RecordFailure(t) PROVE keepsRow /\ keepsServed
    <3>1. UNCHANGED row \/ (row' \in Row /\ row'.cert = Stored)
      BY <2>0, <2>2 DEF Register, RecordFailure, Row, Stored
    <3> QED BY <2>2, <2>a, <2>b, <3>1 DEF Register, RecordFailure
  <2>3. ASSUME NEW t \in Thread, Save(t) PROVE keepsRow /\ keepsServed
    <3>1. row' \in Row /\ row'.cert # None
      BY <2>3 DEF Save, TypeOK, HandInv, ThreadState, Row, Blank, Source
    <3> QED BY <2>3, <2>b, <3>1 DEF Save
  <2>4. ASSUME NEW t \in Thread, Set(t) PROVE keepsRow /\ keepsServed
    BY <2>4, <2>a DEF Set, HandInv
  <2>5. CASE Age
    <3>1. row' \in Row /\ row'.cert = Stored
      BY <2>0, <2>5 DEF Age, TypeOK, Row, Existing, Stored, Blank
    <3> QED BY <2>5, <2>b, <3>1 DEF Age
  <2>6. CASE Restart
    BY <2>6, <2>a DEF Restart
  <2>7. ASSUME [Next]_vars, ~Age, ~Restart,
               \A t \in Thread : ~(Register(t) \/ RecordFailure(t) \/ Save(t) \/ Set(t))
        PROVE  UNCHANGED <<row, served>>
    <3>1. ASSUME Renew \/ RenewBlind \/ Unbind \/ UNCHANGED vars PROVE UNCHANGED <<row, served>>
      BY <3>1 DEF Renew, RenewBlind, Unbind, vars
    <3>2. ASSUME NEW r \in Request, Issue(r) \/ Upload(r) \/ Bind(r) PROVE UNCHANGED <<row, served>>
      BY <3>2 DEF Issue, Upload, Bind
    <3>3. ASSUME NEW t \in Thread, Acquire(t) \/ Obtain(t) \/ Refuse(t)
          PROVE  UNCHANGED <<row, served>>
      BY <3>3 DEF Acquire, Obtain, Refuse
    <3>4. ASSUME NEW t \in Thread, SaveFails(t) \/ Load(t) \/ LoadFails(t)
          PROVE  UNCHANGED <<row, served>>
      BY <3>4 DEF SaveFails, Load, LoadFails
    <3> QED BY <2>7, <3>1, <3>2, <3>3, <3>4 DEF Next, Issuing, Installing
  <2> QED BY <2>1, <2>2, <2>3, <2>4, <2>5, <2>6, <2>7
<1> QED BY <1>1

\* No step takes the stored certificate away, and none but the end of the
\* process the certificate that is served.
THEOREM CertificateIsKeptTheorem == Spec => CertificateIsKept
<1>1. CertInv /\ [Next]_vars =>
        [/\ Stored # None => Stored' # None
         /\ served # None => (served' # None \/ Restart)]_vars
  BY KeepStep
<1> QED BY <1>1, CertInvariant, PTL DEF Spec, CertificateIsKept

-----------------------------------------------------------------------------
(* What is served is what is stored.                                       *)

\* A thread is still to serve a certificate that is not served yet, and
\* nobody serves a certificate out of an empty row.
ServeInv ==
  /\ current => \A t \in Thread : At(t, "set") => thread[t].cert = Stored
  /\ served # None \/ (\E t \in Thread : At(t, "set")) => Stored # None
  /\ ServesStored

LEMMA InitServeInv == Init => ServeInv
BY DEF Init, ServeInv, ServesStored, Stored, Existing, Blank, Idle, At, Thread

\* A step that leaves alone what is stored, what is served, and who is about to
\* serve what.
LEMMA QuietStep ==
  ASSUME ServeInv, Stored' = Stored, UNCHANGED <<served, current>>, standalone' => standalone,
         \A t \in Thread : /\ At(t, "load")' <=> At(t, "load")
                           /\ At(t, "set")' <=> At(t, "set")
                           /\ At(t, "set") => thread'[t].cert = thread[t].cert
  PROVE  ServeInv'
BY Zenon DEF ServeInv, ServesStored

\* A save leaves a thread at its load, a load one at its set, and the set
\* serves what is stored unless a save came in between.
LEMMA ServeStep == CertInv /\ ServeInv /\ [Next]_vars => ServeInv'
<1> SUFFICES ASSUME TypeOK, HandInv, ServeInv, CertInv, [Next]_vars PROVE ServeInv'
  BY DEF CertInv
<1>0. /\ Loop \in Thread /\ \A r \in Request : r \in Thread
      /\ Existing \in Row /\ Stored \in Pair \cup {None}
      /\ thread \in [Thread -> ThreadState]
  BY ExistingIsRow DEF Thread, TypeOK
<1>a. UNCHANGED row => Stored' = Stored
  BY DEF Stored, Existing
<1>b. row' \in Row => Stored' = row'.cert
  BY DEF Stored, Existing
<1>c. Stored # None => Stored' # None
  BY KeepStep
\* A thread that neither was nor comes to be at its load or its set.
<1>d. ASSUME NEW t \in Thread,
             \A u \in Thread : u # t => thread'[u] = thread[u],
             thread[t].stage \notin {"load", "set"}, thread'[t].stage \notin {"load", "set"},
             Stored' = Stored, UNCHANGED <<served, standalone, current>>
      PROVE  ServeInv'
  <2>1. \A u \in Thread : /\ At(u, "load")' <=> At(u, "load")
                          /\ At(u, "set")' <=> At(u, "set")
                          /\ At(u, "set") => thread'[u].cert = thread[u].cert
    BY <1>d DEF At
  <2> QED BY <1>d, <2>1, QuietStep
<1> USE <1>0
<1> HIDE DEF New, Stored
<1> USE DEF ThreadState, Idle, At, Go, Finish, history
<1>1. CASE Renew \/ RenewBlind
  <2>1. thread' = [thread EXCEPT ![Loop].stage = "wait"] /\ At(Loop, "idle")
        /\ UNCHANGED <<row, served, standalone, current>>
    BY <1>1 DEF Renew, RenewBlind
  <2> QED BY <1>a, <1>d, <2>1
<1>2. ASSUME NEW r \in Request, Issue(r) \/ Upload(r) PROVE ServeInv'
  <2>1. /\ \A u \in Thread : u # r => thread'[u] = thread[u]
        /\ thread[r].stage = "idle" /\ thread'[r].stage \in {"wait", "save"}
        /\ UNCHANGED <<row, served, standalone, current>>
    BY <1>2 DEF Issue, Upload
  <2> QED BY <1>a, <1>d, <2>1
<1>3. ASSUME NEW r \in Request, Bind(r) PROVE ServeInv'
  <2>1. /\ At(r, "idle") /\ At(r, "load")' /\ UNCHANGED <<served, current>> /\ Stored' = Stored
        /\ \A u \in Thread : u # r => thread'[u] = thread[u]
    BY <1>3, <1>a DEF Bind
  <2> QED BY <2>1 DEF ServeInv, ServesStored
<1>4. ASSUME NEW t \in Thread, Issuing(t) PROVE ServeInv'
  <2>1. /\ \A u \in Thread : u # t => thread'[u] = thread[u]
        /\ UNCHANGED <<served, standalone, current>>
    BY <1>4 DEF Issuing, Acquire, Register, Obtain, Refuse
  <2>2. thread[t].stage \notin {"load", "set"} /\ thread'[t].stage \notin {"load", "set"}
    BY <1>4 DEF Issuing, Acquire, Register, Obtain, Refuse
  <2>3. Stored' = Stored
    <3>1. CASE Register(t)
      <4>1. UNCHANGED row \/ (row' \in Row /\ row'.cert = Existing.cert)
        BY <3>1 DEF Register, Row
      <4> QED BY <1>a, <1>b, <4>1 DEF Stored
    <3>2. CASE ~Register(t)
      BY <1>4, <1>a, <3>2 DEF Issuing, Acquire, Obtain, Refuse
    <3> QED BY <3>1, <3>2
  <2> QED BY <1>d, <2>1, <2>2, <2>3
<1>5. ASSUME NEW t \in Thread, Installing(t) PROVE ServeInv'
  <2>1. CASE Save(t)
    <3>1. row' \in Row /\ row'.cert # None
      BY <2>1 DEF Save, TypeOK, HandInv, Row, Blank, Source
    <3>2. Stored' # None
      BY <1>b, <3>1
    <3>3. At(t, "load")' /\ current' = (\A u \in Thread : ~At(u, "set"))
          /\ \A u \in Thread : At(u, "set")' <=> u # t /\ At(u, "set")
      BY <2>1 DEF Save
    <3> QED BY <3>2, <3>3 DEF ServeInv, ServesStored
  <2>2. CASE SaveFails(t) \/ RecordFailure(t)
    <3>1. /\ \A u \in Thread : u # t => thread'[u] = thread[u]
          /\ thread[t].stage \notin {"load", "set"} /\ thread'[t].stage \notin {"load", "set"}
          /\ UNCHANGED <<served, standalone, current>>
      BY <2>2 DEF SaveFails, RecordFailure
    <3>2. UNCHANGED row \/ row' = Existing
      BY <2>2 DEF SaveFails, RecordFailure
    <3>3. Stored' = Stored
      BY <1>a, <1>b, <3>2 DEF Stored
    <3> QED BY <1>d, <3>1, <3>3
  <2>3. CASE Load(t)
    <3>1. Stored' = Stored /\ UNCHANGED <<served, current>> /\ At(t, "load")
          /\ \A u \in Thread : u # t => thread'[u] = thread[u]
      BY <1>a, <2>3 DEF Load
    <3>2. CASE Stored = None
      <4>1. thread'[t].stage = "idle"
        BY <2>3, <3>2 DEF Load
      <4> QED BY <3>1, <3>2, <4>1 DEF ServeInv, ServesStored
    <3>3. CASE Stored # None
      <4>1. At(t, "set")' /\ thread'[t].cert = Stored
        BY <2>3, <3>3 DEF Load
      <4> QED BY <3>1, <3>3, <4>1 DEF ServeInv, ServesStored
    <3> QED BY <3>2, <3>3
  <2>4. CASE LoadFails(t)
    <3>1. Stored' = Stored /\ UNCHANGED served /\ ~current'
          /\ \A u \in Thread : At(u, "set")' => At(u, "set")
      BY <1>a, <2>4 DEF LoadFails
    <3> QED BY <3>1 DEF ServeInv, ServesStored
  <2>5. CASE Set(t)
    <3>1. Stored' = Stored /\ served' = thread[t].cert /\ UNCHANGED current /\ At(t, "set")
          /\ \A u \in Thread : At(u, "set")' => At(u, "set") /\ thread'[u].cert = thread[u].cert
      BY <1>a, <2>5 DEF Set
    <3> QED BY <3>1 DEF ServeInv, ServesStored
  <2> QED BY <1>5, <2>1, <2>2, <2>3, <2>4, <2>5 DEF Installing
<1>6. CASE Unbind \/ Age \/ UNCHANGED vars
  <2>1. Stored' = Stored
    <3>1. CASE Age
      <4>1. row' \in Row /\ row'.cert = Existing.cert
        BY <3>1 DEF Age, TypeOK, Row, Existing, Stored, Blank
      <4> QED BY <1>b, <4>1 DEF Stored
    <3> QED BY <1>6, <1>a, <3>1 DEF Unbind, vars
  <2>2. UNCHANGED <<served, thread, current>> /\ (standalone' => standalone)
    BY <1>6 DEF Unbind, Age, vars
  <2> QED BY <2>1, <2>2, QuietStep
<1>7. CASE Restart
  <2>1. Stored' = Stored /\ \A t \in Thread : ~At(t, "set")'
    BY <1>7, <1>a DEF Restart
  <2>2. served' = None \/ served' = Stored
    BY <1>7 DEF Restart
  <2>3. current' /\ standalone' => served' = Stored
    BY <1>7 DEF Restart
  <2> QED BY <2>1, <2>2, <2>3 DEF ServeInv, ServesStored
<1> QED BY <1>1, <1>2, <1>3, <1>4, <1>5, <1>6, <1>7 DEF Next

\* When nothing is being installed, a handshake gets the certificate of the
\* row, but for a save that overtook a load and a row that was not read.
THEOREM ServesStoredTheorem == Spec => []ServesStored
<1>1. CertInv /\ ServeInv /\ [Next]_vars => ServeInv'
  BY ServeStep
<1>2. ServeInv => ServesStored
  BY DEF ServeInv
<1> QED BY <1>1, <1>2, InitServeInv, CertInvariant, PTL DEF Spec
=============================================================================
