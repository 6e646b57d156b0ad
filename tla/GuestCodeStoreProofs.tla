------------------------ MODULE GuestCodeStoreProofs ------------------------
(***************************************************************************)
(* Type correctness, the use limit, the refinement of the ledger, and what *)
(* an edit, the sweep and the counters promise, for every finite set of    *)
(* codes, every set of requests and either kind of database.               *)
(***************************************************************************)
EXTENDS GuestCodeStore, FiniteSetTheorems, TLAPS

\* A transaction in progress still sees the row it read, and holds it alone.
LockInv ==
  /\ \A r \in Request : pc[r] = "asked" => asked[r] \in Code
  /\ \A r \in Request : InTxn(r) =>
       asked[r] \in Code /\ snap[r] \in Row /\ row[asked[r]] = snap[r]
  /\ \A r, s \in Request : InTxn(r) /\ InTxn(s) /\ r # s => asked[r] # asked[s]

\* What Check found is still true when Commit acts on it.
BudgetInv ==
  \A r \in Request : pc[r] = "checked" =>
    snap[r].max = 0 \/ Cardinality(uses[asked[r]]) < snap[r].max

\* Each request is on record once, and only after its commit.
RecordInv ==
  /\ \A k \in Code : uses[k] \subseteq spent /\ IsFiniteSet(uses[k])
  /\ \A r \in spent : pc[r] \in {"redeemed", "granted", "lost"}
  /\ \A k \in Code : row[k] = Absent => uses[k] = {}

\* The history variable bounds the limit in force.
PeakInv ==
  \A k \in Existing : peak[k] = 0 \/ (row[k].max # 0 /\ row[k].max <= peak[k])

\* A code is checked after it was presented.
FreshInv ==
  \A r \in Request : /\ began[r] <= now
                     /\ pc[r] = "checked" => ~Past(snap[r].exp, began[r])

RedemptionInv ==
  TypeOK /\ LockInv /\ BudgetInv /\ RecordInv /\ PeakInv /\ NeverOverspent
  /\ GrantsAreRecorded /\ FreshInv

USE BoundAssumption, DriverAssumption, ExpiryAssumption, NeverAssumption, AbsentAssumption

-----------------------------------------------------------------------------
\* The initial state has no code and no request under way.
LEMMA InitRedemptionInv == Init => RedemptionInv
<1> SUFFICES ASSUME Init PROVE RedemptionInv
  OBVIOUS
<1>1. TypeOK
  BY DEF Init, TypeOK, Row, Limit, Time, Outcome
<1>2. LockInv /\ BudgetInv /\ PeakInv /\ NeverOverspent /\ GrantsAreRecorded
  BY DEF Init, LockInv, BudgetInv, PeakInv, NeverOverspent, GrantsAreRecorded,
         InTxn, Existing
<1>3. RecordInv
  BY FS_EmptySet DEF Init, RecordInv
<1>4. FreshInv
  BY DEF Init, FreshInv
<1> QED BY <1>1, <1>2, <1>3, <1>4 DEF RedemptionInv

\* Every action keeps every variable in its type.
LEMMA TypeStep == TypeOK /\ LockInv /\ [Next]_vars => TypeOK'
<1> SUFFICES ASSUME TypeOK, LockInv, [Next]_vars PROVE TypeOK'
  OBVIOUS
<1> USE DEF TypeOK, Row, Limit, Time, Outcome, reqVars, storeVars, history
<1>1. ASSUME NEW r \in Request, NEW k \in Code, Ask(r, k) PROVE TypeOK'
  BY <1>1 DEF Ask
<1>2. ASSUME NEW r \in Request, Begin(r) PROVE TypeOK'
  <2>1. asked[r] \in Code
    BY <1>2 DEF Begin, LockInv
  <2>2. CASE row[asked[r]] = Absent
    <3>1. Return(r, "denied") /\ UNCHANGED <<storeVars, now, spent, peak>>
      BY <1>2, <2>2 DEF Begin
    <3> QED BY <3>1 DEF Return
  <2>3. CASE row[asked[r]] # Absent
    <3>1. row[asked[r]] \in Row
      BY <2>1, <2>3
    <3> QED BY <1>2, <2>1, <2>3, <3>1 DEF Begin
  <2> QED BY <2>2, <2>3
<1>3. ASSUME NEW r \in Request, Check(r) PROVE TypeOK'
  BY <1>3 DEF Check, Return
<1>4. ASSUME NEW r \in Request, Commit(r) PROVE TypeOK'
  BY <1>4 DEF Commit, Return, LockInv, InTxn
<1>5. ASSUME NEW r \in Request, Abort(r) \/ Deliver(r) \/ Crash(r) PROVE TypeOK'
  BY <1>5 DEF Abort, Deliver, Crash, Return
<1>6. ASSUME NEW S \in SUBSET Code, NEW m \in Limit, NEW e \in Expiry, AddMany(S, m, e)
      PROVE TypeOK'
  BY <1>6 DEF AddMany
<1>7. ASSUME NEW S \in SUBSET Code, DeleteMany(S) PROVE TypeOK'
  BY <1>7 DEF DeleteMany, Drop
<1>8. ASSUME NEW k \in Code, NEW m \in Limit, NEW e \in Expiry, Edit(k, m, e) PROVE TypeOK'
  BY <1>8 DEF Edit
<1>9. CASE DeleteInactive
  BY <1>9 DEF DeleteInactive, Drop
<1>10. CASE Tick
  BY <1>10 DEF Tick
<1>11. CASE UNCHANGED vars
  BY <1>11 DEF vars
<1> QED
  BY <1>1, <1>2, <1>3, <1>4, <1>5, <1>6, <1>7, <1>8, <1>9, <1>10, <1>11
  DEF Next, Admin, Redemption

\* Row locks: whoever is inside a transaction owns its row, so the row it
\* read cannot have changed and nobody else is inside with the same code.
LEMMA LockStep == TypeOK /\ LockInv /\ [Next]_vars => LockInv'
<1> SUFFICES ASSUME TypeOK, LockInv, [Next]_vars PROVE LockInv'
  OBVIOUS
<1> USE DEF TypeOK, LockInv, InTxn, reqVars, storeVars, history
<1>1. ASSUME NEW r \in Request, NEW k \in Code, Ask(r, k) PROVE LockInv'
  BY <1>1 DEF Ask
<1>2. ASSUME NEW r \in Request, Begin(r) PROVE LockInv'
  BY <1>2 DEF Begin, Return, Free
<1>3. ASSUME NEW r \in Request, Check(r) PROVE LockInv'
  BY <1>3 DEF Check, Return
<1>4. ASSUME NEW r \in Request, Commit(r) PROVE LockInv'
  BY <1>4 DEF Commit, Return
<1>5. ASSUME NEW r \in Request, Abort(r) \/ Deliver(r) \/ Crash(r) PROVE LockInv'
  BY <1>5 DEF Abort, Deliver, Crash, Return
<1>6. ASSUME NEW S \in SUBSET Code, NEW m \in Limit, NEW e \in Expiry, AddMany(S, m, e)
      PROVE LockInv'
  <2>1. UNCHANGED <<pc, asked, snap>>
    BY <1>6 DEF AddMany
  <2>2. \A k \in Existing : row'[k] = row[k]
    BY <1>6 DEF AddMany, Existing
  <2>3. Absent \notin Row
    BY DEF Row, Limit
  <2>4. ASSUME NEW r \in Request, InTxn(r) PROVE asked[r] \in Existing
    BY <2>3, <2>4 DEF Existing
  <2> QED BY <2>1, <2>2, <2>4
<1>7. ASSUME NEW S \in SUBSET Code, DeleteMany(S) PROVE LockInv'
  BY <1>7 DEF DeleteMany, Drop, Existing, Free
<1>8. ASSUME NEW k \in Code, NEW m \in Limit, NEW e \in Expiry, Edit(k, m, e) PROVE LockInv'
  BY <1>8 DEF Edit, Free
<1>9. CASE DeleteInactive
  BY <1>9 DEF DeleteInactive, Drop, Inactive, Existing, Free
<1>10. CASE Tick
  BY <1>10 DEF Tick
<1>11. CASE UNCHANGED vars
  BY <1>11 DEF vars
<1> QED
  BY <1>1, <1>2, <1>3, <1>4, <1>5, <1>6, <1>7, <1>8, <1>9, <1>10, <1>11
  DEF Next, Admin, Redemption

\* Only Commit records a use, of a request that had none, and only the
\* administrator changes a row.
LEMMA RecordStep == TypeOK /\ LockInv /\ RecordInv /\ [Next]_vars => RecordInv'
<1> SUFFICES ASSUME TypeOK, LockInv, RecordInv, [Next]_vars PROVE RecordInv'
  OBVIOUS
<1> USE DEF TypeOK, RecordInv, reqVars, storeVars, history
<1>1. ASSUME NEW r \in Request, NEW k \in Code, Ask(r, k) PROVE RecordInv'
  BY <1>1 DEF Ask
<1>2. ASSUME NEW r \in Request, Begin(r) PROVE RecordInv'
  BY <1>2 DEF Begin, Return
<1>3. ASSUME NEW r \in Request, Check(r) PROVE RecordInv'
  BY <1>3 DEF Check, Return
<1>4. ASSUME NEW r \in Request, Commit(r) PROVE RecordInv'
  <2>1. asked[r] \in Code /\ row[asked[r]] # Absent
    BY <1>4 DEF Commit, LockInv, InTxn, Row, Limit
  <2>2. ASSUME NEW k \in Code PROVE IsFiniteSet(uses'[k])
    <3>1. IsFiniteSet(uses[k]) /\ IsFiniteSet(uses[k] \cup {r})
      BY FS_AddElement
    <3>2. uses'[k] = uses[k] \/ uses'[k] = uses[k] \cup {r}
      BY <1>4, <2>1 DEF Commit
    <3> QED BY <3>1, <3>2
  <2>3. \A k \in Code : uses'[k] \subseteq spent'
    BY <1>4, <2>1 DEF Commit
  <2>4. \A s \in spent' : pc'[s] \in {"redeemed", "granted", "lost"}
    BY <1>4 DEF Commit, Return
  <2> QED BY <1>4, <2>1, <2>2, <2>3, <2>4 DEF Commit
<1>5. ASSUME NEW r \in Request, Abort(r) \/ Deliver(r) \/ Crash(r) PROVE RecordInv'
  BY <1>5 DEF Abort, Deliver, Crash, Return, InTxn
<1>6. ASSUME NEW S \in SUBSET Code, NEW m \in Limit, NEW e \in Expiry, AddMany(S, m, e)
      PROVE RecordInv'
  <2>1. [max |-> m, exp |-> e] # Absent
    BY DEF Limit
  <2>2. \A k \in Code : row'[k] = Absent => row[k] = Absent
    BY <1>6, <2>1 DEF AddMany
  <2>3. UNCHANGED <<uses, pc, spent>>
    BY <1>6 DEF AddMany
  <2> QED BY <2>2, <2>3
<1>7. ASSUME NEW S \in SUBSET Code, DeleteMany(S) PROVE RecordInv'
  BY <1>7, FS_EmptySet DEF DeleteMany, Drop
<1>8. ASSUME NEW k \in Code, NEW m \in Limit, NEW e \in Expiry, Edit(k, m, e) PROVE RecordInv'
  <2>0. [max |-> m, exp |-> e] # Absent
    BY DEF Limit
  <2>1. \A c \in Code : row'[c] = Absent => row[c] = Absent
    BY <1>8, <2>0 DEF Edit
  <2>2. UNCHANGED <<uses, pc, spent>>
    BY <1>8 DEF Edit
  <2> QED BY <2>1, <2>2
<1>9. CASE DeleteInactive
  BY <1>9, FS_EmptySet DEF DeleteInactive, Drop
<1>10. CASE Tick
  BY <1>10 DEF Tick
<1>11. CASE UNCHANGED vars
  BY <1>11 DEF vars
<1> QED
  BY <1>1, <1>2, <1>3, <1>4, <1>5, <1>6, <1>7, <1>8, <1>9, <1>10, <1>11
  DEF Next, Admin, Redemption

\* The count Check made stays true until the same request commits: every
\* other commit is on another code, and only deletions shrink a history.
LEMMA BudgetStep ==
  TypeOK /\ LockInv /\ RecordInv /\ BudgetInv /\ [Next]_vars => BudgetInv'
<1> SUFFICES ASSUME TypeOK, LockInv, RecordInv, BudgetInv, [Next]_vars PROVE BudgetInv'
  OBVIOUS
<1> USE DEF TypeOK, BudgetInv, InTxn, reqVars, storeVars, history
<1>1. ASSUME NEW r \in Request, NEW k \in Code, Ask(r, k) PROVE BudgetInv'
  BY <1>1 DEF Ask
<1>2. ASSUME NEW r \in Request, Begin(r) PROVE BudgetInv'
  BY <1>2 DEF Begin, Return
<1>3. ASSUME NEW r \in Request, Check(r) PROVE BudgetInv'
  BY <1>3 DEF Check, Return, Usable
<1>4. ASSUME NEW r \in Request, Commit(r) PROVE BudgetInv'
  <2>1. ASSUME NEW s \in Request, pc'[s] = "checked" PROVE s # r /\ pc[s] = "checked"
    BY <1>4, <2>1 DEF Commit, Return
  <2>2. ASSUME NEW s \in Request, pc'[s] = "checked"
        PROVE asked'[s] = asked[s] /\ snap'[s] = snap[s] /\ uses'[asked[s]] = uses[asked[s]]
    BY <1>4, <2>1, <2>2 DEF Commit, Return, LockInv
  <2> QED BY <2>1, <2>2
<1>5. ASSUME NEW r \in Request, Abort(r) \/ Deliver(r) \/ Crash(r) PROVE BudgetInv'
  BY <1>5 DEF Abort, Deliver, Crash, Return
<1>6. ASSUME NEW S \in SUBSET Code, NEW m \in Limit, NEW e \in Expiry, AddMany(S, m, e)
      PROVE BudgetInv'
  BY <1>6 DEF AddMany
<1>7. ASSUME NEW S \in SUBSET Code, DeleteMany(S) PROVE BudgetInv'
  <2>1. ASSUME NEW s \in Request, pc[s] = "checked" PROVE uses'[asked[s]] = uses[asked[s]]
    BY <1>7, <2>1 DEF DeleteMany, Drop, Free, LockInv
  <2> QED BY <1>7, <2>1 DEF DeleteMany
<1>8. ASSUME NEW k \in Code, NEW m \in Limit, NEW e \in Expiry, Edit(k, m, e) PROVE BudgetInv'
  BY <1>8 DEF Edit
<1>9. CASE DeleteInactive
  <2>1. ASSUME NEW s \in Request, pc[s] = "checked" PROVE uses'[asked[s]] = uses[asked[s]]
    BY <1>9, <2>1 DEF DeleteInactive, Drop, Free, LockInv
  <2> QED BY <1>9, <2>1 DEF DeleteInactive
<1>10. CASE Tick
  BY <1>10 DEF Tick
<1>11. CASE UNCHANGED vars
  BY <1>11 DEF vars
<1> QED
  BY <1>1, <1>2, <1>3, <1>4, <1>5, <1>6, <1>7, <1>8, <1>9, <1>10, <1>11
  DEF Next, Admin, Redemption

\* The peak follows every limit an administrator enters.
LEMMA PeakStep == TypeOK /\ PeakInv /\ [Next]_vars => PeakInv'
<1> SUFFICES ASSUME TypeOK, PeakInv, [Next]_vars PROVE PeakInv'
  OBVIOUS
<1> USE DEF TypeOK, PeakInv, Existing, Row, Limit, reqVars, storeVars, history
<1>1. ASSUME NEW r \in Request, NEW k \in Code, Ask(r, k) \/ Redemption(r) PROVE PeakInv'
  BY <1>1 DEF Ask, Redemption, Begin, Check, Commit, Abort, Deliver, Crash
<1>2. ASSUME NEW S \in SUBSET Code, NEW m \in Limit, NEW e \in Expiry, AddMany(S, m, e)
      PROVE PeakInv'
  <2>1. ASSUME NEW k \in Existing' PROVE peak'[k] = 0 \/ (row'[k].max # 0 /\ row'[k].max <= peak'[k])
    <3>1. CASE k \in S \ Existing
      BY <1>2, <3>1 DEF AddMany
    <3>2. CASE k \notin S \ Existing
      BY <1>2, <2>1, <3>2 DEF AddMany
    <3> QED BY <3>1, <3>2
  <2> QED BY <2>1
<1>3. ASSUME NEW S \in SUBSET Code, DeleteMany(S) PROVE PeakInv'
  BY <1>3 DEF DeleteMany, Drop
<1>4. ASSUME NEW k \in Code, NEW m \in Limit, NEW e \in Expiry, Edit(k, m, e) PROVE PeakInv'
  <2>1. ASSUME NEW c \in Existing' PROVE peak'[c] = 0 \/ (row'[c].max # 0 /\ row'[c].max <= peak'[c])
    <3>1. CASE c = k
      BY <1>4, <3>1 DEF Edit
    <3>2. CASE c # k
      BY <1>4, <2>1, <3>2 DEF Edit
    <3> QED BY <3>1, <3>2
  <2> QED BY <2>1
<1>5. CASE DeleteInactive
  BY <1>5 DEF DeleteInactive, Drop
<1>6. CASE Tick
  BY <1>6 DEF Tick
<1>7. CASE UNCHANGED vars
  BY <1>7 DEF vars
<1> QED BY <1>1, <1>2, <1>3, <1>4, <1>5, <1>6, <1>7 DEF Next, Admin

\* Recording a use within the limit in force stays within the peak.
LEMMA OverspentStep == RedemptionInv /\ [Next]_vars => NeverOverspent'
<1> SUFFICES ASSUME RedemptionInv, [Next]_vars PROVE NeverOverspent'
  OBVIOUS
<1> USE DEF RedemptionInv, TypeOK, NeverOverspent, Existing, Limit, reqVars, storeVars, history
<1>1. ASSUME NEW r \in Request, NEW k \in Code,
             Ask(r, k) \/ Begin(r) \/ Check(r) \/ Abort(r) \/ Deliver(r) \/ Crash(r)
      PROVE NeverOverspent'
  BY <1>1 DEF Ask, Begin, Check, Abort, Deliver, Crash
<1>2. ASSUME NEW r \in Request, Commit(r) PROVE NeverOverspent'
  <2> DEFINE k == asked[r]
  <2>1. k \in Existing /\ row[k] = snap[r] /\ row[k] \in Row
    BY <1>2 DEF Commit, LockInv, InTxn, Row
  <2>2. Cardinality(uses[k]) \in Nat /\ Cardinality(uses[k] \cup {r}) <= Cardinality(uses[k]) + 1
    <3>1. IsFiniteSet(uses[k])
      BY <2>1 DEF RecordInv
    <3>2. Cardinality(uses[k]) \in Nat
      BY <3>1, FS_CardinalityType
    <3>3. Cardinality(uses[k] \cup {r}) = IF r \in uses[k] THEN Cardinality(uses[k]) ELSE Cardinality(uses[k]) + 1
      BY <3>1, FS_AddElement
    <3> QED BY <3>2, <3>3
  <2>3. peak[k] = 0 \/ Cardinality(uses[k] \cup {r}) <= peak[k]
    <3>1. Cardinality(uses[k] \cup {r}) \in Nat
      BY <2>1, FS_AddElement, FS_CardinalityType DEF RecordInv
    <3>2. snap[r].max = 0 \/ Cardinality(uses[k]) < snap[r].max
      BY <1>2 DEF Commit, BudgetInv
    <3>3. peak[k] = 0 \/ (row[k].max # 0 /\ row[k].max <= peak[k])
      BY <2>1 DEF PeakInv
    <3>4. row[k].max \in Nat /\ peak[k] \in Nat
      BY <2>1 DEF Row
    <3> QED BY <2>1, <2>2, <3>1, <3>2, <3>3, <3>4
  <2> QED BY <1>2, <2>1, <2>3 DEF Commit
<1>3. ASSUME NEW S \in SUBSET Code, NEW m \in Limit, NEW e \in Expiry, AddMany(S, m, e)
      PROVE NeverOverspent'
  <2>1. ASSUME NEW k \in S \ Existing PROVE Cardinality(uses'[k]) = 0
    BY <1>3, <2>1, FS_EmptySet DEF AddMany, RecordInv
  <2>2. ASSUME NEW k \in S \ Existing PROVE peak'[k] = 0 \/ Cardinality(uses'[k]) <= peak'[k]
    <3>1. peak'[k] = m /\ m \in Nat
      BY <1>3, <2>2 DEF AddMany
    <3> QED BY <2>1, <2>2, <3>1
  <2>3. ASSUME NEW k \in Code, k \notin S \ Existing, row'[k] # Absent
        PROVE peak'[k] = 0 \/ Cardinality(uses'[k]) <= peak'[k]
    BY <1>3, <2>3 DEF AddMany
  <2> QED BY <2>2, <2>3
<1>4. ASSUME NEW S \in SUBSET Code, DeleteMany(S) PROVE NeverOverspent'
  BY <1>4 DEF DeleteMany, Drop
<1>5. ASSUME NEW k \in Code, NEW m \in Limit, NEW e \in Expiry, Edit(k, m, e)
      PROVE NeverOverspent'
  <2>1. Cardinality(uses[k]) \in Nat
    BY FS_CardinalityType DEF RecordInv
  <2>2. peak'[k] = 0 \/ (peak[k] # 0 /\ peak[k] <= peak'[k])
    BY <1>5 DEF Edit
  <2>3. peak'[k] = 0 \/ Cardinality(uses[k]) <= peak'[k]
    BY <1>5, <2>1, <2>2 DEF Edit
  <2> QED BY <1>5, <2>3 DEF Edit
<1>6. CASE DeleteInactive
  BY <1>6 DEF DeleteInactive, Drop
<1>7. CASE Tick
  BY <1>7 DEF Tick
<1>8. CASE UNCHANGED vars
  BY <1>8 DEF vars
<1> QED
  BY <1>1, <1>2, <1>3, <1>4, <1>5, <1>6, <1>7, <1>8 DEF Next, Admin, Redemption

\* A result leaves Validate only through Commit.
LEMMA GrantStep == TypeOK /\ GrantsAreRecorded /\ [Next]_vars => GrantsAreRecorded'
<1> SUFFICES ASSUME TypeOK, GrantsAreRecorded, [Next]_vars PROVE GrantsAreRecorded'
  OBVIOUS
<1> USE DEF TypeOK, GrantsAreRecorded, reqVars, storeVars, history
<1>1. ASSUME NEW r \in Request, NEW k \in Code, Ask(r, k) PROVE GrantsAreRecorded'
  BY <1>1 DEF Ask
<1>2. ASSUME NEW r \in Request, Begin(r) \/ Check(r) \/ Commit(r) PROVE GrantsAreRecorded'
  BY <1>2 DEF Begin, Check, Commit, Return
<1>3. ASSUME NEW r \in Request, Abort(r) \/ Deliver(r) \/ Crash(r) PROVE GrantsAreRecorded'
  BY <1>3 DEF Abort, Deliver, Crash, Return
<1>4. CASE Admin \/ Tick \/ UNCHANGED vars
  BY <1>4 DEF Admin, AddMany, DeleteMany, Edit, DeleteInactive, Tick, vars
<1> QED BY <1>1, <1>2, <1>3, <1>4 DEF Next, Redemption

\* The clock that Check reads is no earlier than the one at the request, and
\* Past is monotonic in time.
LEMMA FreshStep == TypeOK /\ LockInv /\ FreshInv /\ [Next]_vars => FreshInv'
<1> SUFFICES ASSUME TypeOK, LockInv, FreshInv, [Next]_vars PROVE FreshInv'
  OBVIOUS
<1>0. \A r \in Request : pc[r] = "locked" => snap[r].exp \in Nat \cup {Never}
  <2>1. ASSUME NEW x \in Row PROVE x.exp \in Nat \cup {Never}
    <3>1. x.exp \in Expiry
      BY DEF Row
    <3>2. 0 .. MaxTime \subseteq Nat
      OBVIOUS
    <3> QED BY <3>1, <3>2, Zenon
  <2> QED BY <2>1 DEF LockInv, InTxn
<1> USE DEF TypeOK, FreshInv, Time, reqVars, storeVars, history
<1>1. ASSUME NEW r \in Request, NEW k \in Code, Ask(r, k) PROVE FreshInv'
  BY <1>1 DEF Ask
<1>2. ASSUME NEW r \in Request, Begin(r) \/ Commit(r) \/ Abort(r) \/ Deliver(r) \/ Crash(r)
      PROVE FreshInv'
  BY <1>2 DEF Begin, Commit, Abort, Deliver, Crash, Return
<1>3. ASSUME NEW r \in Request, Check(r) PROVE FreshInv'
  <2>1. CASE Return(r, "denied") /\ UNCHANGED now
    BY <2>1 DEF Return
  <2>2. CASE Usable(r) /\ pc' = [pc EXCEPT ![r] = "checked"] /\ UNCHANGED <<snap, began, now>>
    <3>1. snap[r].exp \in Nat \cup {Never}
      BY <1>0, <1>3, Zenon DEF Check
    <3>2. ~Past(snap[r].exp, began[r])
      BY <2>2, <3>1 DEF Usable, Past
    <3> QED BY <2>2, <3>2
  <2> QED BY <1>3, <2>1, <2>2 DEF Check
<1>4. CASE Admin \/ UNCHANGED vars
  BY <1>4 DEF Admin, AddMany, DeleteMany, Edit, DeleteInactive, vars
<1>5. CASE Tick
  BY <1>5 DEF Tick
<1> QED BY <1>1, <1>2, <1>3, <1>4, <1>5 DEF Next, Redemption

\* The inductive invariant.
THEOREM RedemptionInvariant == Spec => []RedemptionInv
<1>1. RedemptionInv /\ [Next]_vars => RedemptionInv'
  BY TypeStep, LockStep, RecordStep, BudgetStep, PeakStep, OverspentStep, GrantStep,
     FreshStep
  DEF RedemptionInv
<1> QED BY InitRedemptionInv, <1>1, PTL DEF Spec

\* Every variable of the store stays in its type.
THEOREM TypeCorrect == Spec => []TypeOK
BY RedemptionInvariant, PTL DEF RedemptionInv

\* However many instances redeem, and whatever is edited meanwhile, a code is
\* used no more often than the largest limit it ever carried (Validate).
THEOREM NeverOverspentTheorem == Spec => []NeverOverspent
BY RedemptionInvariant, PTL DEF RedemptionInv

\* handleGuestCode admits nobody whose use was not committed.
THEOREM GrantsAreRecordedTheorem == Spec => []GrantsAreRecorded
BY RedemptionInvariant, PTL DEF RedemptionInv

\* A code that an administrator forced to expire, or that ran out, before a
\* request was made does not record that request (Validate, handleCodeEdit).
THEOREM NoUseAfterForcedExpiryTheorem == Spec => NoUseAfterForcedExpiry
<1> DEFINE inTime == \A k \in Code : \A r \in uses'[k] \ uses[k] :
                       row[k] # Absent /\ ~Past(row[k].exp, began[r])
<1>1. ASSUME RedemptionInv, [Next]_vars PROVE inTime
  <2> USE <1>1 DEF RedemptionInv, TypeOK
  <2>1. ASSUME NEW r \in Request, Commit(r) PROVE inTime
    <3>1. /\ asked[r] \in Code /\ row[asked[r]] = snap[r] /\ snap[r] \in Row
          /\ ~Past(snap[r].exp, began[r])
      BY <2>1 DEF Commit, LockInv, InTxn, FreshInv
    <3>2. \A k \in Code : \A s \in uses'[k] \ uses[k] : k = asked[r] /\ s = r
      BY <2>1 DEF Commit
    <3>3. Absent \notin Row
      BY DEF Row, Limit
    <3> QED BY <3>1, <3>2, <3>3
  <2>2. CASE Admin
    <3>1. \A k \in Code : uses'[k] \subseteq uses[k]
      BY <2>2 DEF Admin, AddMany, DeleteMany, DeleteInactive, Drop, Edit
    <3> QED BY <3>1
  <2>3. CASE UNCHANGED uses
    BY <2>3
  <2> QED BY <2>1, <2>2, <2>3
    DEF Next, Redemption, Ask, Begin, Check, Abort, Deliver, Crash, Tick, storeVars, vars
<1>2. RedemptionInv /\ [Next]_vars => [inTime]_vars
  BY <1>1
<1> QED BY <1>2, RedemptionInvariant, PTL DEF Spec, NoUseAfterForcedExpiry

\* The WHERE of DeleteInactive selects no row that IsActive calls active.
THEOREM SweepSparesActiveTheorem == Spec => SweepSparesActive
<1> DEFINE spared == DeleteInactive => \A k \in Existing : IsActive(k) => row'[k] = row[k]
<1>1. ASSUME RedemptionInv, DeleteInactive, NEW k \in Existing, IsActive(k)
      PROVE  row'[k] = row[k]
  <2>1. /\ k \in Code /\ row[k] \in Row
        /\ Cardinality(uses[k]) \in Nat
    BY <1>1, FS_CardinalityType DEF RedemptionInv, RecordInv, TypeOK, Existing
  <2>2. k \notin Inactive
    BY <1>1, <2>1 DEF Inactive, IsActive, Exhausted, Row, Limit
  <2> QED BY <1>1, <2>1, <2>2 DEF DeleteInactive, Drop
<1>2. RedemptionInv => [spared]_vars
  BY <1>1
<1> QED BY <1>2, RedemptionInvariant, PTL DEF SweepSparesActive

\* Sets without a common element add up.
LEMMA DisjointUnion ==
  ASSUME NEW S, IsFiniteSet(S), NEW T, IsFiniteSet(T), S \cap T = {}
  PROVE  /\ IsFiniteSet(S \cup T)
         /\ Cardinality(S \cup T) = Cardinality(S) + Cardinality(T)
<1>1. /\ IsFiniteSet(S \cup T)
      /\ Cardinality(S \cup T) = Cardinality(S) + Cardinality(T) - Cardinality(S \cap T)
  BY FS_Union
<1>2. Cardinality(S \cap T) = 0
  BY FS_EmptySet
<1>3. Cardinality(S) \in Nat /\ Cardinality(T) \in Nat
  BY FS_CardinalityType
<1> QED BY <1>1, <1>2, <1>3

\* The three filters split the rows, so what Stats has left after it counted
\* the expired and the used ones is the number of the unused.
THEOREM CountersAgreeTheorem == Spec => []CountersAgree
<1>1. CountersAgree
  <2> DEFINE gone   == {k \in Existing : Past(row[k].exp, now)}
             used   == {k \in Existing : ~Past(row[k].exp, now) /\ Exhausted(k)}
             unused == {k \in Existing : ~Past(row[k].exp, now) /\ ~Exhausted(k)}
  <2>1. IsFiniteSet(gone) /\ IsFiniteSet(used) /\ IsFiniteSet(unused)
    BY FS_Subset, CodeAssumption DEF Existing
  <2>2. /\ IsFiniteSet(gone \cup used)
        /\ Cardinality(gone \cup used) = Cardinality(gone) + Cardinality(used)
    <3>1. gone \cap used = {}
      OBVIOUS
    <3> HIDE DEF gone, used
    <3> QED BY <2>1, <3>1, DisjointUnion
  <2>3. Cardinality(Existing) = Cardinality(gone) + Cardinality(used) + Cardinality(unused)
    <3>1. (gone \cup used) \cap unused = {} /\ (gone \cup used) \cup unused = Existing
      OBVIOUS
    <3> HIDE DEF gone, used, unused
    <3>2. Cardinality((gone \cup used) \cup unused) = Cardinality(gone \cup used) + Cardinality(unused)
      BY <2>1, <2>2, <3>1, DisjointUnion
    <3> QED BY <2>2, <3>1, <3>2
  <2>4. StatusFilter("unused") = unused
    BY DEF StatusFilter
  <2>5. StatsUnused = IF Cardinality(Existing) < Cardinality(gone) + Cardinality(used) THEN 0
                      ELSE Cardinality(Existing) - Cardinality(gone) - Cardinality(used)
    BY DEF StatsUnused
  <2> HIDE DEF gone, used, unused
  <2>6. Cardinality(gone) \in Nat /\ Cardinality(used) \in Nat /\ Cardinality(unused) \in Nat
    BY <2>1, FS_CardinalityType
  <2> QED BY <2>3, <2>4, <2>5, <2>6 DEF CountersAgree
<1> QED BY <1>1, PTL

-----------------------------------------------------------------------------
\* The refinement: each action is one step of the ledger, or none.
LEMMA LedgerInit == Init => Ledger!Init
BY DEF Init, Ledger!Init

LEMMA LedgerStep == RedemptionInv /\ [Next]_vars => [Ledger!Next]_(Ledger!ledger)
<1> SUFFICES ASSUME RedemptionInv, [Next]_vars PROVE [Ledger!Next]_(Ledger!ledger)
  OBVIOUS
<1> DEFINE lim == [k \in Code |-> IF row[k] = Absent THEN Absent ELSE row[k].max]
<1> USE DEF RedemptionInv, TypeOK, reqVars, storeVars, history
<1>0. \A k \in Code : row[k] # Absent => row[k] \in Row /\ row[k].max \in Nat /\ row[k].max # Absent
  BY DEF Row, Limit
<1>1. ASSUME UNCHANGED <<row, uses>> PROVE UNCHANGED Ledger!ledger
  BY <1>1 DEF Ledger!ledger
<1>2. ASSUME NEW r \in Request, Commit(r) PROVE Ledger!Next
  <2> DEFINE k == asked[r]
  <2>1. k \in Existing /\ row[k] = snap[r]
    BY <1>2 DEF Commit, LockInv, InTxn, Row, Limit, Existing
  <2>2. Ledger!Spendable(k)
    <3>1. lim[k] = row[k].max /\ row[k].max # Absent
      BY <1>0, <2>1 DEF Existing
    <3>2. row[k].max = 0 \/ Cardinality(uses[k]) < row[k].max
      BY <1>2, <2>1 DEF Commit, BudgetInv
    <3> QED BY <3>1, <3>2 DEF Ledger!Spendable
  <2>3. r \notin UNION {uses[c] : c \in Code}
    BY <1>2 DEF Commit, RecordInv
  <2>4. Ledger!Redeem(r, k)
    BY <1>2, <2>2, <2>3 DEF Ledger!Redeem, Commit
  <2> QED BY <2>1, <2>4 DEF Ledger!Next, Existing
<1>3. ASSUME NEW S \in SUBSET Code, NEW m \in Limit, NEW e \in Expiry, AddMany(S, m, e)
      PROVE Ledger!Next
  <2> PICK fresh \in SUBSET Code : fresh = S \ Existing
    OBVIOUS
  <2>1. /\ \A k \in fresh : row[k] = Absent /\ row'[k] # Absent /\ row'[k].max = m
        /\ \A k \in Code \ fresh : row'[k] = row[k]
        /\ uses' = uses
    BY <1>3 DEF AddMany, Existing, Limit
  <2>2. m \in Nat
    BY DEF Limit
  <2>3. Ledger!Issue(fresh)
    BY <2>1, <2>2 DEF Ledger!Issue
  <2> QED BY <2>3 DEF Ledger!Next
<1>4. ASSUME NEW S \in SUBSET Code, Drop(S) PROVE Ledger!Next
  <2>1. Ledger!Revoke(S)
    BY <1>4 DEF Drop, Ledger!Revoke
  <2> QED BY <2>1 DEF Ledger!Next
<1>5. ASSUME NEW k \in Code, NEW m \in Limit, NEW e \in Expiry, Edit(k, m, e) PROVE Ledger!Next
  <2>1. /\ row[k] # Absent /\ row'[k] # Absent /\ row'[k].max = m
        /\ \A c \in Code \ {k} : row'[c] = row[c]
        /\ uses' = uses
    BY <1>5 DEF Edit, Limit
  <2> DEFINE lim2 == [c \in Code |-> IF row'[c] = Absent THEN Absent ELSE row'[c].max]
  <2>2. Ledger!Amend(k)
    <3>1. lim[k] # Absent /\ lim2[k] \in Nat
      BY <1>0, <2>1 DEF Limit
    <3>2. lim2 = [lim EXCEPT ![k] = lim2[k]]
      BY <2>1
    <3> QED BY <2>1, <3>1, <3>2 DEF Ledger!Amend
  <2> QED BY <2>2 DEF Ledger!Next
<1>6. ASSUME NEW S \in SUBSET Code, DeleteMany(S) PROVE Ledger!Next
  BY <1>4, <1>6 DEF DeleteMany, Existing
<1>7. CASE DeleteInactive
  BY <1>4, <1>7 DEF DeleteInactive, Inactive, Existing
<1>8. CASE UNCHANGED <<row, uses>>
  BY <1>1, <1>8
<1> QED
  BY <1>2, <1>3, <1>5, <1>6, <1>7, <1>8
  DEF Next, Admin, Redemption, Ask, Begin, Check, Abort, Deliver, Crash, Tick, vars

\* The transactional store implements the ledger: under any interleaving each
\* redemption takes effect at one instant, within the limit then in force.
THEOREM StoreImplementsLedger == Spec => ImplementsLedger
<1> QED BY RedemptionInvariant, LedgerInit, LedgerStep, PTL
        DEF Spec, ImplementsLedger, Ledger!Spec
=============================================================================
