-------------------------- MODULE LocalAdminProofs --------------------------
(***************************************************************************)
(* The lockout of a local administrator, for any number of logins at a     *)
(* time, any passwords, any limit and any length of the lockout.           *)
(***************************************************************************)
EXTENDS LocalAdmin, TLAPS

USE LoginAssumption, LimitAssumption, AccountAssumption

\* The counter of the row is the number of wrong passwords, as long as none was
\* missed.
CountInv ==
  /\ guesses < MaxFail
  /\ ~missed /\ row # None => row.fails = guesses

\* A login that is verifying its password has read a row without a lock.
ReadInv == \A a \in Login : login[a] # None => login[a].read.lock = 0

AdminInv == TypeOK /\ CountInv /\ ReadInv /\ RevokedOnlyByRevival

-----------------------------------------------------------------------------
\* What a wrong password makes of an account: one more, or a lock.
LEMMA FailedIsAccount ==
  ASSUME NEW read \in Account
  PROVE  /\ Failed(read) \in Account /\ Failed(read).hash = read.hash
         /\ \/ Failed(read).lock = Lockout
            \/ Failed(read).lock = read.lock /\ Failed(read).fails = read.fails + 1
<1>1. read.fails \in 0 .. MaxFail - 1 /\ read.lock \in 0 .. Lockout /\ read.hash \in Password
  BY DEF Account
<1>2. CASE read.fails + 1 >= MaxFail
  <2>1. Failed(read) = [hash |-> read.hash, fails |-> 0, lock |-> Lockout]
    BY <1>2 DEF Failed, Account
  <2> QED BY <1>1, <2>1 DEF Account
<1>3. CASE ~(read.fails + 1 >= MaxFail)
  <2>1. Failed(read) = [hash |-> read.hash, fails |-> read.fails + 1, lock |-> read.lock]
    BY <1>3 DEF Failed, Account
  <2> QED BY <1>1, <1>3, <2>1 DEF Account
<1> QED BY <1>2, <1>3

\* What a right password makes of it.
LEMMA ClearedIsAccount ==
  ASSUME NEW read \in Account
  PROVE  [read EXCEPT !.fails = 0, !.lock = 0] \in Account
<1>1. 0 \in 0 .. MaxFail - 1 /\ 0 \in 0 .. Lockout
  OBVIOUS
<1> QED BY <1>1, Zenon DEF Account

LEMMA InitAdminInv == Init => AdminInv
<1> SUFFICES ASSUME Init PROVE AdminInv
  OBVIOUS
<1>1. TypeOK
  BY DEF Init, TypeOK
<1>2. CountInv /\ ReadInv /\ RevokedOnlyByRevival
  BY DEF Init, CountInv, ReadInv, RevokedOnlyByRevival
<1> QED BY <1>1, <1>2 DEF AdminInv

\* What a login has read and been given.
LEMMA LoginReads ==
  ASSUME TypeOK, NEW a \in Login, login[a] # None
  PROVE  login[a].read \in Account /\ login[a].given \in Password
BY DEF TypeOK, Reading

\* Every action keeps every variable in its type.
LEMMA TypeStep == TypeOK /\ [Next]_vars => TypeOK'
<1> SUFFICES ASSUME TypeOK, [Next]_vars PROVE TypeOK'
  OBVIOUS
<1> USE DEF history
<1>1. ASSUME NEW a \in Login, NEW p \in Password, Begin(a, p) PROVE TypeOK'
  <2>1. [read |-> row, given |-> p] \in Reading
    BY <1>1 DEF Begin, TypeOK, Reading
  <2> QED BY <1>1, <2>1 DEF Begin, TypeOK
<1>2. ASSUME NEW a \in Login, Refuse(a) PROVE TypeOK'
  <2>1. row' \in Account /\ row' = Failed(login[a].read)
    BY <1>2, LoginReads, FailedIsAccount DEF Refuse, Write
  <2>2. guesses' \in Nat
    BY <1>2 DEF Refuse, TypeOK
  <2>3. missed' \in BOOLEAN
    BY <1>2, Zenon DEF Refuse, Write, TypeOK
  <2>4. revived' \subseteq revoked' /\ revoked' \subseteq Password
    BY <1>2 DEF Refuse, Write, TypeOK
  <2> QED BY <1>2, <2>1, <2>2, <2>3, <2>4 DEF Refuse, TypeOK
<1>3. ASSUME NEW a \in Login, Admit(a) PROVE TypeOK'
  <2>1. row' \in Account
    <3>1. login[a].read \in Account /\ row' = [login[a].read EXCEPT !.fails = 0, !.lock = 0]
      BY <1>3, LoginReads DEF Admit, Write
    <3> QED BY <3>1, ClearedIsAccount
  <2>2. missed' \in BOOLEAN
    BY <1>3, Zenon DEF Admit, Write, TypeOK
  <2>3. revived' \subseteq revoked' /\ revoked' \subseteq Password
    BY <1>3 DEF Admit, Write, TypeOK
  <2>4. guesses' \in Nat /\ UNCHANGED <<stored, live>> /\ login' = [login EXCEPT ![a] = None]
    BY <1>3 DEF Admit
  <2> QED BY <2>1, <2>2, <2>3, <2>4 DEF TypeOK
<1>4. ASSUME NEW a \in Login, Unrecorded(a) PROVE TypeOK'
  <2>1. missed' \in BOOLEAN
    BY <1>4, Zenon DEF Unrecorded, TypeOK
  <2> QED BY <1>4, <2>1 DEF Unrecorded, TypeOK
<1>5. ASSUME NEW p \in Password, Create(p) PROVE TypeOK'
  <2>1. row' \in Account
    BY <1>5 DEF Create, Account
  <2>2. Held \subseteq Password
    BY DEF TypeOK, Held, Account
  <2> QED BY <1>5, <2>1, <2>2 DEF Create, TypeOK
<1>6. CASE Delete
  <2>1. Held \subseteq Password
    BY DEF TypeOK, Held, Account
  <2> QED BY <1>6, <2>1 DEF Delete, TypeOK
<1>7. CASE Switch \/ Reload \/ Restart \/ UNCHANGED vars
  BY <1>7 DEF Switch, Reload, Restart, vars, TypeOK
<1>8. CASE Tick
  <2>1. row' \in Account
    BY <1>8 DEF Tick, Locked, TypeOK, Account
  <2> QED BY <1>8, <2>1 DEF Tick, TypeOK
<1> QED BY <1>1, <1>2, <1>3, <1>4, <1>5, <1>6, <1>7, <1>8 DEF Next

\* The counter and the wrong passwords move together.
LEMMA CountStep == TypeOK /\ ReadInv /\ CountInv /\ [Next]_vars => CountInv'
<1> SUFFICES ASSUME TypeOK, ReadInv, CountInv, [Next]_vars PROVE CountInv'
  OBVIOUS
<1> USE DEF history
<1>1. ASSUME NEW a \in Login, Refuse(a) PROVE CountInv'
  <2> DEFINE read == login[a].read
  <2>1. /\ read \in Account /\ read.lock = 0 /\ row' = Failed(read)
        /\ missed' = (missed \/ row # read)
        /\ guesses' = IF missed' \/ row'.lock > 0 THEN 0 ELSE guesses + 1
    BY <1>1, LoginReads DEF Refuse, Write, ReadInv
  <2>2. /\ Failed(read) \in Account
        /\ Failed(read).lock = Lockout \/ Failed(read).fails = read.fails + 1
    BY <2>1, FailedIsAccount
  <2>3. CASE missed'
    BY <2>1, <2>3 DEF CountInv
  <2>4. CASE ~missed' /\ row'.lock = Lockout
    <3>1. row' = [read EXCEPT !.fails = 0, !.lock = Lockout]
      BY <2>1, <2>4 DEF Failed
    <3> QED BY <2>1, <2>4, <3>1 DEF CountInv, Account
  <2>5. CASE ~missed' /\ row'.lock # Lockout
    <3>1. row = read /\ ~missed /\ row # None /\ row.fails = guesses
      BY <2>1, <2>5 DEF CountInv
    <3>2. row'.fails = guesses + 1 /\ row'.fails < MaxFail
      BY <2>1, <2>2, <2>5, <3>1 DEF Account
    <3>3. row'.lock = 0
      BY <2>1, <2>5, FailedIsAccount
    <3>4. guesses' = guesses + 1
      BY <2>1, <2>5, <3>3
    <3>5. row'.fails \in Nat
      BY <2>1, <2>2 DEF Account
    <3> QED BY <3>2, <3>4, <3>5 DEF CountInv
  <2> QED BY <2>3, <2>4, <2>5
<1>2. ASSUME NEW a \in Login, Admit(a) PROVE CountInv'
  <2>1. row'.fails = 0
    BY <1>2, LoginReads DEF Admit, Write, Account
  <2> QED BY <1>2, <2>1 DEF Admit, CountInv
<1>3. ASSUME NEW a \in Login, Unrecorded(a) PROVE CountInv'
  BY <1>3 DEF Unrecorded, CountInv, TypeOK
<1>4. ASSUME NEW p \in Password, Create(p) PROVE CountInv'
  BY <1>4 DEF Create, CountInv
<1>5. CASE Tick
  BY <1>5 DEF Tick, Locked, CountInv, TypeOK, Account
<1>6. ASSUME NEW a \in Login, NEW p \in Password, Begin(a, p) PROVE CountInv'
  BY <1>6 DEF Begin, CountInv
<1>7. CASE Delete
  BY <1>7 DEF Delete, CountInv
<1>8. CASE Switch \/ Reload \/ Restart \/ UNCHANGED vars
  BY <1>8 DEF Switch, Reload, Restart, vars, CountInv
<1> QED BY <1>1, <1>2, <1>3, <1>4, <1>5, <1>6, <1>7, <1>8 DEF Next

\* A login begins only where there is no lock.
LEMMA ReadStep == TypeOK /\ ReadInv /\ [Next]_vars => ReadInv'
<1> SUFFICES ASSUME TypeOK, ReadInv, [Next]_vars PROVE ReadInv'
  OBVIOUS
<1> USE DEF history
<1>1. ASSUME NEW a \in Login, NEW p \in Password, Begin(a, p) PROVE ReadInv'
  <2>1. row.lock = 0
    BY <1>1 DEF Begin, Locked, TypeOK, Account
  <2>2. login' = [login EXCEPT ![a] = [read |-> row, given |-> p]]
    BY <1>1 DEF Begin
  <2> QED BY <2>1, <2>2 DEF ReadInv, TypeOK
<1>2. ASSUME NEW a \in Login, login' = [login EXCEPT ![a] = None] PROVE ReadInv'
  BY <1>2 DEF ReadInv, TypeOK
<1>3. ASSUME NEW a \in Login, Refuse(a) \/ Admit(a) \/ Unrecorded(a) PROVE ReadInv'
  BY <1>2, <1>3 DEF Refuse, Admit, Unrecorded
<1>4. CASE Restart
  BY <1>4 DEF Restart, ReadInv
<1>5. ASSUME NEW p \in Password, Create(p) PROVE ReadInv'
  BY <1>5 DEF Create, ReadInv
<1>6. CASE Delete \/ Switch \/ Reload \/ Tick \/ UNCHANGED vars
  BY <1>6 DEF Delete, Switch, Reload, Tick, vars, ReadInv
<1> QED BY <1>1, <1>3, <1>4, <1>5, <1>6 DEF Next
\* A password that was taken away stands in the row only if it was written back.
LEMMA RevivalStep ==
  TypeOK /\ RevokedOnlyByRevival /\ [Next]_vars => RevokedOnlyByRevival'
<1> SUFFICES ASSUME TypeOK, RevokedOnlyByRevival, [Next]_vars PROVE RevokedOnlyByRevival'
  OBVIOUS
<1> USE DEF RevokedOnlyByRevival, history
<1>1. ASSUME NEW a \in Login, Refuse(a) \/ Admit(a) PROVE RevokedOnlyByRevival'
  BY <1>1 DEF Refuse, Admit, Write
<1>2. ASSUME NEW p \in Password, Create(p) PROVE RevokedOnlyByRevival'
  BY <1>2 DEF Create
<1>3. CASE Delete
  BY <1>3 DEF Delete
<1>4. CASE Tick
  BY <1>4 DEF Tick, Locked, TypeOK, Account
<1>5. ASSUME NEW a \in Login, Unrecorded(a) \/ \E p \in Password : Begin(a, p)
      PROVE  RevokedOnlyByRevival'
  BY <1>5 DEF Unrecorded, Begin
<1>6. CASE Switch \/ Reload \/ Restart \/ UNCHANGED vars
  BY <1>6 DEF Switch, Reload, Restart, vars
<1> QED BY <1>1, <1>2, <1>3, <1>4, <1>5, <1>6 DEF Next

LEMMA AdminInvariant == Spec => []AdminInv
<1>1. AdminInv /\ [Next]_vars => AdminInv'
  BY TypeStep, CountStep, ReadStep, RevivalStep DEF AdminInv
<1> QED BY <1>1, InitAdminInv, PTL DEF Spec

\* Every variable keeps its type: the row is an account or none, and its counter
\* stays below the limit.
THEOREM TypeCorrect == Spec => []TypeOK
<1>1. AdminInv => TypeOK
  BY DEF AdminInv
<1> QED BY <1>1, AdminInvariant, PTL

\* As long as no login is missed, the account is locked before the limit of
\* wrong passwords is passed.
THEOREM LockoutIsReachedTheorem == Spec => []LockoutIsReached
<1>1. AdminInv => LockoutIsReached
  BY DEF AdminInv, CountInv, LockoutIsReached
<1> QED BY <1>1, AdminInvariant, PTL

\* What the command line took away comes back only with a login that was under
\* way when it did.
THEOREM RevokedOnlyByRevivalTheorem == Spec => []RevokedOnlyByRevival
<1>1. AdminInv => RevokedOnlyByRevival
  BY DEF AdminInv
<1> QED BY <1>1, AdminInvariant, PTL

\* A lock that is not over is cleared by the command line or by a login that
\* had read the row before it.
THEOREM LockStandsTheorem == Spec => LockStands
<1> DEFINE lifted == \/ \E p \in Password : Create(p)
                     \/ \E a \in Login : login[a] # None /\ login'[a] = None /\ login[a].read # row
           stands == Locked /\ row.lock > 1 /\ row' # None /\ row'.lock = 0 => lifted
<1>1. AdminInv /\ [Next]_vars => stands
  <2> SUFFICES ASSUME TypeOK, ReadInv, [Next]_vars,
                      Locked, row.lock > 1, row' # None, row'.lock = 0
               PROVE  lifted
    BY DEF AdminInv
  <2> USE DEF history
  <2>1. ASSUME NEW a \in Login, Refuse(a) \/ Admit(a) PROVE lifted
    <3>1. login[a] # None /\ login'[a] = None
      BY <2>1 DEF Refuse, Admit, TypeOK
    <3>2. login[a].read # row
      BY <3>1 DEF ReadInv
    <3> QED BY <3>1, <3>2
  <2>2. ASSUME UNCHANGED row PROVE lifted
    BY <2>2
  <2>3. CASE Tick
    BY <2>3 DEF Tick, TypeOK, Account
  <2>4. ASSUME NEW a \in Login, Unrecorded(a) \/ \E p \in Password : Begin(a, p) PROVE lifted
    BY <2>2, <2>4 DEF Unrecorded, Begin
  <2>5. CASE Switch \/ Reload \/ Restart \/ UNCHANGED vars
    BY <2>2, <2>5 DEF Switch, Reload, Restart, vars
  <2>6. CASE Delete
    BY <2>6 DEF Delete
  <2> QED BY <2>1, <2>3, <2>4, <2>5, <2>6 DEF Next
<1>2. AdminInv /\ [Next]_vars => [stands]_vars
  BY <1>1
<1> QED BY <1>2, AdminInvariant, PTL DEF Spec, LockStands
=============================================================================
