----------------------------- MODULE LocalAdmin -----------------------------
(***************************************************************************)
(* The break-glass account (localadmin.go): logins of one portal process,  *)
(* each of which reads the row, verifies the password for a tenth of a     *)
(* second and writes the whole row back, beside the command line (cli.go), *)
(* which creates, replaces and deletes the account in the same database.   *)
(*                                                                         *)
(* A request that is refused before the verification changes nothing here  *)
(* (its IP failure is part of IpBan) and is not a step.                    *)
(***************************************************************************)
EXTENDS Naturals

CONSTANTS
  Login,    \* requests of /admin/login/local served at the same time
  Password,
  MaxFail,  \* localAdminMaxFailures
  Lockout,  \* localAdminLockout
  Faults,   \* what may go wrong: subset of {"database", "crash"}
  None

ASSUME LoginAssumption == None \notin Login
ASSUME LimitAssumption == MaxFail \in Nat \ {0} /\ Lockout \in Nat \ {0}

VARIABLES
  row,     \* the account
  login,   \* login[a]: what request a read and was given
  stored,  \* is the local login switched on in the settings table?
  live,    \* the same in the runtime configuration
  guesses, \* history: wrong passwords since the last success, lock or reset,
           \* while none is missed
  missed,  \* history: a login wrote over a row it had not read, or not at all
  revoked, \* history: passwords that the command line has taken away
  revived  \* history: those among them that a login has written back

history == <<guesses, missed, revoked, revived>>
vars    == <<row, login, stored, live, history>>

\* Enabled is set when the row is created and nothing ever clears it.  lock is
\* what is left of the lockout; a lock that is over counts as none.
Account == [hash : Password, fails : 0 .. MaxFail - 1, lock : 0 .. Lockout]
ASSUME AccountAssumption == None \notin Account
Reading == [read : Account, given : Password]

Locked  == row # None /\ row.lock > 0
May(fault) == fault \in Faults

-----------------------------------------------------------------------------
(* handleLocalAdminLogin.                                                  *)

\* Mutation: a locked account is not refused.
BeginLocked(a, p) ==
  /\ live /\ login[a] = None /\ row # None
  /\ login' = [login EXCEPT ![a] = [read |-> row, given |-> p]]
  /\ UNCHANGED <<row, stored, live, history>>

\* The switch, the account and the lock allow it: verifyPassword begins.
Begin(a, p) ==
  /\ live /\ login[a] = None /\ row # None /\ ~Locked
  /\ login' = [login EXCEPT ![a] = [read |-> row, given |-> p]]
  /\ UNCHANGED <<row, stored, live, history>>

Right(a) == login[a].given = login[a].read.hash

\* Mutation: the attempt that reaches the limit is one too late.
FailedOneLate(read) ==
  IF read.fails + 1 > MaxFail
    THEN [read EXCEPT !.fails = 0, !.lock = Lockout]
    ELSE [read EXCEPT !.fails = @ + 1]

\* What a wrong password makes of the row that was read.
Failed(read) ==
  IF read.fails + 1 >= MaxFail
    THEN [read EXCEPT !.fails = 0, !.lock = Lockout]
    ELSE [read EXCEPT !.fails = @ + 1]

\* db.Save: every column, and a row that is gone is inserted again.
Write(a, account) ==
  /\ row' = account
  /\ missed' = (missed \/ row # login[a].read)
  /\ revived' = revived \cup ({account.hash} \cap revoked)

Refuse(a) ==
  /\ login[a] # None /\ ~Right(a)
  /\ LET account == Failed(login[a].read) IN
       /\ Write(a, account)
       /\ guesses' = IF missed' \/ account.lock > 0 THEN 0 ELSE guesses + 1
  /\ login' = [login EXCEPT ![a] = None]
  /\ UNCHANGED <<stored, live, revoked>>

Admit(a) ==
  /\ login[a] # None /\ Right(a)
  /\ Write(a, [login[a].read EXCEPT !.fails = 0, !.lock = 0])
  /\ guesses' = 0
  /\ login' = [login EXCEPT ![a] = None]
  /\ UNCHANGED <<stored, live, revoked>>

\* The row is not written: the answer is the same, and an attempt is not counted.
Unrecorded(a) ==
  /\ May("database") /\ login[a] # None
  /\ login' = [login EXCEPT ![a] = None]
  /\ missed' = (missed \/ ~Right(a)) /\ guesses' = IF missed' THEN 0 ELSE guesses
  /\ UNCHANGED <<row, stored, live, revoked, revived>>

-----------------------------------------------------------------------------
(* The command line, on the host.                                          *)

Held == IF row = None THEN {} ELSE {row.hash}

\* createLocalAdmin: add and passwd, which also clears the lock.
Create(p) ==
  /\ row' = [hash |-> p, fails |-> 0, lock |-> 0]
  /\ guesses' = 0
  /\ revoked' = (revoked \cup Held) \ {p}
  /\ revived' = revived \ {p}
  /\ UNCHANGED <<login, stored, live, missed>>

\* Mutation: the account is emptied of its counters only.
DeleteCounters ==
  /\ row # None
  /\ row' = [row EXCEPT !.fails = 0, !.lock = 0]
  /\ guesses' = 0 /\ revoked' = revoked \cup Held
  /\ UNCHANGED <<login, stored, live, missed, revived>>

\* deleteLocalAdmin.
Delete ==
  /\ row # None /\ row' = None
  /\ guesses' = 0 /\ revoked' = revoked \cup Held
  /\ UNCHANGED <<login, stored, live, missed, revived>>

\* admin enable, admin disable: "restart the portal for it to take effect".
Switch ==
  /\ stored' \in BOOLEAN /\ stored' # stored
  /\ UNCHANGED <<row, login, live, history>>

\* A saved settings form rebuilds the runtime under the logins that are served.
Reload ==
  /\ live # stored /\ live' = stored
  /\ UNCHANGED <<row, login, stored, history>>

Restart ==
  /\ May("crash")
  /\ login' = [a \in Login |-> None] /\ live' = stored
  /\ UNCHANGED <<row, stored, history>>

\* Time passes for the lock; a login in progress has read none.
Tick ==
  /\ Locked
  /\ row' = [row EXCEPT !.lock = @ - 1]
  /\ UNCHANGED <<login, stored, live, history>>

Init ==
  /\ row = None /\ login = [a \in Login |-> None]
  /\ stored = FALSE /\ live = FALSE
  /\ guesses = 0 /\ missed = FALSE /\ revoked = {} /\ revived = {}

Next ==
  \/ \E a \in Login : (\E p \in Password : Begin(a, p)) \/ Refuse(a) \/ Admit(a) \/ Unrecorded(a)
  \/ (\E p \in Password : Create(p)) \/ Delete
  \/ Switch \/ Reload \/ Restart \/ Tick

\* Time passes.
Spec == Init /\ [][Next]_vars /\ WF_vars(Tick)

-----------------------------------------------------------------------------
(* Correctness.                                                            *)

TypeOK ==
  /\ row \in Account \cup {None}
  /\ login \in [Login -> Reading \cup {None}]
  /\ stored \in BOOLEAN /\ live \in BOOLEAN /\ missed \in BOOLEAN
  /\ guesses \in Nat /\ revoked \subseteq Password /\ revived \subseteq revoked

\* The "ten-attempt lockout": as long as every login wrote over the row that it
\* had read, no more wrong passwords than that are tried between two locks.
LockoutIsReached == guesses < MaxFail

\* A lock that is not over goes by the command line, or by a login that began
\* before it and writes the row back as it was.
LockStands ==
  [][Locked /\ row.lock > 1 /\ row' # None /\ row'.lock = 0
       => \/ \E p \in Password : Create(p)
          \/ \E a \in Login : login[a] # None /\ login'[a] = None /\ login[a].read # row]_vars

\* "[A]n operator locked out by their own typo during an outage must not have to
\* wait out a punitive window": whatever else is tried, the lock ends.
LockEnds == Locked ~> ~Locked

\* A password that passwd replaced, or whose account was deleted, opens the
\* account again only if a login that had read it wrote the old row back.
RevokedOnlyByRevival == row # None /\ row.hash \in revoked => row.hash \in revived
=============================================================================
