--------------------------- MODULE GuestCodeStore ---------------------------
(***************************************************************************)
(* The guest-code table and its redemption transaction                     *)
(* (store_guestcode.go), with the handlers of main.go that call it.        *)
(*                                                                         *)
(* Portal instances share one database.  A request runs Validate as one    *)
(* transaction: it locks and reads the row, checks expiry and the use      *)
(* count, inserts the use and commits; only then does the handler answer.  *)
(* Administrators insert, edit and delete codes with single statements.    *)
(* On MySQL and PostgreSQL a transaction holds the row it selected FOR     *)
(* UPDATE; on SQLite it holds the only connection.                         *)
(***************************************************************************)
EXTENDS Integers, FiniteSets

CONSTANTS
  Code,              \* normalised spellings (code_lower, a unique index)
  Request,           \* redemption requests, each redeems once
  MaxTime,           \* bound on the clock
  Expiry,            \* the expiries an administrator enters
  MaxLimit,          \* bound on the use limit an administrator enters
  SingleConnection,  \* TRUE on SQLite: one connection serves the whole process
  Absent,            \* a code with no row
  Never              \* a NULL expires_at

\* code_lower is a column of 64 characters (models.go).
ASSUME CodeAssumption  == IsFiniteSet(Code)
ASSUME BoundAssumption == MaxTime \in Nat /\ MaxLimit \in Nat
ASSUME DriverAssumption == SingleConnection \in BOOLEAN
ASSUME ExpiryAssumption == Expiry \subseteq (0 .. MaxTime) \cup {Never}
ASSUME NeverAssumption == Never \notin Nat
ASSUME AbsentAssumption ==
  Absent \notin Nat \cup [max : 0 .. MaxLimit, exp : Expiry]

VARIABLES
  row,      \* row[k]: the guest_code row, or Absent
  uses,     \* uses[k]: the requests with a guest_code_use child row
  pc,       \* pc[r]: where request r is
  asked,    \* asked[r]: the code r presents
  snap,     \* snap[r]: the row r read under the lock
  now,      \* wall clock
  began,    \* history: when r presented its code
  spent,    \* history: requests whose use was ever committed
  peak      \* history: the largest limit the row ever carried, 0 if unlimited

storeVars == <<row, uses>>
reqVars   == <<pc, asked, snap>>
history   == <<began, spent, peak>>
vars      == <<row, uses, pc, asked, snap, now, began, spent, peak>>

Time   == 0 .. MaxTime
Limit  == 0 .. MaxLimit
Row    == [max : Limit, exp : Expiry]

InTxn(r)  == pc[r] \in {"locked", "checked"}
Outcome   == {"granted", "denied", "lost"}
Existing  == {k \in Code : row[k] # Absent}

\* GuestCode.IsExpired and every SQL form of it: strictly past the expiry.
Past(exp, t) == exp # Never /\ t > exp

\* Mutation: any use at all exhausts a limited code.
ExhaustedByAnyUse(k) == row[k].max > 0 /\ uses[k] # {}

\* The "exhausted" subselect: a limit that the child rows have reached.
Exhausted(k) == row[k].max > 0 /\ row[k].max <= Cardinality(uses[k])

\* Mutation: the SELECT is sent without FOR UPDATE.
FreeWithoutRowLock(k) == TRUE

\* rowLock: code k can be read FOR UPDATE, or written, only when no
\* transaction in progress holds its row (or, on SQLite, the connection).
Free(k) ==
  \A s \in Request : InTxn(s) => ~(SingleConnection \/ asked[s] = k)

\* An insert never waits for a row lock, only for the connection.
Connectable == SingleConnection => \A s \in Request : ~InTxn(s)

-----------------------------------------------------------------------------
(* The redemption: Validate, and the part of handleGuestCode around it.    *)

\* handleGuestCode has passed its gates and calls Validate with code k.
Ask(r, k) ==
  /\ pc[r] = "idle"
  /\ pc'    = [pc EXCEPT ![r] = "asked"]
  /\ asked' = [asked EXCEPT ![r] = k]
  /\ began' = [began EXCEPT ![r] = now]
  /\ UNCHANGED <<row, uses, snap, now, spent, peak>>

\* Validate returns: the transaction and its locals are gone.
Return(r, outcome) ==
  /\ pc'    = [pc EXCEPT ![r] = outcome]
  /\ asked' = [asked EXCEPT ![r] = Absent]
  /\ snap'  = [snap EXCEPT ![r] = Absent]
  /\ began' = [began EXCEPT ![r] = 0]

\* Mutation: a missing row is taken for one that is still locked.
BeginWaitsForRow(r) ==
  /\ pc[r] = "asked" /\ row[asked[r]] # Absent /\ Free(asked[r])
  /\ pc'   = [pc EXCEPT ![r] = "locked"]
  /\ snap' = [snap EXCEPT ![r] = row[asked[r]]]
  /\ UNCHANGED <<storeVars, asked, now, history>>

\* SELECT ... FOR UPDATE.  An unknown code ends the transaction at once.
Begin(r) ==
  /\ pc[r] = "asked"
  /\ Free(asked[r])
  /\ \/ /\ row[asked[r]] = Absent
        /\ Return(r, "denied")
     \/ /\ row[asked[r]] # Absent
        /\ pc'   = [pc EXCEPT ![r] = "locked"]
        /\ snap' = [snap EXCEPT ![r] = row[asked[r]]]
        /\ UNCHANGED <<asked, began>>
  /\ UNCHANGED <<storeVars, now, spent, peak>>

\* Mutation: the expiry is not looked at.
UsableIfUnspent(r) ==
  snap[r].max = 0 \/ Cardinality(uses[asked[r]]) < snap[r].max

\* The row Validate read, at the time it looks, with the uses it counts.
Usable(r) ==
  /\ ~Past(snap[r].exp, now)
  /\ snap[r].max = 0 \/ Cardinality(uses[asked[r]]) < snap[r].max

Check(r) ==
  /\ pc[r] = "locked"
  /\ \/ /\ Usable(r)
        /\ pc' = [pc EXCEPT ![r] = "checked"]
        /\ UNCHANGED <<asked, snap, began>>
     \/ /\ ~Usable(r)
        /\ Return(r, "denied")
  /\ UNCHANGED <<storeVars, now, spent, peak>>

\* The use is inserted, the history re-read, the transaction committed.
Commit(r) ==
  /\ pc[r] = "checked"
  /\ uses'  = [uses EXCEPT ![asked[r]] = @ \cup {r}]
  /\ spent' = spent \cup {r}
  /\ Return(r, "redeemed")
  /\ UNCHANGED <<row, now, peak>>

\* Mutation: the error of the transaction is dropped and the result, which
\* the closure had already built, returned.
AbortWithResult(r) ==
  /\ InTxn(r)
  /\ Return(r, "redeemed")
  /\ UNCHANGED <<storeVars, now, spent, peak>>

\* A statement or the commit fails: rolled back, Validate returns nil.
Abort(r) ==
  /\ InTxn(r)
  /\ Return(r, "denied")
  /\ UNCHANGED <<storeVars, now, spent, peak>>

\* handleGuestCode answers with the router's allow-list redirect.
Deliver(r) ==
  /\ pc[r] = "redeemed"
  /\ Return(r, "granted")
  /\ UNCHANGED <<storeVars, now, spent, peak>>

\* The instance dies: the database rolls an open transaction back, and a
\* committed use is not followed by an answer.
Crash(r) ==
  /\ InTxn(r) \/ pc[r] = "redeemed"
  /\ Return(r, "lost")
  /\ UNCHANGED <<storeVars, now, spent, peak>>

-----------------------------------------------------------------------------
(* The administrator's statements.                                         *)

\* Add and AddMany: one transaction, ON CONFLICT DO NOTHING per code.  The
\* handlers refuse an expiry that has passed.
AddMany(S, m, e) ==
  /\ Connectable
  /\ ~Past(e, now)
  /\ LET fresh == S \ Existing
     IN  /\ fresh # {}
         /\ row'  = [k \in Code |-> IF k \in fresh THEN [max |-> m, exp |-> e] ELSE row[k]]
         /\ peak' = [k \in Code |-> IF k \in fresh THEN m ELSE peak[k]]
  /\ UNCHANGED <<uses, reqVars, now, began, spent>>

\* Mutation: SQLite without PRAGMA foreign_keys, which does not cascade.
DropParentOnly(S) ==
  /\ row' = [k \in Code |-> IF k \in S THEN Absent ELSE row[k]]
  /\ UNCHANGED uses

\* Deleting a code cascades to its uses.
Drop(S) ==
  /\ row'  = [k \in Code |-> IF k \in S THEN Absent ELSE row[k]]
  /\ uses' = [k \in Code |-> IF k \in S THEN {} ELSE uses[k]]

\* Delete and DeleteMany.
DeleteMany(S) ==
  /\ S \cap Existing # {}
  /\ \A k \in S \cap Existing : Free(k)
  /\ Drop(S \cap Existing)
  /\ UNCHANGED <<reqVars, now, history>>

\* The WHERE of DeleteInactive: expired, or every permitted use consumed.
Inactive == {k \in Existing : Past(row[k].exp, now) \/ Exhausted(k)}

DeleteInactive ==
  /\ Inactive # {}
  /\ \A k \in Inactive : Free(k)
  /\ Drop(Inactive)
  /\ UNCHANGED <<reqVars, now, history>>

\* Edit takes any expiry, the past included, and a limit below the uses.
Edit(k, m, e) ==
  /\ row[k] # Absent
  /\ Free(k)
  /\ row'  = [row EXCEPT ![k] = [max |-> m, exp |-> e]]
  /\ peak' = [peak EXCEPT ![k] = IF @ = 0 \/ m = 0 THEN 0 ELSE IF m > @ THEN m ELSE @]
  /\ UNCHANGED <<uses, reqVars, now, began, spent>>

Tick ==
  /\ now < MaxTime
  /\ now' = now + 1
  /\ UNCHANGED <<storeVars, reqVars, history>>

-----------------------------------------------------------------------------
Init ==
  /\ row   = [k \in Code |-> Absent]
  /\ uses  = [k \in Code |-> {}]
  /\ pc    = [r \in Request |-> "idle"]
  /\ asked = [r \in Request |-> Absent]
  /\ snap  = [r \in Request |-> Absent]
  /\ now   = 0
  /\ began = [r \in Request |-> 0]
  /\ spent = {}
  /\ peak  = [k \in Code |-> 0]

Redemption(r) ==
  Begin(r) \/ Check(r) \/ Commit(r) \/ Abort(r) \/ Deliver(r) \/ Crash(r)

Admin ==
  \/ \E S \in SUBSET Code, m \in Limit, e \in Expiry : AddMany(S, m, e)
  \/ \E S \in SUBSET Code : DeleteMany(S)
  \/ \E k \in Code, m \in Limit, e \in Expiry : Edit(k, m, e)
  \/ DeleteInactive

Next ==
  \/ \E r \in Request : (\E k \in Code : Ask(r, k)) \/ Redemption(r)
  \/ Admin
  \/ Tick

\* A handler that is running keeps running, and the database answers each
\* of its statements in the end (perhaps with an error).
Fairness ==
  \A r \in Request : WF_vars(Begin(r)) /\ WF_vars(Check(r))
                     /\ WF_vars(Commit(r)) /\ WF_vars(Deliver(r))

Spec     == Init /\ [][Next]_vars
FairSpec == Spec /\ Fairness

-----------------------------------------------------------------------------
(* How the rest of the portal reads the same rows.                         *)

\* codeStatusWhere: the rows a status filter of the admin table selects.
StatusFilter(status) ==
  CASE status = "expired" -> {k \in Existing : Past(row[k].exp, now)}
    [] status = "used"    -> {k \in Existing : ~Past(row[k].exp, now) /\ Exhausted(k)}
    [] status = "unused"  -> {k \in Existing : ~Past(row[k].exp, now) /\ ~Exhausted(k)}

\* GuestCode.IsActive, on the loaded record.
IsActive(k) ==
  /\ ~Past(row[k].exp, now)
  /\ ~(row[k].max > 0 /\ Cardinality(uses[k]) >= row[k].max)

\* Mutation: exhausted codes are counted whether or not they have expired.
StatsUnusedOverlap ==
  LET gone == Cardinality({k \in Existing : Past(row[k].exp, now)})
      used == Cardinality({k \in Existing : Exhausted(k)})
  IN  IF Cardinality(Existing) < gone + used THEN 0
      ELSE Cardinality(Existing) - gone - used

\* Stats: total, expired and used are counted, unused is what remains.
StatsUnused ==
  LET total == Cardinality(Existing)
      gone  == Cardinality({k \in Existing : Past(row[k].exp, now)})
      used  == Cardinality({k \in Existing : ~Past(row[k].exp, now) /\ Exhausted(k)})
  IN  IF total < gone + used THEN 0 ELSE total - gone - used

-----------------------------------------------------------------------------
(* Correctness.                                                            *)

TypeOK ==
  /\ row   \in [Code -> Row \cup {Absent}]
  /\ uses  \in [Code -> SUBSET Request]
  /\ pc    \in [Request -> {"idle", "asked", "locked", "checked", "redeemed"} \cup Outcome]
  /\ asked \in [Request -> Code \cup {Absent}]
  /\ snap  \in [Request -> Row \cup {Absent}]
  /\ now   \in Time
  /\ began \in [Request -> Time]
  /\ spent \subseteq Request
  /\ peak  \in [Code -> Limit]

\* Validate: "two devices racing on the last use of a single-use code cannot
\* both win".  However many instances race, and whatever edits intervene, a
\* code is never redeemed more often than the largest limit it ever carried.
NeverOverspent ==
  \A k \in Existing : peak[k] = 0 \/ Cardinality(uses[k]) <= peak[k]

\* handleGuestCode answers only for a committed use: a failed transaction
\* (whose closure may already have built the result) must not admit.
GrantsAreRecorded ==
  \A r \in Request : pc[r] \in {"redeemed", "granted"} => r \in spent

\* Stats agrees with the dashboard's ActiveCount on the same rows.
CountersAgree == StatsUnused = Cardinality(StatusFilter("unused"))

\* Edit with a past expiry forces a code to expire (handleCodeEdit): a use is
\* never recorded for a code that, as its row stands at the commit, had
\* expired before the request was made.
NoUseAfterForcedExpiry ==
  [][\A k \in Code : \A r \in uses'[k] \ uses[k] :
       row[k] # Absent /\ ~Past(row[k].exp, began[r])]_vars

\* DeleteInactive: "partially used multi-use codes stay, because they are
\* still handed out".  The sweep removes no code the domain type calls active.
SweepSparesActive ==
  [][DeleteInactive => \A k \in Existing : IsActive(k) => row'[k] = row[k]]_vars

\* Every presented code gets an answer or dies with its instance: nobody
\* waits on a row lock for ever.
EveryAskIsDecided ==
  \A r \in Request : pc[r] = "asked" ~> pc[r] \in Outcome

\* The store implements the ledger.
Ledger == INSTANCE RedemptionLedger
  WITH limit <- [k \in Code |-> IF row[k] = Absent THEN Absent ELSE row[k].max],
       Void <- Absent,
       Size <- Cardinality

ImplementsLedger == Ledger!Spec
=============================================================================
