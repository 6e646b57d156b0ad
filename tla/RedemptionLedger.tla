-------------------------- MODULE RedemptionLedger --------------------------
(***************************************************************************)
(* What the guest-code store promises, without transactions, instances or  *)
(* locks: a code is issued with a use limit, amended, revoked, and redeemed *)
(* one use at a time, never past the limit it carries at that moment.      *)
(***************************************************************************)
EXTENDS Naturals

CONSTANTS Code,     \* normalised code spellings
          Request,  \* redemption attempts, one use each
          Void,     \* the limit of a code that does not exist
          Size(_)   \* how many uses a history holds

VARIABLES limit,    \* limit[k]: Void, 0 (unlimited) or the permitted uses
          uses      \* uses[k]: the redemptions on record

ledger == <<limit, uses>>

Init == /\ limit = [k \in Code |-> Void]
        /\ uses  = [k \in Code |-> {}]

\* A code with uses to spare: 0 is unlimited.
Spendable(k) ==
  /\ limit[k] # Void
  /\ limit[k] = 0 \/ Size(uses[k]) < limit[k]

Redeem(r, k) ==
  /\ Spendable(k)
  /\ r \notin UNION {uses[c] : c \in Code}
  /\ uses' = [uses EXCEPT ![k] = @ \cup {r}]
  /\ UNCHANGED limit

\* A batch of fresh codes, each with the limit it is given.
Issue(S) ==
  /\ \A k \in S : limit[k] = Void /\ limit'[k] \in Nat
  /\ limit' = [k \in Code |-> IF k \in S THEN limit'[k] ELSE limit[k]]
  /\ UNCHANGED uses

Amend(k) ==
  /\ limit[k] # Void
  /\ limit'[k] \in Nat
  /\ limit' = [limit EXCEPT ![k] = limit'[k]]
  /\ UNCHANGED uses

\* Revoking a code takes its redemption history with it.
Revoke(S) ==
  /\ limit' = [k \in Code |-> IF k \in S THEN Void ELSE limit[k]]
  /\ uses'  = [k \in Code |-> IF k \in S THEN {} ELSE uses[k]]

Next ==
  \/ \E r \in Request, k \in Code : Redeem(r, k)
  \/ \E S \in SUBSET Code : Issue(S) \/ Revoke(S)
  \/ \E k \in Code : Amend(k)

Spec == Init /\ [][Next]_ledger
=============================================================================
