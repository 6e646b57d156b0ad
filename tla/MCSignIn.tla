------------------------------ MODULE MCSignIn ------------------------------
(* Both are interchangeable: browsers, and the handlers at work.           *)
EXTENDS SignIn, TLC

MCShort == [window |-> 1, limit |-> 1]
MCLong  == [window |-> 2, limit |-> 2]

\* Both clients are configured at the start and, after a save, neither; the
\* short window is then the wider one, and the limits are the same.
MCSetup == {[oidc |-> FALSE, duo |-> FALSE,
             short |-> [window |-> 3, limit |-> 1], long |-> [window |-> 2, limit |-> 1]]}

Symmetry == Permutations(Device) \cup Permutations(Request)
=============================================================================
