---------------------------- MODULE MCListeners ----------------------------
(* One process, its save requests and its rollback timers.                 *)
EXTENDS Listeners, TLC

CONSTANTS a1, a2

\* HTTPS on; HTTPS moved and the redirect on; everything off.
MCForm == {
  [mode |-> "standalone", addr |-> Unset, redirect |-> Unset],
  [mode |-> "standalone", addr |-> a2,    redirect |-> TRUE],
  [mode |-> "proxy",      addr |-> a1,    redirect |-> FALSE] }

\* The redirect on; HTTPS on.
MCRedirectFirst == {
  [mode |-> Unset,        addr |-> Unset, redirect |-> TRUE],
  [mode |-> "standalone", addr |-> Unset, redirect |-> Unset] }

Symmetry == Permutations(Request)
=============================================================================
