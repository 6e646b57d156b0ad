------------------------------ MODULE MCIpBan ------------------------------
(* Two instances and two requests in flight, on the same or on different   *)
(* instances; both sets are interchangeable.                               *)
EXTENDS IpBan, TLC

Symmetry == Permutations(Node) \cup Permutations(Job)
=============================================================================
