--------------------------- MODULE MCPolicyStore ---------------------------
(* Two instances, two saves at a time and two profiles: both saves on one  *)
(* instance, or one on each, for one profile or for two.                   *)
EXTENDS PolicyStore, TLC
Symmetry == Permutations(Node) \cup Permutations(Save)
              \cup Permutations(Profile)
=============================================================================
