---------------------------- MODULE MCAdmission ----------------------------
(* Two devices and two browsers, which may be of one device, a counter     *)
(* with room for one key, and an upload of a list with a repeated device   *)
(* and a line that is none; or one browser that guesses for four devices,  *)
(* with room for three keys, of which an eviction leaves two.              *)
EXTENDS Admission, TLC
CONSTANTS m1, m2
MCFile == {<<m1, None, m2, m1>>}
Symmetry == Permutations(Session)
=============================================================================
