---------------------------- MODULE MCLocalAdmin ----------------------------
(* Two logins of one account, with a right password and a wrong one.       *)
EXTENDS LocalAdmin, TLC
=============================================================================
