----------------------------- MODULE MCEventLog -----------------------------
(* Two instances and one handler, batches of one row and sweeps of two, so *)
(* that a backlog of three outlasts a sweep.                               *)
EXTENDS EventLog
=============================================================================
