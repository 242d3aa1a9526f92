---------------------------- MODULE MCCheckQueue ----------------------------
(* Model-checking instance of CheckQueue. *)
EXTENDS CheckQueue
=============================================================================
