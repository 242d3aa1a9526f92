---------------------------- MODULE MCScheduler -----------------------------
(* Model-checking instances of Scheduler: one task repeats, the others run
   once. *)
EXTENDS Scheduler

CONSTANTS r, a

OneRepeats == [f \in Tasks |-> IF f = r THEN 1 ELSE 0]
=============================================================================
