-------------------------- MODULE MCSchedulerLoop --------------------------
(* SchedulerLoop on two named nodes. *)
EXTENDS SchedulerLoop
CONSTANTS n1, n2
=============================================================================
