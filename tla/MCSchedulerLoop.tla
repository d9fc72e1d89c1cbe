-------------------------- MODULE MCSchedulerLoop --------------------------
(* Instances of SchedulerLoop for TLC. *)
EXTENDS SchedulerLoop
=============================================================================
