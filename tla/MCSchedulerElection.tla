----------------------- MODULE MCSchedulerElection -------------------------
(* Instances of SchedulerElection for TLC. *)
EXTENDS SchedulerElection, TLC

\* The eligible, faultless processes are interchangeable.
Symmetry == Permutations(Proc \ (Ineligible \cup Faulty))
=============================================================================
