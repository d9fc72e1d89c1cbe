-------------------------- MODULE MCUsageReporter --------------------------
(* Instances of UsageReporter for TLC. *)
EXTENDS UsageReporter
=============================================================================
