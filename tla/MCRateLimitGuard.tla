-------------------------- MODULE MCRateLimitGuard --------------------------
(* Instances of RateLimitGuard for TLC. *)
EXTENDS RateLimitGuard, TLC

Symmetry == Permutations(Prober)
=============================================================================
