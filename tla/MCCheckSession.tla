--------------------------- MODULE MCCheckSession ---------------------------
(* Instances of CheckSession for TLC: the host of the scheduler, w1, and      *)
(* another worker, w2.                                                        *)
EXTENDS CheckSession, TLC

CONSTANTS w1, w2

\* Every request on the host, and checks started on the other worker, whose status
\* the host's requests then read.
Everything == {w1} \X {"start", "view", "cancel", "raise"} \cup {<<w2, "start">>}

\* The lists differ, and the host's is long enough to go on where it should not.
Lengths == w1 :> 2 @@ w2 :> 1

\* The request is served by the worker that does not host the scheduler.
CancelElsewhere == {<<w2, "cancel">>}
=============================================================================
