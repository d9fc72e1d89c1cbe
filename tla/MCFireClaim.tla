---------------------------- MODULE MCFireClaim ----------------------------
(* An instance of FireClaim for TLC: days of two minutes.                 *)
EXTENDS FireClaim, TLC

CONSTANTS l1, l2, l3, m1, m2, c1

\* The double loop of 2026-07-03, beside a loop of another import, which makes
\* the double loop of 2026-08-07.
ThreeLoops == l1 :> m1 @@ l2 :> m1 @@ l3 :> m2

\* The expression "* * * * *".
MCDue == Cron \X (0..MaxNow)

\* The claim folder is read-only in the last minute.
LastMinute == Cron \X {MaxNow - FoldLength}
=============================================================================
