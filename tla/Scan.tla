-------------------------------- MODULE Scan --------------------------------
(***************************************************************************)
(* What a scan of a list of streams promises, however it goes about it.    *)
(*                                                                         *)
(* A stream gets a row when it has been probed, and is struck off the list *)
(* of what is left to do by the same step; only a row with an error worth  *)
(* another try is ever replaced.  The rows are saved at most once, when no *)
(* more will come, and the streams with a row are counted in any case.     *)
(***************************************************************************)
EXTENDS Naturals, FiniteSets

CONSTANTS
    Stream,        \* the streams to check
    Row,           \* what a probe can find
    TryAgain,      \* the rows, of those, that are worth another try
    NoRow          \* stands for none, and is no row

VARIABLES
    rows,          \* what was found, stream by stream
    struck,        \* the streams struck off pending_resume.json
    saved,         \* what was written to the results file, as a set
    counted,       \* the streams added to the usage ledger
    over           \* whether the scan has ended

vars == <<rows, struck, saved, counted, over>>

Init ==
    /\ rows = [s \in Stream |-> NoRow]
    /\ struck = {}
    /\ saved = {}
    /\ counted = 0
    /\ over = FALSE

Judged == {s \in Stream : rows[s] # NoRow}

Judge(s) ==
    /\ saved = {} /\ ~over
    /\ rows[s] = NoRow
    /\ \E r \in Row : rows' = [rows EXCEPT ![s] = r]
    /\ struck' = struck \union {s}
    /\ UNCHANGED <<saved, counted, over>>

Rejudge(s) ==
    /\ saved = {} /\ ~over
    /\ rows[s] \in TryAgain
    /\ \E r \in Row : rows' = [rows EXCEPT ![s] = r]
    /\ UNCHANGED <<struck, saved, counted, over>>

Save ==
    /\ saved = {} /\ ~over
    /\ saved' = {rows}
    /\ UNCHANGED <<rows, struck, counted, over>>

Finish ==
    /\ ~over
    /\ over' = TRUE
    /\ counted' = Cardinality(Judged)
    /\ UNCHANGED <<rows, struck, saved>>

Next ==
    \/ \E s \in Stream : Judge(s) \/ Rejudge(s)
    \/ Save
    \/ Finish

Spec == Init /\ [][Next]_vars
=============================================================================
