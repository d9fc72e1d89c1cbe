----------------------------- MODULE StreamScan -----------------------------
(***************************************************************************)
(* The two ways the background thread goes through the streams: one after  *)
(* the other with a queue of retries, or with a pool of workers and passes *)
(* of retries.  Either may be stopped or run into the end of its window    *)
(* between any two steps.                                                  *)
(*                                                                         *)
(* Abstractions.  A stream is its place in the list.  A probe hears one of *)
(* Answers, and StreamProbe says what comes of it.  The pauses between     *)
(* probes pass within the steps; a row and its striking off are one step   *)
(* of one thread.  The stats of a stream can always be written, and what   *)
(* raises ends the scan: of a future that raises, which no probe does, the *)
(* pool would make a Dead row and leave the stats.                         *)
(***************************************************************************)
EXTENDS StreamProbe, FiniteSets

CONSTANTS
    N,             \* how many streams
    Answers,       \* what a probe may hear
    Retries,       \* dead_connection_retries
    Workers,       \* parallel_workers
    Every          \* a retry after so many streams (4 in the code)

ASSUME StreamScanAssumption ==
    /\ N \in Nat /\ Retries \in Nat
    /\ Workers \in Nat \ {0} /\ Every \in Nat \ {0}
    /\ Answers \subseteq Answer

Stream == 1..N
NoRow == [status |-> "none", error |-> "none", stats |-> "old"]

VARIABLES
    parallel,      \* enable_parallel_checking
    stopped,       \* _stop_event
    closed,        \* _past_window_end
    phase,         \* where the background thread is
    rows,          \* results, or results_dict, by the place in the list
    struck,        \* what _mark_stream_done has struck off
    stats,         \* stream_stats in Dispatcharr's database
    saved,         \* what was written to the results file, as a set
    counted,       \* what _record_streams_checked has added
    probes,        \* how often each stream was probed: its retry_count and one
    at,            \* sequential: the streams begun
    busy,          \* sequential: the stream being probed, 0 if none
    since,         \* sequential: streams_processed_since_retry
    queue,         \* sequential: timeout_retry_queue
    future,        \* parallel: the future of each stream
    found,         \* parallel: what it returned
    pass           \* parallel: the retry passes begun

scan == <<rows, struck, stats, saved, counted>>
sequential == <<at, busy, since, queue>>
pool == <<future, found, pass>>
vars == <<parallel, stopped, closed, phase, scan, probes, sequential, pool>>

Init ==
    /\ parallel \in BOOLEAN
    /\ stopped = FALSE
    /\ closed = FALSE
    /\ phase = "list"
    /\ rows = [s \in Stream |-> NoRow]
    /\ struck = {}
    /\ stats = [s \in Stream |-> "old"]
    /\ saved = {}
    /\ counted = 0
    /\ probes = [s \in Stream |-> 0]
    /\ at = 0
    /\ busy = 0
    /\ since = 0
    /\ queue = <<>>
    /\ future = [s \in Stream |-> IF parallel THEN "queued" ELSE "none"]
    /\ found = [s \in Stream |-> NoRow]
    /\ pass = 0

Halted == stopped \/ closed

WorthRetry(row) == row.error \in Retryable

\* The request to stop, and the end of the window.
Stop ==
    /\ ~stopped /\ phase # "over"
    /\ stopped' = TRUE
    /\ UNCHANGED <<parallel, closed, phase, scan, probes, sequential, pool>>

WindowCloses ==
    /\ ~closed /\ phase # "over"
    /\ closed' = TRUE
    /\ UNCHANGED <<parallel, stopped, phase, scan, probes, sequential, pool>>

\* A row is put in its place, with what it does to the stats of the stream.
Enter(s, row) ==
    /\ rows' = [rows EXCEPT ![s] = row]
    /\ stats' = [stats EXCEPT ![s] = IF row.stats = "old" THEN @ ELSE row.stats]

\* A first row also strikes the stream off the pending list.
Record(s, row) ==
    /\ Enter(s, row)
    /\ struck' = struck \union {s}
    /\ UNCHANGED <<saved, counted>>

Replace(s, row) ==
    /\ Enter(s, row)
    /\ UNCHANGED <<struck, saved, counted>>

-----------------------------------------------------------------------------
(* One after the other. *)

\* A retry is due when Every streams have gone by since the last.
RetryDue == since >= Every /\ queue # <<>>

Begin(s) ==
    /\ busy' = s
    /\ probes' = [probes EXCEPT ![s] = @ + 1]

NextStream ==
    /\ ~parallel /\ phase = "list" /\ busy = 0
    /\ ~RetryDue /\ at < N /\ ~Halted
    /\ at' = at + 1
    /\ Begin(at + 1)
    /\ UNCHANGED <<parallel, stopped, closed, phase, scan, since, queue, pool>>

\* Mutant of JudgeStream: a stream is struck off when its last retry is over.
JudgeStreamLate ==
    /\ ~parallel /\ phase = "list" /\ busy # 0
    /\ \E answer \in Answers :
         LET row == Verdict(answer, stopped) IN
         /\ Enter(busy, row)
         /\ struck' = IF WorthRetry(row) THEN struck ELSE struck \union {busy}
         /\ queue' = IF WorthRetry(row) THEN Append(queue, busy) ELSE queue
    /\ since' = since + 1
    /\ busy' = 0
    /\ UNCHANGED <<parallel, stopped, closed, phase, saved, counted, probes, at, pool>>

JudgeStream ==
    /\ ~parallel /\ phase = "list" /\ busy # 0
    /\ \E answer \in Answers :
         LET row == Verdict(answer, stopped) IN
         /\ Record(busy, row)
         /\ queue' = IF WorthRetry(row) /\ Retries > 0 THEN Append(queue, busy) ELSE queue
    /\ since' = since + 1
    /\ busy' = 0
    /\ UNCHANGED <<parallel, stopped, closed, phase, probes, at, pool>>

\* In the midst of the list one stream is taken off the queue, stop or no stop.
RetryStream ==
    /\ ~parallel /\ phase = "list" /\ busy = 0
    /\ RetryDue
    /\ since' = 0
    /\ queue' = Tail(queue)
    /\ IF probes[Head(queue)] <= Retries
         THEN Begin(Head(queue)) /\ phase' = "retry"
         ELSE UNCHANGED <<busy, probes, phase>>
    /\ UNCHANGED <<parallel, stopped, closed, scan, at, pool>>

\* A stream that still fails goes back into the queue while it has retries left.
JudgeRetry ==
    /\ ~parallel /\ phase = "retry"
    /\ \E answer \in Answers :
         LET row == Verdict(answer, stopped) IN
         /\ Replace(busy, row)
         /\ queue' = IF WorthRetry(row) /\ probes[busy] <= Retries
                       THEN Append(queue, busy) ELSE queue
    /\ busy' = 0
    /\ phase' = "list"
    /\ UNCHANGED <<parallel, stopped, closed, probes, at, since, pool>>

LeaveList ==
    /\ ~parallel /\ phase = "list" /\ busy = 0
    /\ ~RetryDue /\ (at = N \/ Halted)
    /\ phase' = "flush"
    /\ UNCHANGED <<parallel, stopped, closed, scan, probes, sequential, pool>>

\* After the list each stream of the queue has one retry.
FlushStream ==
    /\ ~parallel /\ phase = "flush" /\ busy = 0
    /\ queue # <<>> /\ ~Halted
    /\ queue' = Tail(queue)
    /\ IF probes[Head(queue)] <= Retries
         THEN Begin(Head(queue))
         ELSE UNCHANGED <<busy, probes>>
    /\ UNCHANGED <<parallel, stopped, closed, phase, scan, at, since, pool>>

JudgeFlush ==
    /\ ~parallel /\ phase = "flush" /\ busy # 0
    /\ \E answer \in Answers : Replace(busy, Verdict(answer, stopped))
    /\ busy' = 0
    /\ UNCHANGED <<parallel, stopped, closed, phase, probes, at, since, queue, pool>>

LeaveFlush ==
    /\ ~parallel /\ phase = "flush" /\ busy = 0
    /\ queue = <<>> \/ Halted
    /\ phase' = "save"
    /\ UNCHANGED <<parallel, stopped, closed, scan, probes, sequential, pool>>

-----------------------------------------------------------------------------
(* With a pool of workers. *)

In(state) == {s \in Stream : future[s] = state}

\* A worker takes the next future; once the scan is stopped it probes no more.
StartFuture(s) ==
    /\ s \in In("queued")
    /\ \A other \in In("queued") : s <= other
    /\ Cardinality(In("probing")) < Workers
    /\ IF stopped
         THEN /\ future' = [future EXCEPT ![s] = "done"]
              /\ found' = [found EXCEPT ![s] = Cancelled]
              /\ UNCHANGED probes
         ELSE /\ future' = [future EXCEPT ![s] = "probing"]
              /\ probes' = [probes EXCEPT ![s] = @ + 1]
              /\ UNCHANGED found
    /\ UNCHANGED <<parallel, stopped, closed, phase, scan, sequential, pass>>

\* Mutant of FinishFuture: the worker writes the stats itself.
FinishFutureWrites(s) ==
    /\ s \in In("probing")
    /\ future' = [future EXCEPT ![s] = "done"]
    /\ \E answer \in Answers :
         LET row == Verdict(answer, stopped) IN
         /\ found' = [found EXCEPT ![s] = row]
         /\ stats' = [stats EXCEPT ![s] = IF row.stats = "old" THEN @ ELSE row.stats]
    /\ UNCHANGED <<parallel, stopped, closed, phase, rows, struck, saved, counted,
                   probes, sequential, pass>>

\* The probe and the cooldown after it are over.
FinishFuture(s) ==
    /\ s \in In("probing")
    /\ future' = [future EXCEPT ![s] = "done"]
    /\ \E answer \in Answers : found' = [found EXCEPT ![s] = Verdict(answer, stopped)]
    /\ UNCHANGED <<parallel, stopped, closed, phase, scan, probes, sequential, pass>>

\* Mutant of Collect: only the window is looked at.
CollectCancelled(s) ==
    /\ phase \in {"list", "pass"} /\ ~closed
    /\ s \in In("done")
    /\ future' = [future EXCEPT ![s] = "collected"]
    /\ IF phase = "list" THEN Record(s, found[s]) ELSE Replace(s, found[s])
    /\ UNCHANGED <<parallel, stopped, closed, phase, probes, sequential, found, pass>>

\* as_completed yields a future, and neither stop nor window says to leave it.
Collect(s) ==
    /\ phase \in {"list", "pass"} /\ ~Halted
    /\ s \in In("done")
    /\ future' = [future EXCEPT ![s] = "collected"]
    /\ IF phase = "list" THEN Record(s, found[s]) ELSE Replace(s, found[s])
    /\ UNCHANGED <<parallel, stopped, closed, phase, probes, sequential, found, pass>>

\* It yields a future, and the pool is shut down: what is queued is cancelled,
\* what is being probed is waited for and not looked at.
Shutdown ==
    /\ parallel /\ phase \in {"list", "pass"} /\ Halted
    /\ In("done") # {}
    /\ future' = [s \in Stream |-> IF future[s] = "queued" THEN "none" ELSE future[s]]
    /\ phase' = "drain"
    /\ UNCHANGED <<parallel, stopped, closed, scan, probes, sequential, found, pass>>

\* Mutant of LeavePool: after a shutdown, too, every result is waited for.
LeavePoolCollected ==
    /\ parallel
    /\ In("queued") = {} /\ In("probing") = {} /\ In("done") = {}
    /\ phase \in {"list", "pass", "drain"}
    /\ future' = [s \in Stream |-> "none"]
    /\ found' = [s \in Stream |-> NoRow]
    /\ phase' = "passes"
    /\ UNCHANGED <<parallel, stopped, closed, scan, probes, sequential, pass>>

\* The pool is left when no future is queued, under way or uncollected.
LeavePool ==
    /\ parallel
    /\ In("queued") = {} /\ In("probing") = {}
    /\ \/ phase = "drain"
       \/ phase \in {"list", "pass"} /\ In("done") = {}
    /\ future' = [s \in Stream |-> "none"]
    /\ found' = [s \in Stream |-> NoRow]
    /\ phase' = "passes"
    /\ UNCHANGED <<parallel, stopped, closed, scan, probes, sequential, pass>>

ToRetry == {s \in Stream : WorthRetry(rows[s])}

\* Another pass: the wait before it ends at once when the scan is stopped.
NextPass ==
    /\ parallel /\ phase = "passes"
    /\ pass < Retries /\ ToRetry # {} /\ ~Halted
    /\ phase' = "wait"
    /\ UNCHANGED <<parallel, stopped, closed, scan, probes, sequential, pool>>

SubmitPass ==
    /\ phase = "wait" /\ ~stopped
    /\ pass' = pass + 1
    /\ future' = [s \in Stream |-> IF s \in ToRetry THEN "queued" ELSE "none"]
    /\ phase' = "pass"
    /\ UNCHANGED <<parallel, stopped, closed, scan, probes, sequential, found>>

LeavePasses ==
    /\ parallel
    /\ \/ phase = "passes" /\ (pass = Retries \/ ToRetry = {} \/ Halted)
       \/ phase = "wait" /\ stopped
    /\ phase' = "save"
    /\ UNCHANGED <<parallel, stopped, closed, scan, probes, sequential, pool>>

-----------------------------------------------------------------------------
(* The end, by either way. *)

Save ==
    /\ phase = "save"
    /\ saved' = {rows}
    /\ phase' = "finally"
    /\ UNCHANGED <<parallel, stopped, closed, rows, struck, stats, counted, probes,
                   sequential, pool>>

\* The results cannot be written, or something has raised: the outer except.  A pool is
\* left only when what was queued has been probed.
Raises ==
    /\ phase \notin {"drain", "finally", "over"}
    /\ In("queued") = {} /\ In("probing") = {}
    /\ phase' = "finally"
    /\ UNCHANGED <<parallel, stopped, closed, scan, probes, sequential, pool>>

\* In the finally clause: rows of a cancelled worker are not counted.
Finally ==
    /\ phase = "finally"
    /\ counted' = Cardinality({s \in Stream : rows[s] \notin {NoRow, Cancelled}})
    /\ phase' = "over"
    /\ UNCHANGED <<parallel, stopped, closed, rows, struck, stats, saved, probes,
                   sequential, pool>>

OneByOne ==
    \/ NextStream \/ JudgeStream \/ RetryStream \/ JudgeRetry
    \/ LeaveList \/ FlushStream \/ JudgeFlush \/ LeaveFlush

Pooled ==
    \/ \E s \in Stream : StartFuture(s) \/ FinishFuture(s) \/ Collect(s)
    \/ Shutdown \/ LeavePool \/ NextPass \/ SubmitPass \/ LeavePasses

Thread == OneByOne \/ Pooled \/ Save \/ Raises \/ Finally

Next == Stop \/ WindowCloses \/ Thread

Spec == Init /\ [][Next]_vars

\* The thread and its workers run, and every probe has a timeout.
FairSpec == Spec /\ WF_vars(Thread)

-----------------------------------------------------------------------------
(* Properties. *)

\* The types.
TypeOK ==
    /\ parallel \in BOOLEAN /\ stopped \in BOOLEAN /\ closed \in BOOLEAN
    /\ phase \in {"list", "retry", "flush", "drain", "passes", "wait", "pass", "save",
                  "finally", "over"}
    /\ rows \in [Stream -> Rows \union {NoRow}]
    /\ struck \subseteq Stream
    /\ stats \in [Stream -> {"old", "fresh", "cleared"}]
    /\ saved \in {{}, {rows}}
    /\ counted \in 0..N
    /\ probes \in [Stream -> 0..Retries + 1]
    /\ at \in 0..N /\ busy \in 0..N /\ since \in 0..N
    /\ \A i \in DOMAIN queue : queue[i] \in 1..at
    /\ future \in [Stream -> {"none", "queued", "probing", "done", "collected"}]
    /\ found \in [Stream -> Rows \union {NoRow, Cancelled}]
    /\ pass \in 0..Retries

\* What both ways promise: module Scan.
Abstract == INSTANCE Scan WITH
    Row <- Rows,
    TryAgain <- {row \in Rows : row.error \in Retryable},
    over <- phase = "over"

ImplementsScan == Abstract!Spec

\* What Dispatcharr shows of a stream and what the results say of it agree: dead
\* and cleared, alive and fresh, and nothing is written of a stream whose probe
\* was thrown away.
StatsAgree ==
    \A s \in Stream :
        /\ rows[s] = NoRow => stats[s] = "old"
        /\ rows[s].status \in {"Alive", "Dead"} => stats[s] = rows[s].stats

\* A scan that is left alone has probed every stream, and nothing but the
\* retries it was given stands between a stream and its last verdict.
RetriesSpent ==
    phase = "over" /\ ~Halted /\ saved # {} =>
        \A s \in ToRetry : probes[s] = Retries + 1

\* However it is stopped, and whatever the probes find, the scan ends.
ScanEnds == <>(phase = "over")
=============================================================================
