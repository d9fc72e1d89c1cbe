----------------------------- MODULE CheckSession -----------------------------
(***************************************************************************)
(* The status of a stream check, and who believes what about it.           *)
(*                                                                         *)
(* Every worker process has a Plugin instance with its own check_progress, *)
(* stop event and scan thread; all of them share the progress file and the *)
(* results file.  The user's requests are served by any worker: Start,     *)
(* View and Cancel replace check_progress, the last two by what they have  *)
(* read from the file.  The worker that hosts the scheduler also runs a    *)
(* scheduled session, which believes its own check_progress only.          *)
(*                                                                         *)
(* Abstractions.  check_progress is its status; every save writes the      *)
(* status the worker has at that moment, in one step, and so does all that *)
(* View and Cancel do once they have read the file.  A scan is the number  *)
(* of probes it has left, those of its streams and of the retries at the   *)
(* end of its list, which look at the stop event alike; the retry within   *)
(* the list, which does not, may be due after any probe.  No scan raises,  *)
(* no window is configured (WindowedCheck), and the scheduler is not       *)
(* stopped.                                                                *)
(***************************************************************************)
EXTENDS Naturals, FiniteSets

CONSTANTS
    Worker,
    Host,         \* the worker that hosts the scheduler
    Streams,      \* how many probes a check has to make, on each worker
    Modes,        \* how many of them may be under way at once: 1 in the loop over the
                  \* list, and the threads of the pool otherwise
    Requests      \* the <<worker, request>> pairs users make

ASSUME WorkerAssumption ==
    /\ Host \in Worker
    /\ Streams \in [Worker -> Nat \ {0}]
    /\ Modes \subseteq Nat \ {0} /\ Modes # {}
    /\ Requests \subseteq Worker \X {"start", "view", "cancel", "raise"}

VARIABLES
    file,        \* the status in the progress file
    mem,         \* check_progress['status'] of each worker
    stop,        \* _stop_event of each worker
    thread,      \* where each worker's scan thread is
    mode,        \* how many probes a scan may have under way, as the settings say
    left,        \* the probes its scan has yet to go on to
    ahead,       \* those it has gone on to, and not begun
    due,         \* it is to retry a stream before it looks at the stop event again
    request,     \* where the user's request a worker serves is
    seen,        \* the status that request has read from the file
    session,     \* where the scheduled session is
    pendingRun,  \* _scheduler_pending_run
    written,     \* the results file is newer than the session's look at it
    complete,    \* history: the host's last scan went through its list
    cancelled,   \* history: the worker acknowledged a cancel, and has not begun
                 \* a check since
    late,        \* history: the probes its scan has begun since
    calm         \* history: nothing the host's session does not reckon with

probes == <<mode, left, ahead, due>>
scan == <<stop, thread, probes>>
serving == <<request, seen>>
scheduler == <<session, pendingRun>>
cancel == <<cancelled, late>>
outcome == <<written, complete, cancel, calm>>
vars == <<file, mem, scan, serving, scheduler, outcome>>

Status == {"idle", "running"}

Init ==
    /\ file = "idle"
    /\ mem = [w \in Worker |-> "idle"]
    /\ stop = [w \in Worker |-> FALSE]
    /\ thread = [w \in Worker |-> "none"]
    /\ mode \in Modes
    /\ left = [w \in Worker |-> 0]
    /\ ahead = [w \in Worker |-> 0]
    /\ due = [w \in Worker |-> FALSE]
    /\ request = [w \in Worker |-> "none"]
    /\ seen = [w \in Worker |-> "idle"]
    /\ session = "idle"
    /\ pendingRun = FALSE
    /\ written = FALSE
    /\ complete = FALSE
    /\ cancelled = [w \in Worker |-> FALSE]
    /\ late = [w \in Worker |-> 0]
    /\ calm = TRUE

\* check_progress is replaced and saved.
Announce(w, status) ==
    /\ mem' = [mem EXCEPT ![w] = status]
    /\ file' = status

-----------------------------------------------------------------------------
(* The scan thread. *)

\* A scan begins.
Begin(w) ==
    /\ thread' = [thread EXCEPT ![w] = "probing"]
    /\ left' = [left EXCEPT ![w] = Streams[w]]
    /\ cancelled' = [cancelled EXCEPT ![w] = FALSE]
    /\ UNCHANGED <<mode, ahead, due, late>>

\* Mutant of TryStart: the stop event is cleared before the thread is looked at.
TryStartClears(w) ==
    /\ stop' = [stop EXCEPT ![w] = FALSE]
    /\ IF thread[w] # "none"
         THEN UNCHANGED <<thread, probes, cancel>>
         ELSE Begin(w)

\* _try_start_thread: a thread that is alive is left alone.
TryStart(w) ==
    IF thread[w] # "none"
      THEN UNCHANGED <<scan, cancel>>
      ELSE /\ stop' = [stop EXCEPT ![w] = FALSE]
           /\ Begin(w)

\* The stop event is looked at, and the loop, or a thread of the pool, goes on to a
\* probe, for which it may have to wait; the loop saves its progress before.
GoOn(w) ==
    /\ thread[w] = "probing"
    /\ ~stop[w]
    /\ left[w] > 0
    /\ ahead[w] < mode /\ ~due[w]
    /\ left' = [left EXCEPT ![w] = @ - 1]
    /\ ahead' = [ahead EXCEPT ![w] = @ + 1]
    /\ file' = IF mode = 1 THEN mem[w] ELSE file
    /\ UNCHANGED <<mem, stop, thread, mode, due, serving, scheduler, outcome>>

\* A probe that begins after a cancel.
Late(w) == late' = [late EXCEPT ![w] = IF cancelled[w] THEN @ + 1 ELSE @]

\* The wait for a pause of the provider is over, or cut short by the stop, and the
\* stream is probed.  In the loop a retry may be due next; in the pool the result is
\* collected and the progress saved, or it is dropped.
Probe(w) ==
    /\ ahead[w] > 0
    /\ ahead' = [ahead EXCEPT ![w] = @ - 1]
    /\ Late(w)
    /\ IF mode = 1
         THEN UNCHANGED file /\ \E again \in BOOLEAN : due' = [due EXCEPT ![w] = again]
         ELSE file' \in {file, mem[w]} /\ UNCHANGED due
    /\ UNCHANGED <<mem, stop, thread, mode, left, serving, scheduler, written, complete, cancelled,
                   calm>>

\* The retry within the list: the stop event is not looked at.
Retry(w) ==
    /\ due[w]
    /\ due' = [due EXCEPT ![w] = FALSE]
    /\ Late(w)
    /\ UNCHANGED <<file, mem, stop, thread, mode, left, ahead, serving, scheduler, written, complete,
                   cancelled, calm>>

\* The list is over, or the stop event is seen: the results file is written.
SaveResults(w) ==
    /\ thread[w] = "probing"
    /\ ahead[w] = 0 /\ ~due[w]
    /\ stop[w] \/ left[w] = 0
    /\ thread' = [thread EXCEPT ![w] = "saved"]
    /\ written' = (session \in {"start", "wait"})
    /\ complete' = IF w = Host THEN left[w] = 0 ELSE complete
    /\ UNCHANGED <<file, mem, stop, probes, serving, scheduler, cancel, calm>>

\* Mutant of GoIdle: only the file is told.
GoIdleOnDisk(w) ==
    /\ thread[w] = "saved"
    /\ file' = "idle"
    /\ thread' = [thread EXCEPT ![w] = "tail"]
    /\ UNCHANGED <<mem, stop, probes, serving, scheduler, outcome>>

\* The finally clause; the thread goes on to refresh the page and to report.
GoIdle(w) ==
    /\ thread[w] = "saved"
    /\ Announce(w, "idle")
    /\ thread' = [thread EXCEPT ![w] = "tail"]
    /\ UNCHANGED <<stop, probes, serving, scheduler, outcome>>

ThreadEnds(w) ==
    /\ thread[w] = "tail"
    /\ thread' = [thread EXCEPT ![w] = "none"]
    /\ left' = [left EXCEPT ![w] = 0]
    /\ late' = [late EXCEPT ![w] = 0]
    /\ UNCHANGED <<file, mem, stop, mode, ahead, due, serving, scheduler, written, complete, cancelled,
                   calm>>

-----------------------------------------------------------------------------
(* Requests. *)

\* What the session of the host does not reckon with: that its status is replaced
\* by another one, and that a check is asked for on its worker beside it or while the
\* last one winds down.
Replaces(w, status) == w = Host /\ mem[w] # status

Interferes(w) == w = Host /\ (session # "idle" \/ thread[w] # "none")

Ask(w, kind) ==
    /\ <<w, kind>> \in Requests
    /\ request[w] = "none"
    /\ request' = [request EXCEPT ![w] = kind]

Answer(w) ==
    /\ request' = [request EXCEPT ![w] = "none"]
    /\ seen' = [seen EXCEPT ![w] = "idle"]

\* check_streams_action announces the check, and only then tries to start it.
UserStarts(w) ==
    /\ Ask(w, "start")
    /\ Announce(w, "running")
    /\ calm' = (calm /\ ~Interferes(w))
    /\ UNCHANGED <<scan, seen, scheduler, written, complete, cancel>>

UserStartTries(w) ==
    /\ request[w] = "start"
    /\ TryStart(w)
    /\ Answer(w)
    /\ UNCHANGED <<file, mem, scheduler, written, complete, calm>>

\* view_progress_action and cancel_check_action read the file ...
UserReads(w, kind) ==
    /\ kind \in {"view", "cancel"}
    /\ Ask(w, kind)
    /\ seen' = [seen EXCEPT ![w] = file]
    /\ UNCHANGED <<file, mem, scan, scheduler, outcome>>

\* ... and take what they have read for the worker's own.
UserViews(w) ==
    /\ \/ request[w] = "view"
       \/ request[w] = "cancel" /\ seen[w] # "running"
    /\ mem' = [mem EXCEPT ![w] = seen[w]]
    /\ Answer(w)
    /\ calm' = (calm /\ ~Replaces(w, seen[w]))
    /\ UNCHANGED <<file, scan, scheduler, written, complete, cancel>>

\* Mutant of UserCancels: only the status is reset.
CancelsStatusOnly(w) ==
    /\ request[w] = "cancel"
    /\ seen[w] = "running"
    /\ Announce(w, "idle")
    /\ cancelled' = [cancelled EXCEPT ![w] = TRUE]
    /\ calm' = (calm /\ ~(w = Host /\ session = "start"))
    /\ Answer(w)
    /\ UNCHANGED <<scan, scheduler, written, complete, late>>

\* A check that is announced and not begun is not stopped: its start clears the
\* event.
UserCancels(w) ==
    /\ request[w] = "cancel"
    /\ seen[w] = "running"
    /\ stop' = [stop EXCEPT ![w] = TRUE]
    /\ Announce(w, "idle")
    /\ cancelled' = [cancelled EXCEPT ![w] = TRUE]
    /\ calm' = (calm /\ ~(w = Host /\ session = "start"))
    /\ Answer(w)
    /\ UNCHANGED <<thread, probes, scheduler, written, complete, late>>

\* Any action of run() raises, or the notification sent after it: whatever is
\* being checked, the check is declared over.
RunRaises(w) ==
    /\ <<w, "raise">> \in Requests
    /\ request[w] = "none"
    /\ Announce(w, "idle")
    /\ calm' = (calm /\ ~Replaces(w, "idle"))
    /\ UNCHANGED <<scan, serving, scheduler, written, complete, cancel>>

-----------------------------------------------------------------------------
(* The scheduler loop of the host, and its session. *)

Running == mem[Host] = "running"

\* The sequence begins: the channels are loaded.
BeginSession ==
    /\ session' = "load"
    /\ calm' = (calm /\ thread[Host] = "none")
    /\ UNCHANGED <<file, mem, scan, serving, written, complete, cancel>>

\* An expression is due, and its minute is claimed.
CronFires ==
    /\ session = "idle"
    /\ ~Running
    /\ BeginSession
    /\ UNCHANGED pendingRun

CronQueues ==
    /\ session = "idle"
    /\ Running
    /\ pendingRun' = TRUE
    /\ UNCHANGED <<file, mem, scan, serving, session, outcome>>

\* "Executing queued scheduled run".
QueuedRun ==
    /\ session = "idle"
    /\ pendingRun
    /\ ~Running
    /\ pendingRun' = FALSE
    /\ BeginSession

\* The results file's age is taken, and the check is announced.
SessionAnnounces ==
    /\ session = "load"
    /\ session' = "start"
    /\ written' = FALSE
    /\ Announce(Host, "running")
    /\ calm' = (calm /\ thread[Host] = "none")
    /\ UNCHANGED <<scan, serving, pendingRun, complete, cancel>>

\* Its check starts, or it waits for the one whose thread is still alive.
SessionStarts ==
    /\ session = "start"
    /\ TryStart(Host)
    /\ session' = "wait"
    /\ UNCHANGED <<file, mem, serving, pendingRun, written, complete, calm>>

\* The wait is over, the results are new, and the CSV is exported.
ScanOver ==
    /\ session = "wait"
    /\ ~Running
    /\ session' = IF written THEN "exported" ELSE "idle"
    /\ written' = FALSE
    /\ UNCHANGED <<file, mem, scan, serving, pendingRun, complete, cancel, calm>>

\* Mutant of StopGate: a stopped session acts.
StopGateMissing ==
    /\ session = "exported"
    /\ session' = "act"
    /\ UNCHANGED <<file, mem, scan, serving, pendingRun, outcome>>

\* A session that was stopped sends no report and acts on nothing.
StopGate ==
    /\ session = "exported"
    /\ session' = IF stop[Host] THEN "idle" ELSE "act"
    /\ UNCHANGED <<file, mem, scan, serving, pendingRun, outcome>>

\* The report is sent, and the channels are renamed, moved and deleted.
Act ==
    /\ session = "act"
    /\ session' = "idle"
    /\ UNCHANGED <<file, mem, scan, serving, pendingRun, outcome>>

-----------------------------------------------------------------------------
Scan(w) ==
    \/ GoOn(w) \/ Probe(w) \/ Retry(w)
    \/ SaveResults(w) \/ GoIdle(w) \/ ThreadEnds(w)

Serve(w) == UserStartTries(w) \/ UserViews(w) \/ UserCancels(w)

Session == SessionAnnounces \/ SessionStarts \/ ScanOver \/ StopGate \/ Act

Next ==
    \/ \E w \in Worker : Scan(w) \/ Serve(w)
    \/ \E w \in Worker : UserStarts(w) \/ UserReads(w, "view") \/ UserReads(w, "cancel")
    \/ \E w \in Worker : RunRaises(w)
    \/ Session \/ QueuedRun
    \/ CronFires \/ CronQueues

Spec == Init /\ [][Next]_vars

\* Threads go on, a request that is served is answered, and a session and the
\* loop come round; the loop, which polls every 30 s, is not so unlucky as to look
\* only while yet another check is running.
FairSpec ==
    /\ Spec
    /\ \A w \in Worker : WF_vars(Scan(w)) /\ WF_vars(Serve(w))
    /\ WF_vars(Session)
    /\ SF_vars(QueuedRun)

-----------------------------------------------------------------------------
(* Properties. *)

\* The types, and a scan that has saved its results was stopped or is through:
\* nobody clears the stop event of a thread that is alive.
TypeOK ==
    /\ file \in Status
    /\ mem \in [Worker -> Status]
    /\ stop \in [Worker -> BOOLEAN]
    /\ thread \in [Worker -> {"none", "probing", "saved", "tail"}]
    /\ mode \in Modes
    /\ left \in [Worker -> Nat]
    /\ ahead \in [Worker -> Nat]
    /\ due \in [Worker -> BOOLEAN]
    /\ request \in [Worker -> {"none", "start", "view", "cancel"}]
    /\ seen \in [Worker -> Status]
    /\ session \in {"idle", "load", "start", "wait", "exported", "act"}
    /\ pendingRun \in BOOLEAN
    /\ written \in BOOLEAN
    /\ complete \in BOOLEAN
    /\ cancelled \in [Worker -> BOOLEAN]
    /\ late \in [Worker -> Nat]
    /\ calm \in BOOLEAN
    /\ \A w \in Worker : thread[w] \in {"saved", "tail"} => stop[w] \/ left[w] = 0

\* A session goes on to rename, move and delete only when the scan of its worker
\* went through its list, never when it was cut short: "a cancelled session must
\* not report or act" (test_scheduled_check_interruption).
ActsOnCompleteScan == calm /\ session = "act" => complete

\* Once a worker has acknowledged a cancel, and until a check is started on it again, it
\* begins no probes but those it had gone on to already, one in the loop over the list
\* and one in each thread of the pool, and in the loop one retry after it.
CancelSticks == \A w \in Worker : late[w] <= IF mode = 1 THEN 2 ELSE mode

\* "queued and in-flight streams are aborted" (the confirmation of Cancel Stream
\* Check), whichever worker served the request.
CancelStopsCheck ==
    [][\A v, w \in Worker : GoOn(w) => ~cancelled[v]]_vars

\* A session comes to its end, and frees the loop it runs in, although its wait
\* has no deadline and looks at nothing but check_progress.
SessionEnds == session # "idle" ~> (session = "idle" \/ ~calm)

\* A cron fire that finds a check running is "queuing for later": the queued
\* run is executed.
QueuedRunStarts == pendingRun ~> (session = "load" \/ ~calm)
=============================================================================
