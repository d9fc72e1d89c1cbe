------------------------- MODULE CheckSessionProofs -------------------------
(* Theorems about CheckSession, for any number of workers, any length of a *)
(* check, and whichever requests users make.                               *)
EXTENDS CheckSession, TLAPS

\* The stop event of a worker whose cancel holds is set.  That it stays set is
\* what keeps the cancel: it is cleared only where a scan begins.
CancelHolds == \A w \in Worker : cancelled[w] => stop[w]

\* What a scan may still begin without looking at the stop event, and what it has begun
\* after a cancel, are together no more than its mode allows.
Bounded(w) ==
    /\ due[w] => mode = 1 /\ ahead[w] = 0
    /\ thread[w] # "probing" => ahead[w] = 0 /\ ~due[w]
    /\ thread[w] = "none" \/ ~cancelled[w] => late[w] = 0
    /\ IF mode = 1
         THEN /\ late[w] + 2 * ahead[w] <= 2
              /\ due[w] => late[w] <= 1
         ELSE late[w] + ahead[w] <= mode

ProbesBounded == \A w \in Worker : Bounded(w)

Inv == TypeOK /\ CancelHolds /\ ProbesBounded

\* A start leaves the types right, and the cancel of a scan that is not its own.
LEMMA StartKeepsInv ==
    ASSUME Inv, NEW w \in Worker, TryStart(w)
    PROVE  /\ stop' \in [Worker -> BOOLEAN]
           /\ thread' \in [Worker -> {"none", "probing", "saved", "tail"}]
           /\ mode' = mode /\ ahead' = ahead /\ due' = due /\ late' = late
           /\ left' \in [Worker -> Nat]
           /\ cancelled' \in [Worker -> BOOLEAN]
           /\ \A v \in Worker : thread'[v] \in {"saved", "tail"} => stop'[v] \/ left'[v] = 0
           /\ CancelHolds'
           /\ ProbesBounded'
<1> USE WorkerAssumption DEF Inv, TypeOK, CancelHolds, ProbesBounded, Bounded
<1>1. CASE thread[w] # "none"
  BY <1>1 DEF TryStart, scan, probes, cancel
<1>2. CASE thread[w] = "none"
  <2>1. /\ stop' = [stop EXCEPT ![w] = FALSE]
        /\ thread' = [thread EXCEPT ![w] = "probing"]
        /\ left' = [left EXCEPT ![w] = Streams[w]]
        /\ cancelled' = [cancelled EXCEPT ![w] = FALSE]
        /\ mode' = mode /\ ahead' = ahead /\ due' = due /\ late' = late
    BY <1>2 DEF TryStart, Begin
  <2>2. Streams[w] \in Nat
    OBVIOUS
  <2>3. \A v \in Worker : thread'[v] \in {"saved", "tail"} => stop'[v] \/ left'[v] = 0
    <3> TAKE v \in Worker
    <3>1. CASE v = w
      BY <2>1, <3>1
    <3>2. CASE v # w
      BY <2>1, <3>2
    <3> QED
      BY <3>1, <3>2
  <2>4. CancelHolds'
    BY <2>1
  <2>5. ProbesBounded'
    <3> SUFFICES ASSUME NEW v \in Worker
                 PROVE  Bounded(v)'
      OBVIOUS
    <3>1. CASE v = w
      BY <1>2, <2>1, <3>1
    <3>2. CASE v # w
      BY <2>1, <3>2
    <3> QED
      BY <3>1, <3>2
  <2> QED
    BY <2>1, <2>2, <2>3, <2>4, <2>5
<1> QED
  BY <1>1, <1>2

\* A step of a scan thread keeps the invariant.
LEMMA ScanKeepsInv ==
    ASSUME Inv, NEW w \in Worker, Scan(w)
    PROVE  Inv'
<1> USE WorkerAssumption
    DEF Inv, TypeOK, CancelHolds, ProbesBounded, Bounded, probes, cancel, scan, serving, scheduler,
        outcome, Status
<1>1. CASE GoOn(w)
  BY <1>1 DEF GoOn
<1>2. CASE Probe(w)
  <2>1. /\ UNCHANGED <<mem, stop, thread, mode, left, serving, scheduler, written, complete, cancelled,
                       calm>>
        /\ ahead[w] > 0 /\ ahead' = [ahead EXCEPT ![w] = @ - 1] /\ file' \in Status
        /\ late' = [late EXCEPT ![w] = IF cancelled[w] THEN @ + 1 ELSE @]
        /\ due' \in [Worker -> BOOLEAN]
        /\ \A v \in Worker : due'[v] # due[v] => v = w /\ mode = 1
    BY <1>2 DEF Probe, Late
  <2>2. TypeOK' /\ CancelHolds'
    BY <2>1
  <2>3. ASSUME NEW v \in Worker
        PROVE  Bounded(v)'
    <3>1. CASE v = w
      BY <2>1, <3>1
    <3>2. CASE v # w
      BY <2>1, <3>2
    <3> QED
      BY <3>1, <3>2
  <2> QED
    BY <2>2, <2>3
<1>3. CASE Retry(w)
  BY <1>3 DEF Retry, Late
<1>4. CASE SaveResults(w)
  <2>1. /\ thread[w] = "probing" /\ thread' = [thread EXCEPT ![w] = "saved"]
        /\ ahead[w] = 0 /\ ~due[w]
        /\ stop[w] \/ left[w] = 0
        /\ UNCHANGED <<file, mem, stop, probes, serving, scheduler, cancel, calm>>
    BY <1>4 DEF SaveResults
  <2>2. TypeOK' /\ CancelHolds'
    <3>1. complete' \in BOOLEAN
      BY <1>4 DEF SaveResults
    <3>2. written' \in BOOLEAN
      BY <1>4 DEF SaveResults
    <3>3. \A v \in Worker : thread'[v] \in {"saved", "tail"} => stop'[v] \/ left'[v] = 0
      BY <2>1
    <3> QED
      BY <2>1, <3>1, <3>2, <3>3
  <2>3. ASSUME NEW v \in Worker
        PROVE  Bounded(v)'
    <3>1. CASE v = w
      BY <2>1, <3>1
    <3>2. CASE v # w
      BY <2>1, <3>2
    <3> QED
      BY <3>1, <3>2
  <2> QED
    BY <2>2, <2>3
<1>5. CASE GoIdle(w)
  BY <1>5 DEF GoIdle, Announce
<1>6. CASE ThreadEnds(w)
  BY <1>6 DEF ThreadEnds
<1> QED
  BY <1>1, <1>2, <1>3, <1>4, <1>5, <1>6 DEF Scan

\* A step of a user's request keeps it.
LEMMA RequestKeepsInv ==
    ASSUME Inv, NEW w \in Worker,
           Serve(w) \/ UserStarts(w) \/ UserReads(w, "view") \/ UserReads(w, "cancel")
             \/ RunRaises(w)
    PROVE  Inv'
<1> USE WorkerAssumption
    DEF Inv, TypeOK, CancelHolds, ProbesBounded, Bounded, probes, cancel, scan, serving, scheduler,
        outcome, Status
<1>1. CASE UserStartTries(w)
  BY <1>1, StartKeepsInv DEF UserStartTries, Answer
<1>2. CASE UserViews(w)
  BY <1>2 DEF UserViews, Answer, Replaces
<1>3. CASE UserCancels(w)
  BY <1>3 DEF UserCancels, Answer, Announce
<1>4. CASE UserStarts(w)
  BY <1>4 DEF UserStarts, Ask, Announce, Interferes
<1>5. ASSUME NEW kind \in {"view", "cancel"}, UserReads(w, kind)
      PROVE  Inv'
  BY <1>5 DEF UserReads, Ask
<1>6. CASE RunRaises(w)
  BY <1>6 DEF RunRaises, Announce, Replaces
<1> QED
  BY <1>1, <1>2, <1>3, <1>4, <1>5, <1>6 DEF Serve

\* A step of the scheduler's host keeps it.
LEMMA SchedulerKeepsInv ==
    ASSUME Inv, Session \/ QueuedRun \/ CronFires \/ CronQueues
    PROVE  Inv'
<1> USE WorkerAssumption
    DEF Inv, TypeOK, CancelHolds, ProbesBounded, Bounded, probes, cancel, scan, serving, scheduler,
        outcome, Status, BeginSession
<1>1. CASE SessionAnnounces
  BY <1>1 DEF SessionAnnounces, Announce
<1>2. CASE SessionStarts
  BY <1>2, StartKeepsInv DEF SessionStarts
<1>3. CASE ScanOver
  BY <1>3 DEF ScanOver
<1>4. CASE StopGate
  BY <1>4 DEF StopGate
<1>5. CASE Act
  BY <1>5 DEF Act
<1>6. CASE QueuedRun
  BY <1>6 DEF QueuedRun
<1>7. CASE CronFires
  BY <1>7 DEF CronFires
<1>8. CASE CronQueues
  BY <1>8 DEF CronQueues
<1> QED
  BY <1>1, <1>2, <1>3, <1>4, <1>5, <1>6, <1>7, <1>8 DEF Session

\* The types hold and a cancel holds its worker's stop event: what the two
\* theorems below rest on.
THEOREM Invariance == Spec => []Inv
<1>1. Init => Inv
  <2> SUFFICES ASSUME Init PROVE Inv
    OBVIOUS
  <2>1. Modes \subseteq Nat \ {0}
    BY WorkerAssumption
  <2>2. TypeOK
    BY <2>1 DEF Init, TypeOK, Status
  <2>3. CancelHolds /\ ProbesBounded
    BY <2>1 DEF Init, CancelHolds, ProbesBounded, Bounded
  <2> QED
    BY <2>2, <2>3 DEF Inv
<1>2. Inv /\ [Next]_vars => Inv'
  <2> SUFFICES ASSUME Inv, [Next]_vars PROVE Inv'
    OBVIOUS
  <2>1. CASE UNCHANGED vars
    BY <2>1 DEF vars, probes, cancel, scan, serving, scheduler, outcome, Inv, TypeOK, CancelHolds,
                ProbesBounded, Bounded
  <2> QED
    BY <2>1, ScanKeepsInv, RequestKeepsInv, SchedulerKeepsInv DEF Next
<1> QED
  BY <1>1, <1>2, PTL DEF Spec

\* No step leads out of the types, and no scan that has saved its results has an
\* unset stop event and streams left.
THEOREM TypeCorrect == Spec => []TypeOK
<1>1. Inv => TypeOK
  BY DEF Inv
<1> QED
  BY <1>1, Invariance, PTL

\* A worker that has acknowledged a cancel begins, until a check is started on it, only
\* the probes it had gone on to, and in the loop over the list one retry: the look at the
\* stop event before each stream is enough for that, although the status of the check is
\* overwritten by every request.
THEOREM CancelsStick == Spec => []CancelSticks
<1>1. Inv => CancelSticks
  BY WorkerAssumption DEF Inv, TypeOK, ProbesBounded, Bounded, CancelSticks
<1> QED
  BY <1>1, Invariance, PTL

-----------------------------------------------------------------------------
(* The session of the host and the scan it waits for. *)

ThreadOver == thread[Host] \in {"tail", "none"}

\* A check a user has announced on the host, and not begun, has the worker to
\* itself: the loop sees it running and fires nothing.
AnnouncedFirst ==
    request[Host] = "start" =>
        session = "idle" /\ mem[Host] = "running" /\ thread[Host] = "none"

\* The scan a session waits for is the one it started, it is either stopped or
\* over with all its streams probed when the wait is, and nobody unsets the stop.
ScanIsTheSessions ==
    /\ session \in {"load", "start"} => thread[Host] = "none"
    /\ session = "start" => mem[Host] = "running"
    /\ session = "wait" =>
         \/ stop[Host]
         \/ mem[Host] = "running" /\ thread[Host] = "probing"
         \/ mem[Host] = "running" /\ thread[Host] = "saved" /\ complete
         \/ ThreadOver /\ complete
    /\ session = "exported" => stop[Host] \/ (ThreadOver /\ complete)
    /\ session = "act" => ThreadOver /\ complete

Reckoned == calm => AnnouncedFirst /\ ScanIsTheSessions

\* A step of a scan thread keeps the session's reckoning.
LEMMA ScanKeepsReckoned ==
    ASSUME Inv, Reckoned, NEW w \in Worker, Scan(w)
    PROVE  Reckoned'
<1> USE WorkerAssumption
    DEF Inv, TypeOK, Reckoned, AnnouncedFirst, ScanIsTheSessions, ThreadOver,
        probes, cancel, scan, serving, scheduler, outcome
<1>1. CASE GoOn(w) \/ Probe(w) \/ Retry(w)
  BY <1>1 DEF GoOn, Probe, Retry
<1>2. CASE SaveResults(w)
  <2>1. CASE w = Host
    BY <1>2, <2>1 DEF SaveResults
  <2>2. CASE w # Host
    BY <1>2, <2>2 DEF SaveResults
  <2> QED
    BY <2>1, <2>2
<1>3. CASE GoIdle(w)
  <2>1. CASE w = Host
    BY <1>3, <2>1 DEF GoIdle, Announce
  <2>2. CASE w # Host
    BY <1>3, <2>2 DEF GoIdle, Announce
  <2> QED
    BY <2>1, <2>2
<1>4. CASE ThreadEnds(w)
  <2>1. CASE w = Host
    BY <1>4, <2>1 DEF ThreadEnds
  <2>2. CASE w # Host
    BY <1>4, <2>2 DEF ThreadEnds
  <2> QED
    BY <2>1, <2>2
<1> QED
  BY <1>1, <1>2, <1>3, <1>4 DEF Scan

\* So does a step of a user's request, or it is one the session does not reckon
\* with.
LEMMA RequestKeepsReckoned ==
    ASSUME Inv, Reckoned, NEW w \in Worker,
           Serve(w) \/ UserStarts(w) \/ UserReads(w, "view") \/ UserReads(w, "cancel")
             \/ RunRaises(w)
    PROVE  Reckoned'
<1> USE WorkerAssumption
    DEF Inv, TypeOK, Reckoned, AnnouncedFirst, ScanIsTheSessions, ThreadOver,
        probes, cancel, scan, serving, scheduler, outcome
<1>1. CASE UserStartTries(w)
  <2>1. CASE w = Host
    BY <1>1, <2>1 DEF UserStartTries, TryStart, Begin, Answer
  <2>2. CASE w # Host
    BY <1>1, <2>2 DEF UserStartTries, TryStart, Begin, Answer
  <2> QED
    BY <2>1, <2>2
<1>2. CASE UserViews(w)
  <2>1. CASE w = Host
    BY <1>2, <2>1 DEF UserViews, Answer, Replaces
  <2>2. CASE w # Host
    BY <1>2, <2>2 DEF UserViews, Answer, Replaces
  <2> QED
    BY <2>1, <2>2
<1>3. CASE UserCancels(w)
  <2>1. CASE w = Host
    BY <1>3, <2>1 DEF UserCancels, Answer, Announce
  <2>2. CASE w # Host
    BY <1>3, <2>2 DEF UserCancels, Answer, Announce
  <2> QED
    BY <2>1, <2>2
<1>4. CASE UserStarts(w)
  <2>1. CASE w = Host
    BY <1>4, <2>1 DEF UserStarts, Ask, Announce, Interferes
  <2>2. CASE w # Host
    BY <1>4, <2>2 DEF UserStarts, Ask, Announce, Interferes
  <2> QED
    BY <2>1, <2>2
<1>5. ASSUME NEW kind \in {"view", "cancel"}, UserReads(w, kind)
      PROVE  Reckoned'
  BY <1>5 DEF UserReads, Ask
<1>6. CASE RunRaises(w)
  <2>1. CASE w = Host
    BY <1>6, <2>1 DEF RunRaises, Announce, Replaces
  <2>2. CASE w # Host
    BY <1>6, <2>2 DEF RunRaises, Announce, Replaces
  <2> QED
    BY <2>1, <2>2
<1> QED
  BY <1>1, <1>2, <1>3, <1>4, <1>5, <1>6 DEF Serve

\* And a step of the host's scheduler.
LEMMA SchedulerKeepsReckoned ==
    ASSUME Inv, Reckoned, Session \/ QueuedRun \/ CronFires \/ CronQueues
    PROVE  Reckoned'
<1> USE WorkerAssumption
    DEF Inv, TypeOK, Reckoned, AnnouncedFirst, ScanIsTheSessions, ThreadOver,
        probes, cancel, scan, serving, scheduler, outcome, BeginSession, Running, Status
<1>1. CASE SessionAnnounces
  BY <1>1 DEF SessionAnnounces, Announce
<1>2. CASE SessionStarts
  BY <1>2 DEF SessionStarts, TryStart, Begin
<1>3. CASE ScanOver
  BY <1>3 DEF ScanOver
<1>4. CASE StopGate
  BY <1>4 DEF StopGate
<1>5. CASE Act
  BY <1>5 DEF Act
<1>6. CASE QueuedRun
  BY <1>6 DEF QueuedRun
<1>7. CASE CronFires
  BY <1>7 DEF CronFires
<1>8. CASE CronQueues
  BY <1>8 DEF CronQueues
<1> QED
  BY <1>1, <1>2, <1>3, <1>4, <1>5, <1>6, <1>7, <1>8 DEF Session

\* A session renames, moves and deletes only after its own scan went through its
\* whole list: as long as nothing happens on its worker that it does not reckon
\* with, and whatever other workers do, and users cancel.
THEOREM SessionsActOnCompleteScans == Spec => []ActsOnCompleteScan
<1>1. Init => Reckoned
  BY WorkerAssumption
     DEF Init, Reckoned, AnnouncedFirst, ScanIsTheSessions, ThreadOver
<1>2. Inv /\ Reckoned /\ [Next]_vars => Reckoned'
  <2> SUFFICES ASSUME Inv, Reckoned, [Next]_vars PROVE Reckoned'
    OBVIOUS
  <2>1. CASE UNCHANGED vars
    BY <2>1 DEF vars, probes, cancel, scan, serving, scheduler, outcome,
                Reckoned, AnnouncedFirst, ScanIsTheSessions, ThreadOver
  <2> QED
    BY <2>1, ScanKeepsReckoned, RequestKeepsReckoned, SchedulerKeepsReckoned DEF Next
<1>3. Reckoned => ActsOnCompleteScan
  BY DEF Reckoned, ScanIsTheSessions, ActsOnCompleteScan
<1> QED
  BY <1>1, <1>2, <1>3, Invariance, PTL DEF Spec
=============================================================================
