--------------------------- MODULE SchedulerLoop ---------------------------
(***************************************************************************)
(* The life of the scheduler loop in the process that hosts it: how it is  *)
(* started, replaced, stopped and told of a new schedule.                  *)
(*                                                                         *)
(* A loop is a thread.  To replace it, the stop event is set, the thread   *)
(* joined for 5 s, the event cleared for the next one; a loop that was in  *)
(* the midst of a session outlasts this and finds out later that it is not *)
(* the current one any more.  A worker that is not the host writes a flag  *)
(* file, which the loop takes away before it reads the schedule anew.      *)
(*                                                                         *)
(* Abstractions.  A schedule may match at any time; that a minute is taken *)
(* once is FireClaim's part.  A session is its start, its scan and what    *)
(* follows (WindowedCheck, CheckSession).  The globals of a module that    *)
(* was unloaded and imported again are one set: a stopped module leaves    *)
(* them as a new one finds them.  What goes on in the instance of an       *)
(* unloaded module is left open, and no module is unloaded while a request *)
(* of its own is served.                                                   *)
(***************************************************************************)
EXTENDS Naturals, FiniteSets

CONSTANTS
    Loop,           \* the loop threads
    User,           \* the requests that may be served at a time
    Schedule,       \* the schedules users save
    MaxDisruptions  \* bound: restarts, unloads and failed reads of the settings

Empty == "empty"        \* no schedule
Nobody == "nobody"      \* no loop

ASSUME LoopAssumption ==
    /\ Nobody \notin Loop /\ Empty \notin Schedule
    /\ MaxDisruptions \in Nat
    /\ User \intersect {"boot", "unload"} = {}

Saved == Schedule \union {Empty}
Caller == User \union {"boot", "unload"}

VARIABLES
    saved,        \* the schedule in the database
    flag,         \* SCHEDULER_RELOAD_FLAG exists
    running,      \* what check_running says: "no", "check", or "resumed" for the
                  \* check of a window that was open when the container went down
    \* the module
    event,        \* _scheduler_stop_event
    current,      \* _bg_scheduler_thread
    pending,      \* _scheduler_pending_run
    \* the threads that start and stop the loop, and what they start it with
    caller, given,
    \* each loop: where it is, where its session returns to, its schedule, and
    \* whether its module has been unloaded
    loop, return, force, old,
    \* history
    calm,         \* the last schedule was saved while no other was being put into
                  \* force, and no read of the settings has failed since
    started,      \* a loop has been started since the module was imported
    disruptions

stored == <<saved, flag>>
module == <<event, current, pending>>
calling == <<caller, given>>
loops == <<loop, return, force, old>>
history == <<calm, started, disruptions>>
vars == <<stored, running, module, calling, loops, history>>

Init ==
    /\ saved \in Saved
    /\ flag = FALSE
    /\ running = "no"
    /\ event = FALSE /\ current = Nobody /\ pending = FALSE
    /\ caller = [c \in Caller |-> IF c = "boot" THEN "down" ELSE "none"]
    /\ given = [c \in Caller |-> Empty]
    /\ loop = [l \in Loop |-> "none"]
    /\ return = [l \in Loop |-> "sleep"]
    /\ force = [l \in Loop |-> Empty]
    /\ old = {}
    /\ calm = TRUE /\ started = FALSE /\ disruptions = 0

Goto(l, place) == loop' = [loop EXCEPT ![l] = place]

Becomes(c, place) == caller' = [caller EXCEPT ![c] = place]

\* The plugin has been imported and is not being unloaded.
Ready == caller["boot"] = "none" /\ caller["unload"] = "none"

-----------------------------------------------------------------------------
(* Plugin.__init__ in the elected process. *)

\* The saved schedule is read; without one no loop is started.
Bootstrap ==
    /\ caller["boot"] = "down"
    /\ given' = [given EXCEPT !["boot"] = saved]
    /\ Becomes("boot", IF saved = Empty THEN "resume" ELSE "waiting")
    /\ UNCHANGED <<stored, running, module, loops, history>>

\* A window may have been open, and its check begins beside the loop's first steps.
MaybeResume ==
    /\ caller["boot"] = "resume"
    /\ \/ running = "no" /\ running' = "resumed"
       \/ UNCHANGED running
    /\ Becomes("boot", "none")
    /\ UNCHANGED <<stored, module, given, loops, history>>

-----------------------------------------------------------------------------
(* _start_background_scheduler and _stop_background_scheduler. *)

\* _scheduler_lifecycle_lock.
LockFree == \A c \in Caller : caller[c] \notin {"joining", "replacing"}

AfterStop(c) == IF c = "unload" THEN "unloaded" ELSE "replacing"

Enter(c) ==
    /\ caller[c] = "waiting"
    /\ LockFree
    /\ IF current # Nobody /\ loop[current] # "none"
         THEN event' = TRUE /\ Becomes(c, "joining")
         ELSE UNCHANGED event /\ Becomes(c, AfterStop(c))
    /\ UNCHANGED <<stored, running, current, pending, given, loops, history>>

\* Where a loop may stay for more than the 5 s of the join: it waits for the
\* database, for a scan or for what follows it.
Slow == {"reread", "start", "scan", "post"}

\* Mutant of Joined: the event stays set.
JoinedStaysSet(c) ==
    /\ caller[c] = "joining"
    /\ loop[current] \in Slow \union {"none"}
    /\ pending' = FALSE /\ current' = Nobody
    /\ Becomes(c, AfterStop(c))
    /\ UNCHANGED <<stored, running, event, given, loops, history>>

Joined(c) ==
    /\ caller[c] = "joining"
    /\ loop[current] \in Slow \union {"none"}
    /\ event' = FALSE /\ pending' = FALSE /\ current' = Nobody
    /\ Becomes(c, AfterStop(c))
    /\ UNCHANGED <<stored, running, given, loops, history>>

Replace(c) ==
    /\ caller[c] = "replacing"
    /\ \E l \in Loop :
         /\ loop[l] = "none"
         /\ current' = l
         /\ Goto(l, "sleep")
         /\ force' = [force EXCEPT ![l] = given[c]]
         /\ old' = old \ {l}
    /\ given' = [given EXCEPT ![c] = Empty]
    /\ started' = TRUE
    /\ Becomes(c, IF c = "boot" THEN "resume" ELSE "none")
    /\ UNCHANGED <<stored, running, event, pending, return, calm, disruptions>>

-----------------------------------------------------------------------------
(* Requests: update_schedule_action. *)

\* No schedule is being put into force.
Settled == \A u \in User : caller[u] = "none"

Save(schedule) ==
    /\ saved' = schedule
    /\ calm' = Settled

\* Served by the host: the loop is replaced.
UpdateHere(u, schedule) ==
    /\ Ready /\ caller[u] = "none"
    /\ schedule # Empty
    /\ Save(schedule)
    /\ given' = [given EXCEPT ![u] = schedule]
    /\ Becomes(u, "waiting")
    /\ UNCHANGED <<flag, running, module, loops, started, disruptions>>

\* Mutant of UpdateElsewhere: to clear the schedule no flag is written.
ClearUnflagged(schedule) ==
    /\ Save(schedule)
    /\ flag' = (flag \/ schedule # Empty)
    /\ UNCHANGED <<running, module, calling, loops, started, disruptions>>

\* Served by another worker, or the schedule is cleared.
UpdateElsewhere(schedule) ==
    /\ Save(schedule)
    /\ flag' = TRUE
    /\ UNCHANGED <<running, module, calling, loops, started, disruptions>>

\* A user starts a check by hand.
UserChecks ==
    /\ Ready /\ running = "no"
    /\ running' = "check"
    /\ UNCHANGED <<stored, module, calling, loops, history>>

-----------------------------------------------------------------------------
(* The loop. *)

\* The sleep ends after 30 s or with the stop event, which ends a loop that hears it:
\* that of an old loop is not set any more.
Stopped(l) == event /\ l \notin old

\* Mutant of Wakes: a loop does not ask whether it is still the current one.
WakesUnasked(l) ==
    /\ loop[l] = "sleep"
    /\ Goto(l, IF Stopped(l) THEN "none" ELSE "flag")
    /\ UNCHANGED <<stored, running, module, calling, return, force, old, history>>

\* A loop that is not the current one ends.
Wakes(l) ==
    /\ loop[l] = "sleep"
    /\ Goto(l, IF Stopped(l) \/ current # l THEN "none" ELSE "flag")
    /\ UNCHANGED <<stored, running, module, calling, return, force, old, history>>

\* The reload flag is removed before the settings are read.
CheckFlag(l) ==
    /\ loop[l] = "flag"
    /\ Goto(l, IF flag THEN "reread" ELSE "match")
    /\ flag' = FALSE
    /\ UNCHANGED <<saved, running, module, calling, return, force, old, history>>

Reread(l) ==
    /\ loop[l] = "reread"
    /\ force' = [force EXCEPT ![l] = saved]
    /\ Goto(l, "match")
    /\ UNCHANGED <<stored, running, module, calling, return, old, history>>

\* The database does not answer: the settings of the loop's start, or of an earlier
\* one, are taken, and the flag is gone.
RereadFails(l) ==
    /\ disruptions < MaxDisruptions
    /\ disruptions' = disruptions + 1
    /\ loop[l] = "reread"
    /\ \E schedule \in Saved : force' = [force EXCEPT ![l] = schedule]
    /\ calm' = FALSE
    /\ Goto(l, "match")
    /\ UNCHANGED <<stored, running, module, calling, return, old, started>>

\* A minute that matches is claimed: a session starts, or is queued behind what is running,
\* unless that is the resumed window.
Fire(l) ==
    /\ loop[l] = "match"
    /\ force[l] # Empty
    /\ \/ /\ running = "no" \/ l \in old
          /\ Goto(l, "start")
          /\ return' = [return EXCEPT ![l] = "queue"]
          /\ UNCHANGED pending
       \/ /\ running # "no" \/ l \in old
          /\ Goto(l, "queue")
          /\ pending' = (pending \/ (running = "check" /\ l \notin old))
          /\ UNCHANGED return
    /\ UNCHANGED <<stored, running, event, current, calling, force, old, history>>

NoMatch(l) ==
    /\ loop[l] = "match"
    /\ Goto(l, "queue")
    /\ UNCHANGED <<stored, running, module, calling, return, force, old, history>>

\* A queued run is executed when nothing is running.
CheckQueue(l) ==
    /\ loop[l] = "queue"
    /\ Goto(l, IF pending /\ running = "no" /\ l \notin old THEN "dequeue" ELSE "sleep")
    /\ UNCHANGED <<stored, running, module, calling, return, force, old, history>>

Dequeue(l) ==
    /\ loop[l] = "dequeue"
    /\ pending' = FALSE
    /\ Goto(l, "start")
    /\ UNCHANGED <<stored, running, event, current, calling, return, force, old, history>>

\* Mutant of Back: the next session returns to the queue, too.
BackToQueue(l) ==
    /\ Goto(l, return[l])
    /\ UNCHANGED return

\* The session is over, and the iteration goes on.
Back(l) ==
    /\ Goto(l, return[l])
    /\ return' = [return EXCEPT ![l] = "sleep"]

\* The scan of the session is started, or there is one already, which is waited for
\* as if it were its own; with nothing to check the session is over.
StartScan(l) ==
    /\ loop[l] = "start"
    /\ \/ /\ Goto(l, "scan")
          /\ running' = IF running = "no" /\ l \notin old THEN "check" ELSE running
          /\ UNCHANGED return
       \/ Back(l) /\ UNCHANGED running
    /\ UNCHANGED <<stored, module, calling, force, old, history>>

\* The wait ends with the scan or with the stop event; only new results are acted upon.
WaitEnds(l) ==
    /\ loop[l] = "scan"
    /\ running = "no" \/ event \/ l \in old
    /\ \/ Back(l)
       \/ Goto(l, "post") /\ UNCHANGED return
    /\ UNCHANGED <<stored, running, module, calling, force, old, history>>

PostEnds(l) ==
    /\ loop[l] = "post"
    /\ Back(l)
    /\ UNCHANGED <<stored, running, module, calling, force, old, history>>

-----------------------------------------------------------------------------
(* The scan, and what disrupts. *)

ScanEnds ==
    /\ running # "no"
    /\ running' = "no"
    /\ UNCHANGED <<stored, module, calling, loops, history>>

\* Plugin.stop: the loop is stopped ...
Unload ==
    /\ disruptions < MaxDisruptions
    /\ disruptions' = disruptions + 1
    /\ Ready /\ Settled
    /\ Becomes("unload", "waiting")
    /\ UNCHANGED <<stored, running, module, given, loops, calm, started>>

\* ... the scan is told to end, and the module is imported again; what was waiting
\* for the scan goes on in the old instance.
Unloaded ==
    /\ caller["unload"] = "unloaded"
    /\ caller' = [caller EXCEPT !["unload"] = "none", !["boot"] = "down"]
    /\ old' = {l \in Loop : loop[l] # "none"}
    /\ running' = "no"
    /\ started' = FALSE
    /\ UNCHANGED <<stored, module, given, loop, return, force, calm, disruptions>>

\* The container restarts: the files stay.
Restart ==
    /\ disruptions < MaxDisruptions
    /\ disruptions' = disruptions + 1
    /\ running' = "no"
    /\ event' = FALSE /\ current' = Nobody /\ pending' = FALSE
    /\ caller' = [c \in Caller |-> IF c = "boot" THEN "down" ELSE "none"]
    /\ given' = [c \in Caller |-> Empty]
    /\ loop' = [l \in Loop |-> "none"]
    /\ return' = [l \in Loop |-> "sleep"]
    /\ force' = [l \in Loop |-> Empty]
    /\ old' = {}
    /\ started' = FALSE
    /\ calm' = TRUE
    /\ UNCHANGED stored

Saves ==
    \E s \in Saved : UpdateElsewhere(s) \/ \E u \in User : UpdateHere(u, s)

CallStep(c) == Enter(c) \/ Joined(c) \/ Replace(c)

BootStep == Bootstrap \/ MaybeResume

LoopStep(l) ==
    \/ Wakes(l) \/ CheckFlag(l) \/ Reread(l)
    \/ Fire(l) \/ NoMatch(l) \/ CheckQueue(l) \/ Dequeue(l)
    \/ StartScan(l) \/ WaitEnds(l) \/ PostEnds(l)

Next ==
    \/ \E c \in Caller : CallStep(c)
    \/ BootStep
    \/ \E l \in Loop : LoopStep(l) \/ RereadFails(l)
    \/ Saves
    \/ UserChecks \/ ScanEnds \/ Unload \/ Unloaded \/ Restart

Spec == Init /\ [][Next]_vars

\* Threads that can go on do, and scans end; a session that waits looks every 5 s, and
\* between two checks there is time enough for it to see the status.
FairSpec ==
    /\ Spec
    /\ \A c \in Caller : WF_vars(CallStep(c))
    /\ WF_vars(BootStep)
    /\ \A l \in Loop : WF_vars(LoopStep(l)) /\ SF_vars(WaitEnds(l))
    /\ WF_vars(ScanEnds) /\ WF_vars(Unloaded)

-----------------------------------------------------------------------------
(* Properties. *)

\* The types; the queue is looked at after a session only if a minute has fired it.
TypeOK ==
    /\ saved \in Saved /\ flag \in BOOLEAN
    /\ running \in {"no", "check", "resumed"}
    /\ event \in BOOLEAN /\ current \in Loop \union {Nobody} /\ pending \in BOOLEAN
    /\ caller \in [Caller -> {"none", "down", "resume", "waiting",
                              "joining", "replacing", "unloaded"}]
    /\ given \in [Caller -> Saved]
    /\ loop \in [Loop -> {"none", "flag", "match", "queue", "dequeue",
                          "sleep"} \union Slow]
    /\ return \in [Loop -> {"queue", "sleep"}]
    /\ force \in [Loop -> Saved]
    /\ old \subseteq Loop
    /\ calm \in BOOLEAN /\ started \in BOOLEAN /\ disruptions \in 0..MaxDisruptions
    /\ \A l \in Loop : return[l] = "queue" => loop[l] \in {"start", "scan", "post"}

\* Once a loop has been started there is always one that goes on firing, except
\* while it is being replaced: no stop that was meant for one ends its successor.
Hosted ==
    started /\ LockFree /\ Ready => current # Nobody /\ loop[current] # "none"

\* A loop that was replaced, or whose module was unloaded, ends, whatever it was
\* doing when the join gave up on it.
OrphansLeave ==
    \A l \in Loop : (current # l) ~> (loop[l] = "none" \/ current = l)

\* A saved schedule comes into force wherever the request was served, if the host
\* has a loop and the read of the settings does not fail.
ScheduleInForce ==
    <>[][~Saves]_vars /\ <>[]calm => <>[](current # Nobody => force[current] = saved)

\* What update_schedule_action answers, "The scheduler will run checks at the configured
\* times": a loop with the saved schedule there is, also for the first schedule.
ScheduleRuns ==
    <>[][~Saves]_vars /\ <>[]calm =>
        <>[](saved # Empty => current # Nobody /\ force[current] = saved)
=============================================================================
