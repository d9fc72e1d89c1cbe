--------------------------- MODULE WindowedCheck ---------------------------
(***************************************************************************)
(* A scheduled check that may take several windows to go through its list. *)
(*                                                                         *)
(* A session of _execute_scheduled_check loads the channels, or takes up   *)
(* what pending_resume.json says is left of an earlier pass, starts the    *)
(* scan thread and waits for it; the thread probes the streams, strikes    *)
(* each off the pending file, and writes the results file once, when the   *)
(* list, the window or a stop ends it.  The session then passes three      *)
(* gates before it renames, moves and deletes what the results call dead.  *)
(* The thread looks at the stop event before a probe and not after it, and *)
(* the session may be over, and another one begun, before the thread ends. *)
(*                                                                         *)
(* Abstractions.  A window end is "open" or "past": at most one lies in    *)
(* the future at a time.  The loaded file is the set of streams it lists.  *)
(* A verdict is "dead" or "other" (Alive and Skipped differ for no action  *)
(* modelled here), and the renames, moves and the deletion, which select   *)
(* their channels by the same rule, are one action.  A pending file with   *)
(* nothing left in it counts as missing, as it does at every read; to      *)
(* strike a stream off, a read and a write, is one step.  The retries are  *)
(* StreamScan's: here a row is that of a stream's last probe.  The only    *)
(* scans are those of sessions, and the sessions those of one instance.    *)
(***************************************************************************)
EXTENDS Naturals

CONSTANTS
    Channel,
    Stream,
    ChannelOf,    \* the channel a stream belongs to
    NoUrl,        \* the streams with a blank url
    Setups        \* the installations explored, see Setup

ASSUME StreamAssumption ==
    /\ ChannelOf \in [Stream -> Channel]
    /\ NoUrl \subseteq Stream
    /\ "none" \notin Stream

\* The streams there are, the group selections a user may save (sets of channels),
\* schedule_window_enabled, scheduler_delete_dead_channels, and which of the events
\* at the end of this module happen.
Setup == [streams : SUBSET Stream, scopes : SUBSET SUBSET Channel, windowed : BOOLEAN,
          deletes : BOOLEAN, events : SUBSET {"crash", "cancel", "stop", "unload", "reset",
                                              "edit", "load", "remove", "fault"}]

ASSUME SetupAssumption ==
    /\ Setups \subseteq Setup
    /\ \A installed \in Setups : installed.scopes # {}

VARIABLES
    setup,       \* the installation, which never changes
    \* the database
    live,        \* the channels Dispatcharr has
    settings,    \* the group selection saved
    \* the files
    loaded,      \* loaded_channels.json
    pending,     \* pending_resume.json
    results,     \* check_results.json
    \* the plugin instance
    session,     \* where the session is
    scope,       \* the group selection it was started with
    held,        \* what it has read of a file and not used yet
    windowEnd,   \* _active_window_end
    status,      \* check_progress['status']
    stop,        \* _stop_event
    written,     \* the results file is newer than the session's look at it
    \* the scan thread
    thread,      \* where it is
    probing,     \* the stream whose probe is out
    todo,        \* the streams it has yet to probe
    rows,        \* its results list
    \* history of the pass, which begins with a fresh load and, in windows, ends when
    \* the pending file is discarded
    passScope,   \* the streams it set out to probe
    probed,      \* the verdicts it has come to
    condemned,   \* the channels its post-actions treated as dead
    overlapped,  \* a session of it began beside the thread of an earlier scan
    borrowed     \* the results were written by the thread of an earlier scan, after
                 \* the session's look at their file and before its own scan

disk == <<live, settings, loaded, pending, results>>
scan == <<thread, probing, todo, rows>>
pass == <<passScope, probed, condemned>>
history == <<overlapped, borrowed>>
control == <<session, scope, held, windowEnd, status, stop, written>>
vars == <<setup, disk, control, scan, pass, history>>

Verdict == {"dead", "other"}
None == "none"
NoRows == [s \in Stream |-> None]
Rows == [Stream -> Verdict \cup {None}]

NoPending == [left |-> {}, end |-> "past", scope |-> {}]

\* The places of a session, named for what it does next.
Starting == {"apply", "reanchor", "load", "seed", "stamp", "announce", "launch"}
Sessions == {"down", "idle"} \cup Starting \cup {"wait", "gate", "stopgate", "midlist", "post"}

Threads == {"off", "loop", "saved", "tail"}

Init ==
    /\ setup \in Setups
    /\ live = Channel
    /\ settings \in setup.scopes
    /\ loaded = {}
    /\ pending = NoPending
    /\ results = NoRows
    /\ session = "down"
    /\ scope = settings
    /\ held = {}
    /\ windowEnd = None
    /\ status = "idle"
    /\ stop = FALSE
    /\ written = FALSE
    /\ thread = "off"
    /\ probing = None
    /\ todo = {}
    /\ rows = NoRows
    /\ passScope = {}
    /\ probed = NoRows
    /\ condemned = {}
    /\ overlapped = FALSE
    /\ borrowed = FALSE

StreamsOf(channels) == {s \in setup.streams : ChannelOf[s] \in channels}

\* Mutant of DeadChannels: one dead row is enough.
AnyDead(table) ==
    {c \in Channel : \E s \in Stream : ChannelOf[s] = c /\ table[s] = "dead"}

\* _channels_where: the channels all of whose rows are dead, and which have one.
DeadChannels(table) ==
    {c \in Channel :
        /\ \E s \in Stream : ChannelOf[s] = c /\ table[s] # None
        /\ \A s \in Stream : ChannelOf[s] = c /\ table[s] # None => table[s] = "dead"}

-----------------------------------------------------------------------------
(* The session. *)

\* A return inside the try: the finally clause clears the window.
Return ==
    /\ session' = "idle"
    /\ windowEnd' = IF setup.windowed THEN None ELSE windowEnd

\* The cron expression fires, or the queued run is due, and no check is running:
\* which the status says, not the thread.
CronFires ==
    /\ session = "idle"
    /\ status = "idle"
    /\ session' = IF setup.windowed THEN "apply" ELSE "load"
    /\ scope' = settings
    /\ windowEnd' = IF setup.windowed THEN "open" ELSE windowEnd
    /\ overlapped' = (overlapped \/ thread # "off")
    /\ UNCHANGED <<setup, disk, held, status, stop, written, scan, pass, borrowed>>

\* Mutant of Remaining: what the last window has loaded, struck off or not.
RemainingLoaded == {s \in loaded : pending.left # {} /\ ChannelOf[s] \in live}

\* What is left of the loaded channels that still exist.
Remaining == {s \in loaded \cap pending.left : ChannelOf[s] \in live}

\* The loaded file is cut down to what is left ...
ApplyPending ==
    /\ session = "apply"
    /\ pending.left # {}
    /\ pending.scope = scope
    /\ Remaining # {}
    /\ loaded' = Remaining
    /\ held' = pending.left
    /\ session' = "reanchor"
    /\ UNCHANGED <<setup, live, settings, pending, results, scope, windowEnd, status, stop, written,
                   scan, pass, history>>

\* ... and the pending file, as it was read, is written back with the new window end.
Reanchor ==
    /\ session = "reanchor"
    /\ pending' = [left |-> held, end |-> windowEnd, scope |-> scope]
    /\ held' = {}
    /\ session' = "stamp"
    /\ UNCHANGED <<setup, live, settings, loaded, results, scope, windowEnd, status, stop, written,
                   scan, pass, history>>

\* The history of a pass that is over.
NoPass ==
    /\ passScope' = {}
    /\ probed' = NoRows
    /\ condemned' = {}
    /\ overlapped' = (thread # "off")

\* Mutant of DiscardPending: what a closed window left is stale.
DiscardExpired ==
    /\ session = "apply"
    /\ \/ pending.left = {} \/ pending.scope # scope \/ Remaining = {}
       \/ pending.end = "past"
    /\ pending' = NoPending
    /\ session' = "load"
    /\ NoPass
    /\ UNCHANGED <<setup, live, settings, loaded, results, scope, held, windowEnd, status, stop,
                   written, scan, borrowed>>

\* Nothing is pending, or it is of another scope or of no stream that is left.
DiscardPending ==
    /\ session = "apply"
    /\ pending.left = {} \/ pending.scope # scope \/ Remaining = {}
    /\ pending' = NoPending
    /\ session' = "load"
    /\ NoPass
    /\ UNCHANGED <<setup, live, settings, loaded, results, scope, held, windowEnd, status, stop,
                   written, scan, borrowed>>

\* load_groups_action.
LoadGroups ==
    /\ session = "load"
    /\ loaded' = StreamsOf(live \cap scope)
    /\ session' = IF setup.windowed THEN "seed" ELSE "stamp"
    /\ passScope' = loaded'
    /\ probed' = NoRows
    /\ condemned' = {}
    /\ overlapped' = IF setup.windowed THEN overlapped ELSE thread # "off"
    /\ UNCHANGED <<setup, live, settings, pending, results, scope, held, windowEnd, status, stop,
                   written, scan, borrowed>>

LoadFails ==
    /\ "fault" \in setup.events
    /\ session = "load"
    /\ Return
    /\ UNCHANGED <<setup, disk, scope, held, status, stop, written, scan, pass, history>>

\* Every loaded stream with an id is pending, whether or not it has a url.
SeedPending ==
    /\ session = "seed"
    /\ pending' = IF loaded = {} THEN NoPending
                  ELSE [left |-> loaded, end |-> windowEnd, scope |-> scope]
    /\ session' = "stamp"
    /\ UNCHANGED <<setup, live, settings, loaded, results, scope, held, windowEnd, status, stop,
                   written, scan, pass, history>>

\* Mutant of Stamp: the results file's age is compared with nothing.
StampNothing ==
    /\ session = "stamp"
    /\ session' = "announce"
    /\ borrowed' = FALSE
    /\ UNCHANGED <<setup, disk, scope, held, windowEnd, status, stop, written, scan, pass, overlapped>>

\* results_mtime_before is taken.
Stamp ==
    /\ session = "stamp"
    /\ session' = "announce"
    /\ written' = FALSE
    /\ borrowed' = FALSE
    /\ UNCHANGED <<setup, disk, scope, held, windowEnd, status, stop, scan, pass, overlapped>>

Checkable == loaded \ NoUrl

\* check_streams_action: the session cannot start and returns.
NothingToCheck ==
    /\ session = "announce"
    /\ Checkable = {}
    /\ Return
    /\ UNCHANGED <<setup, disk, scope, held, status, stop, written, scan, pass, history>>

\* The list is read and the check announced ...
Announce ==
    /\ session = "announce"
    /\ Checkable # {}
    /\ held' = Checkable
    /\ status' = "running"
    /\ session' = "launch"
    /\ UNCHANGED <<setup, disk, scope, windowEnd, stop, written, scan, pass, history>>

\* ... and _try_start_thread called: while an earlier scan's thread is alive no other
\* is started, and the session waits for that one.
Launch ==
    /\ session = "launch"
    /\ session' = "wait"
    /\ held' = {}
    /\ IF thread # "off"
         THEN UNCHANGED <<stop, scan>>
         ELSE /\ stop' = FALSE
              /\ thread' = "loop"
              /\ todo' = held
              /\ rows' = NoRows
              /\ UNCHANGED probing
    /\ UNCHANGED <<setup, disk, scope, windowEnd, status, written, pass, history>>

StatusIdle ==
    /\ session = "wait"
    /\ status # "running"
    /\ session' = "gate"
    /\ UNCHANGED <<setup, disk, scope, held, windowEnd, status, stop, written, scan, pass, history>>

\* Mutant of ResultsGate: an unfinished session clears the window too.
GateClears ==
    /\ session = "gate"
    /\ IF written THEN session' = "stopgate" /\ UNCHANGED windowEnd ELSE Return
    /\ UNCHANGED <<setup, disk, scope, held, status, stop, written, scan, pass, history>>

\* _post_scan_phases_should_run: an unfinished session keeps the window for the
\* scan that is still running; a finished one exports the CSV.
ResultsGate ==
    /\ session = "gate"
    /\ session' = IF written THEN "stopgate" ELSE "idle"
    /\ UNCHANGED <<setup, disk, scope, held, windowEnd, status, stop, written, scan, pass, history>>

StoppedGate ==
    /\ session = "stopgate"
    /\ IF stop THEN Return ELSE session' = "midlist" /\ UNCHANGED windowEnd
    /\ UNCHANGED <<setup, disk, scope, held, status, stop, written, scan, pass, history>>

\* The report is sent, and the post-actions wait for the end of the list.
MidListGate ==
    /\ session = "midlist"
    /\ IF setup.windowed /\ pending.left # {}
         THEN Return
         ELSE session' = "post" /\ UNCHANGED windowEnd
    /\ UNCHANGED <<setup, disk, scope, held, status, stop, written, scan, pass, history>>

\* Rename, move and delete; only channels of the loaded file are deleted.
PostActions ==
    /\ session = "post"
    /\ Return
    /\ condemned' = DeadChannels(results)
    /\ live' = IF setup.deletes
                 THEN live \ {c \in DeadChannels(results) :
                                loaded = {} \/ \E s \in loaded : ChannelOf[s] = c}
                 ELSE live
    /\ UNCHANGED <<setup, settings, loaded, pending, results, scope, held, status, stop, written,
                   scan, passScope, probed, history>>

-----------------------------------------------------------------------------
(* The scan thread. *)

Halted == stop \/ windowEnd = "past"

\* The stop event and the window end are looked at, and a stream is probed ...
BeginProbe(s) ==
    /\ thread = "loop"
    /\ probing = None
    /\ ~Halted
    /\ s \in todo
    /\ probing' = s
    /\ todo' = todo \ {s}
    /\ UNCHANGED <<setup, disk, control, thread, rows, pass, history>>

\* Mutant of MarkDone: the file is kept when its list is empty.
MarkDoneKeeps(s) ==
    IF windowEnd = None THEN pending ELSE [pending EXCEPT !.left = @ \ {s}]

\* _mark_stream_done_in_pending: the file goes with the last stream of its list.
MarkDone(s) ==
    IF windowEnd = None \/ s \notin pending.left THEN pending
    ELSE IF pending.left = {s} THEN NoPending
    ELSE [pending EXCEPT !.left = @ \ {s}]

\* ... and, stopped meanwhile or not, its row is appended and its id struck off.
EndProbe(s) ==
    /\ probing = s
    /\ probing' = None
    /\ \E v \in Verdict :
          /\ rows' = [rows EXCEPT ![s] = v]
          /\ probed' = [probed EXCEPT ![s] = v]
    /\ pending' = MarkDone(s)
    /\ UNCHANGED <<setup, live, settings, loaded, results, control, thread, todo, passScope,
                   condemned, history>>

\* The results file is written.
SaveResults ==
    /\ thread = "loop"
    /\ probing = None
    /\ Halted \/ todo = {}
    /\ thread' = "saved"
    /\ results' = rows
    /\ written' = TRUE
    /\ borrowed' = (session \in {"announce", "launch"})
    /\ UNCHANGED <<setup, live, settings, loaded, pending, session, scope, held, windowEnd, status,
                   stop, probing, todo, rows, pass, overlapped>>

\* The outer except: nothing is written.
ScanRaises ==
    /\ "fault" \in setup.events
    /\ thread = "loop"
    /\ probing = None
    /\ thread' = "saved"
    /\ UNCHANGED <<setup, disk, control, probing, todo, rows, pass, history>>

\* The finally clause, whosever status it is by now.
GoIdle ==
    /\ thread = "saved"
    /\ thread' = "tail"
    /\ status' = "idle"
    /\ UNCHANGED <<setup, disk, session, scope, held, windowEnd, stop, written, probing, todo, rows,
                   pass, history>>

\* The page is refreshed and the usage reported.
ThreadEnds ==
    /\ thread = "tail"
    /\ thread' = "off"
    /\ UNCHANGED <<setup, disk, control, probing, todo, rows, pass, history>>

-----------------------------------------------------------------------------
(* The container. *)

\* _maybe_resume_after_restart, in the elected process: the session is taken up
\* with the window end the pending file kept, or not before the next window.
Boot ==
    /\ session = "down"
    /\ IF setup.windowed /\ pending.left # {} /\ pending.end = "open"
         THEN session' = "apply" /\ windowEnd' = "open"
         ELSE session' = "idle" /\ UNCHANGED windowEnd
    /\ scope' = settings
    /\ UNCHANGED <<setup, disk, held, status, stop, written, scan, pass, history>>

WindowCloses ==
    /\ windowEnd = "open" \/ pending.end = "open"
    /\ windowEnd' = IF windowEnd = "open" THEN "past" ELSE windowEnd
    /\ pending' = [pending EXCEPT !.end = "past"]
    /\ UNCHANGED <<setup, live, settings, loaded, results, session, scope, held, status, stop,
                   written, scan, pass, history>>

-----------------------------------------------------------------------------
(* Events. *)

\* The container is killed.
Crash ==
    /\ "crash" \in setup.events
    /\ session # "down"
    /\ session' = "down"
    /\ held' = {}
    /\ windowEnd' = None
    /\ status' = "idle"
    /\ stop' = FALSE
    /\ written' = FALSE
    /\ thread' = "off"
    /\ probing' = None
    /\ todo' = {}
    /\ rows' = NoRows
    /\ borrowed' = FALSE
    /\ UNCHANGED <<setup, disk, scope, pass, overlapped>>

\* Cancel Stream Check.
Cancel ==
    /\ "cancel" \in setup.events
    /\ status = "running"
    /\ stop' = TRUE
    /\ status' = "idle"
    /\ UNCHANGED <<setup, disk, session, scope, held, windowEnd, written, scan, pass, history>>

\* The scheduler stop event ends the session's wait while the scan goes on.
StopScheduler ==
    /\ "stop" \in setup.events
    /\ session = "wait"
    /\ session' = "gate"
    /\ UNCHANGED <<setup, disk, scope, held, windowEnd, status, stop, written, scan, pass, history>>

\* Plugin.stop: the scheduler is stopped, and then the scan.
Unload ==
    /\ "unload" \in setup.events
    /\ session # "down"
    /\ session' \in (IF session = "wait" THEN {"wait", "gate"} ELSE {session})
    /\ stop' = TRUE
    /\ UNCHANGED <<setup, disk, scope, held, windowEnd, status, written, scan, pass, history>>

\* Reset Progress.
ResetProgress ==
    /\ "reset" \in setup.events
    /\ pending' = NoPending
    /\ UNCHANGED <<setup, live, settings, loaded, results, control, scan, pass, history>>

\* The user saves another group selection.
EditSettings ==
    /\ "edit" \in setup.events
    /\ settings' \in setup.scopes
    /\ UNCHANGED <<setup, live, loaded, pending, results, control, scan, pass, history>>

\* The user loads the groups by hand.
UserLoadsGroups ==
    /\ "load" \in setup.events
    /\ session # "down"
    /\ loaded' = StreamsOf(live \cap settings)
    /\ UNCHANGED <<setup, live, settings, pending, results, control, scan, pass, history>>

\* A channel is deleted in Dispatcharr.
RemoveChannel ==
    /\ "remove" \in setup.events
    /\ \E c \in live : live' = live \ {c}
    /\ UNCHANGED <<setup, settings, loaded, pending, results, control, scan, pass, history>>

SessionStep ==
    \/ CronFires \/ ApplyPending \/ Reanchor \/ DiscardPending
    \/ LoadGroups \/ LoadFails \/ SeedPending
    \/ Stamp \/ NothingToCheck \/ Announce \/ Launch \/ StatusIdle
    \/ ResultsGate \/ StoppedGate \/ MidListGate \/ PostActions

\* What the thread does but for taking on another stream.
ThreadStep ==
    \/ \E s \in Stream : EndProbe(s)
    \/ SaveResults \/ ScanRaises \/ GoIdle \/ ThreadEnds

Event ==
    \/ Crash \/ Cancel \/ StopScheduler \/ Unload
    \/ ResetProgress \/ EditSettings \/ UserLoadsGroups \/ RemoveChannel

Next ==
    \/ SessionStep
    \/ \E s \in Stream : BeginProbe(s)
    \/ ThreadStep
    \/ Boot
    \/ WindowCloses
    \/ Event

Spec == Init /\ [][Next]_vars

\* The session, the scan thread and the boot go on; windows close when they
\* like, but are long enough that some of them get a stream probed.
FairSpec ==
    /\ Spec
    /\ WF_vars(SessionStep)
    /\ WF_vars(ThreadStep)
    /\ WF_vars(Boot)
    /\ SF_vars(\E s \in Stream : BeginProbe(s))

-----------------------------------------------------------------------------
(* The refinement. *)

\* What is pending was seeded under another group selection than the session's.
Outdated == pending.left # {} /\ pending.scope # scope

Abstract == INSTANCE Pass WITH
    terms <- (IF setup.windowed THEN {"windows"} ELSE {}) \cup
             (setup.events \cap {"reset", "load"}),
    listed <- passScope,
    found <- probed,
    outdated <- Outdated,
    disturbed <- overlapped,
    gone <- Channel \ live,
    acting <- session = "post"

-----------------------------------------------------------------------------
(* Properties. *)

\* The types, and a pending file has something left in it.
TypeOK ==
    /\ setup \in Setups
    /\ live \subseteq Channel
    /\ settings \in setup.scopes
    /\ loaded \subseteq Stream
    /\ pending \in [left : SUBSET Stream, end : {"open", "past"}, scope : setup.scopes \cup {{}}]
    /\ results \in Rows
    /\ session \in Sessions
    /\ scope \in setup.scopes
    /\ held \subseteq Stream
    /\ windowEnd \in {None, "open", "past"}
    /\ status \in {"idle", "running"}
    /\ stop \in BOOLEAN
    /\ written \in BOOLEAN
    /\ thread \in Threads
    /\ probing \in Stream \cup {None}
    /\ todo \subseteq Stream
    /\ rows \in Rows
    /\ passScope \subseteq Stream
    /\ probed \in Rows
    /\ condemned \subseteq Channel
    /\ overlapped \in BOOLEAN
    /\ borrowed \in BOOLEAN
    /\ pending.left = {} => pending = NoPending

\* "Rename, move and delete are deferred until the window that finishes the
\* list" (USER-GUIDE): when they run, every stream the pass set out to probe
\* has been probed in it, in this window or an earlier one, whatever crashed or
\* was stopped on the way.  Reset Progress in the midst of a scan breaks it, and
\* a session that begins while the thread of an earlier scan is alive.
DeferredToTheEnd ==
    session = "post" /\ ~overlapped /\ "reset" \notin setup.events =>
        \A s \in passScope : \/ probed[s] # None
                            \/ s \in NoUrl
                            \/ ChannelOf[s] \notin live

\* "stops cleanly between streams, and resumes where it left off" (USER-GUIDE): a pass is
\* not begun anew before it is through, no stream is judged twice in it, and the
\* post-actions wait for its end, whatever windows, kills and stops there are, if no
\* session of the pass begins while the thread of an earlier scan is alive.
ImplementsPass == Abstract!Spec

\* The post-actions act on what the scan this session waited for found, never on the
\* results an earlier session left behind (_post_scan_phases_should_run); unless the
\* session began while the thread of an earlier scan was alive, and that thread wrote
\* its results between the session's look at the file and the start of its own scan.
NoStaleVerdicts == session = "post" => results = rows \/ (overlapped /\ borrowed)

\* While a windowed scan is running the window end that is to stop it stays in
\* place, whatever became of its session; unless another one began beside it, whose
\* return clears the window of both.
WindowBounds == setup.windowed /\ thread = "loop" /\ ~overlapped => windowEnd # None

\* "A channel is judged by all of its streams ... only reported dead when every
\* stream failed" (README): a channel the post-actions treat as dead has had
\* every stream of the pass found dead.
JudgedByAllStreams ==
    \A c \in condemned : \A s \in passScope : ChannelOf[s] = c => probed[s] = "dead"

\* The same of the channels whose streams no window end can come between, in a pass
\* none of whose sessions begins while the thread of an earlier scan is alive.
JudgedUnlessSplit ==
    \A c \in condemned :
        ~overlapped /\ (~setup.windowed \/ (\A s, o \in StreamsOf({c}) : s = o)) =>
            \A s \in passScope : ChannelOf[s] = c => probed[s] = "dead"

\* A window is open and a stream is about to be probed.
Ready == thread = "loop" /\ probing = None /\ ~Halted /\ todo # {}

\* Windows do not forever close before a stream is probed in them.
WindowsLast == []<>Ready \/ <>[](windowEnd # "past")

\* "stops cleanly between streams, and resumes where it left off" (USER-GUIDE):
\* if windows last, every pass comes to its post-actions, however many it takes,
\* unless users forever reset the progress, or a session waits for a scan that was
\* over before it began.
PassesComplete ==
    setup.events \subseteq {"reset"} =>
        (WindowsLast => \/ []<>(session = "post")
                        \/ []<><<ResetProgress>>_vars
                        \/ <>[]overlapped)
=============================================================================
