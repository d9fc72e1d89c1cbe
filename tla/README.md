# IPTV Checker in TLA+

A model of the Dispatcharr plugin *IPTV Checker* (`src/iptv_checker/`): the
modules below are translated from its source, model-checked with TLC on small
instances and, where the prover reaches, proved with TLAPS for every value of
the constants. Line numbers are those of `src/iptv_checker/plugin.py` unless a
file is named.

## The system

The plugin is imported by every process of a Dispatcharr container (uWSGI
workers, Celery, the ASGI server). Each import makes a `Plugin` instance; the
processes share a data directory, and nothing else. One of them is to host the
cron scheduler.

| Component | State | Operations | Modelled in |
|---|---|---|---|
| Scheduler election (503-800) | lock file, reclaim guard, boot token, where each process is in its acquire loop | create, read, reclaim (guard, re-read, swap, release), yield | `SchedulerElection` |
| Fire claim (1569-1700, 1781-1815) | claim files, `_scheduler_last_fired` of each module object | claim in memory, claim on disk, prune, fire | `FireClaim` |
| Scheduler loop and lifecycle (1703-1900) | loop thread, stop event, `_scheduler_pending_run`, reload flag, saved schedule | start, replace, stop, reload, fire, queue, run the queued run, unload, restart | `SchedulerLoop` |
| Windowed schedule (890-1165, 1905-2133) | `loaded_channels.json`, `pending_resume.json`, `_active_window_end` | seed, apply, discard, strike off, resume, reset | `WindowedCheck`, which implements `Pass` |
| Scheduled session (1905-2133) | its place in the sequence, the results file's age | load, take the results' age, announce, start, wait, three gates, post-actions | `WindowedCheck`, `CheckSession`, `ChannelActions` |
| Check session and progress (1166-1219, 2465-2517, 2924-2954) | `check_progress`, `progress.json`, `_stop_event`, the scan thread, in every worker | Start, View, Cancel, an action that raises | `CheckSession` |
| Stream processing (2960-3310) | the list, the rows, the retry queue, the thread pool | probe, retry, flush, collect, shut down, save, count | `StreamScan`, which implements `Scan` |
| Stream probe (`check_stream` and the detectors) | none | answer to row; what is worth a retry | `StreamProbe` |
| Rate-limit guard (303-363) | `_hit_times`, `_cooldown_until`, `_next_cooldown` | `wait_if_throttled`, `record_hit` | `RateLimitGuard` |
| Group selection and loading (2600-2880) | `loaded_channels.json` | load | one step of `WindowedCheck`, one of `ChannelActions` |
| Channel actions and restore (3330-3620) | names and groups in the database, the captured original state, the results file | rename, suffix, move, delete, restore | `ChannelActions` |
| Usage reporter (`usage_client.py`) | `install_id`, `sent`, the backoff files, the flock, the server's figures | report, forced report, opt out, delete, forget | `UsageReporter` |
| Report and its delivery (`reports.py`, `notify_*.py`) | the spool | classify, route, spool, mail | `classify_channel` in `ChannelActions` |
| Cron expressions, CSV retention, JSON files | | | not modelled |
| Report appearance, settings validation, version check, table view, repository scripts | none that another part reads | | left out: formatting, messages and build scripts |

**How they interact.** The elected process runs the loop. A due expression is
claimed (`FireClaim`) and, unless the instance's `check_progress` says a check is
running, starts a scheduled session on the loop's own thread; the session starts
a scan thread through the same door as a user's *Start* and polls
`check_progress` until it is not `running`. Users' requests are served by
whichever worker gets them, and reach the scan only through the progress and
results files and, when it is the same worker, through `check_progress` and the
stop event; a new schedule reaches the loop through a flag file. The scan probes
streams one after the other or in a pool, waits where the rate-limit guard tells
it to, and in a window strikes each stream off `pending_resume.json`. The
session's post-actions, and the buttons that do the same by hand, read the
results file and change names and groups in Dispatcharr; what they took a
channel from is kept in a file that the restoring reads. After each action
every process may report how often the plugin is used.

**What is hard.** Several processes race on two files with system calls as the only
steps; a process or the container may die between any two of them; pids are handed out
again; a duplicated import makes a second loop in one process; a loop that is replaced
may outlast its replacement by hours; the wall clock repeats an hour; a session outlives
the window, the scan or the user's patience it depends on; `check_progress` has many
writers and no lock; requests land on the wrong worker; a stream is struck off before
its retries, and after a cancel or the end of a session; a pool has results nobody has
collected; a channel is renamed and moved by several actions from names read earlier;
figures may have reached a server whose answer was lost. `PROJECT.json` lists these as
hazards, each at its line.

**What makes a component correct.** At most one scheduler, and the lock names it;
one settled, if anybody can. A wall-clock minute of an expression fires at most
once, and a claimed one fires. There is always a current loop, replaced ones end,
the schedule saved last comes into force. Post-actions run at the end of the
list, on this session's verdicts, judge a channel by all its streams, and are
reached in the end. A cancel lets no more begin than had been
gone on to; a session that was cut short does not act; a
session ends and a queued run is run. A scan judges each stream once but for
retries, keeps the last verdict, saves once, writes statistics that agree with
what it saved, and ends. The provider is spared after a burst of 429s. A parked
channel can be brought home, and is when it recovers; the report says of a
channel what the actions do to it. Reports are spaced, and whatever was reported
can be deleted and is.

## The modules

### `SchedulerElection`

One action is one system call on the lock or on the guard, so that every state
another process may see in between exists. `pc[p]` is the place of process `p`
in `_init_scheduler`: `idle`, `create` (`os.open` with `O_EXCL`), `write`, `read`,
the guard's `guard`, `gread` and `gunlink`, the section `gwrite`, `recheck`, `swap`,
`release` it protects, and the outcomes `host`, `lost`, `yielded`, `dead`. A file is the
record of its inode's creator, its pid line and its boot token; a write lands
only on the inode the writer opened, an unlink on whatever the path names.
`boot` stands for the boot token: a container restart increments it and kills
everybody. An empty boot token, which the code falls back to on a system without
`/proc`, is not modelled. `Faulty` processes may fail any write and raise out of
the bootstrap; `Crash` kills a process at any point.

### `FireClaim`

An iteration of `scheduler_loop`: `ReadClock` takes `now` and the due
expressions, `ClaimInMemory` and `ClaimOnDisk` claim one, `PruneFireClaims`
deletes the claim files of earlier days, `Fire` starts or queues the run and
drops the other expressions (`break`). Loops are mapped to module objects by
`ModuleOf`, so the double loop of one import and that of two imports are both
instances. `Wall` is the wall clock, which goes back `FoldLength` minutes at
`FoldAt`. `Unwritable` is the set of pairs whose claim file may be impossible to
write: such a claim "fails open". `Stalls` says whether a loop may read the clock
on one day and claim on the next.

### `SchedulerLoop`

The host's loop threads, and the threads that start and stop them: the bootstrap
(`boot`), requests that save a schedule (`User`) and `Plugin.stop` (`unload`).
`Enter` takes the lifecycle lock and sets the event if a loop is alive, `Joined` is the
end of the join (the thread has ended, or 5 s have passed while it was in a `Slow`
place: the database, a scan, the actions after it), which clears the event, and
`Replace` starts the new thread. A loop looks
for the reload flag, matches, fires or queues, takes the queued run, and sleeps;
after each sleep it ends if the event is set or it is not `current`. Its session is
three places, `start`, `scan` and `post`, from which it returns to the rest of its
iteration (`return`). A save by a worker that is not the host writes
`flag` instead; the flag is removed before the settings are read, and the read may
fail. `MaxDisruptions` bounds restarts, unloads and failed reads. `calm` is history:
nobody saved a schedule while another one was being put into force, and no read
has failed since. The claim, the yield to another host and the files of a session
are the parts of the modules before and after this one.

### `Pass` and `WindowedCheck`

`Pass` is the abstract specification of what sessions do together: a pass that lasts
from window to window is given up only when it is outdated, through, or has found
nothing yet (`Abandon`); it judges each listed stream once (`Judge`); and it acts when
nothing is left of it (`Admit`, `Act`), condemning no channel without a stream it found
dead. It knows no files, windows, threads or sessions. A session may begin beside the
thread of an earlier scan (`Enter`), and then the pass is `disturbed`: until the next one
only `Mix` is promised, that nobody begins another pass for it and no channel comes back.

`WindowedCheck` is a scheduled session with its scan thread, over the files `loaded`,
`pending` and `results`. `session` names what `_execute_scheduled_check` does next:

- `apply` and `reanchor` are the two writes of `_apply_pending_resume` (1065, 1078), and
  `load` and `seed` those of a fresh start; `load` may fail (1948-1950);
- `stamp` takes the age of the results file (1959), `announce` reads the list and sets the
  status, `launch` is `_try_start_thread`, and `wait` polls the status;
- `gate` (the results are new), `stopgate` (not stopped), `midlist` (nothing pending), `post`.

`thread` is `loop` while the scan goes through its list, `saved` once the results file is
written (`SaveResults`, 3096) or the scan has raised (`ScanRaises`), `tail` once the status is
idle (`GoIdle`, 3107), and `off` when the thread has ended: a session can meet each of them.
`BeginProbe` looks at the stop event and the window end (2984-2994); `EndProbe`, seconds later,
appends the row and strikes the stream off (3017-3018), whatever has happened in between.
`held` is what a session has read and not used yet.

`Setups` is a set of installations, and a behaviour begins with any of them: its
streams, the group selections users may save, whether there are windows and a
deletion, and which of kill, cancel, scheduler stop, unload, reset, another saved
group selection, a manual load, a channel deleted in Dispatcharr and a fault (a load that
fails, a scan that raises) may happen, each at any point. The history of a pass
(`passScope`, `probed`, `condemned`), which begins with a load and ends where the pending
file is discarded, is what the properties compare with. Two more histories are
about a scan that outlives its session, which it may by a cancel, an unload or a scheduler
stop: `overlapped`, a session of the pass began while its thread was alive, and
`borrowed`, it wrote its results after the session had looked at their age (1959) and before
the session's own scan began (1178). The properties are about passes that are not
overlapped; `NoStaleVerdicts` gives up only those that are borrowed as well. What goes
wrong in the others is listed under *Known disagreements*. The refinement is

    Abstract == INSTANCE Pass WITH listed <- passScope, found <- probed,
                                   disturbed <- overlapped, gone <- Channel \ live,
                                   acting <- session = "post", ...

and `ImplementsPass` is its specification. `terms` tells `Pass` which of windows,
resets and hand loads the installation has, since two promises depend on them: after
a reset a pass may end early, and a hand load brings back streams already probed. The
retries of a stream belong to its one verdict here; they are in `StreamScan`.

### `CheckSession`

All workers, each with its own `check_progress`, stop event and scan thread, and the
host's loop and session. View and Cancel read the file in one step and replace the
worker's status in another, as the code does; Start announces before it tries. A scan
counts its probes: `GoOn` looks at the stop event (2984, 3123) and is gone on to one;
`Probe` begins it when the wait for a pause of the provider is over, which a stop cuts
short and after which the stream is probed all the same (4939); `Retry` is the one
within the list (3023-3031), which does not look at the event. `mode` is how many may be
gone on to at once: 1 in the loop, as many as there are threads in the pool. `late`
counts what has begun since a cancel was acknowledged. The retries at the end of the
list, which look at the event, are probes like the others, and no scan raises. `calm` is
history: it becomes false when something happens that the host's session does not reckon
with (its status is replaced by another one; a check is asked for on its worker beside
it or while the last one winds down; a cancel hits a check announced and not begun).
`complete` is about the worker's own scan; whose rows the results file holds is not
modelled. `TypeOK` and `CancelSticks` hold without it; the other three
properties are about calm behaviours, and what goes wrong in the others is listed under
*Known disagreements*.

### `StreamProbe`, `Scan` and `StreamScan`

`StreamProbe` is the function from what ffprobe and ffmpeg answered to a row:
which marker in the text of an error counts first, that the evidence of a
placeholder outranks that of a black, a still and a silent picture, what is
Skipped and not Dead, what becomes of the stored statistics, and which errors are
worth a retry. `Scan` is the abstract specification: a stream is judged once and
struck off by the same step, only a row that is worth it is replaced, the rows
are saved at most once and last, and the streams with a row are counted.

`StreamScan` has both ways the code goes about it. The sequential one probes
(`NextStream`, `JudgeStream`), retries the head of the queue after every fourth
stream (`RetryStream`, `JudgeRetry`) and flushes the queue at the end, once
(`FlushStream`). The parallel one submits everything, collects what has ended
(`StartFuture`, `FinishFuture`, `Collect`), shuts the pool down when it is
stopped or the window ends, dropping what nobody collected, and then makes passes
over what is left to retry. `Stop` and `WindowCloses` come at any point, and so does `Raises`,
the outer `except` (3098, 3300), once the pool has run dry: nothing is saved. The
refinement is

    Abstract == INSTANCE Scan WITH Row <- Rows, TryAgain <- ..., over <- phase = "over"

and `ImplementsScan` is its specification. That statistics in Dispatcharr's
database agree with the rows saved (`StatsAgree`) relates what the probing
threads write to what the collecting one keeps.

### `RateLimitGuard`

`wait_if_throttled` and `record_hit` of several threads. Time is kept as ages, so
that no clock grows: the deque is the sequence of its hits' ages, the newest first,
from whose end `RecordHit` pops those past the window (the time of a hit is that of its
recording, though the code takes it before the lock, 325); beside it are what is left of
the cooldown and the age of the last hit. `refused` is history: the ages of the last
429s. The names begin with `Guard` (`GuardSpec`, `GuardTypeOK`), so that the proofs may
use this module beside `StreamScan`. The early return of a stopped scan is `CheckSession`'s.

The properties say what the guard can promise to any number of threads. With more
than `TRIP_THRESHOLD` of them (nothing bounds `parallel_workers` from above, 3118),
those under way when a pause begins may record as many hits as there are threads but
one, and the pause may end before the next hit begins another. So `Limit` is
the threshold or the number of threads, whichever is more, and `Burst` adds those
under way.

### `ChannelActions`

A session loads the channels (`Load` takes their names), checks them (`Check`
writes what it found under the names of the load) and takes the actions of
`Steps` in order (`Act`); a user presses any of `Buttons` at any moment (`Press`).
`Do` is the one definition of both. A name is the sequence of the tags behind its
base; a rename makes a new name of the one in the results, a suffix strips the
quality tags at the end, a restore removes them all. A move first captures the
group of each channel that has no entry and is not in a group of the plugin
(`Captured`); the capture or the update may fail, bounded by `MaxFaults`. A restoring
writes the names (3903), the groups (3904) and the captured entries (3914), and may fail or
be killed before the second or the third (`RestoreFails`); its session goes on (3919) or is
gone, and `missed` remembers it. A suffix is taken off and put on for the configured
formats only (3739). A request is otherwise one step; that two of them may each rewrite the file
of captured groups as it was before the other (3795-3799, 3889-3914) comes to a capture that
is lost, which is the fault `CaptureFails`. Users move
channels, groups are removed, and conditions change between checks. `home` is
history: the ordinary group a channel was last in; `forfeited` are the channels of which the
entry cannot be right any more (the user moved one while it had an entry, or
a move went on after its capture had failed). `Classify` is the report's class of a
channel.

### `UsageReporter`

`report()` of any number of threads of any processes, and the background thread
each may start: `Report` makes the checks before the lock, `LockToSend` and
`LockToDelete` try the flock and check again, `Consent` reads the setting once more,
the id is loaded or made, the request is sent, the answer is noted (`Note`), and
the deletion removes its files one by one. Time is kept as ages and
remainders; `Tick` lets it pass. The server takes a request or not, and its
answer may be lost either way. `Die` kills a thread (the kernel frees
its flock) and `CannotWrite` fails a write or a removal, together at most `MaxFaults`
times. `early` counts the reports the server took within `FORCE` of the one before.

## What TLC checks

| Run | Instance | Shows |
|---|---|---|
| `election_safety` | 3 processes, one faulty, 3 attempts, 2 lifetimes, crashes anywhere | after a clean boot one host, one reclaimer, and the lock names the host |
| `election_live` | 4 processes, one ineligible, 2 lifetimes | once all have settled, with no guard left over, somebody hosts; duplicate hosts do not last |
| `claim_loops` | 3 loops, 2 of one module object; 4 minutes with a repeated one, a new day and an unwritable last one; 1 restart | a writable minute fires at most once; a claimed one fires |
| `lifecycle` | 2 loops, 1 request at a time, 1 schedule to save or clear, 1 disruption (302,000 states, 1:30 min) | there is always a loop that fires, replaced ones end, and the schedule saved last comes into force |
| `windows` | 4 installations: windows with kills, cancels, stops, unloads and faults, and windows with kills, other groups and removed channels, both of 2 channels of one stream; no windows, a backup stream and every event there is without them; windows with a backup stream and resets only (1.33 million states, 1:20 min) | the sessions implement `Pass`; they act on the rows of the scan they waited for, or on borrowed ones; the window end stays while the scan runs; a channel no window end comes between is judged by all its streams; every pass comes to its post-actions |
| `session` | host with 2 probes to make and another worker with 1, in the loop and in a pool of 2, every request on the host and starts on the other, fairness (791,000 states, 2:20 min) | a cancelled worker begins no more than it had gone on to and, in the loop, one retry; calm sessions act on complete scans, end, and leave the queued run to be executed |
| `scan` | 4 streams, either mode, 2 workers, 2 retries, a retry every 2 streams, 4 answers (1.58 million states, 1:30 min) | statistics agree with the rows; the scan implements `Scan`; it ends |
| `guard_burst` | 3 threads; window 2, threshold 5, pauses 2 to 20, decay 10 (ticks of 30 s) | no burst goes unpaused; within a window the provider refuses fewer probes than trip the guard and were under way |
| `channels` | 1 channel, 2 groups, 7 conditions, the scheduled actions and 3 buttons, 2 tags, 1 fault (1.91 million states, 2:20 min) | the captured group is the one it came from; a session that restores leaves nothing that plays parked; the report agrees with the actions; who recovers is brought home |
| `usage` | 2 threads, intervals 1 to 4, 2 changes of mind, 2 faults (143,000 states) | reports are spaced; nothing is known to the server and forgotten here; an opt-out is carried out |
| `window_backup`, `lifecycle_first` | | violations: see *Known disagreements* |

Every run that has types to check (all but `election_live` and the violations)
checks the module's `TypeOK` (`GuardTypeOK`) too.

**Why the bounds are enough.** Three processes are a creator, a loser and one who
comes in between; two lifetimes give each of them leftovers and recycled pids;
a third attempt is spent only when another process made progress. Three loops
are a duplicate in one module and one in another; four minutes hold a repeated
minute, a midnight and the pruning after it. Two loop threads are a loop and the
one that replaces it, and a third starts as soon as the first has ended; one
request at a time still meets an unload, a boot and the loop's own reading of the
flag. Two channels tell the one
that is done from the one that is left, and a window may close after each
stream; the backup stream tells a channel from a stream. Two workers
are the host and another one; a pool of two is enough for one probe to be waiting while
another begins, and with a list of two the loop has a stream to go on to after the one in
flight at the cancel. Four streams with a retry after two give
retries between streams, a queue that is longer than one at the flush, and a pool
of two with one stream collected, one ended, one running and one waiting; the four
answers are one of each: an error that is retried, one that changes its type, a
picture, and evidence. Actions on one channel
touch another only in the file of captured groups, where what they can undo is a capture
(`CaptureFails`), so one is enough; two groups tell home from
another one, two tags let tags stack. The ticks of `guard_burst` keep the ratios
of the code's constants (60 s, 60-600 s, 300 s), and three threads are enough to be
probing, waiting and tripping at once. Those of `usage` keep the order of the
code's intervals (forced gap, failure, gap and rate limit, disabled), and two
threads are the one that holds the lock and one that comes in between.

**Symmetry** is used in `election_safety` (among the processes that are neither
faulty nor ineligible) and `guard_burst`, which check safety only.

**Deadlock** is not checked anywhere, because the systems may really stop:
processes settle, a scan is over, the bounded clock ends, and a container may
stay down.

**Mutants.** Each property of a passing run is broken by a mutant of a mapped definition, defined
just before it ("Mutant of X: ..."); `PROJECT.json` lists the pairs.

**Fairness.** `SchedulerElection`: a process that is in the acquire loop, and a
loop that looks whether it was taken over, goes on (operating-system
scheduling; the specification of the liveness run has no crashes). `FireClaim`: a loop
goes on, the clock need not. `SchedulerLoop`: loops and the threads that replace
them go on and scans end; the end of a session's wait is strongly fair, since it
looks every 5 s and two checks are further apart. `WindowedCheck`: the session
thread, the boot and the scan thread go on (a probe that is out ends, the results are saved,
the status is reset, the thread ends); going on to another stream is strongly fair, which
says that the scan is not always overtaken by the end of the window, and `PassesComplete`
assumes that not all windows close before a stream is probed (`WindowsLast`).
`CheckSession`: scan threads, requests being served and the session go on;
`QueuedRun` is strongly fair, since the loop polls every 30 s and a check that ends is
followed by some idle time. `StreamScan`: the thread or its workers take a step;
every probe has a timeout. `ChannelActions`: sessions are scheduled again and again.
`UsageReporter`: time passes, threads go on, the plugin is used again (reports
hang on its actions), and the deletion is strongly fair: if it is tried for ever,
one request comes through. No fairness is assumed of users, kills, faults or
cron fires.

## What TLAPS proves

Every invariant that a passing run checks is proved, and so are both refinements.
None of the invariants is inductive as it stands; what each is strengthened by is
the argument. Bounds that are constants (attempts, faults,
disruptions, tags) are arbitrary in every theorem.

**`SchedulerElectionProofs`**, for any number of processes, attempts and
lifetimes, from `ProcAssumption` and `BoundAssumption`: `TypeCorrect`;
`Invariance` (`Inv`), and from it `AtMostOneScheduler` (`OneHostAfterCleanBoot`),
`ReclaimersExcludeEachOther` (`OneReclaimer`) and `LockNamesTheHost`
(`HostOwnsLock`). `Inv` says that after a clean boot the lock stays
complete, so no create succeeds and every winner has come through the guard; that
the guard is of this lifetime, so nobody unlinks another's; that the section
between its creation and its unlink holds one process; that whoever is about to
swap has found no live holder, and since it is alone in the section
nobody can install one meanwhile; and that the lock names whoever is elected.
`SomebodyHosts` (`SettledHasHost`), for more than one attempt (the code has 8; with one,
TLC finds the process that spends it on a stale guard), is from `HostInv`: as long as
nobody crashes or raises, the process that a claimed lock names is elected; before
that nobody hosts, and nobody has given up unless a guard that looks alive is there,
since an attempt is lost only to a guard of an earlier lifetime, while it is unlinked.

**`FireClaimProofs`**, from `TimeAssumption`, `FoldAssumption` (clocks go back
within a day) and `LoopAssumption`: `TypeCorrect`, and `AtMostOneFire`: with
`~Stalls`, `Spec => []FiresAtMostOnce`, for any loops, modules, expressions,
minutes and restarts. `Inv` says that a writable pair
that was fired, or that a loop is about to fire, has its claim file or is of an
earlier day than any loop can claim; `PruneFireClaims` deletes only
the latter, and `ClaimOnDisk` finds none of the former. The lemma
`DaysAdvance` is where the repeated hour enters.

**`SchedulerLoopProofs`**, from `LoopAssumption`, for any number of threads and
requests: `TypeCorrect`, and `Hosting` (`Hosted`). The strengthening: the event is
set only while somebody joins the loop that is to hear it (`Meant`), so that the
next loop never finds it set; no module is imported while it is unloaded
(`OneAtATime`); and there is a live current loop also between the two
steps in which nobody holds the lock (`Kept`).

**`WindowedCheckProofs`**, from `StreamAssumption` and `SetupAssumption`, for any
installations:

- `Bounded` (`WindowBounds`) and `Freshness` (`NoStaleVerdicts`) from `Control`, which
  says who runs when: a session that is not overlapped finds no thread when it starts its own,
  and nothing is written between its look at the results' age and that start; what any
  session finds written afterwards are the rows of the thread it waited for, which has
  then left its loop, unless they are borrowed, which takes an overlap; and where no other
  session begins beside a scan its window end is in place.
- `Refinement`: `Spec => ImplementsPass`, under `OneSelection`, which excludes a hand
  load of another group selection between a session's load and its start, since that
  replaces the session's list. Every step of an overlapped pass is a step of `Mix`; the
  three invariants that follow are about the others. `Progress` says that what the pass
  has not settled is kept in the loaded file, then in the pending file or on the
  thread's list with the probe that is out, until the gates are passed, so that nothing
  is left at `Admit`. `Resumable` is for `Abandon`: the pending file and the loaded file
  both hold all that is left, and when there is no pending file, nothing is left or
  nothing was found. `Tracked` is for `Judge`: what is pending, loaded for a start, or
  on the list of a scan that goes on is of the pass, of the session's selection, and
  unprobed.
- `Deferral` (`DeferredToTheEnd`), the state predicate behind `Admit`, from `Progress`.
- `Judgement` (`JudgedUnlessSplit`), if every stream has a url: without an overlap the rows
  are what this pass has found, and without windows a channel is loaded, listed and probed
  with all of its streams (`Judging`).

**`CheckSessionProofs`**, from `WorkerAssumption`, for any workers, streams and
requests: `TypeCorrect` and `CancelsStick` (`CancelSticks`) from `Invariance`: the
stop event of a worker whose cancel holds is set, since it is cleared only where
a scan begins (`CancelHolds`); and what such a worker has begun since and may still begin
without looking at the event, a probe gone on to, or in the loop that probe and its
retry, is together no more than the bound (`ProbesBounded`), for any length of list and of
pool. `SessionsActOnCompleteScans` (`ActsOnCompleteScan`) from
`Reckoned`: while the behaviour is calm, a check a user has announced has the
host's status and thread to itself, so the session's start is never refused; a waiting
session's own scan is stopped, or still running under the status it announced, or
over with every stream probed; and nothing unsets the stop before the gate
looks at it.

**`StreamScanProofs`**, from `StreamScanAssumption` and `DetectorAssumption`, for any
number of streams, workers and retries and any set of answers: `TypeCorrect`;
`StatsAgreement` (`StatsAgree`); and `Refinement`: `Spec => ImplementsScan`, every
behaviour of either loop is one of `Scan`. The invariant of the
sequential loop (`OneByOneInv`) says that a stream not yet begun has no row and
that what waits in the queue, or was taken from it, is there once and has a row worth a
retry; that of the pool (`PooledInv`) that what is not collected has no row in the
first round and a row worth a retry in the later ones. So every `Judge` finds no row,
every `Rejudge` one that may be replaced, and nothing is saved before the end
(`SavedLast`). The lemmas `VerdictIsARow`, `FirstMarker` and `FirstPrecedence` are
about the operators of `StreamProbe`, for every answer.

The module also holds the theorems about `RateLimitGuard`, from `GuardAssumption` (a
window is no longer than the shortest pause; both are 60 s) for any number of threads:
`GuardTypeCorrect`, `NoBurstUnpaused` (`BurstsPause`) and `RefusalsBounded`
(`ProviderSpared`). `GuardInv` counts: while a pause is on, the hits recorded in it and the
probes under way are together fewer than the threads, and otherwise the hits are
fewer than `Limit`. And it relates the two sequences: the newest refusals are the recorded
hits, what is older was cleared by a trip and leaves the window before the pause
ends, and what the probes under way can still push to the last place has left it.

**`ChannelActionsProofs`**, from `ActionsAssumption` and `NoGroupAssumption`, for any
channels, groups and findings and any order of a session's actions and of buttons:
`TypeCorrect`, with what the operations on names return (`CutNamed`, `QualityCut`,
`Tagged`); `Homing` (`HomeKept`), from `Home`: of a channel that is not forfeited the
entry is none or its home, a channel in an ordinary group is at home, and one that is
parked has its home noted or its home is gone, however far a failed restoring
came (`HalfRestoringKeepsInv`); `Agreement`
(`ReportAgrees`), for every set of kinds; and `NothingLeftBehind`
(`NothingPlayingParked`), for every order of the actions that has a restore, and every
session whose restoring did not fail. `Restored` is
why the order does not matter: once a session has restored, what plays at full rate is
out of the plugin's groups, and since it counts neither as dead, blank nor slow
(`FullRateSpared`), no other action puts it back.

**`UsageReporterProofs`**, from `UsageAssumption` (the order of the code's intervals)
and `NobodyAssumption`, for any callers: `TypeCorrect`; `Deletable`
(`NothingOrphaned`), from `Exclusive` (who is in a background thread holds the
flock, and nobody else) and `Ids` (whoever is about to post has the id on disk, whoever
is about to forget it has nothing left at the server); and `Distance`
(`ReportsSpaced`), from `Noticed`: the last report that was accepted is old enough,
or shows in the age of `sent`, or in the backoff, or in the flock of the
thread that has yet to note it, or a fault has paid for it. It uses that no
backoff is shorter than the forced gap.

**Only model-checked.** Everything temporal beyond invariance and refinement
(`DuplicatesYield`, `ClaimLeadsToFire`, `OrphansLeave`, `ScheduleInForce`,
`PassesComplete`, `SessionEnds`, `QueuedRunStarts`, `ScanEnds`, `RecoveredGoHome`,
`OptOutForgets`), since the prover does not do liveness under fairness or
`ENABLED`.

## Known disagreements between the code and what is said of it

With a run that shows it:

- `window_backup`. A channel whose streams are split over two windows is judged by those
  of the last one alone, against `README.md:42-44`.
- `lifecycle_first`. The first schedule, saved through a worker that is not the host,
  starts no loop until the next import (4378), though the answer is that the checks will
  run (4394).

Without a run of their own; the instance that shows each is given where there is one.

Election and claims:

- On a first boot two processes can both become host (738): the
  loser of the create reads the winner's lock while it is still blank. The
  docstring (688-690) says exactly one wins. Drop `cleanBoot` from
  `OneHostAfterCleanBoot`; `AtMostOneHost` is the plain statement.
  `DuplicatesYield` shows that one of the two leaves soon.
- A blank guard, left by a kill between its creation and the write of its token, is
  never cleared (605; the comment at 602-603 says otherwise).
  `SchedulerElection` with 2 lifetimes and a crash at `gwrite`: `Settled => guard = NoFile` fails.
- A stale guard is unlinked by path (607): after a boot over a leftover guard two
  processes can be in the section (docstring 592-593). Drop `cleanBoot` from `OneReclaimer`.
- A duplicate loop that reads the clock before midnight and claims after another's
  pruning of the new day fires again (1597; docstrings 1583-1584, 1636-1637).
  `FireClaim` with `Stalls = TRUE`.

The loop:

- A reload whose database read fails keeps the earlier schedule for good: the flag
  is already gone (1758). `ScheduleInForce` without `calm`.
- A request served by the host beside a change saved through another worker can leave
  the older schedule in force: each has read the settings before it waits for the
  lock. `ScheduleInForce` without `calm`.
- A loop that was orphaned in a session goes through that session to its end, beside
  the one its successor may start.
- A cron fire between the restart-resume flag's setting and the resumed check's own
  announcement starts a second session (1801; comment 1119-1121).
- A worker that loads a running status from the file at its import, and is not the one
  that finds the file stale, keeps it for good (482, 831; docstring 808-811).

Windows:

- What an early window found dead is not acted on by the window that finishes
  the list (3096; `docs/USER-GUIDE.md:326`).
- A stream with a blank url stays pending for good, and no
  pass comes to its post-actions (984, 2932; `docs/USER-GUIDE.md:309-311`).
  `PassesComplete` with a stream in `NoUrl`.
- Reset Progress during a windowed scan removes the file the mid-list gate looks
  at, and a partial list is acted on (4316, 2054; `docs/USER-GUIDE.md:326-327`).
  `DeferredToTheEnd` without its exception.
- A channel deleted between two windows leaves its streams pending although the
  scan of the rest is complete (1054, 1076, 2054; comment 2051-2052): that
  pass skips its post-actions, and the next session starts the list anew.
- A queued run, or a fire, after a cancel resumes the list while the last probe of the
  cancelled scan is out (2984, 3017-3018): that stream is still pending, is loaded, and
  is judged again. And whenever the old probe ends, its stream is struck off the list
  there is then, which may be the one a session with another group selection has just
  begun: there it counts as done without a row. Against `docs/USER-GUIDE.md:309-311`.
  `ImplementsPass` of `WindowedCheck` with `disturbed <- FALSE`, windows and the event `cancel`; `DeferredToTheEnd`
  without `~overlapped`.
- The return of a session that began beside an earlier scan clears the window end of that
  scan too (2132), which then goes on past the window. `WindowBounds` without
  `~overlapped`.
- A hand load of another group selection between a session's load and its start
  replaces the session's list. `DeferredToTheEnd` with two selections and the event
  `load`.

Sessions and requests:

- A cancelled scan that writes its results (3096) and ends between a new session's look at
  their age (1959) and the session's own start (2924-2943, 1178) makes the file newer than the
  session and lets that start clear the stop event: if the session's wait then ends
  early, by a scheduler stop (1971) or another cancel and its view, the gates at
  1982 and 2020 pass, and the rows of the cancelled scan are acted on. `NoStaleVerdicts` of
  `WindowedCheck` without its second disjunct.
- After an acknowledged cancel a scan still begins the probe it had gone on to and was
  holding back for a pause of the provider, since the wait returns early on the stop and
  the stream is probed anyway (4939), in the pool one in each thread; and the loop's next
  retry, which does not look at the event (3023-3031). Against the confirmation's "queued and
  in-flight streams are aborted" (`plugin.json:561`). `CancelSticks` of `CheckSession` with
  the bound 0.
- A cancel served by another worker than the scan's stops nothing (2505), against the
  confirmation's "queued and in-flight streams are aborted" (`plugin.json:561`).
  `CancelStopsCheck` of `CheckSession`.
- A session that was cancelled acts after all when somebody starts a check within
  the 5 s of its poll, because the stop event is cleared for the new one (1178,
  2020; `tests/test_scheduled_check_interruption.py:195`). `CheckSession`:
  `ActsOnCompleteScan` without `calm`.
- A View that read `running` just before the scan ended (2468), and a Start pressed
  while the old thread is in its tail, refreshing the page and reporting (2939-2943,
  1173), leave the status `running` with no scan behind it: every later fire is
  queued and the queued run is never executed. `QueuedRunStarts` without `calm`.
- A queued run is executed as soon as the status is idle (1818); after a cancel,
  or in the tail of the last scan, its own start is refused. In the first case it
  waits for the dying scan and is lost, in the second it waits forever.
- A cancel that hits a check announced and not yet begun is lost: the start clears
  the event (1178) and the scan runs on while the status says idle.
- An action that raises, on the worker of a running check, declares the check idle (2337).
- The loop decides by its own instance's status (1800) and so starts a scan beside
  that of another worker, whatever the file says (docstring 819-820); the session
  then takes the other scan's results for its own: `written` of `CheckSession`, which
  `SaveResults` of any worker sets, is all it looks at.

The scan:

- At the end of the sequential loop each stream left in the queue is retried once, however
  many retries are configured (3067-3094; `plugin.json:83`). `RetriesSpent` of `StreamScan`.
- The text of an error quotes the url, and its markers are looked at in a fixed order: a 429
  of a url that contains 403 or 404 is Dead and not retried.
- A Dead stream whose retry is answered by a 429 ends as Skipped.
- `wait_if_throttled` measures the quiet time from the last hit, the pause
  included (345), so a pause of 480 s or more resets the length with no clean probe in
  between (docstring 306-307).

Channels and reports:

- A name "A [Slow]" that is given a suffix becomes "A [Slow] [SD]": the status tag
  is not at its end any more, and a channel without a captured entry is not
  recognised as one to restore (3443; `docs/USER-GUIDE.md:202`, `:217`).
  `RecoveredLoseTags` of `ChannelActions` with `Steps <- RenamedOnly`.
- Renames start from the names of the load, so that tags stack or come back when
  the name was changed in between.
- A channel with blank streams beside dead or frozen ones, and none that plays, is neither
  renamed nor moved, but it is deleted; `SECTION_SPECS` of `reports.py` says that only
  `confirmed_dead` is acted on.
- Two requests that capture or restore at once each rewrite all of the file of captured
  groups from what they have read (3795-3799, 3889-3914), and the last writer wins: an
  entry of any channel captured meanwhile is lost, and its channel is not brought home; or
  an entry cleared meanwhile comes back. `CaptureFails` and `RestoreFails` of
  `ChannelActions` do this to one channel.
- A destination that is not in the settings is no managed group where groups are captured (the
  default is empty, 3806-3810), but is one where channels are moved: a channel moved there twice
  has that group captured as its own. `Managed` of `ChannelActions` always has all
  three.
- A capture whose move then failed stays, and a restore that finds it moves the
  channel back to where it was at that time, even if the user has moved it since.
- The order of a session's last steps is CSV, mail, then restore; `docs/USER-GUIDE.md:302` has
  another one.

Usage: a corrupt `install_id` is replaced by a new one, and what the server holds
under the old one cannot be deleted any more. `NothingOrphaned` holds because
the file is never corrupt in `UsageReporter`.

## Not modelled

The rendering of reports, the markup and the messages; the settings form and its
validation; the version check; the table view; repository scripts. They format,
or run once by hand. Of the parts with logic of their own:

- Cron expressions, the group patterns, the choice of CSV files to prune and the
  conversion of a window's settings to its end are pure functions of strings,
  dates and settings. `FireClaim` takes the due minutes as a constant, `WindowedCheck`
  the selected channels and *open* and *past*.
- `_save_json_file` is one step everywhere, although all processes use the same
  temporary name (1238).
- The instance that a re-import leaves behind (517) and `_normalize_stale_progress` (846),
  which takes a check that has been silent for 900 s for dead, are not in
  `WindowedCheck` and `CheckSession`; `SchedulerLoop` leaves open what an
  unloaded instance does.
- The report spool (`notify_client.py`), the mail and the call of Stream-Mapparr.
- The pool makes a Dead or Other row of a future that raises (3191-3206) and leaves its
  statistics; `check_stream` catches what a probe raises. A write of the statistics
  that fails is only logged. `StreamScan` has neither.
- How the detectors read ffmpeg's output: `StreamProbe` takes what they have evidence of.

## Plan

1. `PluginReload`: the second instance of a re-import, with two scans striking off
   one pending file, over `WindowedCheck`; `_normalize_stale_progress` in
   `CheckSession`, with a clock of the progress file's age.
2. `JsonFile`: the shared temporary name, with an abstract register it is to
   implement; `NotifySpool`: claim, send, and give back.
3. An abstract `Scheduler` (each due minute is taken by at most one host) with
   `SchedulerElection` and `FireClaim` as its implementation.
4. `Cron`, `GroupSelection`, `CsvRetention`: pure algorithms against reference
   definitions over bounded inputs.
5. Proofs: the abstract `Scheduler` of 3, and the invariants of the new modules.
