----------------------------- MODULE FireClaim -----------------------------
(***************************************************************************)
(* How scheduler loops claim a cron expression's minute before firing it.  *)
(*                                                                         *)
(* A loop reads the clock once per iteration and then, for each expression *)
(* due, claims the pair (expression, minute) twice: in a dictionary of the *)
(* module object that started the loop, and as an O_EXCL file every loop   *)
(* of the box shares.  Re-importing the module makes a new dictionary, so  *)
(* two loops may share one, or neither.  The claim files of earlier days   *)
(* are deleted after each claim.                                           *)
(*                                                                         *)
(* `now` counts minutes of real time.  A claim file is named by the wall   *)
(* clock, which repeats FoldLength minutes when summer time ends at        *)
(* FoldAt; the dictionary compares instants.                               *)
(***************************************************************************)
EXTENDS Integers, FiniteSets

CONSTANTS
    Loop,           \* scheduler_loop threads, in one process or several
    Module,         \* imported module objects
    ModuleOf,       \* the module object a loop runs in
    Cron,           \* the configured expressions
    Due,            \* the (expression, wall minute) pairs _cron_matches accepts
    DayLength,      \* minutes of a day
    FoldAt,         \* the instant the clocks go back
    FoldLength,     \* by how much
    Unwritable,     \* the pairs whose claim file may be impossible to write
    Stalls,         \* whether a loop may read one day and claim on the next
    MaxNow,         \* bound: minutes explored
    MaxRestart      \* bound: container restarts explored

Wall(t) == IF t < FoldAt THEN t ELSE t - FoldLength

Day(w) == w \div DayLength

ASSUME TimeAssumption ==
    /\ DayLength \in Nat \ {0}
    /\ FoldAt \in Nat
    /\ FoldLength \in 0..FoldAt
    /\ MaxNow \in Nat
    /\ MaxRestart \in Nat

\* Clocks go back within one calendar day.
ASSUME FoldAssumption ==
    \A t \in 0..MaxNow : Day(Wall(t)) <= Day(Wall(t + 1))

ASSUME LoopAssumption ==
    /\ ModuleOf \in [Loop -> Module]
    /\ Cron # {}
    /\ Due \subseteq Cron \X (0..MaxNow)
    /\ Unwritable \subseteq Cron \X (0..MaxNow)
    /\ Stalls \in BOOLEAN

Instant == 0..MaxNow
Key == Cron \X Instant

\* The dictionary entry of an expression that has not fired yet.
Never == MaxNow + 1

VARIABLES
    now,         \* real time, in minutes
    claims,      \* SCHEDULER_FIRE_CLAIM_DIR
    lastFired,   \* _scheduler_last_fired of each module object
    pc,          \* where each loop is in its iteration
    stamp,       \* its current_minute
    todo,        \* the due expressions its for loop has yet to try
    firing,      \* the expression it is claiming or running
    fires,       \* history: how often each pair was fired
    restarts     \* how many restarts there have been

vars == <<now, claims, lastFired, pc, stamp, todo, firing, fires, restarts>>

NoEntries == [m \in Module |-> [c \in Cron |-> Never]]

Init ==
    /\ now = 0
    /\ claims = {}
    /\ lastFired = NoEntries
    /\ pc = [l \in Loop |-> "top"]
    /\ stamp = [l \in Loop |-> 0]
    /\ todo = [l \in Loop |-> {}]
    /\ firing = [l \in Loop |-> CHOOSE c \in Cron : TRUE]
    /\ fires = [k \in Key |-> 0]
    /\ restarts = 0

Goto(l, label) == pc' = [pc EXCEPT ![l] = label]

\* What the loop is claiming, as the claim file's name has it.
KeyOf(l) == <<firing[l], Wall(stamp[l])>>

\* now = datetime.now(local_tz), and the expressions that match it.
ReadClock(l) ==
    /\ pc[l] = "top"
    /\ stamp' = [stamp EXCEPT ![l] = now]
    /\ todo' = [todo EXCEPT ![l] = {c \in Cron : <<c, Wall(now)>> \in Due}]
    /\ Goto(l, "memory")
    /\ UNCHANGED <<now, claims, lastFired, firing, fires, restarts>>

\* Under _scheduler_fire_lock: a sibling loop of this module object was first.
RefusedInMemory(l, c) ==
    /\ pc[l] = "memory"
    /\ c \in todo[l]
    /\ lastFired[ModuleOf[l]][c] = stamp[l]
    /\ todo' = [todo EXCEPT ![l] = @ \ {c}]
    /\ UNCHANGED <<now, claims, lastFired, pc, stamp, firing, fires, restarts>>

\* Mutant of ClaimInMemory: the expression is popped off the list first.
ClaimPopped(l, c) ==
    /\ pc[l] = "memory"
    /\ c \in todo[l]
    /\ lastFired[ModuleOf[l]][c] # stamp[l]
    /\ lastFired' = [lastFired EXCEPT ![ModuleOf[l]][c] = stamp[l]]
    /\ firing' = [firing EXCEPT ![l] = c]
    /\ todo' = [todo EXCEPT ![l] = @ \ {c}]
    /\ Goto(l, "disk")
    /\ UNCHANGED <<now, claims, stamp, fires, restarts>>

\* Under _scheduler_fire_lock: this loop's minute is the newest.
ClaimInMemory(l, c) ==
    /\ pc[l] = "memory"
    /\ c \in todo[l]
    /\ lastFired[ModuleOf[l]][c] # stamp[l]
    /\ lastFired' = [lastFired EXCEPT ![ModuleOf[l]][c] = stamp[l]]
    /\ firing' = [firing EXCEPT ![l] = c]
    /\ Goto(l, "disk")
    /\ UNCHANGED <<now, claims, stamp, todo, fires, restarts>>

\* FileExistsError: `continue` with the next expression.
RefusedOnDisk(l) ==
    /\ pc[l] = "disk"
    /\ KeyOf(l) \in claims
    /\ todo' = [todo EXCEPT ![l] = @ \ {firing[l]}]
    /\ Goto(l, "memory")
    /\ UNCHANGED <<now, claims, lastFired, stamp, firing, fires, restarts>>

\* Mutant of ClaimOnDisk: the file is created without O_EXCL.
ClaimOverwriting(l) ==
    /\ pc[l] = "disk"
    /\ claims' = claims \cup {KeyOf(l)}
    /\ Goto(l, "prune")
    /\ UNCHANGED <<now, lastFired, stamp, todo, firing, fires, restarts>>

ClaimOnDisk(l) ==
    /\ pc[l] = "disk"
    /\ KeyOf(l) \notin claims
    /\ claims' = claims \cup {KeyOf(l)}
    /\ Goto(l, "prune")
    /\ UNCHANGED <<now, lastFired, stamp, todo, firing, fires, restarts>>

\* Fails open, and returns before the pruning.
ClaimUnwritable(l) ==
    /\ pc[l] = "disk"
    /\ KeyOf(l) \in Unwritable
    /\ Goto(l, "fire")
    /\ UNCHANGED <<now, claims, lastFired, stamp, todo, firing, fires, restarts>>

\* Mutant of PruneFireClaims: the files of today go as well.
PruneToday(l) ==
    /\ pc[l] = "prune"
    /\ claims' = {k \in claims : Day(k[2]) > Day(Wall(stamp[l]))}
    /\ Goto(l, "fire")
    /\ UNCHANGED <<now, lastFired, stamp, todo, firing, fires, restarts>>

\* Mutant of PruneFireClaims: an error in it is taken for a refused claim.
PruneRefuses(l) ==
    /\ pc[l] = "prune"
    /\ todo' = [todo EXCEPT ![l] = @ \ {firing[l]}]
    /\ Goto(l, "memory")
    /\ UNCHANGED <<now, claims, lastFired, stamp, firing, fires, restarts>>

PruneFireClaims(l) ==
    /\ pc[l] = "prune"
    /\ claims' = {k \in claims : Day(k[2]) >= Day(Wall(stamp[l]))}
    /\ Goto(l, "fire")
    /\ UNCHANGED <<now, lastFired, stamp, todo, firing, fires, restarts>>

\* The scheduled run is started or queued; `break` drops the other expressions.
Fire(l) ==
    /\ pc[l] = "fire"
    /\ fires' = [fires EXCEPT ![KeyOf(l)] = @ + 1]
    /\ todo' = [todo EXCEPT ![l] = {}]
    /\ Goto(l, "memory")
    /\ UNCHANGED <<now, claims, lastFired, stamp, firing, restarts>>

\* The run, if any, is over and the loop has slept.
EndIteration(l) ==
    /\ pc[l] = "memory"
    /\ todo[l] = {}
    /\ Goto(l, "top")
    /\ UNCHANGED <<now, claims, lastFired, stamp, todo, firing, fires, restarts>>

\* A loop has read the clock and not yet claimed what is due.
Claiming(l) == pc[l] \in {"memory", "disk"} /\ todo[l] # {}

Tick ==
    /\ now < MaxNow
    /\ Stalls \/ Day(Wall(now + 1)) = Day(Wall(now)) \/ \A l \in Loop : ~Claiming(l)
    /\ now' = now + 1
    /\ UNCHANGED <<claims, lastFired, pc, stamp, todo, firing, fires, restarts>>

\* Every process dies and every module is imported afresh.
Restart ==
    /\ restarts < MaxRestart
    /\ restarts' = restarts + 1
    /\ lastFired' = NoEntries
    /\ pc' = [l \in Loop |-> "top"]
    /\ todo' = [l \in Loop |-> {}]
    /\ UNCHANGED <<now, claims, stamp, firing, fires>>

Step(l) ==
    \/ ReadClock(l)
    \/ \E c \in Cron : RefusedInMemory(l, c) \/ ClaimInMemory(l, c)
    \/ RefusedOnDisk(l)
    \/ ClaimOnDisk(l)
    \/ ClaimUnwritable(l)
    \/ PruneFireClaims(l)
    \/ Fire(l)
    \/ EndIteration(l)

Next == (\E l \in Loop : Step(l)) \/ Tick \/ Restart

Spec == Init /\ [][Next]_vars

\* A loop that is running keeps running; the clock need not wait for it.
FairSpec == Spec /\ \A l \in Loop : WF_vars(Step(l))

-----------------------------------------------------------------------------
(* Properties. *)

\* The types; a loop that claims has its expression still on its list.
TypeOK ==
    /\ now \in Instant
    /\ claims \subseteq Key
    /\ lastFired \in [Module -> [Cron -> Instant \cup {Never}]]
    /\ pc \in [Loop -> {"top", "memory", "disk", "prune", "fire"}]
    /\ stamp \in [Loop -> Instant]
    /\ todo \in [Loop -> SUBSET Cron]
    /\ firing \in [Loop -> Cron]
    /\ fires \in [Key -> Nat]
    /\ restarts \in 0..MaxRestart
    /\ \A l \in Loop : pc[l] = "disk" => firing[l] \in todo[l]

\* "Returns True for the first caller to claim this minute anywhere on the box
\* and False for every caller after" (_claim_scheduler_fire): no wall-clock
\* minute of an expression whose claim can be written fires twice, whatever loops
\* are alive, across restarts and across the hour that comes twice.
FiresAtMostOnce == \A k \in Key \ Unwritable : fires[k] <= 1

\* l has its claim and has yet to fire.
Firing(l) == pc[l] \in {"prune", "fire"}

\* A claim is not lost while its process lives: whoever wrote it goes on to fire,
\* although every other loop takes the minute for done.
ClaimLeadsToFire ==
    \A k \in Key : k \in claims /\ restarts = 0 ~> fires[k] > 0 \/ restarts > 0

-----------------------------------------------------------------------------
\* The pair has its file, or belongs to an earlier day than any loop can claim.
Recorded(k) == k \in claims \/ Day(k[2]) < Day(Wall(now))

\* The inductive invariant behind FiresAtMostOnce when no loop claims on the day
\* after it read the clock: a pair that has been fired, or that a loop is about
\* to fire, is recorded, unless its file could not be written.
Inv ==
    /\ \A l \in Loop : Day(Wall(stamp[l])) <= Day(Wall(now))
    /\ \A l \in Loop : pc[l] = "top" => todo[l] = {}
    /\ \A l \in Loop : Claiming(l) => Day(Wall(stamp[l])) = Day(Wall(now))
    /\ \A l \in Loop : Firing(l) /\ KeyOf(l) \notin Unwritable =>
          fires[KeyOf(l)] = 0 /\ Recorded(KeyOf(l))
    /\ \A l, n \in Loop :
          Firing(l) /\ Firing(n) /\ KeyOf(l) = KeyOf(n) /\ KeyOf(l) \notin Unwritable => l = n
    /\ \A k \in Key \ Unwritable : fires[k] > 0 => Recorded(k)
    /\ FiresAtMostOnce
=============================================================================
