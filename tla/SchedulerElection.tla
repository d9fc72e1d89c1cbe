------------------------- MODULE SchedulerElection -------------------------
(***************************************************************************)
(* Which of a container's processes hosts the cron scheduler.              *)
(*                                                                         *)
(* Every process imports the plugin and runs _acquire_scheduler_lock: an   *)
(* O_CREAT|O_EXCL create of the lock file and, when the file is already    *)
(* there, a bounded number of attempts to reclaim it under a second        *)
(* O_EXCL file, the guard.  One action is one system call on one of the    *)
(* two files, so everything another process may see in between is a state. *)
(*                                                                         *)
(* A file is the record of its inode's creator and of its two lines, the   *)
(* holder's pid and the boot token.  A write goes to the inode the writer  *)
(* opened, and lands on the path only while the path still names it; an    *)
(* unlink and a replace go to the path, whichever inode is there.          *)
(* Tokens are container lifetimes: `boot` is the current one.  Both files  *)
(* live on the persistent volume and outlive a restart, which kills every  *)
(* process at any point and hands the same pids out again.                 *)
(***************************************************************************)
EXTENDS Naturals, FiniteSets

CONSTANTS
    Proc,         \* the processes of a container, named by their pids
    Ineligible,   \* those whose command line names the ASGI server
    Faulty,       \* those whose file writes or settings read may raise
    NoProc,       \* the pid 0 a blank file reads as
    MaxAttempts,  \* the iterations of the acquire loop (8 in the code)
    MaxBoot       \* bound: container lifetimes explored

ASSUME ProcAssumption ==
    /\ NoProc \notin Proc
    /\ Ineligible \subseteq Proc
    /\ Faulty \subseteq Proc

ASSUME BoundAssumption ==
    /\ MaxAttempts \in Nat \ {0}
    /\ MaxBoot \in Nat \ {0}

VARIABLES
    boot,       \* the container lifetime, hence the boot token
    lock,       \* SCHEDULER_LOCK_FILE
    guard,      \* SCHEDULER_LOCK_FILE.reclaim
    pc,         \* where each process is in _init_scheduler
    attempt,    \* iterations of the acquire loop it has used up
    outcome,    \* what its reclaim returns once the guard is released
    cleanBoot   \* history: this lifetime began with a complete lock, no guard

vars == <<boot, lock, guard, pc, attempt, outcome, cleanBoot>>

-----------------------------------------------------------------------------
(* Files. *)

File == [by : Proc \cup {NoProc}, pid : Proc \cup {NoProc}, tok : 0..MaxBoot]

NoFile == [by |-> NoProc, pid |-> NoProc, tok |-> 0]

\* What open(O_CREAT|O_EXCL) leaves: an inode of p's with nothing in it.
Blank(p) == [by |-> p, pid |-> NoProc, tok |-> 0]

\* What _write_lock_fd makes of it.
Signed(p) == [by |-> p, pid |-> p, tok |-> boot]

\* A write through a descriptor: it lands unless the path has moved on.
Written(f, p) == IF f.by = p THEN Signed(p) ELSE f

\* The file carries the token of an earlier container lifetime.
Foreign(f) == f.tok \notin {0, boot}

\* Mutant of HolderAlive: the boot token is not compared.
HolderAliveByPid(f) == f.pid # NoProc /\ pc[f.pid] # "dead"

\* The holder the file names must be respected.
HolderAlive(f) ==
    /\ f.pid # NoProc
    /\ ~Foreign(f)
    /\ pc[f.pid] # "dead"

-----------------------------------------------------------------------------
Labels == {"idle", "create", "write", "read", "guard", "gread", "gunlink",
           "gwrite", "recheck", "swap", "release",
           "host", "yielded", "lost", "dead"}

\* The section of _reclaim_scheduler_lock that the guard protects.
Section == {"gwrite", "recheck", "swap", "release"}

Outcomes == {"won", "skip", "retry", "raised"}

Init ==
    /\ boot = 1
    /\ lock = NoFile
    /\ guard = NoFile
    /\ pc = [p \in Proc |-> "idle"]
    /\ attempt = [p \in Proc |-> 0]
    /\ outcome = [p \in Proc |-> "retry"]
    /\ cleanBoot = FALSE

Goto(p, label) == pc' = [pc EXCEPT ![p] = label]

\* Mutant of NextAttempt: one attempt too many.
OneMoreAttempt(p) ==
    /\ attempt' = [attempt EXCEPT ![p] = @ + 1]
    /\ Goto(p, IF attempt[p] + 1 <= MaxAttempts THEN "create" ELSE "lost")

\* `continue` in the acquire loop; the last attempt returns False.
NextAttempt(p) ==
    /\ attempt' = [attempt EXCEPT ![p] = @ + 1]
    /\ Goto(p, IF attempt[p] + 1 < MaxAttempts THEN "create" ELSE "lost")

-----------------------------------------------------------------------------
(* The acquire loop. *)

\* A Plugin is constructed in p, and the ASGI process steps aside.
Begin(p) ==
    /\ pc[p] = "idle"
    /\ attempt' = [attempt EXCEPT ![p] = 0]
    /\ Goto(p, IF p \in Ineligible THEN "lost" ELSE "create")
    /\ UNCHANGED <<boot, lock, guard, outcome, cleanBoot>>

CreateLock(p) ==
    /\ pc[p] = "create"
    /\ IF lock = NoFile
         THEN lock' = Blank(p) /\ Goto(p, "write")
         ELSE Goto(p, "read") /\ UNCHANGED lock
    /\ UNCHANGED <<boot, guard, attempt, outcome, cleanBoot>>

WriteLock(p) ==
    /\ pc[p] = "write"
    /\ lock' = Written(lock, p)
    /\ Goto(p, "host")
    /\ UNCHANGED <<boot, guard, attempt, outcome, cleanBoot>>

\* Mutant of Mine: the boot token is not compared.
MineByPid(f, p) == f.pid = p

\* The lock already names this process in this lifetime: re-entry.
Mine(f, p) == f.pid = p /\ ~Foreign(f)

ReadLock(p) ==
    /\ pc[p] = "read"
    /\ Goto(p, IF Mine(lock, p) THEN "host"
               ELSE IF HolderAlive(lock) THEN "lost"
               ELSE "guard")
    /\ UNCHANGED <<boot, lock, guard, attempt, outcome, cleanBoot>>

-----------------------------------------------------------------------------
(* _reclaim_scheduler_lock. *)

OpenGuard(p) ==
    /\ pc[p] = "guard"
    /\ IF guard = NoFile
         THEN guard' = Blank(p) /\ Goto(p, "gwrite")
         ELSE Goto(p, "gread") /\ UNCHANGED guard
    /\ UNCHANGED <<boot, lock, attempt, outcome, cleanBoot>>

\* Mutant of ReadGuard: a guard is taken for stale whoever left it.
ReadGuardDistrusts(p) ==
    /\ pc[p] = "gread"
    /\ Goto(p, "gunlink")
    /\ UNCHANGED <<boot, lock, guard, attempt, outcome, cleanBoot>>

\* The guard is somebody else's: only one of an earlier lifetime is cleared.
ReadGuard(p) ==
    /\ pc[p] = "gread"
    /\ IF Foreign(guard)
         THEN Goto(p, "gunlink") /\ UNCHANGED attempt
         ELSE NextAttempt(p)
    /\ UNCHANGED <<boot, lock, guard, outcome, cleanBoot>>

UnlinkStaleGuard(p) ==
    /\ pc[p] = "gunlink"
    /\ guard' = NoFile
    /\ NextAttempt(p)
    /\ UNCHANGED <<boot, lock, outcome, cleanBoot>>

WriteGuard(p) ==
    /\ pc[p] = "gwrite"
    /\ guard' = Written(guard, p)
    /\ Goto(p, "recheck")
    /\ UNCHANGED <<boot, lock, attempt, outcome, cleanBoot>>

\* Mutant of RecheckLock: the lock is not read again.
RecheckNothing(p) ==
    /\ pc[p] = "recheck"
    /\ Goto(p, "swap")
    /\ UNCHANGED <<boot, lock, guard, attempt, outcome, cleanBoot>>

\* The lock is read again inside the section.
RecheckLock(p) ==
    /\ pc[p] = "recheck"
    /\ IF lock.pid # p /\ HolderAlive(lock)
         THEN /\ outcome' = [outcome EXCEPT ![p] = "skip"]
              /\ Goto(p, "release")
         ELSE Goto(p, "swap") /\ UNCHANGED outcome
    /\ UNCHANGED <<boot, lock, guard, attempt, cleanBoot>>

\* Mutant of SwapLock: the stale lock is unlinked for the loop to create anew.
UnlinkLock(p) ==
    /\ pc[p] = "swap"
    /\ lock' = NoFile
    /\ outcome' = [outcome EXCEPT ![p] = "retry"]
    /\ Goto(p, "release")
    /\ UNCHANGED <<boot, guard, attempt, cleanBoot>>

\* os.replace of a complete file over the path.
SwapLock(p) ==
    /\ pc[p] = "swap"
    /\ lock' = Signed(p)
    /\ outcome' = [outcome EXCEPT ![p] = "won"]
    /\ Goto(p, "release")
    /\ UNCHANGED <<boot, guard, attempt, cleanBoot>>

\* The finally clause: whatever the path names is unlinked.
ReleaseGuard(p) ==
    /\ pc[p] = "release"
    /\ guard' = NoFile
    /\ \/ outcome[p] = "won"    /\ Goto(p, "host") /\ UNCHANGED attempt
       \/ outcome[p] = "skip"   /\ Goto(p, "lost") /\ UNCHANGED attempt
       \/ outcome[p] = "raised" /\ Goto(p, "idle") /\ UNCHANGED attempt
       \/ outcome[p] = "retry"  /\ NextAttempt(p)
    /\ UNCHANGED <<boot, lock, outcome, cleanBoot>>

-----------------------------------------------------------------------------
(* What may go wrong, and what happens around the election. *)

\* Writing the fresh lock raises: _init_scheduler logs it and leaves the
\* process uninitialised, so that the next Plugin constructed tries again.
WriteLockRaises(p) ==
    /\ p \in Faulty
    /\ pc[p] = "write"
    /\ Goto(p, "idle")
    /\ UNCHANGED <<boot, lock, guard, attempt, outcome, cleanBoot>>

\* Writing the guard raises, or the replacement file cannot be installed.
ReclaimFails(p) ==
    /\ p \in Faulty
    /\ \/ pc[p] = "gwrite" /\ outcome' = [outcome EXCEPT ![p] = "raised"]
       \/ pc[p] = "swap"   /\ outcome' = [outcome EXCEPT ![p] = "retry"]
    /\ Goto(p, "release")
    /\ UNCHANGED <<boot, lock, guard, attempt, cleanBoot>>

\* The elected process cannot read its settings: it will be elected again.
BootstrapRaises(p) ==
    /\ p \in Faulty
    /\ pc[p] = "host"
    /\ Goto(p, "idle")
    /\ UNCHANGED <<boot, lock, guard, attempt, outcome, cleanBoot>>

\* Mutant of Yield: only a lock of another lifetime is taken for another's.
YieldToForeign(p) ==
    /\ pc[p] = "host"
    /\ lock.pid \notin {NoProc, p}
    /\ Foreign(lock)
    /\ Goto(p, "yielded")
    /\ UNCHANGED <<boot, lock, guard, attempt, outcome, cleanBoot>>

\* A loop iteration of a host finds another readable pid in the lock.
Yield(p) ==
    /\ pc[p] = "host"
    /\ lock.pid \notin {NoProc, p}
    /\ Goto(p, "yielded")
    /\ UNCHANGED <<boot, lock, guard, attempt, outcome, cleanBoot>>

\* One process of the container dies, with whatever it left on disk.
Crash(p) ==
    /\ pc[p] # "dead"
    /\ Goto(p, "dead")
    /\ UNCHANGED <<boot, lock, guard, attempt, outcome, cleanBoot>>

\* The container is replaced: every process at once, at any point.
Restart ==
    /\ boot < MaxBoot
    /\ boot' = boot + 1
    /\ pc' = [p \in Proc |-> "idle"]
    /\ attempt' = [p \in Proc |-> 0]
    /\ outcome' = [p \in Proc |-> "retry"]
    /\ cleanBoot' = (lock.pid # NoProc /\ guard = NoFile)
    /\ UNCHANGED <<lock, guard>>

Step(p) ==
    \/ Begin(p)
    \/ CreateLock(p)
    \/ WriteLock(p)
    \/ ReadLock(p)
    \/ OpenGuard(p)
    \/ ReadGuard(p)
    \/ UnlinkStaleGuard(p)
    \/ WriteGuard(p)
    \/ RecheckLock(p)
    \/ SwapLock(p)
    \/ ReleaseGuard(p)
    \/ Yield(p)

Fault(p) ==
    \/ WriteLockRaises(p)
    \/ ReclaimFails(p)
    \/ BootstrapRaises(p)

Next ==
    \/ \E p \in Proc : Step(p) \/ Fault(p) \/ Crash(p)
    \/ Restart

Spec == Init /\ [][Next]_vars

\* No process crashes on its own, and containers still restart.  A process that
\* is running gets to its next instruction, and a host's loop to its next iteration.
NextNoCrash ==
    \/ \E p \in Proc : Step(p)
    \/ Restart

SpecNoCrash ==
    /\ Init
    /\ [][NextNoCrash]_vars
    /\ \A p \in Proc : WF_vars(Step(p))

-----------------------------------------------------------------------------
(* Properties. *)

\* The types, and a process that is still in the acquire loop has an attempt left.
TypeOK ==
    /\ boot \in 1..MaxBoot
    /\ lock \in File
    /\ guard \in File
    /\ pc \in [Proc -> Labels]
    /\ attempt \in [Proc -> 0..MaxAttempts]
    /\ outcome \in [Proc -> Outcomes]
    /\ cleanBoot \in BOOLEAN
    /\ \A p \in Proc : pc[p] \notin {"lost", "dead"} => attempt[p] < MaxAttempts

Hosts == {p \in Proc : pc[p] = "host"}

\* At most one process hosts the scheduler: "exactly one of any number of
\* racing processes creates the lock file, so exactly one wins", the
\* docstring of _acquire_scheduler_lock.
AtMostOneHost == \A p, q \in Hosts : p = q

\* The same in a lifetime that begins with the previous container's complete
\* lock and no leftover guard, which is every ordinary restart.
OneHostAfterCleanBoot == cleanBoot => AtMostOneHost

\* After a clean boot the guard elects a single reclaimer: the section from
\* its creation to its unlink never holds two live processes.
OneReclaimer ==
    cleanBoot => \A p, q \in Proc : pc[p] \in Section /\ pc[q] \in Section => p = q

\* After a clean boot the lock names a host for as long as it hosts, so that
\* _owns_scheduler_lock tells a run() of that process the truth and
\* _scheduler_lock_taken_over never evicts the rightful scheduler.
HostOwnsLock == cleanBoot => \A p \in Hosts : lock.pid = p /\ lock.tok = boot

\* No process is in the acquire loop.
Settled == \A p \in Proc : pc[p] \in {"host", "yielded", "lost", "dead"}

\* When every process has come out of its loop and none of this lifetime has
\* crashed or raised, somebody hosts, unless a leftover guard is in the way: the
\* attempts run out only for processes somebody else has beaten, and of two
\* duplicates at most one yields.
SettledHasHost ==
    /\ Settled
    /\ guard = NoFile
    /\ Faulty = {}
    /\ \A p \in Proc : pc[p] # "dead"
    /\ Proc # Ineligible
    => Hosts # {}

\* Whatever the files were at boot, duplicate hosts do not last: the one the
\* lock does not name leaves its loop (_scheduler_lock_taken_over).
DuplicatesYield == <>[]AtMostOneHost

-----------------------------------------------------------------------------
(* The inductive invariant behind the three safety properties. *)

\* p is elected: it hosts, or has installed its lock and releases the guard.
Elected(p) == pc[p] = "host" \/ (pc[p] = "release" /\ outcome[p] = "won")

\* After a clean boot the lock stays complete, so that no create of it ever
\* succeeds and every winner has come through the guard; the guard is of this
\* lifetime, so that nobody unlinks another's; whoever is about to replace the
\* lock has found no live holder in it and nobody else can install one; and the
\* lock names the process it has elected.
Inv ==
    /\ lock.pid # NoProc => lock.tok \in 1..boot
    /\ cleanBoot =>
        /\ lock.pid # NoProc
        /\ ~Foreign(guard)
        /\ \A p \in Proc : pc[p] \notin {"write", "gunlink"}
        /\ \A p \in Proc : pc[p] \in Section => guard # NoFile
        /\ \A p, q \in Proc : pc[p] \in Section /\ pc[q] \in Section => p = q
        /\ \A p \in Proc : pc[p] = "swap" => lock.pid = p \/ ~HolderAlive(lock)
        /\ \A p \in Proc : Elected(p) => lock.pid = p /\ lock.tok = boot
=============================================================================
