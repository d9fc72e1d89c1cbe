---------------------- MODULE SchedulerElectionProofs ----------------------
(* Theorems about SchedulerElection, for any number of processes, attempts *)
(* and container lifetimes.                                                *)
EXTENDS SchedulerElection, TLAPS

\* No step leads out of the types: the disk, the program counters and the
\* attempt counts stay what the code can make them.
THEOREM TypeCorrect == Spec => []TypeOK
<1> USE ProcAssumption, BoundAssumption DEF TypeOK, File, Labels, Outcomes
<1>1. Init => TypeOK
  <2> SUFFICES ASSUME Init PROVE TypeOK
    OBVIOUS
  <2>1. lock \in File /\ guard \in File
    BY DEF Init, NoFile
  <2>2. boot \in 1..MaxBoot
    BY DEF Init
  <2>5. cleanBoot \in BOOLEAN
    BY Zenon DEF Init
  <2>3. pc \in [Proc -> Labels] /\ outcome \in [Proc -> Outcomes]
    BY DEF Init
  <2>4. attempt \in [Proc -> 0..MaxAttempts] /\ \A p \in Proc : attempt[p] < MaxAttempts
    BY DEF Init
  <2> QED
    BY <2>1, <2>2, <2>3, <2>4, <2>5
<1>2. TypeOK /\ [Next]_vars => TypeOK'
  <2> SUFFICES ASSUME TypeOK, [Next]_vars PROVE TypeOK'
    OBVIOUS
  <2>1. CASE UNCHANGED vars
    BY <2>1 DEF vars
  <2>2. CASE Restart
    BY <2>2 DEF Restart
  <2>3. ASSUME NEW p \in Proc, Step(p) \/ Fault(p) \/ Crash(p) PROVE TypeOK'
    <3> USE DEF Goto
    <3>1. CASE Begin(p)
      BY <3>1 DEF Begin
    <3>2. CASE CreateLock(p)
      BY <3>2 DEF CreateLock, Blank
    <3>3. CASE WriteLock(p)
      BY <3>3 DEF WriteLock, Written, Signed
    <3>4. CASE ReadLock(p)
      BY <3>4 DEF ReadLock
    <3>5. CASE OpenGuard(p)
      BY <3>5 DEF OpenGuard, Blank
    <3>6. ASSUME pc[p] \in {"gread", "gunlink", "release"}, NextAttempt(p)
          PROVE  /\ pc' \in [Proc -> Labels]
                 /\ attempt' \in [Proc -> 0..MaxAttempts]
                 /\ \A q \in Proc : pc'[q] \notin {"lost", "dead"} => attempt'[q] < MaxAttempts
      BY <3>6 DEF NextAttempt
    <3>7. CASE ReadGuard(p)
      BY <3>7, <3>6 DEF ReadGuard
    <3>8. CASE UnlinkStaleGuard(p)
      BY <3>8, <3>6 DEF UnlinkStaleGuard, NoFile
    <3>9. CASE WriteGuard(p)
      BY <3>9 DEF WriteGuard, Written, Signed
    <3>10. CASE RecheckLock(p)
      BY <3>10 DEF RecheckLock
    <3>11. CASE SwapLock(p)
      BY <3>11 DEF SwapLock, Signed
    <3>12. CASE ReleaseGuard(p)
      BY <3>12, <3>6 DEF ReleaseGuard, NoFile
    <3>13. CASE Yield(p)
      BY <3>13 DEF Yield
    <3>14. CASE Fault(p)
      BY <3>14 DEF Fault, WriteLockRaises, ReclaimFails, BootstrapRaises
    <3>15. CASE Crash(p)
      BY <3>15 DEF Crash
    <3> QED
      BY <2>3, <3>1, <3>2, <3>3, <3>4, <3>5, <3>7, <3>8, <3>9, <3>10, <3>11,
         <3>12, <3>13, <3>14, <3>15 DEF Step
  <2> QED
    BY <2>1, <2>2, <2>3 DEF Next
<1> QED
  BY <1>1, <1>2, PTL DEF Spec

\* The inductive step: every action keeps Inv.
LEMMA InvStep == TypeOK /\ TypeOK' /\ Inv /\ [Next]_vars => Inv'
<1> SUFFICES ASSUME TypeOK, TypeOK', Inv, [Next]_vars PROVE Inv'
  OBVIOUS
<1> USE ProcAssumption, BoundAssumption
    DEF TypeOK, File, Labels, Outcomes, Inv, Elected, Foreign, HolderAlive, Section
<1>1. CASE UNCHANGED vars
  BY <1>1 DEF vars
<1>2. CASE Restart
  \* Every process is back at the start, and cleanBoot says what the disk holds.
  <2>1. /\ boot' = boot + 1 /\ boot \in Nat
        /\ lock' = lock /\ guard' = guard
        /\ \A p \in Proc : pc'[p] = "idle"
    BY <1>2 DEF Restart
  <2>2. cleanBoot' => lock.pid # NoProc /\ guard = NoFile
    BY <1>2, Zenon DEF Restart
  <2>3. guard = NoFile => guard.tok = 0
    BY DEF NoFile
  <2>4. lock'.pid # NoProc => lock'.tok \in 1..boot'
    BY <2>1
  <2>5. cleanBoot' => lock'.pid # NoProc /\ ~Foreign(guard)'
    BY <2>1, <2>2, <2>3
  <2> QED
    BY <2>1, <2>4, <2>5
<1>3. ASSUME NEW p \in Proc, Step(p) \/ Fault(p) \/ Crash(p) PROVE Inv'
  <2> USE DEF Goto
  <2>1. CASE Begin(p)
    BY <2>1 DEF Begin
  <2>2. CASE CreateLock(p)
    \* After a clean boot the lock exists and the create fails.
    BY <2>2 DEF CreateLock, Blank, NoFile
  <2>3. CASE WriteLock(p)
    BY <2>3 DEF WriteLock, Written, Signed
  <2>4. CASE ReadLock(p)
    BY <2>4 DEF ReadLock, Mine
  <2>5. CASE OpenGuard(p)
    \* The guard is missing, so that the section is empty.
    BY <2>5 DEF OpenGuard, Blank, NoFile
  <2>6. CASE ReadGuard(p)
    \* The guard is of this lifetime and is not unlinked.
    BY <2>6 DEF ReadGuard, NextAttempt
  <2>7. CASE UnlinkStaleGuard(p)
    BY <2>7 DEF UnlinkStaleGuard, NextAttempt
  <2>8. CASE WriteGuard(p)
    BY <2>8 DEF WriteGuard, Written, Signed, NoFile
  <2>9. CASE RecheckLock(p)
    BY <2>9 DEF RecheckLock
  <2>10. CASE SwapLock(p)
    \* Nobody else is elected: the lock would name a live process.
    BY <2>10 DEF SwapLock, Signed
  <2>11. CASE ReleaseGuard(p)
    \* p alone was in the section, so that nobody needs the guard it unlinks.
    BY <2>11 DEF ReleaseGuard, NextAttempt, NoFile
  <2>12. CASE Yield(p)
    BY <2>12 DEF Yield
  <2>13. CASE Fault(p)
    BY <2>13 DEF Fault, WriteLockRaises, ReclaimFails, BootstrapRaises
  <2>14. CASE Crash(p)
    BY <2>14 DEF Crash
  <2> QED
    BY <1>3, <2>1, <2>2, <2>3, <2>4, <2>5, <2>6, <2>7, <2>8, <2>9, <2>10, <2>11,
       <2>12, <2>13, <2>14 DEF Step
<1> QED
  BY <1>1, <1>2, <1>3 DEF Next

\* Inv holds of every reachable state.
THEOREM Invariance == Spec => []Inv
<1>1. Init => Inv
  <2> SUFFICES ASSUME Init PROVE Inv
    OBVIOUS
  <2>1. ~cleanBoot
    BY Zenon DEF Init
  <2>2. lock.pid = NoProc
    BY DEF Init, NoFile
  <2> QED
    BY <2>1, <2>2 DEF Inv
<1> QED
  BY <1>1, InvStep, TypeCorrect, PTL DEF Spec

\* In a container lifetime that begins with the previous one's complete lock
\* and no leftover guard, at most one process hosts the cron scheduler.
THEOREM AtMostOneScheduler == Spec => []OneHostAfterCleanBoot
<1>1. Inv => OneHostAfterCleanBoot
  BY DEF Inv, OneHostAfterCleanBoot, AtMostOneHost, Hosts, Elected
<1> QED
  BY <1>1, Invariance, PTL

\* In such a lifetime the guard of _reclaim_scheduler_lock elects one reclaimer.
THEOREM ReclaimersExcludeEachOther == Spec => []OneReclaimer
<1>1. Inv => OneReclaimer
  BY DEF Inv, OneReclaimer
<1> QED
  BY <1>1, Invariance, PTL

\* In such a lifetime the lock file names the host while it hosts, which is what
\* _owns_scheduler_lock and _scheduler_lock_taken_over read.
THEOREM LockNamesTheHost == Spec => []HostOwnsLock
<1>1. Inv => HostOwnsLock
  BY DEF Inv, HostOwnsLock, Hosts, Elected
<1> QED
  BY <1>1, Invariance, PTL
-----------------------------------------------------------------------------
(* Somebody hosts. *)

\* The lock names a process of this lifetime.
Claimed == lock.pid # NoProc /\ lock.tok = boot

\* Nobody has claimed the lock, and nobody is about to.
Untouched == ~Claimed /\ \A p \in Proc : pc[p] \notin Section

\* As long as nobody crashes or raises: the process the lock names is elected; until the
\* lock is claimed nobody hosts, and a process that writes its lock writes the one that is
\* there; and until the guard is taken nobody has given up, since the only attempt that is
\* lost goes to a leftover guard of an earlier lifetime, and only while it is unlinked.
HostInv ==
    Faulty = {} /\ (\A p \in Proc : pc[p] # "dead") =>
      /\ Claimed => Elected(lock.pid)
      /\ ~Claimed => \A p \in Proc :
           /\ pc[p] \notin {"host", "yielded", "release"}
           /\ pc[p] = "write" => lock.by = p
      /\ Untouched => \A p \in Proc :
           /\ guard # NoFile /\ ~Foreign(guard) => pc[p] # "gunlink"
           /\ p \notin Ineligible /\ (guard = NoFile \/ Foreign(guard)) =>
                /\ pc[p] # "lost"
                /\ \/ attempt[p] = 0
                   \/ guard = NoFile /\ attempt[p] = 1 /\ pc[p] \notin {"gread", "gunlink"}

LEMMA HostInvStep ==
    ASSUME MaxAttempts > 1
    PROVE  TypeOK /\ TypeOK' /\ Inv /\ HostInv /\ [Next]_vars => HostInv'
<1> SUFFICES ASSUME TypeOK, TypeOK', Inv, HostInv, [Next]_vars,
                    Faulty = {}, \A p \in Proc : pc'[p] # "dead"
             PROVE  HostInv'
  BY DEF HostInv
<1> USE ProcAssumption, BoundAssumption
<1>1. CASE UNCHANGED vars
  BY <1>1 DEF vars, HostInv, Claimed, Untouched, Elected, Foreign, Section
<1>2. CASE Restart
  \* No lock of this lifetime is there yet, and everybody is at the start.
  <2>1. /\ boot' = boot + 1 /\ boot \in Nat /\ lock' = lock /\ guard' = guard
        /\ \A p \in Proc : pc'[p] = "idle" /\ attempt'[p] = 0
    BY <1>2 DEF Restart, TypeOK
  <2>2. ~Claimed'
    BY <2>1 DEF Claimed, Inv, TypeOK, File
  <2> QED
    BY <2>1, <2>2 DEF HostInv
<1>3. ASSUME NEW p \in Proc, Step(p) \/ Fault(p) \/ Crash(p) PROVE HostInv'
  <2>1. \A q \in Proc : pc[q] # "dead"
    <3>1. ~Fault(p)
      BY DEF Fault, WriteLockRaises, ReclaimFails, BootstrapRaises
    <3>2. ~Crash(p)
      BY DEF Crash, Goto, TypeOK
    <3>3. \E label \in Labels : pc' = [pc EXCEPT ![p] = label] /\ pc[p] # "dead"
      BY <1>3, <3>1, <3>2
      DEF Step, Goto, NextAttempt, Labels, Begin, CreateLock, WriteLock, ReadLock, OpenGuard,
          ReadGuard, UnlinkStaleGuard, WriteGuard, RecheckLock, SwapLock, ReleaseGuard, Yield
    <3> QED
      BY <3>3 DEF TypeOK
  <2>2. /\ Claimed => Elected(lock.pid)
        /\ ~Claimed => \A q \in Proc :
             /\ pc[q] \notin {"host", "yielded", "release"}
             /\ pc[q] = "write" => lock.by = q
        /\ Untouched => \A q \in Proc :
             /\ guard # NoFile /\ ~Foreign(guard) => pc[q] # "gunlink"
             /\ q \notin Ineligible /\ (guard = NoFile \/ Foreign(guard)) =>
                  /\ pc[q] # "lost"
                  /\ \/ attempt[q] = 0
                     \/ guard = NoFile /\ attempt[q] = 1 /\ pc[q] \notin {"gread", "gunlink"}
    BY <2>1 DEF HostInv
  <2>3. lock.pid # NoProc => lock.tok \in 1..boot
    BY DEF Inv
  <2> HIDE DEF Inv
  <2> USE DEF TypeOK, File, Labels, Outcomes, Elected, Foreign, HolderAlive, Section,
              Claimed, Untouched, Goto
  <2>4. CASE Begin(p)
    BY <2>2, <2>4 DEF Begin, HostInv
  <2>5. CASE CreateLock(p)
    BY <2>2, <2>5 DEF CreateLock, Blank, NoFile, HostInv
  <2>6. CASE WriteLock(p)
    BY <2>2, <2>6 DEF WriteLock, Written, Signed, HostInv
  <2>7. CASE ReadLock(p)
    BY <2>1, <2>2, <2>3, <2>7 DEF ReadLock, Mine, HostInv
  <2>8. CASE OpenGuard(p)
    BY <2>2, <2>8 DEF OpenGuard, Blank, NoFile, HostInv
  <2>9. CASE ReadGuard(p)
    BY <2>2, <2>9 DEF ReadGuard, NextAttempt, NoFile, HostInv
  <2>10. CASE UnlinkStaleGuard(p)
    BY <2>2, <2>10 DEF UnlinkStaleGuard, NextAttempt, NoFile, HostInv
  <2>11. CASE WriteGuard(p)
    BY <2>2, <2>11 DEF WriteGuard, Written, Signed, NoFile, HostInv
  <2>12. CASE RecheckLock(p)
    BY <2>1, <2>2, <2>3, <2>12 DEF RecheckLock, HostInv
  <2>13. CASE SwapLock(p)
    BY <2>2, <2>13 DEF SwapLock, Signed, HostInv
  <2>14. CASE ReleaseGuard(p)
    BY <2>2, <2>14 DEF ReleaseGuard, NextAttempt, NoFile, HostInv
  <2>15. CASE Yield(p)
    BY <2>2, <2>15 DEF Yield, HostInv
  <2>16. ~Fault(p) /\ ~Crash(p)
    BY DEF Fault, WriteLockRaises, ReclaimFails, BootstrapRaises, Crash
  <2> QED
    BY <1>3, <2>4, <2>5, <2>6, <2>7, <2>8, <2>9, <2>10, <2>11, <2>12, <2>13, <2>14, <2>15,
       <2>16 DEF Step
<1> QED
  BY <1>1, <1>2, <1>3 DEF Next

\* With more than one attempt, an election nobody crashes or raises in has a winner, or a
\* leftover guard that cannot be told from one in use is in the way: whatever the lock and
\* the guard were at boot, in whatever order the processes race, and however many there are.
THEOREM SomebodyHosts ==
    ASSUME MaxAttempts > 1
    PROVE  Spec => []SettledHasHost
<1>1. Init => HostInv
  <2> SUFFICES ASSUME Init PROVE HostInv
    OBVIOUS
  <2> QED
    BY ProcAssumption DEF Init, HostInv, Claimed, Untouched, NoFile, Foreign
<1>2. TypeOK /\ Inv /\ HostInv => SettledHasHost
  <2> SUFFICES ASSUME TypeOK, Inv, HostInv, Settled, guard = NoFile, Faulty = {},
                      \A p \in Proc : pc[p] # "dead", Proc # Ineligible
               PROVE  Hosts # {}
    BY DEF SettledHasHost
  <2>1. PICK p \in Proc : p \notin Ineligible
    BY ProcAssumption
  <2>2. Claimed
    BY <2>1 DEF HostInv, Settled, Untouched, Section
  <2>3. Elected(lock.pid) /\ lock.pid \in Proc
    BY <2>2 DEF HostInv, Claimed, TypeOK, File
  <2>4. pc[lock.pid] = "host"
    BY <2>3 DEF Elected, Settled
  <2> QED
    BY <2>3, <2>4 DEF Hosts
<1> QED
  BY <1>1, <1>2, HostInvStep, TypeCorrect, Invariance, PTL DEF Spec
=============================================================================
