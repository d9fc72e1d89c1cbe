------------------------ MODULE SchedulerLoopProofs ------------------------
(* Theorems about SchedulerLoop, for any number of loop threads and of     *)
(* requests served at a time, any schedules, and any number of restarts.   *)
EXTENDS SchedulerLoop, TLAPS

\* The stop event is set only while someone waits for the loop that is to hear it, so
\* that the loop started next never finds it set.
Meant == event => \E c \in Caller : caller[c] = "joining"

\* There is a loop, unless it is being replaced or the module is all but unloaded.
Kept ==
    started /\ LockFree /\ caller["unload"] # "unloaded" =>
        current # Nobody /\ loop[current] # "none"

\* The module is not imported while it is being unloaded.
OneAtATime == caller["unload"] # "none" => caller["boot"] = "none"

Inv == TypeOK /\ Meant /\ OneAtATime /\ Kept

LEMMA InitInv == Init => Inv
<1> SUFFICES ASSUME Init
             PROVE  Inv
  OBVIOUS
<1>1. TypeOK
  <2>1. /\ caller \in [Caller -> {"none", "down", "resume", "waiting", "joining", "replacing",
                                  "unloaded"}]
        /\ given \in [Caller -> Saved] /\ force \in [Loop -> Saved]
    BY DEF Init, Saved
  <2>2. disruptions \in 0..MaxDisruptions
    BY LoopAssumption DEF Init
  <2> QED
    BY <2>1, <2>2 DEF Init, TypeOK, Slow
<1>2. Meant /\ OneAtATime /\ Kept
  BY DEF Init, Meant, OneAtATime, Kept, Caller
<1> QED
  BY <1>1, <1>2 DEF Inv

\* The types, action by action.
LEMMA TypesKept ==
    ASSUME TypeOK, [Next]_vars
    PROVE  TypeOK'
<1> USE LoopAssumption
    DEF TypeOK, stored, module, calling, loops, history, Goto, Becomes, Slow, Saved,
        Caller
<1>1. ASSUME NEW c \in Caller, Enter(c)
      PROVE  TypeOK'
  BY <1>1 DEF Enter, AfterStop
<1>2. ASSUME NEW c \in Caller, Joined(c)
      PROVE  TypeOK'
  BY <1>2 DEF Joined, AfterStop
<1>3. ASSUME NEW c \in Caller, Replace(c)
      PROVE  TypeOK'
  BY <1>3 DEF Replace
<1>4. CASE Bootstrap
  BY <1>4 DEF Bootstrap
<1>5. CASE MaybeResume
  BY <1>5 DEF MaybeResume
<1>6. ASSUME NEW l \in Loop, Wakes(l)
      PROVE  TypeOK'
  BY <1>6 DEF Wakes
<1>7. ASSUME NEW l \in Loop, CheckFlag(l)
      PROVE  TypeOK'
  BY <1>7 DEF CheckFlag
<1>8. ASSUME NEW l \in Loop, Reread(l)
      PROVE  TypeOK'
  BY <1>8 DEF Reread
<1>9. ASSUME NEW l \in Loop, RereadFails(l)
      PROVE  TypeOK'
  <2>1. disruptions' \in 0..MaxDisruptions
    BY <1>9 DEF RereadFails
  <2>2. force' \in [Loop -> Saved]
    BY <1>9 DEF RereadFails
  <2> QED
    BY <1>9, <2>1, <2>2 DEF RereadFails
<1>10. ASSUME NEW l \in Loop, Fire(l)
      PROVE  TypeOK'
  BY <1>10 DEF Fire
<1>11. ASSUME NEW l \in Loop, NoMatch(l)
      PROVE  TypeOK'
  BY <1>11 DEF NoMatch
<1>12. ASSUME NEW l \in Loop, CheckQueue(l)
      PROVE  TypeOK'
  BY <1>12 DEF CheckQueue
<1>13. ASSUME NEW l \in Loop, Dequeue(l)
      PROVE  TypeOK'
  BY <1>13 DEF Dequeue
<1>14. ASSUME NEW l \in Loop, StartScan(l)
      PROVE  TypeOK'
  BY <1>14 DEF StartScan, Back
<1>15. ASSUME NEW l \in Loop, WaitEnds(l)
      PROVE  TypeOK'
  BY <1>15 DEF WaitEnds, Back
<1>16. ASSUME NEW l \in Loop, PostEnds(l)
      PROVE  TypeOK'
  BY <1>16 DEF PostEnds, Back
<1>17. ASSUME NEW s \in Saved, UpdateElsewhere(s)
      PROVE  TypeOK'
  <2>1. calm' \in BOOLEAN
    BY <1>17 DEF UpdateElsewhere, Save, Settled
  <2> QED
    BY <1>17, <2>1 DEF UpdateElsewhere, Save, Ready
<1>18. ASSUME NEW s \in Saved, NEW u \in User, UpdateHere(u, s)
      PROVE  TypeOK'
  <2>1. calm' \in BOOLEAN
    BY <1>18 DEF UpdateHere, Save, Settled
  <2> QED
    BY <1>18, <2>1 DEF UpdateHere, Save, Ready
<1>19. CASE UserChecks
  BY <1>19 DEF UserChecks
<1>20. CASE ScanEnds
  BY <1>20 DEF ScanEnds
<1>21. CASE Unload
  BY <1>21 DEF Unload
<1>22. CASE Unloaded
  BY <1>22 DEF Unloaded
<1>23. CASE Restart
  <2>1. disruptions' \in 0..MaxDisruptions
    BY <1>23 DEF Restart
  <2>2. /\ caller' \in [Caller -> {"none", "down"}] /\ given' \in [Caller -> Saved]
        /\ force' \in [Loop -> Saved]
    BY <1>23 DEF Restart
  <2> QED
    BY <1>23, <2>1, <2>2 DEF Restart
<1>24. CASE UNCHANGED vars
  BY <1>24 DEF vars
<1> QED
  BY <1>1, <1>2, <1>3, <1>4, <1>5, <1>6, <1>7, <1>8, <1>9, <1>10, <1>11, <1>12, <1>13,
     <1>14, <1>15, <1>16, <1>17, <1>18, <1>19, <1>20, <1>21, <1>22, <1>23, <1>24
  DEF Next, CallStep, BootStep, LoopStep, Saves

\* There is a loop that nothing has told to stop, action by action.
LEMMA LoopKept ==
    ASSUME Inv, [Next]_vars
    PROVE  (Meant /\ OneAtATime /\ Kept)'
<1> USE LoopAssumption
    DEF Inv, TypeOK, Meant, OneAtATime, Kept, LockFree, stored, module, calling, loops,
        history, Goto, Becomes, Slow, Saved, Caller
<1>1. ASSUME NEW c \in Caller, Enter(c)
      PROVE  (Meant /\ OneAtATime /\ Kept)'
  BY <1>1 DEF Enter, AfterStop
<1>2. ASSUME NEW c \in Caller, Joined(c)
      PROVE  (Meant /\ OneAtATime /\ Kept)'
  BY <1>2 DEF Joined, AfterStop
<1>3. ASSUME NEW c \in Caller, Replace(c)
      PROVE  (Meant /\ OneAtATime /\ Kept)'
  BY <1>3 DEF Replace
<1>4. CASE Bootstrap
  BY <1>4 DEF Bootstrap
<1>5. CASE MaybeResume
  BY <1>5 DEF MaybeResume
<1>6. ASSUME NEW l \in Loop, Wakes(l)
      PROVE  (Meant /\ OneAtATime /\ Kept)'
  BY <1>6 DEF Wakes, Stopped
<1>7. ASSUME NEW l \in Loop, CheckFlag(l)
      PROVE  (Meant /\ OneAtATime /\ Kept)'
  BY <1>7 DEF CheckFlag
<1>8. ASSUME NEW l \in Loop, Reread(l)
      PROVE  (Meant /\ OneAtATime /\ Kept)'
  BY <1>8 DEF Reread
<1>9. ASSUME NEW l \in Loop, RereadFails(l)
      PROVE  (Meant /\ OneAtATime /\ Kept)'
  BY <1>9 DEF RereadFails
<1>10. ASSUME NEW l \in Loop, Fire(l)
      PROVE  (Meant /\ OneAtATime /\ Kept)'
  BY <1>10 DEF Fire
<1>11. ASSUME NEW l \in Loop, NoMatch(l)
      PROVE  (Meant /\ OneAtATime /\ Kept)'
  BY <1>11 DEF NoMatch
<1>12. ASSUME NEW l \in Loop, CheckQueue(l)
      PROVE  (Meant /\ OneAtATime /\ Kept)'
  BY <1>12 DEF CheckQueue
<1>13. ASSUME NEW l \in Loop, Dequeue(l)
      PROVE  (Meant /\ OneAtATime /\ Kept)'
  BY <1>13 DEF Dequeue
<1>14. ASSUME NEW l \in Loop, StartScan(l)
      PROVE  (Meant /\ OneAtATime /\ Kept)'
  BY <1>14 DEF StartScan, Back
<1>15. ASSUME NEW l \in Loop, WaitEnds(l)
      PROVE  (Meant /\ OneAtATime /\ Kept)'
  BY <1>15 DEF WaitEnds, Back
<1>16. ASSUME NEW l \in Loop, PostEnds(l)
      PROVE  (Meant /\ OneAtATime /\ Kept)'
  BY <1>16 DEF PostEnds, Back
<1>17. ASSUME NEW s \in Saved, UpdateElsewhere(s)
      PROVE  (Meant /\ OneAtATime /\ Kept)'
  BY <1>17 DEF UpdateElsewhere, Save
<1>18. ASSUME NEW s \in Saved, NEW u \in User, UpdateHere(u, s)
      PROVE  (Meant /\ OneAtATime /\ Kept)'
  BY <1>18 DEF UpdateHere, Save, Ready
<1>19. CASE UserChecks
  BY <1>19 DEF UserChecks
<1>20. CASE ScanEnds
  BY <1>20 DEF ScanEnds
<1>21. CASE Unload
  <2>1. caller' = [caller EXCEPT !["unload"] = "waiting"] /\ caller["unload"] = "none"
    BY <1>21 DEF Unload, Ready
  <2>2. UNCHANGED <<event, current, started, loop>>
    BY <1>21 DEF Unload
  <2>3. caller'["unload"] = "waiting" /\ \A c \in Caller : c # "unload" => caller'[c] = caller[c]
    BY <2>1
  <2>4. caller["boot"] = "none" /\ caller'["boot"] = "none"
    BY <2>3, <1>21 DEF Unload, Ready
  <2>5. Meant' /\ (LockFree' => LockFree)
    BY <2>1, <2>2, <2>3 DEF LockFree
  <2> QED
    BY <2>1, <2>2, <2>3, <2>4, <2>5
<1>22. CASE Unloaded
  <2>1. UNCHANGED event /\ started' = FALSE
    BY <1>22 DEF Unloaded
  <2>2. \A c \in Caller : caller[c] = "joining" /\ c # "boot" => caller'[c] = "joining"
    BY <1>22 DEF Unloaded
  <2>3. caller["boot"] # "joining"
    BY <1>22 DEF Unloaded
  <2>4. caller'["unload"] = "none"
    BY <1>22 DEF Unloaded
  <2> QED
    BY <2>1, <2>2, <2>3, <2>4
<1>23. CASE Restart
  BY <1>23 DEF Restart
<1>24. CASE UNCHANGED vars
  BY <1>24 DEF vars
<1> QED
  BY <1>1, <1>2, <1>3, <1>4, <1>5, <1>6, <1>7, <1>8, <1>9, <1>10, <1>11, <1>12, <1>13,
     <1>14, <1>15, <1>16, <1>17, <1>18, <1>19, <1>20, <1>21, <1>22, <1>23, <1>24
  DEF Next, CallStep, BootStep, LoopStep, Saves

-----------------------------------------------------------------------------
\* The invariant of who runs the loop.
THEOREM Invariance == Spec => []Inv
<1>1. Init => Inv
  BY InitInv
<1>2. Inv /\ [Next]_vars => Inv'
  BY TypesKept, LoopKept DEF Inv
<1> QED
  BY <1>1, <1>2, PTL DEF Spec

\* The types, for all threads and schedules.
THEOREM TypeCorrect == Spec => []TypeOK
<1>1. Inv => TypeOK
  BY DEF Inv
<1> QED
  BY <1>1, Invariance, PTL

\* A started scheduler always has a loop that no stop but its own can end.
THEOREM Hosting == Spec => []Hosted
<1>1. Inv => Hosted
  BY DEF Inv, Kept, Hosted, Ready
<1> QED
  BY <1>1, Invariance, PTL
=============================================================================
