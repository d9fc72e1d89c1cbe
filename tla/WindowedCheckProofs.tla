------------------------ MODULE WindowedCheckProofs ------------------------
(* Theorems about WindowedCheck, for any channels and streams, and any     *)
(* installations.                                                          *)
EXTENDS WindowedCheck, TLAPS

\* Where the session is when it has a scan to wait for, and when it has waited.
After == {"stopgate", "midlist", "post"}
Served == {"wait", "gate"} \union After

\* Who runs when.  A session that overlaps with no earlier scan finds no thread when it
\* starts its own; what it finds written after that is the work of the scan it waited for,
\* unless it is borrowed; and a scan has its window end as long as nobody else begins.
Control ==
    /\ session = "down" => thread = "off"
    /\ ~overlapped /\ session \in Starting => thread = "off"
    /\ thread # "loop" => probing = None
    /\ probing \notin todo
    /\ session \in {"announce", "launch"} /\ written => borrowed
    /\ session \in Served /\ written /\ ~borrowed => thread # "loop" /\ results = rows
    /\ session \in After => written
    /\ ~overlapped /\ session \in {"announce", "launch"} \union Served => ~borrowed
    /\ session \in {"apply", "reanchor", "seed"} => setup.windowed
    /\ session = "reanchor" => held # {}
    /\ IF setup.windowed
         THEN /\ session \in Starting => windowEnd # None
              /\ ~overlapped /\ thread = "loop" => windowEnd # None
         ELSE /\ windowEnd = None
              /\ ~overlapped /\ session \in Served /\ written /\ ~stop => todo = {}

\* A stream of the pass that needs no probe any more.
Settled(s) == probed[s] # None \/ s \in NoUrl \/ ChannelOf[s] \notin live

\* What the pass has not settled is in `left'.
KeptIn(left) == \A s \in passScope : Settled(s) \/ s \in left

\* What the pass has not settled is not lost: it is loaded, then pending or on the
\* thread's list, until the post-actions may run.  A load by hand brings it back.
Progress ==
    ~overlapped =>
      /\ "load" \in setup.events =>
           \A s \in passScope : s \in setup.streams /\ ChannelOf[s] \in settings
      /\ setup.windowed =>
           /\ session \in {"load", "seed"} => pending.left = {}
           /\ session = "seed" => KeptIn(loaded)
           /\ session = "reanchor" => held = pending.left /\ pending.left # {}
           /\ pending.left # {} => KeptIn(pending.left)
           /\ session \in {"stamp", "announce", "launch"} \union Served => KeptIn(pending.left)
           /\ session = "post" => pending.left = {}
      /\ ~setup.windowed =>
           /\ session \in {"stamp", "announce"} => KeptIn(loaded)
           /\ session = "launch" => KeptIn(held)
           /\ session \in {"wait", "gate", "stopgate"} => KeptIn(todo \union {probing})
           /\ session \in {"midlist", "post"} => KeptIn({})

\* Where users reload by hand there is but one selection of groups to load.
OneSelection ==
    \A installed \in Setups :
        "load" \in installed.events => \A one, other \in installed.scopes : one = other

\* Whatever is listed anywhere is a stream of the installation.
Listed ==
    /\ loaded \subseteq setup.streams /\ held \subseteq setup.streams
    /\ pending.left \subseteq setup.streams /\ todo \subseteq setup.streams
    /\ passScope \subseteq setup.streams
    /\ probing \in setup.streams \union {None}
    /\ \A s \in Stream : rows[s] # None => s \in setup.streams

\* What leads to a verdict on a channel.  The rows are what this pass has found; without
\* windows a channel is loaded, listed and probed with all of its streams; and a channel
\* once condemned sees no probe before the next pass.
Judging ==
    ~overlapped =>
      /\ setup.windowed /\ session = "post" => pending.left = {}
      /\ condemned # {} =>
           /\ thread # "loop" /\ session \in {"down", "idle", "apply", "load"}
           /\ setup.windowed => pending.left = {}
      /\ session \in Served => \A s \in Stream : rows[s] # None => probed[s] = rows[s]
      /\ ~setup.windowed =>
           /\ session \in {"stamp", "announce"} =>
                \A s \in setup.streams, o \in loaded : ChannelOf[o] = ChannelOf[s] => s \in loaded
           /\ session = "launch" =>
                \A s \in setup.streams, o \in held : ChannelOf[o] = ChannelOf[s] => s \in held
           /\ session \in Served =>
                \A s \in setup.streams, o \in Stream :
                    ChannelOf[o] = ChannelOf[s] /\ (o \in todo \/ o = probing \/ rows[o] # None)
                        => s \in todo \/ s = probing \/ rows[s] # None
           /\ session \in {"midlist", "post"} => todo = {}
      /\ JudgedUnlessSplit

\* A hand load beside windows brings back what was probed before.
Reloading == setup.windowed /\ "load" \in setup.events

\* Streams of the pass that were not probed in it.
Unprobed(streams) ==
    \A s \in streams : s \in passScope /\ (~Reloading => probed[s] = None)

\* What is pending, loaded, held or on the thread's list is of the pass and of this
\* selection, and was not probed in it; what the session's scan found is what the pass
\* found; and no scan is left when the pass has been acted on.
Tracked ==
    /\ session = "load" /\ setup.windowed => passScope = {}
    /\ pending.left # {} => setup.windowed
    /\ ~overlapped =>
         /\ \A s \in pending.left : s \in passScope /\ probed[s] = None
         /\ session \in {"load", "seed"} /\ setup.windowed => pending.left = {}
         /\ session = "seed" => probed = NoRows
         /\ session = "reanchor" => \A s \in held : s \in passScope /\ probed[s] = None
         /\ session \in {"seed", "reanchor", "stamp", "announce"} => ~Outdated /\ Unprobed(loaded)
         /\ session = "launch" => ~Outdated /\ Unprobed(held)
         /\ session \in {"stamp", "announce", "launch"} /\ ~setup.windowed => probed = NoRows
         /\ thread = "loop" =>
              ~Outdated /\ Unprobed(todo) /\ (probing # None => Unprobed({probing}))
         /\ "load" \in setup.events
              /\ (session \in {"seed", "reanchor", "stamp", "announce"} \/ pending.left # {}) =>
              StreamsOf(live \cap settings) \subseteq passScope
         /\ session \in Served => \A s \in Stream : rows[s] # None => probed[s] = rows[s]
         /\ setup.windowed /\ session = "post" => pending.left = {}
         /\ condemned # {} =>
              /\ thread # "loop" /\ session \in {"down", "idle", "apply", "load"}
              /\ setup.windowed => pending.left = {}

\* In windows the pass can be taken up from the pending file as long as the file is
\* there; once it is not, nothing is left or nothing came of the pass.
Resumable ==
    setup.windowed /\ ~overlapped =>
      /\ pending.left # {} => KeptIn(loaded)
      /\ thread = "loop" => KeptIn(pending.left)
      /\ pending.left = {} => KeptIn({}) \/ probed = NoRows

-----------------------------------------------------------------------------
\* The pending file: a list, and nothing of one that is empty.
PendingOK ==
    /\ pending \in [left : SUBSET Stream, end : {"open", "past"}, scope : setup.scopes \cup {{}}]
    /\ pending.left = {} => pending = NoPending

LEMMA NoPendingOK == PendingOK => NoPending \in [left : SUBSET Stream, end : {"open", "past"},
                                                 scope : setup.scopes \cup {{}}]
BY DEF NoPending

LEMMA PendingEnd ==
    ASSUME PendingOK, UNCHANGED setup, NEW end \in {"open", "past"},
           pending' = [pending EXCEPT !.end = end], pending.left # {} \/ end = "past"
    PROVE  PendingOK'
<1>1. CASE pending.left # {}
  BY <1>1 DEF PendingOK
<1>2. CASE pending = NoPending /\ end = "past"
  <2>1. pending' = pending
    BY <1>2 DEF NoPending
  <2> QED
    BY <2>1 DEF PendingOK
<1> QED
  BY <1>1, <1>2 DEF PendingOK

LEMMA PendingStruck ==
    ASSUME PendingOK, UNCHANGED setup, NEW s \in Stream, pending' = MarkDone(s)
    PROVE  PendingOK'
<1>1. CASE pending' = pending
  BY <1>1 DEF PendingOK
<1>2. CASE pending' = NoPending
  BY <1>2, NoPendingOK DEF PendingOK
<1>3. CASE s \in pending.left /\ pending.left # {s} /\ pending' = [pending EXCEPT !.left = @ \ {s}]
  BY <1>3 DEF PendingOK
<1> QED
  BY <1>1, <1>2, <1>3 DEF MarkDone

LEMMA PendingWritten ==
    ASSUME PendingOK, UNCHANGED setup, NEW left \in SUBSET Stream, windowEnd \in {"open", "past"},
           scope \in setup.scopes,
           pending' = IF left = {} THEN NoPending
                      ELSE [left |-> left, end |-> windowEnd, scope |-> scope]
    PROVE  PendingOK'
<1>1. CASE left = {}
  BY <1>1, NoPendingOK DEF PendingOK
<1>2. CASE left # {}
  BY <1>2 DEF PendingOK
<1> QED
  BY <1>1, <1>2

\* The types, action by action.
LEMMA TypesKept ==
    ASSUME TypeOK, Control, [Next]_vars
    PROVE  TypeOK'
<1> USE StreamAssumption, SetupAssumption
    DEF TypeOK, disk, scan, pass, history, control, Setup, NoPending, Rows, Starting, Sessions,
        Threads, None
<1>1. CASE CronFires
  BY <1>1 DEF CronFires
<1>2. CASE ApplyPending
  BY <1>2 DEF ApplyPending, Remaining
<1>3. CASE Reanchor
  <2>1. held # {} /\ windowEnd \in {"open", "past"}
    BY <1>3 DEF Reanchor, Control
  <2>2. PendingOK'
    BY <1>3, <2>1, PendingWritten DEF Reanchor, PendingOK
  <2> QED
    BY <1>3, <2>2 DEF PendingOK, Reanchor
<1>4. CASE DiscardPending
  BY <1>4 DEF DiscardPending, NoPass, NoRows
<1>5. CASE LoadGroups
  BY <1>5 DEF LoadGroups, NoRows, StreamsOf
<1>6. CASE LoadFails
  BY <1>6 DEF LoadFails, Return
<1>7. CASE SeedPending
  <2>1. windowEnd \in {"open", "past"}
    BY <1>7 DEF SeedPending, Control
  <2>2. PendingOK'
    BY <1>7, <2>1, PendingWritten DEF SeedPending, PendingOK
  <2> QED
    BY <1>7, <2>2 DEF PendingOK, SeedPending
<1>8. CASE Stamp
  BY <1>8 DEF Stamp
<1>9. CASE NothingToCheck
  BY <1>9 DEF NothingToCheck, Return
<1>10. CASE Announce
  BY <1>10 DEF Announce, Checkable
<1>11. CASE Launch
  BY <1>11 DEF Launch, NoRows, Checkable
<1>12. CASE StatusIdle
  BY <1>12 DEF StatusIdle
<1>13. CASE ResultsGate
  BY <1>13 DEF ResultsGate
<1>14. CASE StoppedGate
  BY <1>14 DEF StoppedGate, Return
<1>15. CASE MidListGate
  BY <1>15 DEF MidListGate, Return
<1>16. CASE PostActions
  BY <1>16 DEF PostActions, Return, DeadChannels
<1>17. CASE SaveResults
  BY <1>17 DEF SaveResults, Halted
<1>18. CASE ScanRaises
  BY <1>18 DEF ScanRaises
<1>19. CASE GoIdle
  BY <1>19 DEF GoIdle
<1>20. CASE ThreadEnds
  BY <1>20 DEF ThreadEnds
<1>21. CASE Boot
  BY <1>21 DEF Boot
<1>22. CASE WindowCloses
  <2>1. PendingOK'
    BY <1>22, PendingEnd DEF WindowCloses, PendingOK
  <2> QED
    BY <1>22, <2>1 DEF PendingOK, WindowCloses
<1>23. CASE Crash
  BY <1>23 DEF Crash, NoRows
<1>24. CASE Cancel
  BY <1>24 DEF Cancel
<1>25. CASE StopScheduler
  BY <1>25 DEF StopScheduler
<1>26. CASE Unload
  BY <1>26 DEF Unload
<1>27. CASE ResetProgress
  BY <1>27 DEF ResetProgress
<1>28. CASE EditSettings
  BY <1>28 DEF EditSettings
<1>29. CASE UserLoadsGroups
  BY <1>29 DEF UserLoadsGroups, StreamsOf
<1>30. CASE RemoveChannel
  BY <1>30 DEF RemoveChannel
<1>31. ASSUME NEW s \in Stream, BeginProbe(s)
      PROVE  TypeOK'
  BY <1>31 DEF BeginProbe
<1>32. ASSUME NEW s \in Stream, EndProbe(s)
      PROVE  TypeOK'
  <2>1. PendingOK'
    BY <1>32, PendingStruck DEF EndProbe, PendingOK
  <2>2. rows' \in Rows /\ probed' \in Rows
    BY <1>32 DEF EndProbe, Verdict
  <2> QED
    BY <1>32, <2>1, <2>2 DEF PendingOK, EndProbe
<1>33. CASE UNCHANGED vars
  BY <1>33 DEF vars
<1> QED
  BY <1>1, <1>2, <1>3, <1>4, <1>5, <1>6, <1>7, <1>8, <1>9, <1>10, <1>11, <1>12, <1>13,
     <1>14, <1>15, <1>16, <1>17, <1>18, <1>19, <1>20, <1>21, <1>22, <1>23, <1>24, <1>25,
     <1>26, <1>27, <1>28, <1>29, <1>30, <1>31, <1>32, <1>33
  DEF Next, SessionStep, ThreadStep, Event

\* Who runs when, action by action.
LEMMA ControlKept ==
    ASSUME TypeOK, Control, [Next]_vars
    PROVE  Control'
<1> USE StreamAssumption
    DEF TypeOK, Control, After, Served, Starting, disk, scan, pass, history, control, None
<1>1. CASE CronFires
  BY <1>1 DEF CronFires
<1>2. CASE ApplyPending
  BY <1>2 DEF ApplyPending, Remaining
<1>3. CASE Reanchor
  BY <1>3 DEF Reanchor
<1>4. CASE DiscardPending
  BY <1>4 DEF DiscardPending, NoPass, NoRows
<1>5. CASE LoadGroups
  BY <1>5 DEF LoadGroups, NoRows
<1>6. CASE LoadFails
  BY <1>6 DEF LoadFails, Return
<1>7. CASE SeedPending
  BY <1>7 DEF SeedPending
<1>8. CASE Stamp
  BY <1>8 DEF Stamp
<1>9. CASE NothingToCheck
  BY <1>9 DEF NothingToCheck, Return
<1>10. CASE Announce
  BY <1>10 DEF Announce, Checkable
<1>11. CASE Launch
  BY <1>11 DEF Launch, NoRows
<1>12. CASE StatusIdle
  BY <1>12 DEF StatusIdle
<1>13. CASE ResultsGate
  BY <1>13 DEF ResultsGate
<1>14. CASE StoppedGate
  BY <1>14 DEF StoppedGate, Return
<1>15. CASE MidListGate
  BY <1>15 DEF MidListGate, Return
<1>16. CASE PostActions
  BY <1>16 DEF PostActions, Return
<1>17. CASE SaveResults
  BY <1>17 DEF SaveResults, Halted
<1>18. CASE ScanRaises
  BY <1>18 DEF ScanRaises
<1>19. CASE GoIdle
  BY <1>19 DEF GoIdle
<1>20. CASE ThreadEnds
  BY <1>20 DEF ThreadEnds
<1>21. CASE Boot
  BY <1>21 DEF Boot
<1>22. CASE WindowCloses
  BY <1>22 DEF WindowCloses
<1>23. CASE Crash
  BY <1>23 DEF Crash, NoRows
<1>24. CASE Cancel
  BY <1>24 DEF Cancel
<1>25. CASE StopScheduler
  BY <1>25 DEF StopScheduler
<1>26. CASE Unload
  BY <1>26 DEF Unload
<1>27. CASE ResetProgress
  BY <1>27 DEF ResetProgress
<1>28. CASE EditSettings
  BY <1>28 DEF EditSettings
<1>29. CASE UserLoadsGroups
  BY <1>29 DEF UserLoadsGroups
<1>30. CASE RemoveChannel
  BY <1>30 DEF RemoveChannel
<1>31. ASSUME NEW s \in Stream, BeginProbe(s)
      PROVE  Control'
  BY <1>31 DEF BeginProbe, Halted
<1>32. ASSUME NEW s \in Stream, EndProbe(s)
      PROVE  Control'
  BY <1>32 DEF EndProbe, Halted
<1>33. CASE UNCHANGED vars
  BY <1>33 DEF vars
<1> QED
  BY <1>1, <1>2, <1>3, <1>4, <1>5, <1>6, <1>7, <1>8, <1>9, <1>10, <1>11, <1>12, <1>13,
     <1>14, <1>15, <1>16, <1>17, <1>18, <1>19, <1>20, <1>21, <1>22, <1>23, <1>24, <1>25,
     <1>26, <1>27, <1>28, <1>29, <1>30, <1>31, <1>32, <1>33
  DEF Next, SessionStep, ThreadStep, Event

\* What is left of a pass, action by action.
LEMMA ProgressKept ==
    ASSUME TypeOK, Control, Progress, OneSelection, "reset" \notin setup.events,
           [Next]_vars
    PROVE  Progress'
<1> USE StreamAssumption, SetupAssumption
    DEF TypeOK, Control, Progress, KeptIn, Settled, After, Served, Starting, disk, scan, pass,
        history, control, NoPending
<1>1. CASE CronFires
  BY <1>1 DEF CronFires
<1>2. CASE ApplyPending
  BY <1>2 DEF ApplyPending, Remaining
<1>3. CASE Reanchor
  BY <1>3 DEF Reanchor
<1>4. CASE DiscardPending
  BY <1>4 DEF DiscardPending, NoPass, NoRows
<1>5. CASE LoadGroups
  <2>1. UNCHANGED <<setup, settings, live, pending>> /\ passScope' = loaded'
    BY <1>5 DEF LoadGroups
  <2>2. \A s \in passScope' : s \in setup.streams /\ ChannelOf[s] \in scope
    BY <1>5 DEF LoadGroups, StreamsOf
  <2>3. "load" \in setup.events => scope = settings
    BY DEF OneSelection
  <2>4. /\ session = "load" /\ session' = IF setup.windowed THEN "seed" ELSE "stamp"
        /\ setup.windowed => overlapped' = overlapped
    BY <1>5 DEF LoadGroups
  <2> QED
    BY <2>1, <2>2, <2>3, <2>4
<1>6. CASE LoadFails
  BY <1>6 DEF LoadFails, Return
<1>7. CASE SeedPending
  BY <1>7 DEF SeedPending
<1>8. CASE Stamp
  BY <1>8 DEF Stamp
<1>9. CASE NothingToCheck
  BY <1>9 DEF NothingToCheck, Return
<1>10. CASE Announce
  BY <1>10 DEF Announce, Checkable
<1>11. CASE Launch
  BY <1>11 DEF Launch, NoRows
<1>12. CASE StatusIdle
  BY <1>12 DEF StatusIdle
<1>13. CASE ResultsGate
  BY <1>13 DEF ResultsGate
<1>14. CASE StoppedGate
  <2>1. ~overlapped /\ ~setup.windowed /\ ~stop => todo = {} /\ probing = None
    BY <1>14 DEF StoppedGate
  <2>2. \A s \in passScope : s # None
    BY DEF None
  <2>3. ~overlapped /\ ~setup.windowed /\ ~stop => KeptIn({})
    BY <1>14, <2>1, <2>2 DEF StoppedGate
  <2> HIDE DEF KeptIn, Settled
  <2>4. \A left : KeptIn(left)' = KeptIn(left)
    BY <1>14 DEF StoppedGate, KeptIn, Settled
  <2> QED
    BY <1>14, <2>3, <2>4 DEF StoppedGate, Return
<1>15. CASE MidListGate
  BY <1>15 DEF MidListGate, Return
<1>16. CASE PostActions
  BY <1>16 DEF PostActions, Return
<1>17. CASE SaveResults
  BY <1>17 DEF SaveResults, Halted
<1>18. CASE ScanRaises
  BY <1>18 DEF ScanRaises
<1>19. CASE GoIdle
  BY <1>19 DEF GoIdle
<1>20. CASE ThreadEnds
  BY <1>20 DEF ThreadEnds
<1>21. CASE Boot
  BY <1>21 DEF Boot
<1>22. CASE WindowCloses
  BY <1>22 DEF WindowCloses
<1>23. CASE Crash
  BY <1>23 DEF Crash, NoRows
<1>24. CASE Cancel
  BY <1>24 DEF Cancel
<1>25. CASE StopScheduler
  BY <1>25 DEF StopScheduler
<1>26. CASE Unload
  BY <1>26 DEF Unload
<1>27. CASE ResetProgress
  BY <1>27 DEF ResetProgress
<1>28. CASE EditSettings
  <2>1. "load" \in setup.events => settings' = settings
    BY <1>28 DEF EditSettings, OneSelection
  <2> QED
    BY <1>28, <2>1 DEF EditSettings
<1>29. CASE UserLoadsGroups
  BY <1>29 DEF UserLoadsGroups, StreamsOf
<1>30. CASE RemoveChannel
  BY <1>30 DEF RemoveChannel
<1>31. ASSUME NEW s \in Stream, BeginProbe(s)
      PROVE  Progress'
  <2>1. /\ UNCHANGED <<disk, control, setup, thread, pass, history>>
        /\ probing' = s /\ todo' = todo \ {s}
    BY <1>31 DEF BeginProbe
  <2>2. KeptIn(todo \union {probing}) => KeptIn(todo \union {probing})'
    <3>1. todo \union {probing} \subseteq (todo' \union {probing'}) \union {None}
      BY <1>31, <2>1 DEF BeginProbe
    <3>2. None \notin passScope
      BY DEF None
    <3>3. \A o \in passScope : Settled(o)' = Settled(o)
      BY <2>1 DEF Settled
    <3> HIDE DEF Settled
    <3> QED
      BY <2>1, <3>1, <3>2, <3>3
  <2> HIDE DEF KeptIn, Settled
  <2>3. \A left : KeptIn(left)' = KeptIn(left)
    BY <2>1 DEF KeptIn, Settled
  <2> QED
    BY <2>1, <2>2, <2>3
<1>32. ASSUME NEW s \in Stream, EndProbe(s)
      PROVE  Progress'
  <2>1. UNCHANGED <<setup, live, settings, loaded, held, session, stop, todo, passScope, overlapped>>
    BY <1>32 DEF EndProbe
  <2>2. probing = s /\ probing' = None /\ thread = "loop"
    BY <1>32 DEF EndProbe, None
  <2>3. Settled(s)' /\ \A o \in Stream : Settled(o) => Settled(o)'
    BY <1>32, <2>1 DEF EndProbe, Settled, Verdict, None, Rows
  <2>4. pending'.left \in {pending.left, pending.left \ {s}}
    BY <1>32 DEF EndProbe, MarkDone, NoPending
  <2>5. \A left : KeptIn(left) => KeptIn(left)' /\ KeptIn(left \ {s})'
    BY <2>1, <2>3 DEF KeptIn
  <2>6. KeptIn(todo \union {s}) => KeptIn(todo \union {None})'
    BY <2>1, <2>3 DEF KeptIn
  <2> HIDE DEF Settled, KeptIn
  <2>7. ~overlapped => session \notin Starting
    BY <2>2
  <2> QED
    BY <2>1, <2>2, <2>4, <2>5, <2>6, <2>7 DEF Starting
<1>33. CASE UNCHANGED vars
  BY <1>33 DEF vars
<1> QED
  BY <1>1, <1>2, <1>3, <1>4, <1>5, <1>6, <1>7, <1>8, <1>9, <1>10, <1>11, <1>12, <1>13,
     <1>14, <1>15, <1>16, <1>17, <1>18, <1>19, <1>20, <1>21, <1>22, <1>23, <1>24, <1>25,
     <1>26, <1>27, <1>28, <1>29, <1>30, <1>31, <1>32, <1>33
  DEF Next, SessionStep, ThreadStep, Event

\* What is listed, action by action.
LEMMA ListedKept ==
    ASSUME TypeOK, Listed, [Next]_vars
    PROVE  Listed'
<1> USE StreamAssumption, SetupAssumption
    DEF TypeOK, Listed, disk, scan, pass, history, control, StreamsOf, Setup, Rows, None, NoPending
<1>1. CASE CronFires
  BY <1>1 DEF CronFires
<1>2. CASE ApplyPending
  BY <1>2 DEF ApplyPending, Remaining
<1>3. CASE Reanchor
  BY <1>3 DEF Reanchor
<1>4. CASE DiscardPending
  BY <1>4 DEF DiscardPending, NoPass, NoRows
<1>5. CASE LoadGroups
  BY <1>5 DEF LoadGroups, NoRows
<1>6. CASE LoadFails
  BY <1>6 DEF LoadFails, Return
<1>7. CASE SeedPending
  BY <1>7 DEF SeedPending
<1>8. CASE Stamp
  BY <1>8 DEF Stamp
<1>9. CASE NothingToCheck
  BY <1>9 DEF NothingToCheck, Return
<1>10. CASE Announce
  BY <1>10 DEF Announce, Checkable
<1>11. CASE Launch
  BY <1>11 DEF Launch, NoRows
<1>12. CASE StatusIdle
  BY <1>12 DEF StatusIdle
<1>13. CASE ResultsGate
  BY <1>13 DEF ResultsGate
<1>14. CASE StoppedGate
  BY <1>14 DEF StoppedGate, Return
<1>15. CASE MidListGate
  BY <1>15 DEF MidListGate, Return
<1>16. CASE PostActions
  BY <1>16 DEF PostActions, Return
<1>17. CASE SaveResults
  BY <1>17 DEF SaveResults, Halted
<1>18. CASE ScanRaises
  BY <1>18 DEF ScanRaises
<1>19. CASE GoIdle
  BY <1>19 DEF GoIdle
<1>20. CASE ThreadEnds
  BY <1>20 DEF ThreadEnds
<1>21. CASE Boot
  BY <1>21 DEF Boot
<1>22. CASE WindowCloses
  BY <1>22 DEF WindowCloses
<1>23. CASE Crash
  BY <1>23 DEF Crash, NoRows
<1>24. CASE Cancel
  BY <1>24 DEF Cancel
<1>25. CASE StopScheduler
  BY <1>25 DEF StopScheduler
<1>26. CASE Unload
  BY <1>26 DEF Unload
<1>27. CASE ResetProgress
  BY <1>27 DEF ResetProgress
<1>28. CASE EditSettings
  BY <1>28 DEF EditSettings
<1>29. CASE UserLoadsGroups
  BY <1>29 DEF UserLoadsGroups
<1>30. CASE RemoveChannel
  BY <1>30 DEF RemoveChannel
<1>31. ASSUME NEW s \in Stream, BeginProbe(s)
      PROVE  Listed'
  BY <1>31 DEF BeginProbe
<1>32. ASSUME NEW s \in Stream, EndProbe(s)
      PROVE  Listed'
  <2>1. PICK v \in Verdict : rows' = [rows EXCEPT ![s] = v]
    BY <1>32 DEF EndProbe
  <2>2. s \in setup.streams /\ probing' = None
    BY <1>32 DEF EndProbe
  <2>3. \A o \in Stream : rows'[o] # None => o \in setup.streams
    BY <2>1, <2>2
  <2>4. pending'.left \subseteq pending.left
    BY <1>32 DEF EndProbe, MarkDone
  <2> QED
    BY <1>32, <2>2, <2>3, <2>4 DEF EndProbe
<1>33. CASE UNCHANGED vars
  BY <1>33 DEF vars
<1> QED
  BY <1>1, <1>2, <1>3, <1>4, <1>5, <1>6, <1>7, <1>8, <1>9, <1>10, <1>11, <1>12, <1>13,
     <1>14, <1>15, <1>16, <1>17, <1>18, <1>19, <1>20, <1>21, <1>22, <1>23, <1>24, <1>25,
     <1>26, <1>27, <1>28, <1>29, <1>30, <1>31, <1>32, <1>33
  DEF Next, SessionStep, ThreadStep, Event

\* What leads to a verdict, action by action.
LEMMA JudgingKept ==
    ASSUME TypeOK, Control, Listed, Judging, NoUrl = {}, [Next]_vars
    PROVE  Judging'
<1> USE StreamAssumption, SetupAssumption
    DEF TypeOK, Control, Listed, Judging, JudgedUnlessSplit, After, Served, Starting, disk, scan,
        pass, history, control, StreamsOf, Setup, Rows
<1>1. CASE CronFires
  BY <1>1 DEF CronFires
<1>2. CASE ApplyPending
  BY <1>2 DEF ApplyPending, Remaining
<1>3. CASE Reanchor
  BY <1>3 DEF Reanchor
<1>4. CASE DiscardPending
  BY <1>4 DEF DiscardPending, NoPass, NoRows, NoPending
<1>5. CASE LoadGroups
  BY <1>5 DEF LoadGroups, NoRows
<1>6. CASE LoadFails
  BY <1>6 DEF LoadFails, Return
<1>7. CASE SeedPending
  BY <1>7 DEF SeedPending, NoPending
<1>8. CASE Stamp
  BY <1>8 DEF Stamp
<1>9. CASE NothingToCheck
  BY <1>9 DEF NothingToCheck, Return
<1>10. CASE Announce
  BY <1>10 DEF Announce, Checkable
<1>11. CASE Launch
  <2>1. /\ UNCHANGED <<setup, pending, pass, history>> /\ session = "launch" /\ session' = "wait"
        /\ thread = "off" => rows' = NoRows /\ todo' = held /\ thread' = "loop" /\ probing' = probing
    BY <1>11 DEF Launch, disk
  <2>2. ~overlapped => thread = "off" /\ probing = None /\ condemned = {}
    BY <2>1
  <2>3. ~overlapped => \A o \in Stream : rows'[o] = None /\ o # probing'
    BY <2>1, <2>2 DEF NoRows, None
  <2> QED
    BY <2>1, <2>2, <2>3
<1>12. CASE StatusIdle
  BY <1>12 DEF StatusIdle
<1>13. CASE ResultsGate
  BY <1>13 DEF ResultsGate
<1>14. CASE StoppedGate
  BY <1>14 DEF StoppedGate, Return
<1>15. CASE MidListGate
  BY <1>15 DEF MidListGate, Return
<1>16. CASE PostActions
  <2>1. /\ session = "post" /\ session' = "idle" /\ condemned' = DeadChannels(results)
        /\ UNCHANGED <<setup, pending, thread, probing, passScope, probed, overlapped>>
    BY <1>16 DEF PostActions, Return
  <2>2. ~overlapped => results = rows /\ thread # "loop" /\ probing = None
    BY <2>1
  <2>3. ASSUME ~overlapped, NEW c \in DeadChannels(results), NEW s \in passScope, ChannelOf[s] = c,
               ~setup.windowed \/ \A p, o \in StreamsOf({c}) : p = o
        PROVE  probed[s] = "dead"
    <3>1. PICK o \in Stream : ChannelOf[o] = c /\ rows[o] # None
      BY <2>2, <2>3 DEF DeadChannels
    <3>2. o \in setup.streams /\ s \in setup.streams
      BY <3>1, <2>3
    <3>3. CASE setup.windowed
      BY <2>1, <2>2, <2>3, <3>1, <3>2, <3>3 DEF DeadChannels
    <3>4. CASE ~setup.windowed
      <4>1. todo = {} /\ s # probing
        BY <2>1, <2>2, <2>3, <3>2, <3>4 DEF None
      <4>2. rows[s] # None
        BY <2>1, <2>3, <3>1, <3>2, <3>4, <4>1
      <4> QED
        BY <2>1, <2>2, <2>3, <3>2, <4>2 DEF DeadChannels
    <3> QED
      BY <3>3, <3>4
  <2>4. setup.windowed /\ ~overlapped => pending.left = {}
    BY <2>1
  <2> QED
    BY <2>1, <2>2, <2>3, <2>4
<1>17. CASE SaveResults
  BY <1>17 DEF SaveResults, Halted
<1>18. CASE ScanRaises
  BY <1>18 DEF ScanRaises
<1>19. CASE GoIdle
  BY <1>19 DEF GoIdle
<1>20. CASE ThreadEnds
  BY <1>20 DEF ThreadEnds
<1>21. CASE Boot
  BY <1>21 DEF Boot
<1>22. CASE WindowCloses
  BY <1>22 DEF WindowCloses
<1>23. CASE Crash
  BY <1>23 DEF Crash, NoRows
<1>24. CASE Cancel
  BY <1>24 DEF Cancel
<1>25. CASE StopScheduler
  BY <1>25 DEF StopScheduler
<1>26. CASE Unload
  BY <1>26 DEF Unload
<1>27. CASE ResetProgress
  BY <1>27 DEF ResetProgress, NoPending
<1>28. CASE EditSettings
  BY <1>28 DEF EditSettings
<1>29. CASE UserLoadsGroups
  BY <1>29 DEF UserLoadsGroups
<1>30. CASE RemoveChannel
  BY <1>30 DEF RemoveChannel
<1>31. ASSUME NEW s \in Stream, BeginProbe(s)
      PROVE  Judging'
  <2>1. /\ UNCHANGED <<setup, pending, session, rows, thread, pass, history>>
        /\ probing = None /\ probing' = s /\ todo' = todo \ {s} /\ s \in todo /\ thread = "loop"
    BY <1>31 DEF BeginProbe
  <2>2. \A o \in Stream : o \in todo \/ o = probing <=> o \in todo' \/ o = probing'
    BY <2>1 DEF None
  <2> QED
    BY <2>1, <2>2
<1>32. ASSUME NEW s \in Stream, EndProbe(s)
      PROVE  Judging'
  <2>1. PICK v \in Verdict : rows' = [rows EXCEPT ![s] = v] /\ probed' = [probed EXCEPT ![s] = v]
    BY <1>32 DEF EndProbe
  <2>2. /\ UNCHANGED <<setup, session, todo, thread, passScope, condemned, overlapped, borrowed>>
        /\ probing = s /\ probing' = None /\ thread = "loop"
    BY <1>32 DEF EndProbe, None
  <2>3. \A o \in Stream : /\ rows'[o] = IF o = s THEN v ELSE rows[o]
                        /\ probed'[o] = IF o = s THEN v ELSE probed[o]
    BY <2>1
  <2>4. v # None /\ \A o \in Stream : o # None
    BY DEF Verdict, None
  <2>5. \A o \in Stream : o \in todo \/ o = probing \/ rows[o] # None <=>
                        o \in todo' \/ o = probing' \/ rows'[o] # None
    BY <2>2, <2>3, <2>4
  <2>6. ~overlapped => condemned = {} /\ session \notin After \union Starting
    BY <2>2
  <2>7. ~overlapped /\ session \in Served =>
            \A o \in Stream : rows'[o] # None => probed'[o] = rows'[o]
    BY <2>2, <2>3
  <2>8. JudgedUnlessSplit'
    BY <2>2, <2>6
  <2> QED
    BY <2>2, <2>5, <2>6, <2>7, <2>8
<1>33. CASE UNCHANGED vars
  BY <1>33 DEF vars
<1> QED
  BY <1>1, <1>2, <1>3, <1>4, <1>5, <1>6, <1>7, <1>8, <1>9, <1>10, <1>11, <1>12, <1>13,
     <1>14, <1>15, <1>16, <1>17, <1>18, <1>19, <1>20, <1>21, <1>22, <1>23, <1>24, <1>25,
     <1>26, <1>27, <1>28, <1>29, <1>30, <1>31, <1>32, <1>33
  DEF Next, SessionStep, ThreadStep, Event

-----------------------------------------------------------------------------
Inv == TypeOK /\ Control

LEMMA InitInv == Init => Inv
<1>1. Init => TypeOK
  <2> SUFFICES ASSUME Init
               PROVE  TypeOK
    OBVIOUS
  <2>1. setup \in Setups /\ settings \in setup.scopes /\ scope = settings
    BY DEF Init
  <2>2. pending = NoPending
    BY DEF Init
  <2>3. pending \in [left : SUBSET Stream, end : {"open", "past"}, scope : setup.scopes \cup {{}}]
    BY <2>2 DEF NoPending
  <2>4. NoRows \in Rows
    BY DEF NoRows, Rows
  <2> QED
    BY <2>1, <2>2, <2>3, <2>4 DEF Init, TypeOK, Sessions, Threads, None
<1>2. Init => Control
  BY DEF Init, Control, After, Served, Starting, None
<1> QED
  BY <1>1, <1>2 DEF Inv

\* The installation never changes.
LEMMA SetupStays ==
    ASSUME [Next]_vars
    PROVE  setup' = setup
BY DEF Next, SessionStep, ThreadStep, Event, vars,
       CronFires, ApplyPending, Reanchor, DiscardPending, LoadGroups, LoadFails, SeedPending,
       Stamp, NothingToCheck, Announce, Launch, StatusIdle, ResultsGate, StoppedGate,
       MidListGate, PostActions, SaveResults, ScanRaises, GoIdle, ThreadEnds, Boot,
       WindowCloses, Crash, Cancel, StopScheduler, Unload, ResetProgress, EditSettings,
       UserLoadsGroups, RemoveChannel, BeginProbe, EndProbe

\* The invariant of the session and its scan thread.
THEOREM Invariance == Spec => []Inv
<1>1. Init => Inv
  BY InitInv
<1>2. Inv /\ [Next]_vars => Inv'
  BY TypesKept, ControlKept DEF Inv
<1> QED
  BY <1>1, <1>2, PTL DEF Spec

\* The types, for all installations.
THEOREM TypeCorrect == Spec => []TypeOK
<1>1. Inv => TypeOK
  BY DEF Inv
<1> QED
  BY <1>1, Invariance, PTL

\* The window end outlives every session whose scan is still to be stopped by it, if no
\* other begins before that scan is over.
THEOREM Bounded == Spec => []WindowBounds
<1>1. Inv => WindowBounds
  BY DEF Inv, Control, WindowBounds
<1> QED
  BY <1>1, Invariance, PTL

\* The post-actions act on the results of the scan the session waited for; where they
\* do not, an earlier scan wrote its results while the session was starting its own.
THEOREM Freshness == Spec => []NoStaleVerdicts
<1>1. Inv => NoStaleVerdicts
  BY DEF Inv, Control, After, Served, NoStaleVerdicts
<1> QED
  BY <1>1, Invariance, PTL

\* Rename, move and delete wait for the end of the list, for any number of windows,
\* crashes and stops, as long as no session begins beside an earlier scan.
THEOREM Deferral ==
    ASSUME OneSelection
    PROVE  Spec => []DeferredToTheEnd
<1> DEFINE Deferring == Inv /\ ("reset" \notin setup.events => Progress)
<1>1. Init => Deferring
  <2>1. Init => Progress
    BY StreamAssumption DEF Init, Progress, KeptIn, Settled, After, Served, NoPending, NoRows
  <2>2. Init => Inv
    BY InitInv
  <2> QED
    BY <2>1, <2>2
<1>2. Deferring /\ [Next]_vars => Deferring'
  <2> SUFFICES ASSUME Deferring, [Next]_vars
               PROVE  Deferring'
    OBVIOUS
  <2>1. Inv'
    BY TypesKept, ControlKept DEF Inv
  <2>2. setup' = setup
    BY SetupStays
  <2>3. CASE "reset" \notin setup.events
    <3>1. Progress'
      BY <2>3, ProgressKept DEF Inv
    <3> QED
      BY <2>1, <3>1
  <2>4. CASE "reset" \in setup.events
    BY <2>1, <2>2, <2>4
  <2> QED
    BY <2>3, <2>4
<1>3. Deferring => DeferredToTheEnd
  BY DEF Progress, KeptIn, Settled, DeferredToTheEnd, Served, After
<1> HIDE DEF Deferring
<1> QED
  BY <1>1, <1>2, <1>3, PTL DEF Spec

\* A channel is judged by all of its streams, when no window end comes between them, and
\* no session begins beside an earlier scan.
THEOREM Judgement ==
    ASSUME NoUrl = {}
    PROVE  Spec => []JudgedUnlessSplit
<1> DEFINE J == Inv /\ Listed /\ Judging
<1>1. Init => J
  <2>1. Init => Judging /\ Listed
    BY DEF Init, Judging, Listed, After, Served, JudgedUnlessSplit, NoRows, NoPending, None
  <2> QED
    BY <2>1, InitInv
<1>2. J /\ [Next]_vars => J'
  BY TypesKept, ControlKept, ListedKept, JudgingKept DEF Inv
<1>3. J => JudgedUnlessSplit
  BY DEF Judging, JudgedUnlessSplit
<1> HIDE DEF J
<1> QED
  BY <1>1, <1>2, <1>3, PTL DEF Spec
-----------------------------------------------------------------------------
(* The refinement of Pass. *)

\* What belongs to the pass, action by action.
LEMMA TrackedKept ==
    ASSUME TypeOK, Control, Tracked, OneSelection, [Next]_vars
    PROVE  Tracked'
<1> USE StreamAssumption, SetupAssumption
    DEF TypeOK, Control, Tracked, Reloading, Unprobed, Outdated, StreamsOf, After, Served, Starting,
        disk, scan, pass, history, control, NoPending, Setup, Rows
<1>1. CASE CronFires
  BY <1>1 DEF CronFires
<1>2. CASE ApplyPending
  BY <1>2 DEF ApplyPending, Remaining
<1>3. CASE Reanchor
  BY <1>3 DEF Reanchor
<1>4. CASE DiscardPending
  BY <1>4 DEF DiscardPending, NoPass, NoRows
<1>5. CASE LoadGroups
  <2>1. "load" \in setup.events => scope = settings
    BY DEF OneSelection
  <2> QED
    <3>1. /\ UNCHANGED <<setup, live, settings, pending, scope, rows, thread>>
          /\ session = "load" /\ session' = IF setup.windowed THEN "seed" ELSE "stamp"
          /\ loaded' = StreamsOf(live \cap scope) /\ passScope' = loaded' /\ condemned' = {}
          /\ setup.windowed => overlapped' = overlapped
          /\ ~setup.windowed => overlapped' = (thread # "off")
      BY <1>5 DEF LoadGroups, StreamsOf
    <3>2. probed' = NoRows /\ \A s \in Stream : probed'[s] = None
      BY <1>5 DEF LoadGroups, NoRows
    <3>3. passScope' \subseteq Stream /\ (~setup.windowed => pending.left = {})
      BY <3>1
    <3> QED
      BY <2>1, <3>1, <3>2, <3>3
<1>6. CASE LoadFails
  BY <1>6 DEF LoadFails, Return
<1>7. CASE SeedPending
  BY <1>7 DEF SeedPending, NoRows
<1>8. CASE Stamp
  BY <1>8 DEF Stamp
<1>9. CASE NothingToCheck
  BY <1>9 DEF NothingToCheck, Return
<1>10. CASE Announce
  BY <1>10 DEF Announce, Checkable, NoRows
<1>11. CASE Launch
  BY <1>11 DEF Launch, NoRows, None
<1>12. CASE StatusIdle
  BY <1>12 DEF StatusIdle
<1>13. CASE ResultsGate
  BY <1>13 DEF ResultsGate
<1>14. CASE StoppedGate
  BY <1>14 DEF StoppedGate, Return
<1>15. CASE MidListGate
  BY <1>15 DEF MidListGate, Return
<1>16. CASE PostActions
  BY <1>16 DEF PostActions, Return
<1>17. CASE SaveResults
  BY <1>17 DEF SaveResults, Halted
<1>18. CASE ScanRaises
  BY <1>18 DEF ScanRaises
<1>19. CASE GoIdle
  BY <1>19 DEF GoIdle
<1>20. CASE ThreadEnds
  BY <1>20 DEF ThreadEnds
<1>21. CASE Boot
  BY <1>21 DEF Boot
<1>22. CASE WindowCloses
  BY <1>22 DEF WindowCloses
<1>23. CASE Crash
  BY <1>23 DEF Crash, NoRows
<1>24. CASE Cancel
  BY <1>24 DEF Cancel
<1>25. CASE StopScheduler
  BY <1>25 DEF StopScheduler
<1>26. CASE Unload
  BY <1>26 DEF Unload
<1>27. CASE ResetProgress
  BY <1>27 DEF ResetProgress
<1>28. CASE EditSettings
  <2>1. "load" \in setup.events => settings' = settings
    BY <1>28 DEF EditSettings, OneSelection
  <2> QED
    BY <1>28, <2>1 DEF EditSettings
<1>29. CASE UserLoadsGroups
  BY <1>29 DEF UserLoadsGroups, NoRows
<1>30. CASE RemoveChannel
  BY <1>30 DEF RemoveChannel
<1>31. ASSUME NEW s \in Stream, BeginProbe(s)
      PROVE  Tracked'
  BY <1>31 DEF BeginProbe, None
<1>32. ASSUME NEW s \in Stream, EndProbe(s)
      PROVE  Tracked'
  <2>1. PICK v \in Verdict : rows' = [rows EXCEPT ![s] = v] /\ probed' = [probed EXCEPT ![s] = v]
    BY <1>32 DEF EndProbe
  <2>2. /\ UNCHANGED <<setup, live, settings, loaded, held, session, scope, todo, thread, passScope,
                        condemned, overlapped>>
        /\ probing = s /\ probing' = None /\ thread = "loop" /\ pending' = MarkDone(s)
    BY <1>32 DEF EndProbe, None
  <2>3. \A o \in Stream : /\ rows'[o] = IF o = s THEN v ELSE rows[o]
                        /\ probed'[o] = IF o = s THEN v ELSE probed[o]
    BY <2>1
  <2>4. s # None /\ s \notin todo'
    BY <2>2 DEF None
  <2>5. /\ pending'.left \subseteq pending.left
        /\ ~overlapped => s \notin pending'.left
        /\ pending'.left = {} \/ pending'.scope = pending.scope
    BY <2>2 DEF MarkDone
  <2>6. ~overlapped => /\ ~Outdated' /\ Unprobed(todo)' /\ condemned = {}
                       /\ session \notin Starting \union After
    BY <2>2, <2>3, <2>4, <2>5
  <2>7. ~overlapped => \A o \in pending'.left : o \in passScope' /\ probed'[o] = None
    BY <2>2, <2>3, <2>5
  <2>8. ~overlapped /\ session \in Served =>
            \A o \in Stream : rows'[o] # None => probed'[o] = rows'[o]
    BY <2>2, <2>3
  <2>9. "load" \in setup.events /\ pending'.left # {} /\ ~overlapped =>
            StreamsOf(live \cap settings) \subseteq passScope
    BY <2>5
  <2> QED
    BY <2>2, <2>5, <2>6, <2>7, <2>8, <2>9
<1>33. CASE UNCHANGED vars
  BY <1>33 DEF vars
<1> QED
  BY <1>1, <1>2, <1>3, <1>4, <1>5, <1>6, <1>7, <1>8, <1>9, <1>10, <1>11, <1>12, <1>13,
     <1>14, <1>15, <1>16, <1>17, <1>18, <1>19, <1>20, <1>21, <1>22, <1>23, <1>24, <1>25,
     <1>26, <1>27, <1>28, <1>29, <1>30, <1>31, <1>32, <1>33
  DEF Next, SessionStep, ThreadStep, Event

\* What the pending file stands for, action by action.
LEMMA ResumableKept ==
    ASSUME TypeOK, Control, Progress, Progress', Tracked, Resumable, "reset" \notin setup.events,
           [Next]_vars
    PROVE  Resumable'
<1> USE StreamAssumption, SetupAssumption
    DEF TypeOK, Control, Progress, Tracked, Unprobed, Resumable, KeptIn, Settled, After, Served,
        Starting, disk, scan, pass, history, control, NoPending
<1>1. CASE CronFires
  BY <1>1 DEF CronFires
<1>2. CASE ApplyPending
  BY <1>2 DEF ApplyPending, Remaining
<1>3. CASE Reanchor
  BY <1>3 DEF Reanchor
<1>4. CASE DiscardPending
  BY <1>4 DEF DiscardPending, NoPass, NoRows
<1>5. CASE LoadGroups
  BY <1>5 DEF LoadGroups, NoRows
<1>6. CASE LoadFails
  BY <1>6 DEF LoadFails, Return
<1>7. CASE SeedPending
  BY <1>7 DEF SeedPending
<1>8. CASE Stamp
  BY <1>8 DEF Stamp
<1>9. CASE NothingToCheck
  BY <1>9 DEF NothingToCheck, Return
<1>10. CASE Announce
  BY <1>10 DEF Announce, Checkable
<1>11. CASE Launch
  BY <1>11 DEF Launch, NoRows
<1>12. CASE StatusIdle
  BY <1>12 DEF StatusIdle
<1>13. CASE ResultsGate
  BY <1>13 DEF ResultsGate
<1>14. CASE StoppedGate
  BY <1>14 DEF StoppedGate, Return
<1>15. CASE MidListGate
  BY <1>15 DEF MidListGate, Return
<1>16. CASE PostActions
  BY <1>16 DEF PostActions, Return
<1>17. CASE SaveResults
  BY <1>17 DEF SaveResults, Halted
<1>18. CASE ScanRaises
  BY <1>18 DEF ScanRaises
<1>19. CASE GoIdle
  BY <1>19 DEF GoIdle
<1>20. CASE ThreadEnds
  BY <1>20 DEF ThreadEnds
<1>21. CASE Boot
  BY <1>21 DEF Boot
<1>22. CASE WindowCloses
  BY <1>22 DEF WindowCloses
<1>23. CASE Crash
  BY <1>23 DEF Crash, NoRows
<1>24. CASE Cancel
  BY <1>24 DEF Cancel
<1>25. CASE StopScheduler
  BY <1>25 DEF StopScheduler
<1>26. CASE Unload
  BY <1>26 DEF Unload
<1>27. CASE ResetProgress
  BY <1>27 DEF ResetProgress
<1>28. CASE EditSettings
  BY <1>28 DEF EditSettings
<1>29. CASE UserLoadsGroups
  BY <1>29 DEF UserLoadsGroups, StreamsOf
<1>30. CASE RemoveChannel
  BY <1>30 DEF RemoveChannel
<1>31. ASSUME NEW s \in Stream, BeginProbe(s)
      PROVE  Resumable'
  BY <1>31 DEF BeginProbe
<1>32. ASSUME NEW s \in Stream, EndProbe(s)
      PROVE  Resumable'
  <2>1. UNCHANGED <<setup, live, loaded, session, thread, passScope, overlapped>>
    BY <1>32 DEF EndProbe, control
  <2>2. thread = "loop"
    BY <1>32 DEF EndProbe, None
  <2>3. Settled(s)' /\ \A o \in Stream : Settled(o) => Settled(o)'
    BY <1>32, <2>1 DEF EndProbe, Settled, Verdict, None, Rows
  <2> SUFFICES ASSUME setup.windowed, ~overlapped
               PROVE  Resumable'
    BY <2>1
  <2>4. pending'.left = pending.left \ {s}
    BY <1>32, <2>2 DEF EndProbe, MarkDone, NoPending
  <2>5. \A left : KeptIn(left) => KeptIn(left)' /\ KeptIn(left \ {s})'
    BY <2>1, <2>3 DEF KeptIn
  <2> HIDE DEF Settled, KeptIn
  <2>6. KeptIn(pending.left)'
    BY <2>2, <2>4, <2>5
  <2>7. pending.left # {} => KeptIn(loaded)'
    BY <2>1, <2>5
  <2>8. pending'.left = {} => KeptIn({})'
    BY <2>6 DEF KeptIn
  <2>9. setup.windowed' /\ (pending.left # {} => KeptIn(loaded))'
    BY <2>1, <2>4, <2>7
  <2> HIDE DEF TypeOK, Control, Progress, Tracked
  <2> QED
    BY <2>6, <2>8, <2>9
<1>33. CASE UNCHANGED vars
  BY <1>33 DEF vars
<1> QED
  BY <1>1, <1>2, <1>3, <1>4, <1>5, <1>6, <1>7, <1>8, <1>9, <1>10, <1>11, <1>12, <1>13,
     <1>14, <1>15, <1>16, <1>17, <1>18, <1>19, <1>20, <1>21, <1>22, <1>23, <1>24, <1>25,
     <1>26, <1>27, <1>28, <1>29, <1>30, <1>31, <1>32, <1>33
  DEF Next, SessionStep, ThreadStep, Event

-----------------------------------------------------------------------------
RefInv ==
    /\ Inv
    /\ Tracked
    /\ "reset" \notin setup.events => Progress /\ Resumable

\* What is kept nowhere is not left.
LEMMA NothingLeft ==
    ASSUME KeptIn({}), passScope \subseteq Stream
    PROVE  Abstract!Left = {}
BY StreamAssumption DEF KeptIn, Settled, Abstract!Left, None

\* A step that leaves the pass and the database alone is a stutter, or a session begins.
LEMMA QuietStep ==
    ASSUME UNCHANGED <<setup, live, pass>>, session = "post" <=> session' = "post",
           overlapped' \in {overlapped, TRUE}
    PROVE  Abstract!Next
<1>1. Outdated' \in BOOLEAN
  BY DEF Outdated
<1> QED
  BY <1>1 DEF Abstract!Next, Abstract!Enter, pass

\* A step beside an earlier scan, of those that begin no pass.
LEMMA MixedStep ==
    ASSUME UNCHANGED <<setup, passScope>>, live' \subseteq live, overlapped, overlapped'
    PROVE  Abstract!Next
BY DEF Abstract!Next, Abstract!Mix

\* Every step is one of the pass.
LEMMA StepRefines ==
    ASSUME RefInv, [Next]_vars
    PROVE  [Abstract!Next]_Abstract!vars
<1> SUFFICES ASSUME Next
             PROVE  Abstract!Next
  <2>1. UNCHANGED vars => UNCHANGED Abstract!vars
    BY DEF vars, disk, control, pass, history, Abstract!vars, Outdated
  <2> QED
    BY <2>1
<1>0. passScope \subseteq Stream /\ overlapped \in BOOLEAN
  BY DEF RefInv, Inv, TypeOK
<1> USE DEF disk, control, scan, history
<1>1. CASE CronFires
  <2>1. /\ UNCHANGED <<setup, live, pass>> /\ session # "post" /\ session' # "post"
        /\ overlapped' = (overlapped \/ thread # "off")
    BY <1>1 DEF CronFires
  <2>2. overlapped' \in {overlapped, TRUE}
    BY <1>0, <2>1
  <2> QED
    BY <2>1, <2>2, QuietStep
<1>2. CASE ApplyPending
  BY <1>2, QuietStep DEF ApplyPending
<1>3. CASE Reanchor
  BY <1>3, QuietStep DEF Reanchor
<1>4. CASE DiscardPending
  <2>1. /\ session = "apply" /\ session' = "load" /\ UNCHANGED <<setup, live, scope>>
        /\ pending.left = {} \/ pending.scope # scope \/ Remaining = {}
        /\ pending' = NoPending /\ passScope' = {} /\ probed' = NoRows /\ condemned' = {}
        /\ overlapped' \in {FALSE, overlapped}
    BY <1>4 DEF DiscardPending, NoPass, RefInv, Inv, TypeOK, Control, Starting
  <2>2. CASE pending.left = {}
    <3>1. "reset" \notin setup.events /\ ~overlapped => Abstract!Left = {} \/ probed = NoRows
      BY <1>0, <2>1, <2>2, NothingLeft DEF Inv, Control, RefInv, Resumable
    <3> QED
      BY <2>1, <3>1
      DEF Abstract!Next, Abstract!Abandon, Abstract!Lasting, Abstract!Nothing, NoRows, None,
          Outdated, NoPending
  <2>3. CASE pending.left # {}
    <3>1. "reset" \notin setup.events /\ ~overlapped => Outdated \/ Abstract!Left = {}
      <4> SUFFICES ASSUME "reset" \notin setup.events, ~Outdated, ~overlapped
                   PROVE  KeptIn({})
        BY <1>0, NothingLeft
      <4>1. KeptIn(pending.left) /\ KeptIn(loaded)
        BY <2>1, <2>3 DEF RefInv, Inv, Control, Progress, Resumable
      <4>2. Remaining = {}
        BY <2>1, <2>3 DEF Outdated
      <4> QED
        BY <4>1, <4>2 DEF KeptIn, Settled, Remaining
    <3> QED
      BY <2>1, <3>1
      DEF Abstract!Next, Abstract!Abandon, Abstract!Lasting, Abstract!Nothing, NoRows, None,
          Outdated, NoPending
  <2> QED
    BY <2>2, <2>3
<1>5. CASE LoadGroups
  <2>1. /\ session = "load" /\ session' \in {"seed", "stamp"}
        /\ UNCHANGED <<setup, live, pending, scope>>
        /\ passScope' = StreamsOf(live \cap scope) /\ probed' = NoRows /\ condemned' = {}
        /\ overlapped' \in {FALSE, overlapped}
    BY <1>5 DEF LoadGroups, RefInv, Inv, TypeOK, Control, Starting
  <2>2. passScope' \in SUBSET {s \in Stream : ChannelOf[s] \notin Channel \ live}
    BY <2>1, StreamAssumption, SetupAssumption DEF StreamsOf, RefInv, Inv, TypeOK, Setup
  <2>3. setup.windowed => passScope = {}
    BY <2>1 DEF RefInv, Tracked
  <2> QED
    BY <2>1, <2>2, <2>3
    DEF Abstract!Next, Abstract!Begin, Abstract!Nothing, NoRows, None, Outdated
<1>6. CASE LoadFails
  BY <1>6, QuietStep DEF LoadFails, Return
<1>7. CASE SeedPending
  BY <1>7, QuietStep DEF SeedPending
<1>8. CASE Stamp
  BY <1>8, QuietStep DEF Stamp
<1>9. CASE NothingToCheck
  BY <1>9, QuietStep DEF NothingToCheck, Return
<1>10. CASE Announce
  BY <1>10, QuietStep DEF Announce
<1>11. CASE Launch
  BY <1>11, QuietStep DEF Launch
<1>12. CASE StatusIdle
  BY <1>12, QuietStep DEF StatusIdle
<1>13. CASE ResultsGate
  BY <1>13, QuietStep DEF ResultsGate
<1>14. CASE StoppedGate
  BY <1>14, QuietStep DEF StoppedGate, Return
<1>15. CASE MidListGate
  <2>1. /\ session = "midlist"
        /\ UNCHANGED <<setup, live, pending, scope, passScope, probed, condemned, overlapped>>
    BY <1>15 DEF MidListGate, disk, pass, history
  <2>2. CASE setup.windowed /\ pending.left # {}
    BY <1>15, <2>1, <2>2, QuietStep DEF MidListGate, Return, pass
  <2>3. CASE ~(setup.windowed /\ pending.left # {}) /\ ~overlapped
    <3>1. condemned = {}
      BY <2>1, <2>3 DEF RefInv, Tracked
    <3>2. "reset" \notin setup.events => Abstract!Left = {}
      BY <1>0, <2>1, <2>3, NothingLeft DEF RefInv, Progress, Served, After, KeptIn
    <3>3. session' = "post"
      BY <1>15, <2>3 DEF MidListGate
    <3> QED
      BY <2>1, <3>1, <3>2, <3>3 DEF Abstract!Next, Abstract!Admit, Outdated
  <2>4. CASE overlapped
    BY <2>1, <2>4, MixedStep
  <2> QED
    BY <2>2, <2>3, <2>4
<1>16. CASE PostActions
  <2>1. /\ session = "post" /\ session' = "idle"
        /\ UNCHANGED <<setup, pending, scope, passScope, probed, overlapped>>
        /\ condemned' = DeadChannels(results)
        /\ live' \subseteq live /\ live \subseteq live' \union condemned'
    BY <1>16 DEF PostActions, Return, history
  <2>2. CASE ~overlapped
    <3>1. \A s \in Stream : results[s] = "dead" => probed[s] = "dead"
      BY <2>1, <2>2 DEF RefInv, Inv, Control, Tracked, Served, After, None
    <3>2. condemned' \in SUBSET {c \in Channel :
                                  \E s \in Stream : ChannelOf[s] = c /\ probed[s] = "dead"}
      BY <2>1, <3>1 DEF DeadChannels
    <3>3. /\ Channel \ live' \in SUBSET Channel
          /\ Channel \ live \subseteq Channel \ live'
          /\ Channel \ live' \subseteq (Channel \ live) \union condemned'
      BY <2>1
    <3> QED
      BY <2>1, <3>2, <3>3 DEF Abstract!Next, Abstract!Act, Outdated
  <2>3. CASE overlapped
    BY <2>1, <2>3, MixedStep
  <2> QED
    BY <2>2, <2>3
<1>17. CASE SaveResults
  BY <1>17, QuietStep DEF SaveResults
<1>18. CASE ScanRaises
  BY <1>18, QuietStep DEF ScanRaises
<1>19. CASE GoIdle
  BY <1>19, QuietStep DEF GoIdle
<1>20. CASE ThreadEnds
  BY <1>20, QuietStep DEF ThreadEnds
<1>21. CASE Boot
  BY <1>21, QuietStep DEF Boot
<1>22. CASE WindowCloses
  BY <1>22, QuietStep DEF WindowCloses
<1>23. CASE Crash
  <2>1. /\ session' = "down"
        /\ UNCHANGED <<setup, live, pending, scope, passScope, probed, condemned, overlapped>>
    BY <1>23 DEF Crash, disk, pass
  <2>2. CASE session = "post"
    BY <2>1, <2>2 DEF Abstract!Next, Abstract!Interrupt, Outdated
  <2>3. CASE session # "post"
    BY <2>1, <2>3, QuietStep DEF pass
  <2> QED
    BY <2>2, <2>3
<1>24. CASE Cancel
  BY <1>24, QuietStep DEF Cancel
<1>25. CASE StopScheduler
  BY <1>25, QuietStep DEF StopScheduler
<1>26. CASE Unload
  BY <1>26, QuietStep DEF Unload
<1>27. CASE ResetProgress
  BY <1>27, QuietStep DEF ResetProgress
<1>28. CASE EditSettings
  BY <1>28, QuietStep DEF EditSettings
<1>29. CASE UserLoadsGroups
  BY <1>29, QuietStep DEF UserLoadsGroups
<1>30. CASE RemoveChannel
  <2>1. PICK c \in live : live' = live \ {c}
    BY <1>30 DEF RemoveChannel
  <2>2. /\ Channel \ live' = (Channel \ live) \union {c} /\ c \in Channel
        /\ UNCHANGED <<setup, pending, scope, session, passScope, probed, condemned, overlapped>>
    BY <1>30, <2>1 DEF RemoveChannel, RefInv, Inv, TypeOK, control, pass, history
  <2> QED
    BY <2>2 DEF Abstract!Next, Abstract!Lose, Outdated
<1>31. ASSUME NEW s \in Stream, BeginProbe(s)
      PROVE  Abstract!Next
  BY <1>31, QuietStep DEF BeginProbe
<1>32. ASSUME NEW s \in Stream, EndProbe(s)
      PROVE  Abstract!Next
  <2>1. PICK v \in Verdict : probed' = [probed EXCEPT ![s] = v]
    BY <1>32 DEF EndProbe
  <2>2. /\ probing = s /\ probing # None /\ thread = "loop" /\ pending' = MarkDone(s)
        /\ UNCHANGED <<setup, live, session, scope, passScope, condemned, overlapped>>
    BY <1>32, StreamAssumption DEF EndProbe, RefInv, Inv, TypeOK, Control, None
  <2>3. CASE ~overlapped
    <3>1. /\ ~Outdated /\ condemned = {} /\ s \in passScope
          /\ ~Reloading => probed[s] = None
      BY <2>2, <2>3 DEF RefInv, Tracked, Unprobed
    <3>2. session # "post"
      BY <2>2, <2>3 DEF RefInv, Inv, Control, Served, After
    <3>3. Outdated' = Outdated
      BY <2>2, <3>1 DEF Outdated, MarkDone, NoPending
    <3>4. Reloading => Abstract!Repeating
      BY DEF Reloading, Abstract!Repeating
    <3>5. Abstract!Judge(s)
      BY <2>1, <2>2, <3>1, <3>2, <3>3, <3>4 DEF Abstract!Judge, Abstract!Verdict, Verdict, None
    <3> QED
      BY <3>5 DEF Abstract!Next
  <2>4. CASE overlapped
    BY <2>2, <2>4, MixedStep
  <2> QED
    BY <2>3, <2>4
<1> QED
  BY <1>1, <1>2, <1>3, <1>4, <1>5, <1>6, <1>7, <1>8, <1>9, <1>10, <1>11, <1>12, <1>13,
     <1>14, <1>15, <1>16, <1>17, <1>18, <1>19, <1>20, <1>21, <1>22, <1>23, <1>24, <1>25,
     <1>26, <1>27, <1>28, <1>29, <1>30, <1>31, <1>32
  DEF Next, SessionStep, ThreadStep, Event

\* Windows, kills and stops, loads and removals: whatever comes, the sessions together go
\* through a list once and act at its end, as long as none of them begins beside an
\* earlier scan.
THEOREM Refinement ==
    ASSUME OneSelection
    PROVE  Spec => ImplementsPass
<1>1. Init => RefInv /\ Abstract!Init
  <2> SUFFICES ASSUME Init
               PROVE  RefInv /\ Abstract!Init
    OBVIOUS
  <2>1. Progress
    BY StreamAssumption DEF Init, Progress, KeptIn, Settled, After, Served, NoPending, NoRows
  <2>2. Tracked
    BY DEF Init, Tracked, After, Served, NoPending, NoRows
  <2>3. Resumable
    BY DEF Init, Resumable, KeptIn, NoPending
  <2>4. Abstract!Init
    BY DEF Init, Abstract!Init, Abstract!Nothing, Outdated, NoPending, NoRows, None
  <2> QED
    BY <2>1, <2>2, <2>3, <2>4, InitInv DEF RefInv
<1>2. RefInv /\ [Next]_vars => RefInv' /\ [Abstract!Next]_Abstract!vars
  <2> SUFFICES ASSUME RefInv, [Next]_vars
               PROVE  RefInv'
    BY StepRefines
  <2>1. Inv' /\ Tracked'
    BY TypesKept, ControlKept, TrackedKept DEF RefInv, Inv
  <2>2. setup' = setup
    BY SetupStays
  <2>3. CASE "reset" \notin setup.events
    <3>1. Progress'
      BY <2>3, ProgressKept DEF RefInv, Inv
    <3>2. Resumable'
      BY <2>3, <3>1, ResumableKept DEF RefInv, Inv
    <3> QED
      BY <2>1, <3>1, <3>2 DEF RefInv
  <2>4. CASE "reset" \in setup.events
    BY <2>1, <2>2, <2>4 DEF RefInv
  <2> QED
    BY <2>3, <2>4
<1> QED
  BY <1>1, <1>2, PTL DEF Spec, ImplementsPass, Abstract!Spec
=============================================================================
