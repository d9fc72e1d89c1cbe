----------------------- MODULE ChannelActionsProofs -----------------------
(* Theorems about ChannelActions, for any channels, groups and findings,   *)
(* and any order of the actions in a session and of the buttons pressed.   *)
EXTENDS ChannelActions, SequenceTheorems, FiniteSetTheorems, TLAPS

Places == (Groups \union Managed) \union {NoGroup}

\* What is typed of the groups, and of the rest but for the names.
GroupsOK ==
    /\ group \in [Channel -> Places]
    /\ existing \subseteq Groups
    /\ original \in [Channel -> Groups \union {NoGroup}]
    /\ home \in [Channel -> Groups]

OthersOK ==
    /\ condition \in [Channel -> Conditions]
    /\ listed \subseteq Channel /\ rows \in [Channel -> SUBSET Kind]
    /\ step \in -1..Len(Steps) \union {Idle}
    /\ missed \in BOOLEAN
    /\ forfeited \subseteq Channel
    /\ faults \in 0..MaxFaults

Named(names) == \A c \in Channel : names[c] \in Seq(Tag) /\ Len(names[c]) <= MaxTags

\* Where a channel is and was: at home, or parked with its home noted, unless the home
\* is gone.
Home(c) ==
    /\ original[c] \in {NoGroup, home[c]}
    /\ group[c] \in Groups => group[c] = home[c]
    /\ group[c] \in Managed => original[c] = home[c] \/ home[c] \notin existing

Inv ==
    /\ GroupsOK /\ OthersOK
    /\ Named(name) /\ Named(called) /\ Named(reported)
    /\ \A c \in Channel \ forfeited : Home(c)

LEMMA InvTyped == Inv => TypeOK
BY DEF Inv, GroupsOK, OthersOK, Named, TypeOK, Places

-----------------------------------------------------------------------------
(* Names. *)

LEMMA CutNamed ==
    ASSUME NEW tags \in Seq(Tag)
    PROVE  Cut(tags) \in Seq(Tag) /\ Len(Cut(tags)) <= MaxTags
<1>1. MaxTags \in Nat /\ MaxTags >= 1 /\ Len(tags) \in Nat
  BY ActionsAssumption, LenProperties
<1>2. CASE Len(tags) <= MaxTags
  BY <1>2 DEF Cut
<1>3. CASE ~(Len(tags) <= MaxTags)
  <2> DEFINE first == Len(tags) - MaxTags + 1
  <2>1. first \in 1..Len(tags) + 1 /\ Len(tags) \in first - 1..Len(tags)
    BY <1>1, <1>3
  <2>2. Cut(tags) = SubSeq(tags, first, Len(tags))
    BY <1>3 DEF Cut
  <2>3. /\ SubSeq(tags, first, Len(tags)) \in Seq(Tag)
        /\ Len(SubSeq(tags, first, Len(tags))) = Len(tags) - first + 1
    BY <2>1, SubSeqProperties
  <2> QED
    BY <1>1, <2>2, <2>3
<1> QED
  BY <1>2, <1>3

LEMMA QualityCut ==
    ASSUME NEW tags \in Seq(Tag)
    PROVE  WithoutQuality(tags) \in Seq(Tag)
<1> DEFINE kept == {i \in 1..Len(tags) : \E j \in i..Len(tags) : tags[j] \notin QualityTags}
<1>1. Len(tags) \in Nat
  BY LenProperties
<1>2. IsFiniteSet(1..Len(tags)) /\ Cardinality(1..Len(tags)) = Len(tags)
  BY <1>1, FS_Interval
<1>3. Cardinality(kept) \in Nat /\ Cardinality(kept) <= Len(tags)
  BY <1>2, FS_Subset, FS_CardinalityType
<1> HIDE DEF kept
<1>4. \A i \in 1..Cardinality(kept) : tags[i] \in Tag
  BY <1>1, <1>3
<1>5. SubSeq(tags, 1, Cardinality(kept)) \in Seq(Tag)
  BY <1>3, <1>4, SubSeqProperties
<1> QED
  BY <1>5 DEF WithoutQuality, kept

\* A name with one more tag is a name.
LEMMA Tagged ==
    ASSUME NEW tags \in Seq(Tag), NEW tag \in Tag
    PROVE  /\ Cut(Append(tags, tag)) \in Seq(Tag)
           /\ Len(Cut(Append(tags, tag))) <= MaxTags
BY CutNamed, AppendProperties

\* Whatever an action does, names stay names.
LEMMA DoNamed ==
    ASSUME Inv, NEW action \in Actions, Do(action)
    PROVE  Named(name)'
<1> USE DEF Inv, Named
<1>1. CASE Restore
  <2>1. <<>> \in Seq(Tag) /\ Len(<<>>) <= MaxTags
    BY ActionsAssumption
  <2> QED
    BY <1>1, <2>1 DEF Restore, Stripped
<1>2. ASSUME NEW chosen, NEW tag \in Tag, Rename(chosen, tag)
      PROVE  Named(name)'
  <2>1. \A c \in Channel : name'[c] \in {name[c], Cut(Append(reported[c], tag))}
    BY <1>2 DEF Rename
  <2> QED
    BY <2>1, Tagged
<1>3. CASE Suffix
  <2>1. PICK quality \in [AliveOnes \intersect Present -> {"HD", "SD"}],
             formats \in SUBSET {"HD", "SD"} :
          name' = [c \in Channel |->
              IF c \in DOMAIN quality /\ quality[c] \in formats
                THEN Cut(Append(WithoutQuality(name[c]),
                                IF quality[c] = "HD" THEN "[HD]" ELSE "[SD]"))
                ELSE name[c]]
    BY <1>3 DEF Suffix
  <2>2. \A c \in Channel : \E tag \in Tag :
          name'[c] \in {name[c], Cut(Append(WithoutQuality(name[c]), tag))}
    BY <2>1 DEF Tag, QualityTags
  <2> QED
    BY <2>2, QualityCut, Tagged
<1>4. CASE UNCHANGED name
  BY <1>4
<1>5. "[DEAD]" \in Tag /\ "[Slow]" \in Tag /\ "[Blank]" \in Tag
  BY DEF Tag, StatusTags
<1> QED
  BY <1>1, <1>2, <1>3, <1>4, <1>5 DEF Do, Move, Delete

-----------------------------------------------------------------------------
(* Groups. *)

LEMMA NoGroupApart == NoGroup \notin Managed /\ Groups \intersect Managed = {}
                      /\ NoGroup \notin Groups
BY ActionsAssumption, NoGroupAssumption DEF NoGroup, Managed

\* What is captured before a move is the home.
LEMMA CaptureHome ==
    ASSUME Inv, NEW chosen
    PROVE  /\ Captured(chosen) \in [Channel -> Groups \union {NoGroup}]
           /\ \A c \in Channel \ forfeited :
                /\ Captured(chosen)[c] \in {NoGroup, home[c]}
                /\ group[c] \in Managed => Captured(chosen)[c] = original[c]
                /\ c \in chosen /\ group[c] \in Groups => Captured(chosen)[c] = home[c]
BY NoGroupApart DEF Inv, GroupsOK, Home, Captured, Present, Places

\* Whatever an action does, a parked channel's home is known.
LEMMA DoHome ==
    ASSUME Inv, NEW action \in Actions, Do(action), UNCHANGED <<existing, home, forfeited>>
    PROVE  GroupsOK' /\ (\A c \in Channel \ forfeited : Home(c))'
<1> USE DEF Inv
<1>1. CASE Restore
  BY <1>1, NoGroupApart DEF Restore, Returned, GroupsOK, Home, Places
<1>2. CASE UNCHANGED <<group, original>>
  BY <1>2 DEF GroupsOK, Home
<1>3. ASSUME NEW chosen, NEW destination \in Managed, Move(chosen, destination)
      PROVE  GroupsOK' /\ (\A c \in Channel \ forfeited : Home(c))'
  <2>1. GroupsOK'
    BY <1>3, CaptureHome DEF Move, GroupsOK, Places
  <2>2. ASSUME NEW c \in Channel \ forfeited
        PROVE  Home(c)'
    <3>1. original' = Captured(chosen)
      BY <1>3 DEF Move
    <3>2. group'[c] = IF c \in chosen /\ group[c] # NoGroup THEN destination ELSE group[c]
      BY <1>3 DEF Move, Present
    <3>3. group[c] \in (Groups \union Managed) \union {NoGroup}
      BY DEF GroupsOK, Places
    <3> QED
      BY <3>1, <3>2, <3>3, CaptureHome, NoGroupApart DEF Home
  <2> QED
    BY <2>1, <2>2
<1>4. CASE Delete
  BY <1>4, NoGroupApart DEF Delete, GroupsOK, Home, Places
<1>5. action \in {"move dead", "move slow", "move blank"} => Destination(action) \in Managed
  BY DEF Destination, Managed
<1> QED
  BY <1>1, <1>2, <1>3, <1>4, <1>5 DEF Do, Rename, Suffix

-----------------------------------------------------------------------------
(* Step by step. *)

LEMMA Typed == Inv => Steps \in Seq(Actions) /\ Len(Steps) \in Nat /\ MaxFaults \in Nat
BY ActionsAssumption, LenProperties

LEMMA WorldKeepsInv ==
    ASSUME Inv, NEW c \in Channel, Changes(c) \/ UserMoves(c)
    PROVE  Inv'
<1> USE DEF Inv, session, history, world
<1>1. CASE Changes(c)
  <2>1. GroupsOK' /\ OthersOK'
    BY <1>1 DEF Changes, GroupsOK, OthersOK
  <2>2. Named(name)' /\ Named(called)' /\ Named(reported)'
    BY <1>1 DEF Changes, Named
  <2>3. (\A o \in Channel \ forfeited : Home(o))'
    BY <1>1 DEF Changes, Home
  <2> QED
    BY <2>1, <2>2, <2>3
<1>2. CASE UserMoves(c)
  <2>1. GroupsOK'
    BY <1>2 DEF UserMoves, GroupsOK, Places
  <2>2. OthersOK'
    BY <1>2 DEF UserMoves, OthersOK
  <2>3. Named(name)' /\ Named(called)' /\ Named(reported)'
    BY <1>2 DEF UserMoves, Named
  <2>4. (\A o \in Channel \ forfeited : Home(o))'
    <3>1. PICK g \in existing : /\ group' = [group EXCEPT ![c] = g]
                                /\ home' = [home EXCEPT ![c] = g]
      BY <1>2 DEF UserMoves
    <3>2. g \in Groups /\ g \notin Managed
      BY NoGroupApart DEF GroupsOK
    <3>3. ASSUME NEW o \in Channel \ forfeited', o # c
          PROVE  Home(o)'
      BY <1>2, <3>1, <3>3 DEF UserMoves, GroupsOK, Home
    <3>4. c \notin forfeited' => Home(c)'
      BY <1>2, <3>1, <3>2 DEF UserMoves, GroupsOK, Home
    <3> QED
      BY <3>3, <3>4
  <2> QED
    BY <2>1, <2>2, <2>3, <2>4
<1> QED
  BY <1>1, <1>2

LEMMA DropKeepsInv ==
    ASSUME Inv, NEW g \in Groups, UserDrops(g)
    PROVE  Inv'
<1> USE DEF Inv, UserDrops, session, history
<1>1. GroupsOK' /\ OthersOK'
  BY DEF GroupsOK, OthersOK
<1>2. Named(name)' /\ Named(called)' /\ Named(reported)'
  BY DEF Named
<1>3. (\A c \in Channel \ forfeited : Home(c))'
  BY DEF Home
<1> QED
  BY <1>1, <1>2, <1>3

\* The steps of a session that change no channel.
LEMMA SessionKeepsInv ==
    ASSUME Inv, Load \/ Check \/ Finish
    PROVE  Inv'
<1> USE DEF Inv, session, history, world
<1>1. /\ UNCHANGED <<name, group, existing, condition, original, home, forfeited, faults>>
      /\ missed' \in {FALSE, missed}
  BY DEF Load, Check, Finish
<1>2. step' \in -1..Len(Steps) \union {Idle}
  BY Typed DEF Load, Check, Finish, Idle
<1>3. listed' \subseteq Channel /\ rows' \in [Channel -> SUBSET Kind]
  BY ActionsAssumption DEF Load, Check, Finish, OthersOK, Present
<1>4. GroupsOK' /\ OthersOK'
  BY <1>1, <1>2, <1>3 DEF GroupsOK, OthersOK
<1>5. Named(name)' /\ Named(called)' /\ Named(reported)'
  BY DEF Load, Check, Finish, Named
<1>6. (\A c \in Channel \ forfeited : Home(c))'
  BY <1>1 DEF Home
<1> QED
  BY <1>4, <1>5, <1>6

\* An action, by the session or by a button.
LEMMA ActKeepsInv ==
    ASSUME Inv, Act \/ \E button \in Buttons : Press(button)
    PROVE  Inv'
<1> USE DEF Inv
<1>1. PICK action \in Actions : Do(action)
  <2>1. CASE Act
    <3>1. step + 1 \in 1..Len(Steps)
      BY <2>1, Typed DEF Act
    <3>2. Steps[step + 1] \in Actions
      BY <3>1, Typed
    <3> QED
      BY <2>1, <3>2 DEF Act
  <2>2. CASE \E button \in Buttons : Press(button)
    BY <2>2, ActionsAssumption DEF Press
  <2> QED
    BY <2>1, <2>2
<1>2. /\ UNCHANGED <<existing, condition, listed, called, rows, reported>>
      /\ UNCHANGED <<missed, home, forfeited, faults>>
  BY DEF Act, Press, world, session, history
<1>3. step' \in -1..Len(Steps) \union {Idle}
  <2>1. CASE Act
    BY <2>1, Typed DEF Act
  <2>2. CASE \E button \in Buttons : Press(button)
    BY <2>2 DEF Press, session, OthersOK
  <2> QED
    BY <2>1, <2>2
<1>4. OthersOK'
  BY <1>2, <1>3 DEF OthersOK
<1>5. Named(name)' /\ Named(called)' /\ Named(reported)'
  BY <1>1, <1>2, DoNamed DEF Named
<1>6. GroupsOK' /\ (\A c \in Channel \ forfeited : Home(c))'
  BY <1>1, <1>2, DoHome
<1> QED
  BY <1>4, <1>5, <1>6

\* A move that stops after the capture, or begins without one.
LEMMA FaultKeepsInv ==
    ASSUME Inv, MoveFails \/ CaptureFails
    PROVE  Inv'
<1> USE DEF Inv, world
<1>1. UNCHANGED <<name, existing, condition, listed, called, rows, reported, missed, home>>
  BY DEF MoveFails, CaptureFails
<1>2. step' \in -1..Len(Steps) \union {Idle} /\ faults' \in 0..MaxFaults
  BY Typed DEF MoveFails, CaptureFails, OthersOK
<1>3. Named(name)' /\ Named(called)' /\ Named(reported)'
  BY <1>1 DEF Named
<1>4. CASE MoveFails
  <2>1. UNCHANGED <<group, forfeited>> /\ original' = Captured(Target(Steps[step + 1]))
    BY <1>4 DEF MoveFails
  <2>2. GroupsOK' /\ OthersOK'
    BY <1>1, <1>2, <2>1, CaptureHome DEF GroupsOK, OthersOK
  <2>3. (\A c \in Channel \ forfeited : Home(c))'
    BY <1>1, <2>1, CaptureHome DEF Home
  <2> QED
    BY <1>3, <2>2, <2>3
<1>5. CASE CaptureFails
  <2> DEFINE destination == Destination(Steps[step + 1])
             moved == Target(Steps[step + 1]) \intersect Present
  <2>1. UNCHANGED original /\ destination # NoGroup
    BY <1>5 DEF CaptureFails
  <2>2. /\ group' = [c \in Channel |-> IF c \in moved THEN destination ELSE group[c]]
        /\ forfeited' = forfeited \union {c \in moved : original[c] = NoGroup}
    BY <1>5 DEF CaptureFails
  <2>3. destination \in Managed
    BY <2>1 DEF Destination, Managed
  <2>4. moved \subseteq Channel
    BY DEF Present
  <2> HIDE DEF destination, moved
  <2>5. GroupsOK' /\ OthersOK'
    BY <1>1, <1>2, <2>1, <2>2, <2>3, <2>4 DEF GroupsOK, OthersOK, Places
  <2>6. (\A c \in Channel \ forfeited : Home(c))'
    BY <1>1, <2>1, <2>2, <2>3, NoGroupApart DEF GroupsOK, Home
  <2> QED
    BY <1>3, <2>5, <2>6
<1> QED
  BY <1>4, <1>5

\* A restoring that stops half way.
LEMMA HalfRestoringKeepsInv ==
    ASSUME Inv, RestoreFails
    PROVE  Inv'
<1> USE DEF Inv, world
<1>1. /\ UNCHANGED <<existing, condition, listed, called, rows, reported, original, home, forfeited>>
      /\ missed' = TRUE
      /\ name' \in {name, Stripped} /\ group' \in {group, Returned}
  BY DEF RestoreFails
<1>2. step' \in -1..Len(Steps) \union {Idle} /\ faults' \in 0..MaxFaults
  BY Typed DEF RestoreFails, OthersOK
<1>3. <<>> \in Seq(Tag) /\ Len(<<>>) <= MaxTags
  BY ActionsAssumption
<1>4. Named(name)' /\ Named(called)' /\ Named(reported)'
  BY <1>1, <1>3 DEF Named, Stripped
<1>5. GroupsOK' /\ OthersOK'
  BY <1>1, <1>2 DEF GroupsOK, OthersOK, Returned, Places
<1>6. (\A c \in Channel \ forfeited : Home(c))'
  BY <1>1, NoGroupApart DEF GroupsOK, Returned, Home
<1> QED
  BY <1>4, <1>5, <1>6

-----------------------------------------------------------------------------
\* The invariant: names are names, and a parked channel's home is known.
THEOREM Invariance == Spec => []Inv
<1>1. Init => Inv
  <2> SUFFICES ASSUME Init
               PROVE  Inv
    OBVIOUS
  <2>1. GroupsOK
    BY DEF Init, GroupsOK, Places
  <2>2. OthersOK
    <3>1. missed \in BOOLEAN
      BY DEF Init
    <3>2. faults \in 0..MaxFaults /\ rows \in [Channel -> SUBSET Kind]
      BY ActionsAssumption DEF Init
    <3> QED
      BY <3>1, <3>2 DEF Init, OthersOK
  <2>3. <<>> \in Seq(Tag) /\ Len(<<>>) <= MaxTags
    BY ActionsAssumption
  <2>4. Named(name) /\ Named(called) /\ Named(reported)
    BY <2>3 DEF Init, Named
  <2>5. \A c \in Channel \ forfeited : Home(c)
    BY NoGroupApart DEF Init, Home
  <2> QED
    BY <2>1, <2>2, <2>4, <2>5 DEF Inv
<1>2. Inv /\ [Next]_vars => Inv'
  <2> SUFFICES ASSUME Inv, [Next]_vars
               PROVE  Inv'
    OBVIOUS
  <2>1. CASE Next
    BY <2>1, WorldKeepsInv, DropKeepsInv, SessionKeepsInv, ActKeepsInv, FaultKeepsInv,
       HalfRestoringKeepsInv DEF Next
  <2>2. CASE UNCHANGED vars
    <3>1. /\ UNCHANGED <<name, group, existing, condition, original, home, forfeited>>
          /\ UNCHANGED <<missed, faults, listed, called, rows, reported, step>>
      BY <2>2 DEF vars, world, session, history
    <3>2. GroupsOK' /\ OthersOK'
      BY <3>1 DEF Inv, GroupsOK, OthersOK
    <3>3. Named(name)' /\ Named(called)' /\ Named(reported)'
      BY <3>1 DEF Inv, Named
    <3>4. (\A c \in Channel \ forfeited : Home(c))'
      BY <3>1 DEF Inv, Home
    <3> QED
      BY <3>2, <3>3, <3>4 DEF Inv
  <2> QED
    BY <2>1, <2>2
<1> QED
  BY <1>1, <1>2, PTL DEF Spec

\* The types.
THEOREM TypeCorrect == Spec => []TypeOK
BY Invariance, InvTyped, PTL

\* The group that is captured is the one the channel came from, whatever the order of
\* the actions.
THEOREM Homing == Spec => []HomeKept
<1>1. Inv => HomeKept
  BY DEF Inv, Home, HomeKept
<1> QED
  BY <1>1, Invariance, PTL

\* The report's words for a channel agree with what the actions do to it, whatever was
\* found of its streams.
THEOREM Agreement == Spec => []ReportAgrees
<1>1. Inv => ReportAgrees
  <2> SUFFICES ASSUME Inv, NEW c \in Checked
               PROVE  /\ c \in (DeadOnes \union BlankOnes) \union AllDead
                           <=> Classify(rows[c]) \in {"confirmed_dead", "provider_dead"}
                      /\ c \in SlowOnes <=> Classify(rows[c]) = "low_framerate"
    BY DEF ReportAgrees
  <2> DEFINE kinds == rows[c]
  <2>1. kinds \subseteq Kind /\ kinds # {}
    BY DEF Inv, OthersOK, Checked
  <2>2. /\ c \in DeadOnes <=> kinds \subseteq {"dead", "frozen"}
        /\ c \in BlankOnes <=> kinds = {"blank"}
        /\ c \in AllDead <=> kinds \subseteq {"dead", "frozen", "blank"}
        /\ c \in SlowOnes <=> kinds \intersect Playing = {"slow"}
    BY DEF DeadOnes, BlankOnes, AllDead, SlowOnes
  <2>3. c \in (DeadOnes \union BlankOnes) \union AllDead
          <=> kinds \subseteq {"dead", "frozen", "blank"}
    BY <2>2
  <2> HIDE DEF kinds
  <2>4. CASE kinds \intersect Playing # {}
    <3>1. Classify(kinds) = IF kinds \intersect Playing = {"slow"} THEN "low_framerate"
                            ELSE IF kinds # kinds \intersect Playing THEN "backup_only"
                            ELSE "working"
      BY <2>4 DEF Classify
    <3>2. ~(kinds \subseteq {"dead", "frozen", "blank"})
      BY <2>4 DEF Playing
    <3> QED
      BY <2>2, <2>3, <3>1, <3>2 DEF kinds
  <2>5. CASE kinds \intersect Playing = {} /\ kinds \intersect {"skipped", "audio"} # {}
    <3>1. Classify(kinds) \in {"audio_only", "not_judged"}
      BY <2>5 DEF Classify
    <3>2. ~(kinds \subseteq {"dead", "frozen", "blank"})
      BY <2>5
    <3> QED
      BY <2>2, <2>3, <2>5, <3>1, <3>2 DEF kinds
  <2>6. CASE kinds \intersect Playing = {} /\ kinds \intersect {"skipped", "audio"} = {}
    <3>1. Classify(kinds) \in {"provider_dead", "confirmed_dead"}
      BY <2>6 DEF Classify
    <3>2. kinds \subseteq {"dead", "frozen", "blank"}
      BY <2>1, <2>6 DEF Kind, Playing
    <3> QED
      BY <2>2, <2>3, <2>6, <3>1, <3>2 DEF kinds
  <2> QED
    BY <2>4, <2>5, <2>6
<1> QED
  BY <1>1, Invariance, PTL
-----------------------------------------------------------------------------
(* What plays is not left in a managed group. *)

FullRate(c) == rows[c] \intersect {"HD", "SD"} # {}

\* c is at home, or there is a reason why not.
Welcome(c) == FullRate(c) /\ home[c] \in existing => group[c] \in Groups

\* The session has gone through its check and its restoring, or has missed it.
PastRestore == step \in 0..Len(Steps) /\ \E i \in 1..step : Steps[i] = "restore"

\* From the restoring on, what plays at full rate stays out of the managed groups: no
\* other action is about it.
Restored == PastRestore /\ ~missed => \A c \in Present \ forfeited : Welcome(c)

\* No move and no deletion is about a channel that plays at full rate.
LEMMA FullRateSpared ==
    ASSUME NEW c, FullRate(c)
    PROVE  c \notin ((DeadOnes \union BlankOnes) \union SlowOnes) \union AllDead
BY DEF FullRate, DeadOnes, BlankOnes, SlowOnes, AllDead, Playing

\* The restoring brings home what plays at full rate.
LEMMA RestoreWelcomes ==
    ASSUME Inv, Restore, UNCHANGED <<existing, home, forfeited, rows>>,
           NEW c \in Present' \ forfeited'
    PROVE  Welcome(c)'
<1> SUFFICES ASSUME FullRate(c), home[c] \in existing
             PROVE  group'[c] \in Groups
  BY DEF Welcome, FullRate
<1>1. c \in Channel /\ c \in Checked
  BY DEF Present, FullRate, Checked
<1>2. group'[c] = IF c \in AliveOnes \intersect Present /\ Eligible(c) /\ original[c] \in existing
                    THEN original[c] ELSE group[c]
  BY <1>1 DEF Restore, Returned, Healed
<1>3. existing \subseteq Groups
  BY DEF Inv, GroupsOK
<1>4. CASE group[c] \in Managed
  <2>1. original[c] = home[c] /\ home[c] # NoGroup
    BY <1>1, <1>3, <1>4, NoGroupApart DEF Inv, Home
  <2>2. c \in AliveOnes
    BY <1>1 DEF AliveOnes, FullRate, Playing
  <2>3. c \in Present
    BY <1>1, <1>4, NoGroupApart DEF Present
  <2>4. Eligible(c)
    BY <2>1 DEF Eligible
  <2> QED
    BY <1>2, <1>3, <2>1, <2>2, <2>3, <2>4
<1>5. CASE group[c] \in Groups
  BY <1>2, <1>3, <1>5
<1>6. group'[c] # NoGroup /\ original[c] \in Groups \union {NoGroup}
  BY <1>1 DEF Present, Inv, GroupsOK
<1>7. CASE group[c] = NoGroup
  BY <1>2, <1>3, <1>6, <1>7
<1> QED
  BY <1>1, <1>4, <1>5, <1>7 DEF Inv, GroupsOK, Places

\* No other action takes it away again.
LEMMA OthersSpare ==
    ASSUME Inv, NEW action \in Actions, Do(action), ~Restore,
           UNCHANGED <<existing, home, forfeited, rows>>,
           NEW c \in Present' \ forfeited', c \in Present => Welcome(c)
    PROVE  Welcome(c)'
<1> SUFFICES ASSUME FullRate(c), home[c] \in existing
             PROVE  group'[c] \in Groups
  BY DEF Welcome, FullRate
<1>1. c \in Channel /\ group'[c] # NoGroup
  BY DEF Present
<1>2. ASSUME NEW chosen, NEW destination, Move(chosen, destination), c \notin chosen
      PROVE  group'[c] = group[c]
  BY <1>1, <1>2 DEF Move
<1>3. action \in {"move dead", "move slow", "move blank"} => c \notin Target(action)
  BY FullRateSpared DEF Target
<1>4. group'[c] = group[c]
  BY <1>1, <1>2, <1>3 DEF Do, Rename, Suffix, Delete
<1> QED
  BY <1>1, <1>4 DEF Welcome, Present

LEMMA RestoredStep == Inv /\ Restored /\ [Next]_vars => Restored'
<1> SUFFICES ASSUME Inv, Restored, [Next]_vars
             PROVE  Restored'
  OBVIOUS
<1> USE Typed
<1>1. ASSUME NEW c \in Channel, Changes(c) \/ UserMoves(c)
      PROVE  Restored'
  <2>1. UNCHANGED <<existing, rows, step, missed>>
    BY <1>1 DEF Changes, UserMoves, session, world, history
  <2>2. CASE Changes(c)
    BY <2>1, <2>2 DEF Changes, history, Restored, PastRestore, Present, Welcome, FullRate
  <2>3. CASE UserMoves(c)
    <3>1. PICK g \in existing : group' = [group EXCEPT ![c] = g] /\ home' = [home EXCEPT ![c] = g]
      BY <2>3 DEF UserMoves
    <3>2. group'[c] \in Groups
      BY <3>1 DEF Inv, GroupsOK
    <3>3. ASSUME NEW o \in Present' \ forfeited', PastRestore, ~missed, o # c
          PROVE  Welcome(o)'
      <4>1. o \in Present \ forfeited /\ group'[o] = group[o] /\ home'[o] = home[o]
        BY <2>3, <3>1, <3>3 DEF UserMoves, Present, Inv, GroupsOK
      <4> QED
        BY <2>1, <3>3, <4>1 DEF Restored, Welcome, FullRate
    <3> QED
      BY <2>1, <3>2, <3>3 DEF Restored, PastRestore, Welcome
  <2> QED
    BY <1>1, <2>2, <2>3
<1>2. ASSUME NEW g \in Groups, UserDrops(g)
      PROVE  Restored'
  BY <1>2 DEF UserDrops, session, history, Restored, PastRestore, Present, Welcome, FullRate
<1>3. CASE Load \/ Check \/ Finish
  \* A session begins anew, or is over.
  <2>1. step' \in {-1, 0, Idle}
    BY <1>3 DEF Load, Check, Finish
  <2>2. ~PastRestore'
    BY <2>1 DEF PastRestore, Idle
  <2> QED
    BY <2>2 DEF Restored
<1>4. CASE Act
  <2>1. /\ step \in 0..Len(Steps) - 1 /\ step' = step + 1 /\ Do(Steps[step + 1])
        /\ UNCHANGED <<existing, missed, home, forfeited, rows>>
    BY <1>4 DEF Act, world, history
  <2>2. Steps[step + 1] \in Actions
    <3>1. step + 1 \in 1..Len(Steps)
      BY <2>1
    <3> QED
      BY <3>1
  <2>3. ASSUME PastRestore', ~missed', NEW c \in Present' \ forfeited'
        PROVE  Welcome(c)'
    <3>1. CASE Restore
      BY <2>1, <3>1, RestoreWelcomes
    <3>2. CASE ~Restore
      <4>1. Steps[step + 1] # "restore"
        BY <2>1, <3>2 DEF Do
      <4>2. PastRestore
        BY <2>1, <2>3, <4>1 DEF PastRestore
      <4>3. c \in Present => Welcome(c)
        BY <2>1, <2>3, <4>2 DEF Restored
      <4> QED
        BY <2>1, <2>2, <2>3, <3>2, <4>3, OthersSpare
    <3> QED
      BY <3>1, <3>2
  <2> QED
    BY <2>3 DEF Restored
<1>5. ASSUME NEW action \in Buttons, Press(action)
      PROVE  Restored'
  <2>1. /\ step' = step /\ Do(action) /\ action \in Actions
        /\ UNCHANGED <<existing, missed, home, forfeited, rows>>
    BY <1>5, ActionsAssumption DEF Press, session, world, history
  <2>2. ASSUME PastRestore', ~missed', NEW c \in Present' \ forfeited'
        PROVE  Welcome(c)'
    <3>1. CASE Restore
      BY <2>1, <3>1, RestoreWelcomes
    <3>2. CASE ~Restore
      <4>1. c \in Present => Welcome(c)
        BY <2>1, <2>2 DEF Restored, PastRestore
      <4> QED
        BY <2>1, <3>2, <4>1, OthersSpare
    <3> QED
      BY <3>1, <3>2
  <2> QED
    BY <2>2 DEF Restored
<1>6. CASE MoveFails \/ CaptureFails
  \* A move fails: it is no restoring, and about nothing that plays at full rate.
  <2>1. /\ step \in 0..Len(Steps) - 1 /\ Destination(Steps[step + 1]) # NoGroup
        /\ step' \in {step + 1, Idle} /\ UNCHANGED <<existing, missed, home, rows>>
        /\ forfeited \subseteq forfeited'
    BY <1>6 DEF MoveFails, CaptureFails, world
  <2>2. Steps[step + 1] # "restore"
    BY <2>1 DEF Destination
  <2>3. ASSUME PastRestore', ~missed', NEW c \in Present' \ forfeited'
        PROVE  Welcome(c)'
    <3>1. PastRestore
      BY <2>1, <2>2, <2>3 DEF PastRestore, Idle
    <3>2. FullRate(c) => c \notin Target(Steps[step + 1])
      BY FullRateSpared DEF Target
    <3>3. FullRate(c) => group'[c] = group[c]
      BY <1>6, <2>3, <3>2 DEF MoveFails, CaptureFails, Present
    <3> QED
      BY <2>1, <2>3, <3>1, <3>3 DEF Restored, Welcome, FullRate, Present
  <2> QED
    BY <2>3 DEF Restored
<1>7. CASE RestoreFails
  BY <1>7 DEF RestoreFails, Restored
<1>8. CASE UNCHANGED vars
  BY <1>8 DEF vars, world, session, history, Restored, PastRestore, Present, Welcome, FullRate
<1> QED
  BY <1>1, <1>2, <1>3, <1>4, <1>5, <1>6, <1>7, <1>8 DEF Next

\* After its last step a session that restores has left no channel in a managed group that
\* its check found playing at full rate, in whatever order the session acts, whatever
\* buttons are pressed meanwhile, and whichever moves and captures fail.
THEOREM NothingLeftBehind ==
    ASSUME \E i \in 1..Len(Steps) : Steps[i] = "restore"
    PROVE  Spec => []NothingPlayingParked
<1>1. Init => Restored
  BY Typed DEF Init, Restored, PastRestore, Idle
<1>2. Inv /\ Restored => NothingPlayingParked
  <2> SUFFICES ASSUME Inv, Restored, step = Len(Steps), ~missed
               PROVE  \A c \in Present \ forfeited : Welcome(c)
    BY DEF NothingPlayingParked, Welcome, FullRate
  <2> QED
    BY Typed DEF Restored, PastRestore
<1> QED
  BY <1>1, <1>2, RestoredStep, Invariance, PTL DEF Spec
=============================================================================
