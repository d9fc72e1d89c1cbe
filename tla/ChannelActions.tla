--------------------------- MODULE ChannelActions ---------------------------
(***************************************************************************)
(* What the plugin does to the channels after a check: renames, moves,     *)
(* format suffixes, the deletion, and the restoring of what recovered.     *)
(*                                                                         *)
(* A session loads the channels, checks them and takes its actions in a    *)
(* fixed order; a user may press the button of any of them in between.     *)
(* Each reads the results file, which holds the names of the load.         *)
(*                                                                         *)
(* Abstractions.  A name is the sequence of the tags behind a base that    *)
(* nothing changes, and of its tags no more than the last MaxTags are      *)
(* kept.  The rows of a channel are the set of the kinds of its streams.   *)
(* A request is one step unless it fails: two of them at once, of the same *)
(* or of different channels, may each rewrite the file of captured groups  *)
(* as it was before the other; what a capture that is lost so comes to is  *)
(* CaptureFails.                                                           *)
(***************************************************************************)
EXTENDS Integers, Sequences, FiniteSets

CONSTANTS
    Channel,
    Groups,        \* the groups a channel may come from
    Conditions,    \* the sets of kinds a check may find the streams of
    Steps,         \* what a session does after its check, in order
    Buttons,       \* what a user may press at any moment
    MaxTags,       \* bound: the tags kept of a name
    MaxFaults      \* bound: how often a capture, a move or a restoring fails

\* A stream that plays, in one quality or the other, or at a low framerate; one
\* that fails to connect; one that connects and shows a blank picture, or what
\* another detector objects to; one that was not judged, or is audio only.
Playing == {"HD", "SD", "slow"}
Kind == Playing \union {"dead", "blank", "frozen", "skipped", "audio"}

StatusTags == {"[DEAD]", "[Slow]", "[Blank]"}
QualityTags == {"[HD]", "[SD]"}
Tag == StatusTags \union QualityTags

\* The destinations of the moves, as the settings name them: a destination that is not
\* in the settings has a default as a destination, and none where groups are captured.
Managed == {"Graveyard", "Slow", "Black Screens"}

Actions == {"restore", "rename dead", "rename slow", "rename blank", "suffix",
            "move dead", "move slow", "move blank", "delete"}

ASSUME ActionsAssumption ==
    /\ Groups # {} /\ Groups \intersect Managed = {}
    /\ Conditions \subseteq (SUBSET Kind) \ {{}}
    /\ Steps \in Seq(Actions) /\ Buttons \subseteq Actions
    /\ MaxTags \in Nat \ {0} /\ MaxFaults \in Nat

NoGroup == "none"

ASSUME NoGroupAssumption == NoGroup \notin Groups

VARIABLES
    name,          \* the tags of each channel's name
    group,         \* its group, NoGroup once it is deleted
    existing,      \* the ordinary groups that exist
    condition,     \* what a probe of its streams would find
    listed,        \* iptv_checker_loaded_channels.json: the channels in it
    called,        \* and their names
    rows,          \* the results file: what was found of a channel, {} if nothing
    reported,      \* and its name
    original,      \* iptv_checker_channel_state.json: the captured groups
    step,          \* the session: the steps it has taken, -1 if none is under way
    missed,        \* history: the restoring of this session has failed
    home,          \* history: the group the channel was in before any move
    forfeited,     \* history: channels whose captured group is missing or out of date
    faults         \* the failures so far

session == <<listed, called, rows, reported, step>>
history == <<missed, home, forfeited, faults>>
world == <<existing, condition>>
vars == <<name, group, world, session, original, history>>

Idle == Len(Steps) + 2

Init ==
    /\ name = [c \in Channel |-> <<>>]
    /\ group \in [Channel -> Groups]
    /\ existing = Groups
    /\ condition \in [Channel -> Conditions]
    /\ listed = {}
    /\ called = name
    /\ rows = [c \in Channel |-> {}]
    /\ reported = name
    /\ original = [c \in Channel |-> NoGroup]
    /\ step = Idle
    /\ missed = FALSE
    /\ home = group
    /\ forfeited = {}
    /\ faults = 0

Present == {c \in Channel : group[c] # NoGroup}

-----------------------------------------------------------------------------
(* The world. *)

Changes(c) ==
    /\ \E found \in Conditions : condition' = [condition EXCEPT ![c] = found]
    /\ UNCHANGED <<name, group, existing, session, original, history>>

\* A user moves a channel, which has another home from now on; the plugin does
\* not notice, and what it had captured before is out of date.
UserMoves(c) ==
    /\ group[c] # NoGroup
    /\ \E g \in existing \ {group[c]} :
         /\ group' = [group EXCEPT ![c] = g]
         /\ home' = [home EXCEPT ![c] = g]
    /\ forfeited' = IF original[c] = NoGroup THEN forfeited \ {c} ELSE forfeited \union {c}
    /\ UNCHANGED <<name, world, session, original, missed, faults>>

\* A group is removed, and its channels with it if there are any.
UserDrops(g) ==
    /\ existing # {g}
    /\ \A c \in Channel : group[c] # g
    /\ g \in existing
    /\ existing' = existing \ {g}
    /\ UNCHANGED <<name, group, condition, session, original, history>>

-----------------------------------------------------------------------------
(* Which channels an action is about: _channels_where. *)

Checked == {c \in Channel : rows[c] # {}}

\* Mutant of DeadOnes: one dead stream is enough.
DeadOnesAny == {c \in Checked : rows[c] \intersect {"dead", "frozen"} # {}}

DeadOnes == {c \in Checked : rows[c] \subseteq {"dead", "frozen"}}

BlankOnes == {c \in Checked : rows[c] = {"blank"}}

SlowOnes == {c \in Checked : rows[c] \intersect Playing = {"slow"}}

AllDead == {c \in Checked : rows[c] \subseteq {"dead", "frozen", "blank"}}

AliveOnes == {c \in Checked : rows[c] \intersect Playing # {}}

-----------------------------------------------------------------------------
(* The actions.  Each changes name, group and original. *)

Cut(tags) ==
    IF Len(tags) <= MaxTags THEN tags
    ELSE SubSeq(tags, Len(tags) - MaxTags + 1, Len(tags))

\* The new name is made of the name in the results.
Rename(chosen, tag) ==
    /\ name' = [c \in Channel |->
         IF c \in chosen \intersect Present THEN Cut(Append(reported[c], tag)) ELSE name[c]]
    /\ UNCHANGED <<group, original>>

\* Mutant of Captured: the destination of an earlier move may be captured.
CapturedManaged(chosen) ==
    [c \in Channel |->
       IF c \in chosen \intersect Present /\ original[c] = NoGroup THEN group[c] ELSE original[c]]

\* The group of each channel, unless there is an entry or it is a managed one.
Captured(chosen) ==
    [c \in Channel |->
       IF c \in chosen \intersect Present /\ original[c] = NoGroup /\ group[c] \notin Managed
         THEN group[c] ELSE original[c]]

\* Mutant of Move: the groups are captured after the move.
MoveFirst(chosen, destination) ==
    /\ group' = [c \in Channel |->
         IF c \in chosen \intersect Present THEN destination ELSE group[c]]
    /\ original' = [c \in Channel |->
         IF c \in chosen /\ original[c] = NoGroup /\ group'[c] \notin Managed
           THEN group'[c] ELSE original[c]]
    /\ UNCHANGED name

Move(chosen, destination) ==
    /\ original' = Captured(chosen)
    /\ group' = [c \in Channel |->
         IF c \in chosen \intersect Present THEN destination ELSE group[c]]
    /\ UNCHANGED name

\* The quality tags at the end of a name are stripped.
WithoutQuality(tags) ==
    LET kept == {i \in 1..Len(tags) : \E j \in i..Len(tags) : tags[j] \notin QualityTags}
    IN SubSeq(tags, 1, Cardinality(kept))

\* The suffix is that of the last stream that plays, and replaces an older one; some
\* formats may be configured to have none.
Suffix ==
    /\ \E quality \in [AliveOnes \intersect Present -> {"HD", "SD"}], formats \in SUBSET {"HD", "SD"} :
         /\ \A c \in DOMAIN quality :
              \/ quality[c] \in rows[c]
              \/ quality[c] = "SD" /\ "slow" \in rows[c]
         /\ name' = [c \in Channel |->
              IF c \in DOMAIN quality /\ quality[c] \in formats
                THEN Cut(Append(WithoutQuality(name[c]),
                                IF quality[c] = "HD" THEN "[HD]" ELSE "[SD]"))
                ELSE name[c]]
    /\ UNCHANGED <<group, original>>

\* Mutant of Eligible: only the captured group counts.
EligibleCaptured(c) == original[c] # NoGroup

\* Mutant of Eligible: only the tags count.
EligibleTagged(c) == name[c] # <<>> /\ name[c][Len(name[c])] \in StatusTags

\* A group was captured, or the name ends in a status tag.
Eligible(c) ==
    \/ original[c] # NoGroup
    \/ name[c] # <<>> /\ name[c][Len(name[c])] \in StatusTags

\* The plan of the restoring: all tags go, and the channel goes where it came
\* from if that still exists; the entry goes in any case.
Healed == {c \in AliveOnes \intersect Present : Eligible(c)}

Stripped == [c \in Channel |-> IF c \in Healed THEN <<>> ELSE name[c]]

Returned == [c \in Channel |->
               IF c \in Healed /\ original[c] \in existing THEN original[c] ELSE group[c]]

Restore ==
    /\ name' = Stripped
    /\ group' = Returned
    /\ original' = [c \in Channel |-> IF c \in Healed THEN NoGroup ELSE original[c]]

\* What is dead and in the loaded scope is deleted, with its entry.
Delete ==
    LET gone == (AllDead \intersect Present) \intersect
                (IF listed = {} THEN Channel ELSE listed) IN
    /\ group' = [c \in Channel |-> IF c \in gone THEN NoGroup ELSE group[c]]
    /\ original' = [c \in Channel |-> IF c \in gone THEN NoGroup ELSE original[c]]
    /\ UNCHANGED name

Target(action) ==
    CASE action \in {"rename dead", "move dead"} -> DeadOnes
      [] action \in {"rename slow", "move slow"} -> SlowOnes
      [] action \in {"rename blank", "move blank"} -> BlankOnes
      [] OTHER -> {}

Destination(action) ==
    CASE action = "move dead" -> "Graveyard"
      [] action = "move slow" -> "Slow"
      [] action = "move blank" -> "Black Screens"
      [] OTHER -> NoGroup

Do(action) ==
    \/ action = "restore" /\ Restore
    \/ action = "rename dead" /\ Rename(DeadOnes, "[DEAD]")
    \/ action = "rename slow" /\ Rename(SlowOnes, "[Slow]")
    \/ action = "rename blank" /\ Rename(BlankOnes, "[Blank]")
    \/ action = "suffix" /\ Suffix
    \/ /\ action \in {"move dead", "move slow", "move blank"}
       /\ Move(Target(action), Destination(action))
    \/ action = "delete" /\ Delete

-----------------------------------------------------------------------------
(* The session. *)

\* All groups are loaded, the managed ones too.
Load ==
    /\ step = Idle
    /\ listed' = Present
    /\ called' = name
    /\ step' = -1
    /\ missed' = FALSE
    /\ UNCHANGED <<name, group, world, rows, reported, original, home, forfeited, faults>>

\* The check writes what it found, under the names of the load.
Check ==
    /\ step = -1
    /\ rows' = [c \in Channel |-> IF c \in listed THEN condition[c] ELSE {}]
    /\ reported' = called
    /\ step' = 0
    /\ UNCHANGED <<name, group, world, listed, called, original, history>>

Act ==
    /\ step \in 0..Len(Steps) - 1
    /\ Do(Steps[step + 1])
    /\ step' = step + 1
    /\ UNCHANGED <<world, listed, called, rows, reported, history>>

Finish ==
    /\ step = Len(Steps)
    /\ step' = Idle
    /\ UNCHANGED <<name, group, world, listed, called, rows, reported, original, history>>

\* A user presses a button: between sessions, or in the midst of one.
Press(action) ==
    /\ action \in Buttons
    /\ Do(action)
    /\ UNCHANGED <<world, session, history>>

\* The capture is written and the update of the channels fails, or the process
\* dies: a session goes on with the next action, or never does.
MoveFails ==
    /\ faults < MaxFaults
    /\ faults' = faults + 1
    /\ step \in 0..Len(Steps) - 1 /\ Destination(Steps[step + 1]) # NoGroup
    /\ original' = Captured(Target(Steps[step + 1]))
    /\ step' \in {step + 1, Idle}
    /\ UNCHANGED <<name, group, world, listed, called, rows, reported, missed, home, forfeited>>

\* The capture cannot be read or written, and the move goes on.
CaptureFails ==
    /\ faults < MaxFaults
    /\ faults' = faults + 1
    /\ step \in 0..Len(Steps) - 1 /\ Destination(Steps[step + 1]) # NoGroup
    /\ LET moved == Target(Steps[step + 1]) \intersect Present IN
         /\ group' = [c \in Channel |->
              IF c \in moved THEN Destination(Steps[step + 1]) ELSE group[c]]
         /\ forfeited' = forfeited \union {c \in moved : original[c] = NoGroup}
    /\ step' = step + 1
    /\ UNCHANGED <<name, world, listed, called, rows, reported, original, missed, home>>

\* The restoring stops before the names, the groups or the entries are written.
RestoreFails ==
    /\ faults < MaxFaults
    /\ faults' = faults + 1
    /\ step \in 0..Len(Steps) - 1 /\ Steps[step + 1] = "restore"
    /\ \/ UNCHANGED <<name, group>>
       \/ name' = Stripped /\ group' \in {group, Returned}
    /\ missed' = TRUE
    /\ step' \in {step + 1, Idle}
    /\ UNCHANGED <<world, listed, called, rows, reported, original, home, forfeited>>

Next ==
    \/ \E c \in Channel : Changes(c) \/ UserMoves(c)
    \/ \E g \in Groups : UserDrops(g)
    \/ Load \/ Check \/ Act \/ Finish
    \/ \E action \in Buttons : Press(action)
    \/ MoveFails \/ CaptureFails \/ RestoreFails

Spec == Init /\ [][Next]_vars

\* Sessions are scheduled again and again.
FairSpec == Spec /\ WF_vars(Load \/ Check \/ Act \/ Finish)

-----------------------------------------------------------------------------
(* The report: classify_channel, from the same rows. *)

Classify(kinds) ==
    LET playing == kinds \intersect Playing
        skipped == kinds \intersect {"skipped", "audio"}
        dead == kinds \intersect {"dead", "blank", "frozen"}
    IN CASE playing # {} ->
              IF playing = {"slow"} THEN "low_framerate"
              ELSE IF kinds # playing THEN "backup_only" ELSE "working"
         [] playing = {} /\ skipped # {} ->
              IF skipped = {"audio"} /\ dead = {} THEN "audio_only" ELSE "not_judged"
         [] OTHER ->
              IF dead \subseteq {"blank", "frozen"} THEN "provider_dead"
              ELSE "confirmed_dead"

-----------------------------------------------------------------------------
(* Properties. *)

\* The types.
TypeOK ==
    /\ \A c \in Channel : name[c] \in Seq(Tag) /\ Len(name[c]) <= MaxTags
    /\ group \in [Channel -> (Groups \union Managed) \union {NoGroup}]
    /\ existing \subseteq Groups /\ condition \in [Channel -> Conditions]
    /\ listed \subseteq Channel /\ rows \in [Channel -> SUBSET Kind]
    /\ original \in [Channel -> Groups \union {NoGroup}]
    /\ step \in -1..Len(Steps) \union {Idle}
    /\ missed \in BOOLEAN
    /\ home \in [Channel -> Groups] /\ forfeited \subseteq Channel
    /\ faults \in 0..MaxFaults

\* "The exact group it came from": of a channel the plugin has parked, however
\* often, the captured group is the one it was in before, as long as that group
\* exists and the capture did not fail.
HomeKept ==
    \A c \in Channel \ forfeited :
        group[c] \in Managed /\ home[c] \in existing => original[c] = home[c]

\* After its last step a session whose restoring did not fail has left no channel parked
\* that plays at full rate, whatever was done to it before.
NothingPlayingParked ==
    step = Len(Steps) /\ ~missed =>
        \A c \in Present \ forfeited :
            rows[c] \intersect {"HD", "SD"} # {} /\ home[c] \in existing
              => group[c] \in Groups

\* What the report calls working, unproven or audio only is no target of the
\* actions for dead channels, and what it calls slow is one of those for slow ones.
ReportAgrees ==
    \A c \in Checked :
        /\ c \in (DeadOnes \union BlankOnes) \union AllDead
             <=> Classify(rows[c]) \in {"confirmed_dead", "provider_dead"}
        /\ c \in SlowOnes <=> Classify(rows[c]) = "low_framerate"

\* A channel that has recovered for good gets back its group, and a status tag at
\* the end of its name goes.
Recovered(c) == condition[c] = {"HD"} /\ group[c] # NoGroup /\ c \notin forfeited

RecoveredGoHome ==
    \A c \in Channel :
        <>[]Recovered(c) =>
            <>[](/\ name[c] = <<>> \/ name[c][Len(name[c])] \notin StatusTags
                 /\ home[c] \in existing => group[c] = home[c])

\* "Channels that are Alive again but still carry a plugin tag" are restored: after
\* its last step a session has left no status tag on one that plays at full rate.
RecoveredLoseTags ==
    step = Len(Steps) =>
        \A c \in Present :
            rows[c] = {"HD"} => \A i \in DOMAIN name[c] : name[c][i] \notin StatusTags
=============================================================================
