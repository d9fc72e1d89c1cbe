-------------------------------- MODULE Pass --------------------------------
(***************************************************************************)
(* What scheduled checks promise of a pass over the streams of a lineup,   *)
(* however many windows and restarts it takes.                             *)
(*                                                                         *)
(* A pass that is to go on from window to window is given up only when it  *)
(* is outdated, when nothing of it is left, or when nothing came of it     *)
(* yet.  It finds its streams, each of them once, and acts on what it has  *)
(* found when nothing is left.  Of a pass that is disturbed little is      *)
(* promised until the next one begins.                                     *)
(***************************************************************************)
CONSTANTS
    Channel,
    Stream,
    ChannelOf,     \* the channel a stream belongs to
    NoUrl          \* the streams that cannot be probed

VARIABLES
    terms,         \* what the installation has of "windows", "reset" and "load"
    listed,        \* the streams the pass set out to probe
    found,         \* what it has found
    outdated,      \* the user has selected other groups than the pass's
    disturbed,     \* a session of the pass began beside an earlier scan
    gone,          \* the channels Dispatcharr has no more
    acting,        \* the actions that end the pass are being taken
    condemned      \* the channels they treated as dead

vars == <<terms, listed, found, outdated, disturbed, gone, acting, condemned>>

Verdict == {"dead", "other"}
Nothing == [s \in Stream |-> "none"]

\* A pass outlives its session in windows, unless a user resets the progress.
Lasting == "windows" \in terms /\ "reset" \notin terms

\* A hand load between windows brings back what was found before.
Repeating == {"windows", "load"} \subseteq terms

\* What the pass has yet to find.
Left == {s \in listed \ NoUrl : found[s] = "none" /\ ChannelOf[s] \notin gone}

Init ==
    /\ terms \in SUBSET {"windows", "reset", "load"}
    /\ listed = {}
    /\ found = Nothing
    /\ outdated = FALSE
    /\ disturbed = FALSE
    /\ gone = {}
    /\ acting = FALSE
    /\ condemned = {}

\* The pass is over, or given up.
Abandon ==
    /\ ~acting
    /\ Lasting /\ ~disturbed => outdated \/ Left = {} \/ found = Nothing
    /\ listed' = {}
    /\ found' = Nothing
    /\ condemned' = {}
    /\ outdated' = FALSE
    /\ disturbed' \in {FALSE, disturbed}
    /\ UNCHANGED <<terms, gone, acting>>

\* In windows one pass ends before the next begins.
Begin ==
    /\ ~acting
    /\ "windows" \in terms => listed = {}
    /\ listed' \in SUBSET {s \in Stream : ChannelOf[s] \notin gone}
    /\ found' = Nothing
    /\ condemned' = {}
    /\ disturbed' \in {FALSE, disturbed}
    /\ UNCHANGED <<terms, outdated, gone, acting>>

Judge(s) ==
    /\ ~acting /\ ~outdated
    /\ condemned = {}
    /\ s \in listed
    /\ found[s] = "none" \/ Repeating
    /\ \E v \in Verdict : found' = [found EXCEPT ![s] = v]
    /\ UNCHANGED <<terms, listed, outdated, disturbed, gone, acting, condemned>>

\* The pass has come to its end.
Admit ==
    /\ ~acting
    /\ condemned = {}
    /\ "reset" \notin terms => Left = {}
    /\ acting' = TRUE
    /\ UNCHANGED <<terms, listed, found, outdated, disturbed, gone, condemned>>

\* No channel is condemned that has no stream the pass found dead, and none deleted
\* that is not condemned.
Act ==
    /\ acting
    /\ acting' = FALSE
    /\ condemned' \in SUBSET {c \in Channel :
                                \E s \in Stream : ChannelOf[s] = c /\ found[s] = "dead"}
    /\ gone' \in SUBSET Channel
    /\ gone \subseteq gone' /\ gone' \subseteq gone \union condemned'
    /\ UNCHANGED <<terms, listed, found, outdated, disturbed>>

\* A kill in the midst of the actions.
Interrupt ==
    /\ acting
    /\ acting' = FALSE
    /\ UNCHANGED <<terms, listed, found, outdated, disturbed, gone, condemned>>

\* A session begins: other groups may have been selected, and an earlier scan may
\* not be over.
Enter ==
    /\ outdated' \in BOOLEAN
    /\ disturbed' \in {disturbed, TRUE}
    /\ UNCHANGED <<terms, listed, found, gone, acting, condemned>>

\* A channel is deleted in Dispatcharr.
Lose(c) ==
    /\ gone' = gone \union {c}
    /\ UNCHANGED <<terms, listed, found, outdated, disturbed, acting, condemned>>

\* What two scans make of a disturbed pass; nobody begins another one for it, or
\* brings a channel back.
Mix ==
    /\ disturbed /\ disturbed'
    /\ gone \subseteq gone'
    /\ UNCHANGED <<terms, listed>>

Next ==
    \/ Abandon \/ Begin \/ Admit \/ Act \/ Interrupt \/ Enter \/ Mix
    \/ \E s \in Stream : Judge(s)
    \/ \E c \in Channel : Lose(c)

Spec == Init /\ [][Next]_vars
=============================================================================
