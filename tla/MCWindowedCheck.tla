-------------------------- MODULE MCWindowedCheck --------------------------
(* Installations of WindowedCheck for TLC: two channels. *)
EXTENDS WindowedCheck, TLC

CONSTANTS c1, c2, s1, s2, s3

\* A channel with a backup stream, and one without.
Backup == s1 :> c1 @@ s2 :> c1 @@ s3 :> c2

Both == {{c1, c2}}

\* Windows, and all that may stop a session or its scan.
Windows == [streams |-> {s1, s3}, scopes |-> Both, windowed |-> TRUE, deletes |-> TRUE,
            events |-> {"crash", "cancel", "stop", "unload", "fault"}]

\* Windows between which the groups or the channels change.
Changing == [Windows EXCEPT !.scopes = {{c1, c2}, {c1}}, !.events = {"crash", "edit", "remove"}]

\* No windows, a channel with a backup stream, and every event there is without them.
OneSession == [streams |-> {s1, s2}, scopes |-> {{c1}}, windowed |-> FALSE, deletes |-> TRUE,
               events |-> {"crash", "cancel", "stop", "unload", "load", "remove", "fault"}]

\* Windows, a backup stream, and nothing but a reset of the progress.
Quiet == [streams |-> {s1, s2, s3}, scopes |-> Both, windowed |-> TRUE,
          deletes |-> FALSE, events |-> {"reset"}]

WindowsOnly == {[Quiet EXCEPT !.events = {}]}

AllSetups == {Windows, Changing, OneSession, Quiet}
=============================================================================
