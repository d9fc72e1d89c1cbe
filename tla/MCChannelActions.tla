-------------------------- MODULE MCChannelActions --------------------------
(* Instances of ChannelActions for TLC. *)
EXTENDS ChannelActions

Scheduled == <<"restore", "rename dead", "rename slow", "rename blank",
               "move dead", "move slow", "move blank", "delete">>

\* Slow channels are renamed and formats are shown, and nothing is moved.
RenamedOnly == <<"restore", "rename slow", "suffix">>

SomeConditions == {{"HD"}, {"slow"}, {"dead"}, {"blank"}, {"HD", "dead"}, {"dead", "skipped"},
                   {"blank", "frozen"}}
=============================================================================
