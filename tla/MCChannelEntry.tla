--------------------------- MODULE MCChannelEntry ---------------------------
(* Instances of ChannelEntry for TLC. *)
EXTENDS ChannelEntry

CONSTANTS c1, c2

\* Of the two characters one is raised, twice.
RaisesOfOne == [c \in {c1, c2} |-> IF c = c1 THEN 2 ELSE 0]
=============================================================================
