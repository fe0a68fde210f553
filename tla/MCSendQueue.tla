---------------------------- MODULE MCSendQueue ----------------------------
(* Instances of SendQueue for TLC. *)
EXTENDS SendQueue

CONSTANTS long, short, single

\* Packets of three, two and one bytes.
MCSize == [p \in Packets |-> IF p = long THEN 3 ELSE IF p = short THEN 2 ELSE 1]
=============================================================================
