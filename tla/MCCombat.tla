------------------------------- MODULE MCCombat -------------------------------
(* Instances of Combat for TLC. *)
EXTENDS Combat

\* The prices of the levels 1 to 3; level 4 is the last.
Prices == <<1, 2, 2>>
=============================================================================
