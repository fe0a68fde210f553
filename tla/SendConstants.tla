--------------------------- MODULE SendConstants ---------------------------
(* What SendQueue is about: the packets of a session and the socket they go to. *)
EXTENDS Naturals, Sequences

CONSTANTS
  Packets,    \* the packets that are ever sent on this session
  Size,       \* the bytes of each packet
  Workers,    \* the workers that send to the session
  Room        \* the size of the socket's send buffer

ASSUME SendAssumption == /\ Size \in [Packets -> Nat \ {0}]
                         /\ Room \in Nat \ {0}
=============================================================================
