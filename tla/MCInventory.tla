---------------------------- MODULE MCInventory ----------------------------
(* Instances of Inventory for TLC. *)
EXTENDS Inventory, TLC

CONSTANTS potion, hat, alice, bob

MCMaxStack == [i \in Items |-> IF i = hat THEN 1 ELSE 2]

\* Alice has an item beyond the last position, more than a stack of it, or one item less
\* than none in a position that is not enabled; Bob has nothing.
MCRows == [p \in Players |->
             IF p = alice THEN {3 :> <<hat, 2>>, 2 :> <<potion, -1>>} ELSE {<<>>}]

\* TLC goes on from the states in which one drop at most lies around, Bob has an empty
\* inventory and a client has missed changes of one position at most; from a trade only
\* before the first drop.
MCBound ==
  /\ \A d, e \in DOMAIN drops : d = e
  /\ online[bob] => slots[bob] = NewSlots
  /\ \A p \in Players : untold[p] =>
       \E pos \in 0 .. End - 1 : \A other \in 0 .. End - 1 \ {pos} :
         Contents(view[p], other) = Contents(Shown(slots[p]), other)
  /\ reloaded # {} => dropId = 0
=============================================================================
