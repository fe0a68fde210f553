------------------------------ MODULE ItemBag ------------------------------
(***************************************************************************)
(* What a player may expect of items: a bag that holds a number of each,   *)
(* and a ground on which lie the drops of monsters, each owned by the      *)
(* player who killed the monster.  No slots, no order, no messages.        *)
(* A trade counts two bags anew, from a table that is not told of what     *)
(* happened to them: its count is anybody's guess.                         *)
(***************************************************************************)
EXTENDS Integers

CONSTANTS Players, Items, DropIds, MaxCount, Freed,
          Loads    \* the bags each player may enter with

VARIABLES bag,     \* what each player holds: the number of each item
          ground,  \* the drops that lie around
          reloaded \* the players whose bags a trade has just counted anew

bagVars == <<bag, ground, reloaded>>

Nothing == [i \in Items |-> 0]

Init == bag = [p \in Players |-> Nothing] /\ ground = <<>> /\ reloaded = {}

Gain(p, i, n) == bag' = [bag EXCEPT ![p][i] = @ + n]

\* A player enters with an empty hand, or leaves with what he holds; the drops he
\* owns become nobody's that can be asked.
Enter(p) == /\ UNCHANGED ground
            /\ bag[p] = Nothing
            /\ \E b \in Loads[p] : bag' = [bag EXCEPT ![p] = b]
Leave(p) == /\ ground' = [d \in DOMAIN ground |->
                            [ground[d] EXCEPT !.owner = IF @ = p THEN Freed ELSE @]]
            /\ bag' = [bag EXCEPT ![p] = Nothing]

Spawn(p, d) == /\ d \notin DOMAIN ground
               /\ \E i \in Items, n \in 1 .. MaxCount :
                    ground' = [e \in DOMAIN ground \cup {d} |->
                                 IF e = d THEN [item |-> i, count |-> n, owner |-> p] ELSE ground[e]]
               /\ UNCHANGED bag

\* The owner takes a drop: it is in the bag, whole, and no longer on the ground.
Take(p, d) == /\ ground[d].owner = p
              /\ ground' = [e \in DOMAIN ground \ {d} |-> ground[e]]
              /\ Gain(p, ground[d].item, ground[d].count)

\* There is room for a part only: the drop stays as it was, and the part too.
TakePart(p, d) == /\ UNCHANGED ground
                  /\ ground[d].owner = p
                  /\ \E n \in 1 .. ground[d].count - 1 : Gain(p, ground[d].item, n)

Use(p) == /\ UNCHANGED ground
          /\ \E i \in Items : /\ bag'[p][i] < bag[p][i]
                            /\ bag' = [bag EXCEPT ![p][i] = bag'[p][i]]

\* The rows of two players are laid over what they hold.
Reload(p, q) == /\ UNCHANGED ground
                /\ bag' = [bag EXCEPT ![p] = bag'[p], ![q] = bag'[q]]
                /\ reloaded' = {p, q}

Idle == UNCHANGED <<bag, ground>>

Next == \/ \E p, q \in Players : Reload(p, q)
        \/ /\ reloaded' = {}
           /\ \/ Idle
              \/ \E p \in Players : \/ Enter(p) \/ Leave(p) \/ Use(p)
                                    \/ \E d \in DropIds : Spawn(p, d)
                                    \/ \E d \in DOMAIN ground : Take(p, d) \/ TakePart(p, d)

Spec == Init /\ [][Next]_bagVars
=============================================================================
