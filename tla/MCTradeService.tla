--------------------------- MODULE MCTradeService ---------------------------
(* Instances of TradeService small enough for TLC. *)
EXTENDS TradeService, TLC

CONSTANTS p1, p2, p3, potion, elixir

\* All items of these instances belong in the consumables inventory.
MCTypeOf == [i \in Items |-> 1]

\* Amounts of an offer: the second is negative, as nobody forbids.
MCAmounts == {1, -1}

\* Every player starts with one piece of each item.
MCInitialRows ==
    [p \in Players |->
        { [type |-> 1, slot |-> IF i = potion THEN 0 ELSE 1, item |-> i, count |-> 1] : i \in Items }]

\* TLC goes on from the states with one thing at a time out of the ordinary: a
\* second session, rows that a trade has changed, a second item on offer, or a
\* connection that is gone.
MCBound ==
    /\ (\A s \in SessionIds : heap[s] # Null) =>
          OnOffer = {} /\ db = InitialRows /\ (txn = Null => freeConns = PoolSize)
    /\ txn = Null /\ db # InitialRows => \A s \in SessionIds : heap[s] = Null
    /\ txn = Null /\ freeConns = 0 => OnOffer = {}
    /\ Cardinality(OnOffer) = 2 =>
          /\ \A s \in SessionIds : ~hist[s].broken
          /\ txn = Null => freeConns = PoolSize

Symmetry == Permutations(SessionIds) \cup Permutations(Addrs) \cup Permutations(Players)
=============================================================================
