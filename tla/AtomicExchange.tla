--------------------------- MODULE AtomicExchange ---------------------------
(***************************************************************************)
(* What a trade promises, whatever the packets, crashes and SQL errors on  *)
(* the way: the balances of exactly two characters change in one step, and *)
(* what one of them loses the other one gains.  Only a trade whose START   *)
(* TRANSACTION failed is torn into the two halves of each transfer; it can *)
(* end between them, so that what one character lost reaches nobody.       *)
(***************************************************************************)
EXTENDS Integers

CONSTANTS Players, Items,
          Amounts,    \* what one offered item can stand for
          Nothing

VARIABLES balance,    \* balance[p][i]: how many of item i character p has, or owes
          torn,       \* a trade runs outside a transaction
          underway    \* what such a trade has taken and not given yet, or Nothing

Init ==
    /\ balance \in [Players -> [Items -> Int]]
    /\ torn = FALSE
    /\ underway = Nothing

Exchange(a, b) ==
    /\ ~torn
    /\ balance' \in [Players -> [Items -> Int]]
    /\ \A p \in Players \ {a, b} : balance'[p] = balance[p]
    /\ \A i \in Items :
          balance'[a][i] + balance'[b][i] = balance[a][i] + balance[b][i]
    /\ UNCHANGED <<torn, underway>>

\* START TRANSACTION fails.
Tear == ~torn /\ torn' = TRUE /\ UNCHANGED <<balance, underway>>

Credit(p, i, n) == balance' = [balance EXCEPT ![p][i] = @ + n]

\* Half of a transfer is committed; the trade may end with it.
Take(p, i, n) ==
    /\ torn /\ underway = Nothing
    /\ Credit(p, i, -n)
    /\ \/ torn' = TRUE /\ underway' = [item |-> i, amount |-> n]
       \/ torn' = FALSE /\ underway' = Nothing

Give(p, i, n) ==
    /\ torn /\ underway = [item |-> i, amount |-> n]
    /\ Credit(p, i, n)
    /\ torn' \in BOOLEAN
    /\ underway' = Nothing

\* The trade ends, by itself or with the process; what is under way is lost.
End == torn /\ torn' = FALSE /\ underway' = Nothing /\ UNCHANGED balance

Next ==
    \/ \E a, b \in Players : a # b /\ Exchange(a, b)
    \/ \E p \in Players, i \in Items, n \in Amounts : Take(p, i, n) \/ Give(p, i, n)
    \/ Tear
    \/ End

Spec == Init /\ [][Next]_<<balance, torn, underway>>
=============================================================================
