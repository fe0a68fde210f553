------------------------------ MODULE TaskPool ------------------------------
(***************************************************************************)
(* What a user of the thread pool may rely on, whatever the threads do: a  *)
(* task handed to Submit is either taken once or refused for good, a taken *)
(* task is run by one worker, once, and a worker runs one task at a time.  *)
(* Nothing is promised about a task that is still waiting when the pool    *)
(* stops, and nothing about the order between two workers.                 *)
(***************************************************************************)
CONSTANTS Workers, Tasks, None

VARIABLES fresh,     \* the tasks the pool has not decided about
          waiting,   \* the tasks it has taken and not begun
          busy,      \* busy[w]: the task worker w runs, or None
          finished   \* the tasks that were run to their end

vars == <<fresh, waiting, busy, finished>>

Init == /\ fresh = Tasks
        /\ waiting = {}
        /\ busy = [w \in Workers |-> None]
        /\ finished = {}

Accept(t) == /\ t \in fresh
             /\ fresh' = fresh \ {t}
             /\ waiting' = waiting \cup {t}
             /\ UNCHANGED <<busy, finished>>

Refuse(t) == /\ t \in fresh
             /\ fresh' = fresh \ {t}
             /\ UNCHANGED <<waiting, busy, finished>>

Begin(w, t) == /\ busy[w] = None
               /\ t \in waiting
               /\ waiting' = waiting \ {t}
               /\ busy' = [busy EXCEPT ![w] = t]
               /\ UNCHANGED <<fresh, finished>>

Finish(w) == /\ busy[w] # None
             /\ finished' = finished \cup {busy[w]}
             /\ busy' = [busy EXCEPT ![w] = None]
             /\ UNCHANGED <<fresh, waiting>>

Next == \/ \E t \in Tasks : Accept(t) \/ Refuse(t)
        \/ \E w \in Workers, t \in Tasks : Begin(w, t)
        \/ \E w \in Workers : Finish(w)

Spec == Init /\ [][Next]_vars
=============================================================================
