-------------------------- MODULE ThreadPool_proofs --------------------------
(* Proofs about ThreadPool, for every number of workers, tasks and submitters. *)
EXTENDS ThreadPool, TLAPS

-----------------------------------------------------------------------------
(* Sequences *)

\* The front of a queue moves to what precedes the queue.
LEMMA HeadConcat ==
  ASSUME NEW S, NEW a \in Seq(S), NEW b \in Seq(S), b # <<>>
  PROVE  (a \o <<>>) \o b = (a \o <<Head(b)>>) \o Tail(b)
OBVIOUS

\* What follows a sequence becomes its last element.
LEMMA LastConcat ==
  ASSUME NEW S, NEW a \in Seq(S), NEW b \in Seq(S), NEW e \in S
  PROVE  (a \o <<e>>) \o b = (Append(a, e) \o <<>>) \o b
OBVIOUS

-----------------------------------------------------------------------------
(* Types *)

LEMMA WorkersNonEmpty == Workers \subseteq Nat /\ 0 \in Workers
BY PoolAssumption DEF Workers

\* The next index is in range whatever copy of the index is incremented.
LEMMA NextIndexInRange == \A i \in Workers : (i + 1) % N \in Workers
BY PoolAssumption DEF Workers

LEMMA InitIInv == Init => IInv
<1>. SUFFICES ASSUME Init PROVE IInv
  OBVIOUS
<1>1. TypeOK
  BY WorkersNonEmpty DEF Init, TypeOK, WorkerPcs, Submission, Stopping
<1>2. SubTypeOK /\ ItemOK
  BY DEF Init, SubTypeOK, ItemOK
<1>3. MutualExclusion /\ PopsSomething /\ BlocksOnEmpty /\ NoLostWakeup
  BY DEF Init, MutualExclusion, PopsSomething, BlocksOnEmpty, NoLostWakeup, HoldsMutex, Pushing
<1>4. InFlight /\ AcceptedSubmitted /\ AcceptedOnce
  BY DEF Init, InFlight, AcceptedSubmitted, AcceptedOnce, Range
<1>5. RunsInOrder
  BY DEF Init, RunsInOrder, Held
<1>. QED
  BY <1>1, <1>2, <1>3, <1>4, <1>5 DEF IInv, Control

LEMMA TypeNext ==
  ASSUME TypeOK, SubTypeOK, ItemOK, PopsSomething, [Next]_vars
  PROVE  TypeOK'
<1>. USE DEF TypeOK
<1>1. ASSUME NEW w \in Workers, Loop(w) PROVE TypeOK'
  BY <1>1 DEF Loop, Goto, WorkerPcs, poolVars, history
<1>2. ASSUME NEW w \in Workers, Lock(w) PROVE TypeOK'
  BY <1>2 DEF Lock, Goto, WorkerPcs, poolVars, history
<1>3. ASSUME NEW w \in Workers, Check(w) PROVE TypeOK'
  BY <1>3 DEF Check, Goto, WorkerPcs, poolVars, history
<1>4. ASSUME NEW w \in Workers, Block(w) PROVE TypeOK'
  BY <1>4 DEF Block, Goto, WorkerPcs, poolVars, history
<1>5. ASSUME NEW w \in Workers, Break(w) PROVE TypeOK'
  BY <1>5 DEF Break, Goto, WorkerPcs, poolVars, history
<1>6. ASSUME NEW w \in Workers, Take(w) PROVE TypeOK'
  BY <1>6 DEF Take, Goto, WorkerPcs, poolVars, history, PopsSomething
<1>7. ASSUME NEW w \in Workers, Execute(w) PROVE TypeOK'
  BY <1>7 DEF Execute, Goto, WorkerPcs, poolVars, history, ItemOK
<1>8. ASSUME NEW w \in Workers, WakeUp(w) PROVE TypeOK'
  BY <1>8 DEF WakeUp, Woken, WorkerPcs, poolVars, history
<1>9. ASSUME NEW s \in Submitters, NEW t \in Tasks, Submit(s, t) PROVE TypeOK'
  BY <1>9 DEF Submit, Submission, history
<1>10. ASSUME NEW s \in Submitters, LockToPush(s) PROVE TypeOK'
  <2>1. sub[s] \in Submission
    OBVIOUS
  <2>2. /\ [sub[s] EXCEPT !.pc = "Pushing"] \in Submission
        /\ [sub[s] EXCEPT !.pc = "Load", !.task = None] \in Submission
    BY <2>1 DEF Submission
  <2>3. sub' \in [Submitters -> Submission]
    BY <1>10, <2>2 DEF LockToPush
  <2>. QED
    BY <1>10, <2>3 DEF LockToPush, history
<1>11. ASSUME NEW s \in Submitters, Push(s) PROVE TypeOK'
  <2>1. sub[s].task \in Tasks /\ sub[s].slot \in Workers
    BY <1>11 DEF Push, Submission, SubTypeOK
  <2>2. tasks' \in [Workers -> Seq(Tasks)] /\ accepted' \in [Workers -> Seq(Tasks)]
    BY <1>11, <2>1 DEF Push
  <2>3. sub' \in [Submitters -> Submission]
    BY <1>11, <2>1 DEF Push, Submission
  <2>. QED
    BY <1>11, <2>2, <2>3 DEF Push
<1>12. ASSUME NEW s \in Submitters, NotifyOne(s) PROVE TypeOK'
  BY <1>12 DEF NotifyOne, Submission, history, Woken, WorkerPcs
<1>13. ASSUME NEW s \in Submitters, Load(s) PROVE TypeOK'
  BY <1>13 DEF Load, Submission, history
<1>14. ASSUME NEW s \in Submitters, Store(s) PROVE TypeOK'
  <2>1. sub[s] \in Submission
    OBVIOUS
  <2>2. [sub[s] EXCEPT !.pc = "Idle"] \in Submission /\ sub[s].slot \in Workers
    BY <2>1 DEF Submission
  <2>3. sub' \in [Submitters -> Submission] /\ nextIndex' \in Workers
    BY <1>14, <2>2, NextIndexInRange DEF Store
  <2>. QED
    BY <1>14, <2>3 DEF Store, history
<1>15. ASSUME StopStore PROVE TypeOK'
  BY <1>15 DEF StopStore, Stopping, poolVars, history
<1>16. ASSUME NotifyAll PROVE TypeOK'
  BY <1>16 DEF NotifyAll, Stopping, poolVars, history, Woken, WorkerPcs
<1>17. ASSUME Join PROVE TypeOK'
  <2>1. stopper' \in Stopping
    <3>1. stopper.at \in Workers /\ stopper = [pc |-> stopper.pc, at |-> stopper.at]
      BY DEF Stopping
    <3>2. CASE stopper.at + 1 < N
      BY <1>17, <3>1, <3>2, PoolAssumption DEF Join, Stopping, Workers
    <3>3. CASE ~(stopper.at + 1 < N)
      BY <1>17, <3>1, <3>3 DEF Join, Stopping
    <3>. QED
      BY <3>2, <3>3
  <2>. QED
    BY <1>17, <2>1 DEF Join, poolVars, history
<1>18. ASSUME BeginStop PROVE TypeOK'
  BY <1>18 DEF BeginStop, Stopping, poolVars, history
<1>19. CASE UNCHANGED vars
  BY <1>19 DEF vars, poolVars, history
<1>. QED
  BY <1>1, <1>2, <1>3, <1>4, <1>5, <1>6, <1>7, <1>8, <1>9, <1>10, <1>11, <1>12, <1>13, <1>14, <1>15, <1>16, <1>17, <1>18, <1>19
     DEF Next, WorkerStep, SubmitStep, StopStep

-----------------------------------------------------------------------------
(* Where the threads are: the mutex, the wait and the notifications *)

LEMMA LockToPushControl ==
  ASSUME TypeOK, Control, NEW s \in Submitters, LockToPush(s)
  PROVE  Control'
<1>1. /\ \A r \in Submitters : r # s => sub'[r] = sub[r]
      /\ sub[s].pc = "Push" /\ sub'[s].slot = sub[s].slot
      /\ \/ sub'[s].pc = "Pushing" /\ sub'[s].task = sub[s].task
         \/ sub'[s].pc = "Load" /\ sub'[s].task = None
  BY DEF LockToPush, TypeOK, Submission
<1>2. MutexFree(sub[s].slot) /\ UNCHANGED <<running, tasks, pc, item>>
  BY DEF LockToPush
<1>3. SubTypeOK'
  BY <1>1 DEF Control, SubTypeOK
<1>4. ItemOK' /\ PopsSomething' /\ BlocksOnEmpty'
  BY <1>2 DEF Control, ItemOK, PopsSomething, BlocksOnEmpty
<1>5. MutualExclusion'
  BY <1>1, <1>2 DEF Control, MutualExclusion, MutexFree, Pushing
<1>6. NoLostWakeup'
  BY <1>1, <1>2 DEF Control, NoLostWakeup
<1>. QED
  BY <1>3, <1>4, <1>5, <1>6 DEF Control

LEMMA PushControl ==
  ASSUME TypeOK, Control, NEW s \in Submitters, Push(s)
  PROVE  Control'
<1>. DEFINE k == sub[s].slot
<1>1. /\ \A r \in Submitters : r # s => sub'[r] = sub[r]
      /\ sub[s].pc = "Pushing" /\ sub'[s].slot = k
      /\ sub'[s].pc = "Notify" /\ sub'[s].task = None
  BY DEF Push, TypeOK, Submission
<1>2. k \in Workers /\ sub[s].task \in Tasks
  BY <1>1 DEF TypeOK, Submission, Control, SubTypeOK
<1>3. UNCHANGED <<running, pc, item>> /\ \A w \in Workers : w # k => tasks'[w] = tasks[w]
  BY DEF Push, TypeOK
<1>. HIDE DEF k
<1>4. SubTypeOK'
  BY <1>1 DEF Control, SubTypeOK
<1>5. ItemOK'
  BY <1>3 DEF Control, ItemOK
<1>6. pc[k] \notin HoldsMutex
  BY <1>1, <1>2 DEF Control, MutualExclusion, Pushing, k
<1>7. MutualExclusion'
  BY <1>1, <1>3 DEF Control, MutualExclusion, Pushing, k
<1>8. PopsSomething' /\ BlocksOnEmpty'
  BY <1>3, <1>6 DEF Control, PopsSomething, BlocksOnEmpty, HoldsMutex
<1>9. NoLostWakeup'
  <2>. SUFFICES ASSUME NEW w \in Workers, pc'[w] = "Waiting", tasks'[w] # <<>>
                PROVE  \E r \in Submitters : sub'[r].pc = "Notify" /\ sub'[r].slot = w
    BY DEF NoLostWakeup
  <2>1. CASE w = k
    BY <1>1, <2>1
  <2>2. CASE w # k
    BY <1>1, <1>3, <2>2 DEF Control, NoLostWakeup
  <2>. QED
    BY <2>1, <2>2
<1>. QED
  BY <1>4, <1>5, <1>7, <1>8, <1>9 DEF Control

LEMMA NotifyControl ==
  ASSUME TypeOK, Control, NEW s \in Submitters, NotifyOne(s)
  PROVE  Control'
<1>. DEFINE k == sub[s].slot
<1>1. /\ \A r \in Submitters : r # s => sub'[r] = sub[r]
      /\ sub[s].pc = "Notify" /\ sub'[s].pc = "Load" /\ sub'[s].task = sub[s].task
  BY DEF NotifyOne, TypeOK, Submission
<1>2. /\ \A w \in Workers : w # k \/ pc[w] # "Waiting" => pc'[w] = pc[w]
      /\ pc[k] = "Waiting" => pc'[k] = "Lock"
      /\ k \in Workers
      /\ UNCHANGED <<running, tasks, item>>
  BY DEF NotifyOne, Woken, TypeOK, Submission
<1>. HIDE DEF k
<1>3. SubTypeOK'
  BY <1>1 DEF Control, SubTypeOK
<1>4. ItemOK' /\ PopsSomething' /\ BlocksOnEmpty'
  BY <1>2 DEF Control, ItemOK, PopsSomething, BlocksOnEmpty
<1>5. MutualExclusion'
  <2>1. \A w \in Workers : pc'[w] \in HoldsMutex => pc[w] \in HoldsMutex
    BY <1>2 DEF HoldsMutex
  <2>2. \A r \in Submitters, w \in Workers : Pushing(r, w)' => Pushing(r, w)
    BY <1>1 DEF Pushing
  <2>. QED
    BY <2>1, <2>2 DEF Control, MutualExclusion
<1>6. NoLostWakeup'
  <2>. SUFFICES ASSUME NEW w \in Workers, pc'[w] = "Waiting", tasks'[w] # <<>>
                PROVE  \E r \in Submitters : sub'[r].pc = "Notify" /\ sub'[r].slot = w
    BY DEF NoLostWakeup
  <2>1. w # k /\ pc[w] = "Waiting" /\ tasks[w] # <<>>
    BY <1>2
  <2>2. PICK r \in Submitters : sub[r].pc = "Notify" /\ sub[r].slot = w
    BY <2>1 DEF Control, NoLostWakeup
  <2>. QED
    BY <1>1, <2>1, <2>2 DEF k
<1>. QED
  BY <1>3, <1>4, <1>5, <1>6 DEF Control

LEMMA ControlNext ==
  ASSUME TypeOK, Control, [Next]_vars
  PROVE  Control'
<1>. USE DEF TypeOK, Control, SubTypeOK, ItemOK, MutualExclusion, PopsSomething, BlocksOnEmpty,
             NoLostWakeup, Goto, Woken, MutexFree, Pushing, HoldsMutex, Submission, Stopping
<1>1. ASSUME NEW w \in Workers, Loop(w) PROVE Control'
  BY <1>1 DEF Loop, poolVars, history
<1>2. ASSUME NEW w \in Workers, Lock(w) PROVE Control'
  BY <1>2 DEF Lock, poolVars, history
<1>3. ASSUME NEW w \in Workers, Check(w) PROVE Control'
  BY <1>3 DEF Check, poolVars, history
<1>4. ASSUME NEW w \in Workers, Block(w) PROVE Control'
  BY <1>4 DEF Block, poolVars, history
<1>5. ASSUME NEW w \in Workers, Break(w) PROVE Control'
  BY <1>5 DEF Break, poolVars, history
<1>6. ASSUME NEW w \in Workers, Take(w) PROVE Control'
  <2>1. Head(tasks[w]) \in Tasks
    BY <1>6
    DEF Take
  <2>. QED
    BY <1>6, <2>1, PoolAssumption DEF Take, poolVars, history
<1>7. ASSUME NEW w \in Workers, Execute(w) PROVE Control'
  BY <1>7 DEF Execute, poolVars, history
<1>8. ASSUME NEW w \in Workers, WakeUp(w) PROVE Control'
  BY <1>8 DEF WakeUp, poolVars, history
<1>9. ASSUME NEW s \in Submitters, NEW t \in Tasks, Submit(s, t) PROVE Control'
  BY <1>9, PoolAssumption DEF Submit, poolVars, history
<1>10. ASSUME NEW s \in Submitters, LockToPush(s) PROVE Control'
  BY <1>10, LockToPushControl
<1>11. ASSUME NEW s \in Submitters, Push(s) PROVE Control'
  BY <1>11, PushControl
<1>12. ASSUME NEW s \in Submitters, NotifyOne(s) PROVE Control'
  BY <1>12, NotifyControl
<1>13. ASSUME NEW s \in Submitters, Load(s) PROVE Control'
  BY <1>13 DEF Load, poolVars, history
<1>14. ASSUME NEW s \in Submitters, Store(s) PROVE Control'
  BY <1>14 DEF Store, poolVars, history
<1>15. ASSUME StopStore PROVE Control'
  BY <1>15 DEF StopStore, poolVars, history
<1>16. ASSUME NotifyAll PROVE Control'
  BY <1>16 DEF NotifyAll, poolVars, history
<1>17. ASSUME Join PROVE Control'
  BY <1>17 DEF Join, poolVars, history
<1>18. ASSUME BeginStop PROVE Control'
  BY <1>18 DEF BeginStop, poolVars, history
<1>19. CASE UNCHANGED vars
  BY <1>19 DEF vars, poolVars, history
<1>. QED
  BY <1>1, <1>2, <1>3, <1>4, <1>5, <1>6, <1>7, <1>8, <1>9, <1>10, <1>11, <1>12, <1>13, <1>14, <1>15, <1>16, <1>17, <1>18, <1>19
     DEF Next, WorkerStep, SubmitStep, StopStep

-----------------------------------------------------------------------------
(* Where the tasks are *)

\* What Append adds to a sequence is its last element and nothing else.
LEMMA AppendElements ==
  ASSUME NEW S, NEW a \in Seq(S), NEW e \in S
  PROVE  /\ DOMAIN Append(a, e) = DOMAIN a \cup {Len(a) + 1}
         /\ \A i \in DOMAIN a : Append(a, e)[i] = a[i]
         /\ Append(a, e)[Len(a) + 1] = e
         /\ Len(a) + 1 \notin DOMAIN a
         /\ Range(Append(a, e)) = Range(a) \cup {e}
<1>1. /\ DOMAIN Append(a, e) = DOMAIN a \cup {Len(a) + 1}
      /\ \A i \in DOMAIN a : Append(a, e)[i] = a[i]
      /\ Append(a, e)[Len(a) + 1] = e
      /\ Len(a) + 1 \notin DOMAIN a
  OBVIOUS
<1>. QED
  BY <1>1 DEF Range

Placed == InFlight /\ AcceptedSubmitted /\ AcceptedOnce

\* The steps that leave the submissions and the accepted tasks alone.
LEMMA PlacedStutters ==
  ASSUME Placed, UNCHANGED <<sub, submitted, accepted>>
  PROVE  Placed'
BY DEF Placed, InFlight, AcceptedSubmitted, AcceptedOnce, Range

\* The steps of a submitter that keep the task it holds, or drop it.
LEMMA PlacedKeeps ==
  ASSUME TypeOK, Placed, NEW s \in Submitters,
         \A r \in Submitters : sub'[r].task = sub[r].task \/ sub'[r].task = None,
         UNCHANGED <<submitted, accepted>>
  PROVE  Placed'
<1>1. InFlight'
  BY DEF Placed, InFlight, Range
<1>. QED
  BY <1>1 DEF Placed, AcceptedSubmitted, AcceptedOnce, Range

LEMMA PlacedSubmit ==
  ASSUME TypeOK, Placed, NEW s \in Submitters, NEW t \in Tasks, Submit(s, t)
  PROVE  Placed'
<1>1. /\ sub'[s].task = t
      /\ \A r \in Submitters : r # s => sub'[r] = sub[r]
      /\ submitted' = submitted \cup {t} /\ t \notin submitted
      /\ accepted' = accepted
  BY DEF Submit, TypeOK, history
<1>2. \A w \in Workers : t \notin Range(accepted[w])
  BY <1>1 DEF Placed, AcceptedSubmitted
<1>3. InFlight'
  BY <1>1, <1>2 DEF Placed, InFlight, Range
<1>4. AcceptedSubmitted' /\ AcceptedOnce'
  BY <1>1 DEF Placed, AcceptedSubmitted, AcceptedOnce, Range
<1>. QED
  BY <1>3, <1>4 DEF Placed

LEMMA PlacedPush ==
  ASSUME TypeOK, SubTypeOK, Placed, NEW s \in Submitters, Push(s)
  PROVE  Placed'
<1>. DEFINE t == sub[s].task
            k == sub[s].slot
<1>1. /\ t \in Tasks /\ t # None /\ k \in Workers
  BY PoolAssumption DEF Push, SubTypeOK, TypeOK, Submission
<1>2. /\ accepted'[k] = Append(accepted[k], t)
      /\ \A w \in Workers : w # k => accepted'[w] = accepted[w]
      /\ sub'[s].task = None
      /\ \A r \in Submitters : r # s => sub'[r] = sub[r]
      /\ submitted' = submitted
  BY <1>1 DEF Push, TypeOK
<1>3. t \in submitted /\ \A w \in Workers : t \notin Range(accepted[w])
  BY <1>1 DEF Placed, InFlight
<1>4. accepted[k] \in Seq(Tasks)
  BY <1>1 DEF TypeOK
<1>. HIDE DEF t, k
<1>5. \A w \in Workers : Range(accepted'[w]) \subseteq Range(accepted[w]) \cup {t}
  <2>1. Range(Append(accepted[k], t)) = Range(accepted[k]) \cup {t}
    BY <1>1, <1>4, AppendElements
  <2>. QED
    BY <1>2, <2>1
<1>6. AcceptedSubmitted'
  BY <1>2, <1>3, <1>5 DEF Placed, AcceptedSubmitted, Range
<1>7. InFlight'
  <2>1. ASSUME NEW r \in Submitters, sub'[r].task # None
        PROVE  /\ sub'[r].task \in submitted'
               /\ \A q \in Submitters : sub'[q].task = sub'[r].task => q = r
               /\ \A w \in Workers : sub'[r].task \notin Range(accepted'[w])
    <3>1. r # s /\ sub'[r] = sub[r]
      BY <1>2, <2>1
    <3>2. sub[r].task # t
      BY <2>1, <3>1 DEF t, Placed, InFlight
    <3>3. /\ sub[r].task \in submitted
          /\ \A q \in Submitters : sub[q].task = sub[r].task => q = r
          /\ \A w \in Workers : sub[r].task \notin Range(accepted[w])
      BY <2>1, <3>1 DEF Placed, InFlight
    <3>. QED
      BY <1>2, <1>5, <2>1, <3>1, <3>2, <3>3
  <2>. QED
    BY <2>1 DEF InFlight, Range
<1>8. AcceptedOnce'
  <2>1. ASSUME NEW w \in Workers, NEW v \in Workers,
               NEW i \in DOMAIN accepted'[w], NEW j \in DOMAIN accepted'[v],
               accepted'[w][i] = accepted'[v][j]
        PROVE  w = v /\ i = j
    <3>. DEFINE old(x, n) == n \in DOMAIN accepted[x] /\ accepted'[x][n] = accepted[x][n]
                new(x, n) == x = k /\ n = Len(accepted[k]) + 1 /\ accepted'[x][n] = t
    <3>1. \A x \in Workers : \A n \in DOMAIN accepted'[x] : old(x, n) \/ new(x, n)
      BY <1>1, <1>2, <1>4, AppendElements
    <3>2. \A x \in Workers : \A n \in DOMAIN accepted'[x] : old(x, n) => accepted'[x][n] # t
      BY <1>3 DEF Range
    <3>. QED
      BY <2>1, <3>1, <3>2 DEF Placed, AcceptedOnce
  <2>. QED
    BY <2>1 DEF AcceptedOnce
<1>. QED
  BY <1>6, <1>7, <1>8 DEF Placed

LEMMA PlacedNext ==
  ASSUME TypeOK, SubTypeOK, Placed, [Next]_vars
  PROVE  Placed'
<1>1. ASSUME NEW w \in Workers, WorkerStep(w) \/ WakeUp(w) PROVE Placed'
  BY <1>1, PlacedStutters
     DEF WorkerStep, Loop, Lock, Check, Block, Break, Take, Execute, WakeUp, poolVars, history
<1>2. ASSUME NEW s \in Submitters, NEW t \in Tasks, Submit(s, t) PROVE Placed'
  BY <1>2, PlacedSubmit
<1>3. ASSUME NEW s \in Submitters, Push(s) PROVE Placed'
  BY <1>3, PlacedPush
<1>4. ASSUME NEW s \in Submitters, LockToPush(s) \/ NotifyOne(s) \/ Load(s) \/ Store(s)
      PROVE  Placed'
  <2>1. \A r \in Submitters : sub'[r].task = sub[r].task \/ sub'[r].task = None
    <3>1. ASSUME LockToPush(s) PROVE \A r \in Submitters : sub'[r].task \in {sub[r].task, None}
      BY <3>1 DEF TypeOK, Submission, LockToPush
    <3>2. ASSUME NotifyOne(s) PROVE \A r \in Submitters : sub'[r].task = sub[r].task
      BY <3>2 DEF TypeOK, Submission, NotifyOne
    <3>3. ASSUME Load(s) PROVE \A r \in Submitters : sub'[r].task = sub[r].task
      BY <3>3 DEF TypeOK, Submission, Load
    <3>4. ASSUME Store(s) PROVE \A r \in Submitters : sub'[r].task = sub[r].task
      BY <3>4 DEF TypeOK, Submission, Store
    <3>. QED
      BY <1>4, <3>1, <3>2, <3>3, <3>4
  <2>2. UNCHANGED <<submitted, accepted>>
    BY <1>4 DEF LockToPush, NotifyOne, Load, Store, history
  <2>. QED
    BY <2>1, <2>2, PlacedKeeps
<1>5. ASSUME BeginStop \/ StopStep PROVE Placed'
  BY <1>5, PlacedStutters DEF BeginStop, StopStep, StopStore, NotifyAll, Join, poolVars, history
<1>6. CASE UNCHANGED vars
  BY <1>6, PlacedStutters DEF vars
<1>. QED
  BY <1>1, <1>2, <1>3, <1>4, <1>5, <1>6 DEF Next, SubmitStep

LEMMA OrderNext ==
  ASSUME TypeOK, Control, RunsInOrder, [Next]_vars
  PROVE  RunsInOrder'
<1>1. ASSUME UNCHANGED <<tasks, item, accepted, executed>> PROVE RunsInOrder'
  BY <1>1 DEF RunsInOrder, Held
<1>2. ASSUME NEW w \in Workers, Take(w) PROVE RunsInOrder'
  <2>1. item[w] = None /\ tasks[w] # <<>>
    BY <1>2 DEF Take, Control, ItemOK, PopsSomething
  <2>2. tasks[w] \in Seq(Tasks) /\ executed[w] \in Seq(Tasks) /\ Head(tasks[w]) \in Tasks
    BY <2>1 DEF TypeOK
  <2>3. /\ item'[w] = Head(tasks[w]) /\ tasks'[w] = Tail(tasks[w])
        /\ \A v \in Workers : v # w => item'[v] = item[v] /\ tasks'[v] = tasks[v]
        /\ accepted' = accepted /\ executed' = executed
    BY <1>2 DEF Take, TypeOK, history
  <2>4. accepted[w] = (executed[w] \o <<>>) \o tasks[w]
    BY <2>1 DEF RunsInOrder, Held
  <2>5. accepted'[w] = (executed'[w] \o <<item'[w]>>) \o tasks'[w]
    BY <2>1, <2>2, <2>3, <2>4, HeadConcat
  <2>6. item'[w] # None
    BY <2>2, <2>3, PoolAssumption
  <2>. QED
    BY <2>3, <2>5, <2>6 DEF RunsInOrder, Held
<1>3. ASSUME NEW w \in Workers, Execute(w) PROVE RunsInOrder'
  <2>1. item[w] # None /\ item[w] \in Tasks
    BY <1>3 DEF Execute, Control, ItemOK, TypeOK
  <2>2. tasks[w] \in Seq(Tasks) /\ executed[w] \in Seq(Tasks)
    BY DEF TypeOK
  <2>3. /\ item'[w] = None /\ executed'[w] = Append(executed[w], item[w])
        /\ \A v \in Workers : v # w => item'[v] = item[v] /\ executed'[v] = executed[v]
        /\ accepted' = accepted /\ tasks' = tasks
    BY <1>3 DEF Execute, TypeOK
  <2>4. accepted[w] = (executed[w] \o <<item[w]>>) \o tasks[w]
    BY <2>1 DEF RunsInOrder, Held
  <2>5. accepted'[w] = (executed'[w] \o <<>>) \o tasks'[w]
    <3>1. (executed[w] \o <<item[w]>>) \o tasks[w]
              = (Append(executed[w], item[w]) \o <<>>) \o tasks[w]
      BY <2>1, <2>2, LastConcat
    <3>. QED
      BY <2>3, <2>4, <3>1
  <2>. QED
    BY <2>3, <2>5 DEF RunsInOrder, Held
<1>4. ASSUME NEW s \in Submitters, Push(s) PROVE RunsInOrder'
  <2>. DEFINE t == sub[s].task
              k == sub[s].slot
  <2>1. t \in Tasks /\ k \in Workers
    BY <1>4, PoolAssumption DEF Push, Control, SubTypeOK, TypeOK, Submission
  <2>2. tasks[k] \in Seq(Tasks) /\ executed[k] \o Held(k) \in Seq(Tasks)
    BY <2>1 DEF TypeOK, Held
  <2>3. /\ accepted'[k] = Append(accepted[k], t) /\ tasks'[k] = Append(tasks[k], t)
        /\ \A v \in Workers : v # k => accepted'[v] = accepted[v] /\ tasks'[v] = tasks[v]
        /\ item' = item /\ executed' = executed
    BY <1>4, <2>1 DEF Push, TypeOK
  <2>4. accepted[k] = (executed[k] \o Held(k)) \o tasks[k]
    BY <2>1 DEF RunsInOrder
  <2>. HIDE DEF t, k
  <2>5. accepted'[k] = (executed[k] \o Held(k)) \o tasks'[k]
    <3>1. Append((executed[k] \o Held(k)) \o tasks[k], t)
              = (executed[k] \o Held(k)) \o Append(tasks[k], t)
      <4>1. \A a, b \in Seq(Tasks), e \in Tasks : Append(a \o b, e) = a \o Append(b, e)
        OBVIOUS
      <4>. QED
        BY <2>1, <2>2, <4>1
    <3>. QED
      BY <2>3, <2>4, <3>1
  <2>6. \A w \in Workers : Held(w)' = Held(w)
    BY <2>3 DEF Held
  <2>. QED
    BY <2>3, <2>5, <2>6 DEF RunsInOrder, Held
<1>5. CASE UNCHANGED vars
  BY <1>1, <1>5 DEF vars
<1>. QED
  BY <1>1, <1>2, <1>3, <1>4, <1>5
     DEF Next, WorkerStep, Loop, Lock, Check, Block, Break, WakeUp, Submit, SubmitStep, LockToPush,
         NotifyOne, Load, Store, BeginStop, StopStep, StopStore, NotifyAll, Join, poolVars, history

-----------------------------------------------------------------------------
\* The inductive invariant holds in every state of the pool.
THEOREM Invariant == Spec => []IInv
<1>1. Init => IInv
  BY InitIInv
<1>2. IInv /\ [Next]_vars => IInv'
  <2>. SUFFICES ASSUME IInv, [Next]_vars PROVE IInv'
    OBVIOUS
  <2>1. TypeOK'
    BY TypeNext DEF IInv, Control
  <2>2. Control'
    BY ControlNext DEF IInv
  <2>3. Placed'
    BY PlacedNext DEF IInv, Control, Placed
  <2>4. RunsInOrder'
    BY OrderNext DEF IInv
  <2>. QED
    BY <2>1, <2>2, <2>3, <2>4 DEF IInv, Placed
<1>. QED
  BY <1>1, <1>2, PTL DEF Spec

\* The variables keep their types; the racy index never leaves the vector of workers.
THEOREM TypeCorrect == Spec => []TypeOK
<1>1. IInv => TypeOK
  BY DEF IInv
<1>. QED
  BY <1>1, Invariant, PTL

\* No worker takes a task from an empty queue, whenever Stop is called.
THEOREM PopCorrect == Spec => []PopsSomething
<1>1. IInv => PopsSomething
  BY DEF IInv, Control
<1>. QED
  BY <1>1, Invariant, PTL

\* PushTask loses no wake-up: a worker asleep over a task is about to be notified.
THEOREM WakeupCorrect == Spec => []NoLostWakeup
<1>1. IInv => NoLostWakeup
  BY DEF IInv, Control
<1>. QED
  BY <1>1, Invariant, PTL

\* A worker runs what it accepted, in the order in which it accepted it.
THEOREM OrderCorrect == Spec => []RunsInOrder
<1>1. IInv => RunsInOrder
  BY DEF IInv
<1>. QED
  BY <1>1, Invariant, PTL

-----------------------------------------------------------------------------
(* The threads implement TaskPool *)

\* A queued task is at one place of one queue only.
LEMMA QueuedOnce ==
  ASSUME TypeOK, AcceptedOnce, RunsInOrder,
         NEW w \in Workers, NEW v \in Workers,
         NEW i \in DOMAIN tasks[w], NEW j \in DOMAIN tasks[v], tasks[w][i] = tasks[v][j]
  PROVE  w = v /\ i = j
<1>1. \A x \in Workers : /\ tasks[x] \in Seq(Tasks)
                         /\ executed[x] \o Held(x) \in Seq(Tasks)
                         /\ accepted[x] = (executed[x] \o Held(x)) \o tasks[x]
  <2>. TAKE x \in Workers
  <2>1. tasks[x] \in Seq(Tasks) /\ executed[x] \in Seq(Tasks)
    BY DEF TypeOK
  <2>2. Held(x) \in Seq(Tasks)
    <3>1. item[x] \in Tasks \cup {None}
      BY DEF TypeOK
    <3>. QED
      BY <3>1 DEF Held
  <2>3. accepted[x] = executed[x] \o Held(x) \o tasks[x]
    BY DEF RunsInOrder
  <2>. QED
    BY <2>1, <2>2, <2>3
<1>2. \A a, b \in Seq(Tasks) : \A n \in DOMAIN b :
         Len(a) \in Nat /\ n \in Nat /\ Len(a) + n \in DOMAIN (a \o b) /\ (a \o b)[Len(a) + n] = b[n]
  OBVIOUS
<1>. DEFINE before(x) == Len(executed[x] \o Held(x))
<1>3. \A x \in Workers : \A n \in DOMAIN tasks[x] :
         /\ before(x) \in Nat /\ n \in Nat
         /\ before(x) + n \in DOMAIN accepted[x] /\ accepted[x][before(x) + n] = tasks[x][n]
  <2>. TAKE x \in Workers
  <2>1. \A n \in DOMAIN tasks[x] :
           LET a == executed[x] \o Held(x) IN
           /\ Len(a) \in Nat /\ n \in Nat
           /\ Len(a) + n \in DOMAIN (a \o tasks[x]) /\ (a \o tasks[x])[Len(a) + n] = tasks[x][n]
    <3>. DEFINE b == tasks[x]
                q == executed[x] \o Held(x)
    <3>1. b \in Seq(Tasks) /\ q \in Seq(Tasks)
      BY <1>1
    <3>. HIDE DEF b, q
    <3>2. \A n \in DOMAIN b : /\ Len(q) \in Nat /\ n \in Nat
                             /\ Len(q) + n \in DOMAIN (q \o b) /\ (q \o b)[Len(q) + n] = b[n]
      BY <1>2, <3>1
    <3>. QED
      BY <3>2 DEF b, q
  <2>. QED
    BY <1>1, <2>1
<1>. HIDE DEF before
<1>4. w = v /\ before(w) + i = before(v) + j
  BY <1>3 DEF AcceptedOnce
<1>. QED
  BY <1>3, <1>4

LEMMA InitImplements == Init => P!Init
<1>1. Init => Fresh = Tasks
  BY PoolAssumption DEF Init, Fresh
<1>2. Init => Queued = {} /\ Finished = {}
  BY DEF Init, Queued, Finished, Range
<1>. QED
  BY <1>1, <1>2 DEF Init, P!Init

\* The steps that hand no task on.
LEMMA Stutters ==
  ASSUME Fresh' = Fresh, UNCHANGED <<tasks, item, executed>>
  PROVE  UNCHANGED P!vars
BY DEF P!vars, Queued, Finished, Range

LEMMA SubmitStutters ==
  ASSUME TypeOK, Control, NEW s \in Submitters, NEW t \in Tasks, Submit(s, t)
  PROVE  Fresh' = Fresh
<1>1. sub[s].task = None
  BY DEF Submit, Control, SubTypeOK
<1>2. /\ sub'[s].task = t /\ submitted' = submitted \cup {t} /\ t \notin submitted
      /\ \A r \in Submitters : r # s => sub'[r] = sub[r]
  BY DEF Submit, TypeOK
<1>. QED
  BY <1>1, <1>2, PoolAssumption DEF Fresh

\* What a submission loses, the fresh tasks lose.
LEMMA FreshLoses ==
  ASSUME TypeOK, InFlight, NEW s \in Submitters, sub[s].task \in Tasks,
         sub'[s].task = None, \A r \in Submitters : r # s => sub'[r] = sub[r],
         submitted' = submitted
  PROVE  sub[s].task \in Fresh /\ Fresh' = Fresh \ {sub[s].task}
<1>1. sub[s].task \in submitted /\ \A r \in Submitters : sub[r].task = sub[s].task => r = s
  BY PoolAssumption DEF InFlight
<1>. QED
  BY <1>1, PoolAssumption DEF Fresh

LEMMA LockToPushImplements ==
  ASSUME TypeOK, Control, InFlight, NEW s \in Submitters, LockToPush(s)
  PROVE  UNCHANGED P!vars \/ P!Refuse(sub[s].task)
<1>1. sub[s].task \in Tasks
  BY DEF LockToPush, Control, SubTypeOK, TypeOK, Submission
<1>2. UNCHANGED <<tasks, item, executed, submitted>>
  BY DEF LockToPush, history
<1>3. CASE running[sub[s].slot]
  <2>1. \A r \in Submitters : sub'[r].task = sub[r].task
    BY <1>3 DEF LockToPush, TypeOK, Submission
  <2>. QED
    BY <1>2, <2>1, Stutters DEF Fresh
<1>4. CASE ~running[sub[s].slot]
  <2>1. sub'[s].task = None /\ \A r \in Submitters : r # s => sub'[r] = sub[r]
    BY <1>4 DEF LockToPush, TypeOK, Submission
  <2>. QED
    BY <1>1, <1>2, <2>1, FreshLoses DEF P!Refuse, Queued, Finished, Range
<1>. QED
  BY <1>3, <1>4

LEMMA PushImplements ==
  ASSUME TypeOK, Control, InFlight, NEW s \in Submitters, Push(s)
  PROVE  P!Accept(sub[s].task)
<1>. DEFINE t == sub[s].task
            k == sub[s].slot
<1>1. t \in Tasks /\ k \in Workers /\ tasks[k] \in Seq(Tasks)
  BY DEF Push, Control, SubTypeOK, TypeOK, Submission
<1>2. /\ tasks'[k] = Append(tasks[k], t) /\ \A w \in Workers : w # k => tasks'[w] = tasks[w]
      /\ sub'[s].task = None /\ \A r \in Submitters : r # s => sub'[r] = sub[r]
      /\ UNCHANGED <<item, executed, submitted>>
  BY <1>1 DEF Push, TypeOK
<1>3. t \in Fresh /\ Fresh' = Fresh \ {t}
  BY <1>1, <1>2, FreshLoses
<1>. HIDE DEF t, k
<1>4. Range(Append(tasks[k], t)) = Range(tasks[k]) \cup {t}
  BY <1>1, AppendElements
<1>5. Queued' = Queued \cup {t}
  <2>1. \A w \in Workers : Range(tasks[w])' = Range(tasks'[w])
    BY DEF Range
  <2>2. \A w \in Workers : w # k => Range(tasks'[w]) = Range(tasks[w])
    BY <1>2
  <2>3. Range(tasks'[k]) = Range(tasks[k]) \cup {t}
    BY <1>2, <1>4
  <2>4. Queued' = UNION {Range(tasks'[w]) : w \in Workers}
    BY <2>1 DEF Queued
  <2>. QED
    BY <1>1, <2>2, <2>3, <2>4 DEF Queued
<1>. QED
  BY <1>2, <1>3, <1>5 DEF P!Accept, Finished, Range, t

LEMMA TakeImplements ==
  ASSUME TypeOK, Control, AcceptedOnce, RunsInOrder, NEW w \in Workers, Take(w)
  PROVE  \E t \in Tasks : P!Begin(w, t)
<1>. DEFINE t == tasks[w][1]
<1>1. item[w] = None /\ tasks[w] # <<>> /\ tasks[w] \in Seq(Tasks)
  BY DEF Take, Control, ItemOK, PopsSomething, TypeOK
<1>2. /\ 1 \in DOMAIN tasks[w] /\ t \in Tasks /\ Head(tasks[w]) = t
      /\ \A n \in DOMAIN Tail(tasks[w]) :
            n \in Nat /\ n + 1 # 1 /\ n + 1 \in DOMAIN tasks[w] /\ Tail(tasks[w])[n] = tasks[w][n + 1]
      /\ \A n \in DOMAIN tasks[w] :
            n # 1 => n - 1 \in DOMAIN Tail(tasks[w]) /\ Tail(tasks[w])[n - 1] = tasks[w][n]
  BY <1>1
<1>3. /\ item' = [item EXCEPT ![w] = t] /\ tasks'[w] = Tail(tasks[w])
      /\ \A v \in Workers : v # w => tasks'[v] = tasks[v]
      /\ UNCHANGED <<executed, sub, submitted>>
  BY <1>2 DEF Take, TypeOK, poolVars, history
<1>4. \A v \in Workers : \A n \in DOMAIN tasks[v] : tasks[v][n] = t => v = w /\ n = 1
  BY <1>2, QueuedOnce
<1>. HIDE DEF t
<1>5. Range(Tail(tasks[w])) = Range(tasks[w]) \ {t}
  <2>1. \A n \in DOMAIN Tail(tasks[w]) : Tail(tasks[w])[n] \in Range(tasks[w]) \ {t}
    BY <1>2, <1>4 DEF Range
  <2>2. \A n \in DOMAIN tasks[w] : tasks[w][n] # t => tasks[w][n] \in Range(Tail(tasks[w]))
    <3>1. \A n \in DOMAIN tasks[w] : tasks[w][n] # t => n # 1
      BY DEF t
    <3>. QED
      BY <1>2, <3>1 DEF Range
  <2>. QED
    BY <2>1, <2>2 DEF Range
<1>6. \A v \in Workers : v # w => t \notin Range(tasks[v])
  BY <1>4 DEF Range
<1>7. t \in Range(tasks[w])
  BY <1>2 DEF Range, t
<1>8. t \in Queued /\ Queued' = Queued \ {t}
  <2>1. \A v \in Workers : Range(tasks[v])' = Range(tasks[v]) \ {t}
    <3>1. ASSUME NEW v \in Workers PROVE Range(tasks[v])' = Range(tasks'[v])
      BY DEF Range
    <3>2. Range(tasks'[w]) = Range(tasks[w]) \ {t}
      BY <1>3, <1>5
    <3>3. \A v \in Workers : v # w => Range(tasks'[v]) = Range(tasks[v]) \ {t}
      BY <1>3, <1>6
    <3>. QED
      BY <3>1, <3>2, <3>3
  <2>2. Queued' = UNION {Range(tasks[v]) \ {t} : v \in Workers}
    BY <2>1 DEF Queued
  <2>. QED
    BY <1>7, <2>2 DEF Queued
<1>9. Fresh' = Fresh /\ Finished' = Finished
  BY <1>3 DEF Fresh, Finished, Range
<1>10. P!Begin(w, t)
  BY <1>1, <1>3, <1>8, <1>9 DEF P!Begin
<1>. QED
  BY <1>2, <1>10

LEMMA ExecuteImplements ==
  ASSUME TypeOK, Control, NEW w \in Workers, Execute(w)
  PROVE  P!Finish(w)
<1>1. item[w] # None /\ item[w] \in Tasks /\ executed[w] \in Seq(Tasks)
  BY DEF Execute, Control, ItemOK, TypeOK
<1>2. /\ item' = [item EXCEPT ![w] = None] /\ executed'[w] = Append(executed[w], item[w])
      /\ \A v \in Workers : v # w => executed'[v] = executed[v]
      /\ UNCHANGED <<tasks, sub, submitted>>
  BY DEF Execute, TypeOK, poolVars
<1>3. Range(Append(executed[w], item[w])) = Range(executed[w]) \cup {item[w]}
  BY <1>1, AppendElements
<1>4. Finished' = Finished \cup {item[w]}
  BY <1>2, <1>3 DEF Finished, Range
<1>5. Fresh' = Fresh /\ Queued' = Queued
  BY <1>2 DEF Fresh, Queued, Range
<1>. QED
  BY <1>1, <1>2, <1>4, <1>5 DEF P!Finish

LEMMA NextImplements == IInv /\ [Next]_vars => [P!Next]_(P!vars)
<1>. SUFFICES ASSUME IInv, [Next]_vars PROVE P!Next \/ UNCHANGED P!vars
  OBVIOUS
<1>. USE DEF IInv
<1>1. ASSUME UNCHANGED <<tasks, item, executed, submitted>>,
             \A s \in Submitters : sub'[s].task = sub[s].task
      PROVE  UNCHANGED P!vars
  BY <1>1, Stutters DEF Fresh
<1>2. ASSUME NEW w \in Workers, WorkerStep(w) \/ WakeUp(w), ~Take(w), ~Execute(w)
      PROVE  UNCHANGED P!vars
  BY <1>1, <1>2 DEF WorkerStep, Loop, Lock, Check, Block, Break, WakeUp, poolVars, history
<1>3. ASSUME NEW w \in Workers, Take(w) PROVE P!Next
  BY <1>3, TakeImplements DEF P!Next
<1>4. ASSUME NEW w \in Workers, Execute(w) PROVE P!Next
  BY <1>4, ExecuteImplements DEF P!Next
<1>5. ASSUME NEW s \in Submitters, NEW t \in Tasks, Submit(s, t) PROVE UNCHANGED P!vars
  BY <1>5, SubmitStutters, Stutters DEF Submit, history
<1>6. ASSUME NEW s \in Submitters, LockToPush(s) PROVE P!Next \/ UNCHANGED P!vars
  <2>1. sub[s].task \in Tasks
    BY <1>6 DEF LockToPush, Control, SubTypeOK, TypeOK, Submission
  <2>. QED
    BY <1>6, <2>1, LockToPushImplements DEF P!Next
<1>7. ASSUME NEW s \in Submitters, Push(s) PROVE P!Next
  <2>1. sub[s].task \in Tasks
    BY <1>7 DEF Push, Control, SubTypeOK, TypeOK, Submission
  <2>. QED
    BY <1>7, <2>1, PushImplements DEF P!Next
<1>8. ASSUME NEW s \in Submitters, NotifyOne(s) \/ Load(s) \/ Store(s) PROVE UNCHANGED P!vars
  <2>1. ASSUME NotifyOne(s) PROVE \A r \in Submitters : sub'[r].task = sub[r].task
    BY <2>1 DEF TypeOK, Submission, NotifyOne
  <2>2. ASSUME Load(s) PROVE \A r \in Submitters : sub'[r].task = sub[r].task
    BY <2>2 DEF TypeOK, Submission, Load
  <2>3. ASSUME Store(s) PROVE \A r \in Submitters : sub'[r].task = sub[r].task
    BY <2>3 DEF TypeOK, Submission, Store
  <2>4. UNCHANGED <<tasks, item, executed, submitted>>
    BY <1>8 DEF NotifyOne, Load, Store, history
  <2>. QED
    BY <1>1, <1>8, <2>1, <2>2, <2>3, <2>4
<1>9. ASSUME BeginStop \/ StopStep PROVE UNCHANGED P!vars
  BY <1>1, <1>9 DEF BeginStop, StopStep, StopStore, NotifyAll, Join, poolVars, history
<1>10. CASE UNCHANGED vars
  BY <1>1, <1>10 DEF vars
<1>. QED
  BY <1>2, <1>3, <1>4, <1>5, <1>6, <1>7, <1>8, <1>9, <1>10 DEF Next, SubmitStep

\* Every behaviour of the threads is one of the abstract pool: a task is accepted or
\* refused once, run by one worker, once.
THEOREM Implements == Spec => ImplementsTaskPool
<1>1. Init => P!Init
  BY InitImplements
<1>2. IInv /\ [Next]_vars => [P!Next]_(P!vars)
  BY NextImplements
<1>. QED
  BY <1>1, <1>2, Invariant, PTL DEF Spec, P!Spec, ImplementsTaskPool
=============================================================================
