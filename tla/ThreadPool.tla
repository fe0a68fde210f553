----------------------------- MODULE ThreadPool -----------------------------
(***************************************************************************)
(* COMMON/thread: ThreadPool and the WorkerThreads it owns, step by step   *)
(* between two accesses to what the threads share.                         *)
(*                                                                         *)
(* The threads are the N workers; the Submitters, which are the threads    *)
(* that call ThreadPool::Submit without a common lock (MapManager::Update  *)
(* and ChannelServer::UpdateChannelState); and the one that runs the       *)
(* destructor of the pool, the stopper.  The state begins after            *)
(* ThreadPool::Start, which ChannelServer::Init calls before it starts any *)
(* submitter.  m_mutex is not a variable: it is held by the worker in the  *)
(* program points of HoldsMutex and by the submitter in PushTask.          *)
(***************************************************************************)
EXTENDS Integers, Sequences

CONSTANTS N,            \* m_workers.size()
          Tasks,        \* the tasks the submitters will ever create
          Submitters,
          None

\* The constructor replaces a thread count of 0.
ASSUME PoolAssumption == N \in Nat \ {0} /\ None \notin Tasks

VARIABLES
  running,     \* WorkerThread::m_running
  tasks,       \* WorkerThread::m_tasks
  pc,          \* where the worker is in Run
  item,        \* the local `task' of Run
  nextIndex,   \* ThreadPool::m_nextIndex
  sub,         \* a submitter: where it is in Submit, its task, its copy of m_nextIndex
  stopper,     \* where ThreadPool::Stop is, and at which worker
  submitted,   \* the tasks created so far
  accepted,    \* history: the tasks pushed to each worker, in that order
  executed     \* history: the tasks each worker has run, in that order

vars == <<running, tasks, pc, item, nextIndex, sub, stopper, submitted, accepted, executed>>
poolVars == <<nextIndex, sub, submitted>>
history == <<accepted, executed>>

Workers == 0 .. N - 1

-----------------------------------------------------------------------------
WorkerPcs == {"Loop", "Lock", "Check", "Block", "Waiting", "Take", "Execute", "Done"}
HoldsMutex == {"Check", "Block", "Take"}
Submission == [pc : {"Idle", "Push", "Pushing", "Notify", "Load", "Store"},
               task : Tasks \cup {None}, slot : Workers]
Stopping == [pc : {"Off", "Store", "Notify", "Join", "End"}, at : Workers]

Init == /\ running = [w \in Workers |-> TRUE]
        /\ tasks = [w \in Workers |-> <<>>]
        /\ pc = [w \in Workers |-> "Loop"]
        /\ item = [w \in Workers |-> None]
        /\ nextIndex = 0
        /\ sub = [s \in Submitters |-> [pc |-> "Idle", task |-> None, slot |-> 0]]
        /\ stopper = [pc |-> "Off", at |-> 0]
        /\ submitted = {}
        /\ accepted = [w \in Workers |-> <<>>]
        /\ executed = [w \in Workers |-> <<>>]

\* Submitter s is in the critical section of PushTask of worker w.
Pushing(s, w) == sub[s].pc = "Pushing" /\ sub[s].slot = w

MutexFree(w) == pc[w] \notin HoldsMutex /\ \A s \in Submitters : ~Pushing(s, w)

Goto(w, p) == pc' = [pc EXCEPT ![w] = p]

\* m_cv.notify_one and notify_all: each worker waits alone on its own m_cv.
Woken(w) == IF pc[w] = "Waiting" THEN [pc EXCEPT ![w] = "Lock"] ELSE pc

-----------------------------------------------------------------------------
(* WorkerThread::Run                                                       *)

\* while (m_running)
Loop(w) == /\ pc[w] = "Loop"
           /\ Goto(w, IF running[w] THEN "Lock" ELSE "Done")
           /\ UNCHANGED <<running, tasks, item, poolVars, stopper, history>>

Lock(w) == /\ pc[w] = "Lock"
           /\ MutexFree(w)
           /\ Goto(w, "Check")
           /\ UNCHANGED <<running, tasks, item, poolVars, stopper, history>>

\* The predicate of m_cv.wait, evaluated with the mutex held.
Check(w) == /\ pc[w] = "Check"
            /\ Goto(w, IF tasks[w] # <<>> \/ ~running[w] THEN "Take" ELSE "Block")
            /\ UNCHANGED <<running, tasks, item, poolVars, stopper, history>>

\* m_cv.wait gives the mutex up and sleeps, in one step of its own.
Block(w) == /\ pc[w] = "Block"
            /\ Goto(w, "Waiting")
            /\ UNCHANGED <<running, tasks, item, poolVars, stopper, history>>

\* A wait may end without a notification.
WakeUp(w) == /\ pc[w] = "Waiting"
             /\ pc' = Woken(w)
             /\ UNCHANGED <<running, tasks, item, poolVars, stopper, history>>

\* if (!m_running && m_tasks.empty()) break;
Break(w) == /\ pc[w] = "Take"
            /\ ~running[w] /\ tasks[w] = <<>>
            /\ Goto(w, "Done")
            /\ UNCHANGED <<running, tasks, item, poolVars, stopper, history>>

\* Mutant: the front is read and not popped.
TakeWithoutPop(w) == /\ pc[w] = "Take"
                     /\ running[w] \/ tasks[w] # <<>>
                     /\ item' = [item EXCEPT ![w] = Head(tasks[w])]
                     /\ Goto(w, "Execute")
                     /\ UNCHANGED <<running, tasks, poolVars, stopper, history>>

\* Mutant: the newest task first.
TakeLast(w) == /\ pc[w] = "Take"
               /\ running[w] \/ tasks[w] # <<>>
               /\ item' = [item EXCEPT ![w] = tasks[w][Len(tasks[w])]]
               /\ tasks' = [tasks EXCEPT ![w] = SubSeq(@, 1, Len(@) - 1)]
               /\ Goto(w, "Execute")
               /\ UNCHANGED <<running, poolVars, stopper, history>>

Take(w) == /\ pc[w] = "Take"
           /\ running[w] \/ tasks[w] # <<>>
           /\ item' = [item EXCEPT ![w] = Head(tasks[w])]
           /\ tasks' = [tasks EXCEPT ![w] = Tail(tasks[w])]
           /\ Goto(w, "Execute")
           /\ UNCHANGED <<running, poolVars, stopper, history>>

Execute(w) == /\ pc[w] = "Execute"
              /\ executed' = [executed EXCEPT ![w] = Append(executed[w], item[w])]
              /\ item' = [item EXCEPT ![w] = None]
              /\ Goto(w, "Loop")
              /\ UNCHANGED <<running, tasks, poolVars, stopper, accepted>>

WorkerStep(w) == \/ Loop(w) \/ Lock(w) \/ Check(w) \/ Block(w)
                 \/ Break(w) \/ Take(w) \/ Execute(w)

-----------------------------------------------------------------------------
(* ThreadPool::Submit and WorkerThread::PushTask                           *)

\* m_workers[m_nextIndex]: the worker is chosen by an unsynchronised read.
Submit(s, t) == /\ sub[s].pc = "Idle"
                /\ t \notin submitted
                /\ submitted' = submitted \cup {t}
                /\ sub' = [sub EXCEPT ![s] = [pc |-> "Push", task |-> t, slot |-> nextIndex]]
                /\ UNCHANGED <<running, tasks, pc, item, nextIndex, stopper, history>>

\* Mutant: the task is pushed without the lock.
PushUnlocked(s) ==
  /\ sub[s].pc = "Push"
  /\ sub' = [sub EXCEPT ![s].pc = "Pushing"]
  /\ UNCHANGED <<running, tasks, pc, item, nextIndex, stopper, submitted, history>>

\* The lock, and the test of m_running under it: a refused task is destroyed.
LockToPush(s) ==
  /\ sub[s].pc = "Push"
  /\ MutexFree(sub[s].slot)
  /\ sub' = [sub EXCEPT ![s] = IF running[sub[s].slot]
                               THEN [@ EXCEPT !.pc = "Pushing"]
                               ELSE [@ EXCEPT !.pc = "Load", !.task = None]]
  /\ UNCHANGED <<running, tasks, pc, item, nextIndex, stopper, submitted, history>>

\* m_tasks.push, then the end of the critical section.
Push(s) ==
  LET w == sub[s].slot IN
  /\ sub[s].pc = "Pushing"
  /\ tasks' = [tasks EXCEPT ![w] = Append(tasks[w], sub[s].task)]
  /\ accepted' = [accepted EXCEPT ![w] = Append(accepted[w], sub[s].task)]
  /\ sub' = [sub EXCEPT ![s] = [@ EXCEPT !.pc = "Notify", !.task = None]]
  /\ UNCHANGED <<running, pc, item, nextIndex, stopper, submitted, executed>>

\* Mutant: the worker is not notified.
NotifyNobody(s) == /\ sub[s].pc = "Notify"
                   /\ sub' = [sub EXCEPT ![s] = [@ EXCEPT !.pc = "Load"]]
                   /\ UNCHANGED <<running, tasks, pc, item, nextIndex, stopper, submitted, history>>

NotifyOne(s) == /\ sub[s].pc = "Notify"
                /\ pc' = Woken(sub[s].slot)
                /\ sub' = [sub EXCEPT ![s] = [@ EXCEPT !.pc = "Load"]]
                /\ UNCHANGED <<running, tasks, item, nextIndex, stopper, submitted, history>>

\* m_nextIndex = (m_nextIndex + 1) % m_workers.size(), a read and a write.
Load(s) == /\ sub[s].pc = "Load"
           /\ sub' = [sub EXCEPT ![s] = [@ EXCEPT !.pc = "Store", !.slot = nextIndex]]
           /\ UNCHANGED <<running, tasks, pc, item, nextIndex, stopper, submitted, history>>

Store(s) == /\ sub[s].pc = "Store"
            /\ nextIndex' = (sub[s].slot + 1) % N
            /\ sub' = [sub EXCEPT ![s] = [@ EXCEPT !.pc = "Idle"]]
            /\ UNCHANGED <<running, tasks, pc, item, stopper, submitted, history>>

SubmitStep(s) == LockToPush(s) \/ Push(s) \/ NotifyOne(s) \/ Load(s) \/ Store(s)

-----------------------------------------------------------------------------
(* ThreadPool::Stop: the workers one after the other                       *)

BeginStop == /\ stopper.pc = "Off"
             /\ stopper' = [stopper EXCEPT !.pc = "Store"]
             /\ UNCHANGED <<running, tasks, pc, item, poolVars, history>>

\* m_running = false, without the mutex.
StopStore == /\ stopper.pc = "Store"
             /\ running' = [running EXCEPT ![stopper.at] = FALSE]
             /\ stopper' = [stopper EXCEPT !.pc = "Notify"]
             /\ UNCHANGED <<tasks, pc, item, poolVars, history>>

NotifyAll == /\ stopper.pc = "Notify"
             /\ pc' = Woken(stopper.at)
             /\ stopper' = [stopper EXCEPT !.pc = "Join"]
             /\ UNCHANGED <<running, tasks, item, poolVars, history>>

Join == /\ stopper.pc = "Join"
        /\ pc[stopper.at] = "Done"
        /\ stopper' = IF stopper.at + 1 < N THEN [pc |-> "Store", at |-> stopper.at + 1]
                                            ELSE [stopper EXCEPT !.pc = "End"]
        /\ UNCHANGED <<running, tasks, pc, item, poolVars, history>>

StopStep == StopStore \/ NotifyAll \/ Join

-----------------------------------------------------------------------------
Next == \/ \E w \in Workers : WorkerStep(w) \/ WakeUp(w)
        \/ \E s \in Submitters : SubmitStep(s) \/ \E t \in Tasks : Submit(s, t)
        \/ BeginStop
        \/ StopStep

Spec == Init /\ [][Next]_vars

(***************************************************************************)
(* Each thread that can go on goes on, and a task ends.  Nothing is        *)
(* assumed of a wait that nobody notifies, and nobody has to submit a      *)
(* task or to stop the pool.                                               *)
(***************************************************************************)
Fairness == /\ \A w \in Workers : WF_vars(WorkerStep(w))
            /\ \A s \in Submitters : WF_vars(SubmitStep(s))
            /\ WF_vars(StopStep)

FairSpec == Spec /\ Fairness

-----------------------------------------------------------------------------
(* Properties                                                              *)

Range(s) == {s[i] : i \in DOMAIN s}
Held(w) == IF item[w] = None THEN <<>> ELSE <<item[w]>>

\* The types of the variables; m_nextIndex and every copy of it index m_workers
\* although two threads read, add and write it without a lock.
TypeOK == /\ running \in [Workers -> BOOLEAN]
          /\ tasks \in [Workers -> Seq(Tasks)]
          /\ pc \in [Workers -> WorkerPcs]
          /\ item \in [Workers -> Tasks \cup {None}]
          /\ nextIndex \in Workers
          /\ sub \in [Submitters -> Submission]
          /\ stopper \in Stopping
          /\ submitted \subseteq Tasks
          /\ accepted \in [Workers -> Seq(Tasks)]
          /\ executed \in [Workers -> Seq(Tasks)]

\* m_mutex is held by one thread at a time.
MutualExclusion ==
  \A w \in Workers :
     /\ pc[w] \in HoldsMutex => \A s \in Submitters : ~Pushing(s, w)
     /\ \A r, s \in Submitters : Pushing(r, w) /\ Pushing(s, w) => r = s

\* Front and pop are never applied to an empty queue: the predicate of the wait
\* and the test after it leave no way there, whenever Stop is called.
PopsSomething == \A w \in Workers :
                    pc[w] = "Take" /\ tasks[w] = <<>> => ~running[w]

\* PushTask: a worker that sleeps over a task is about to be notified.
NoLostWakeup == \A w \in Workers :
                   pc[w] = "Waiting" /\ tasks[w] # <<>>
                     => \E s \in Submitters : sub[s].pc = "Notify" /\ sub[s].slot = w

\* PushTask and Run: what a worker accepted is what it ran, what it runs and what
\* it has queued, in the order in which it was accepted.
RunsInOrder == \A w \in Workers : accepted[w] = executed[w] \o Held(w) \o tasks[w]

\* Submit: no task reaches two queues, or one queue twice.
AcceptedOnce == \A w, v \in Workers : \A i \in DOMAIN accepted[w], j \in DOMAIN accepted[v] :
                   accepted[w][i] = accepted[v][j] => w = v /\ i = j

\* The tasks in the terms of TaskPool: not decided about, queued, run.
Fresh == (Tasks \ submitted) \cup {t \in Tasks : \E s \in Submitters : sub[s].task = t}
Queued == UNION {Range(tasks[w]) : w \in Workers}
Finished == UNION {Range(executed[w]) : w \in Workers}

\* The threads implement the abstract pool.
P == INSTANCE TaskPool WITH fresh <- Fresh, waiting <- Queued, busy <- item, finished <- Finished
ImplementsTaskPool == P!Spec

\* A task that was accepted is run, unless the pool is stopped: no wake-up is lost
\* and no queue is left behind.
AcceptedIsRun ==
  \A t \in Tasks, w \in Workers :
     (t \in Range(tasks[w])) ~> (t \in Range(executed[w]) \/ ~running[w])

-----------------------------------------------------------------------------
(* The inductive invariant                                                 *)

SubTypeOK == \A s \in Submitters : sub[s].task # None <=> sub[s].pc \in {"Push", "Pushing"}

ItemOK == \A w \in Workers : item[w] # None <=> pc[w] = "Execute"

\* The predicate is false while the worker goes to sleep, as far as the queue goes.
BlocksOnEmpty == \A w \in Workers : pc[w] = "Block" => tasks[w] = <<>>

\* A task a submitter holds is nobody else's.
InFlight == \A s \in Submitters : sub[s].task # None =>
               /\ sub[s].task \in submitted
               /\ \A r \in Submitters : sub[r].task = sub[s].task => r = s
               /\ \A w \in Workers : sub[s].task \notin Range(accepted[w])

AcceptedSubmitted == \A w \in Workers : Range(accepted[w]) \subseteq submitted

Control == /\ SubTypeOK /\ ItemOK /\ MutualExclusion
           /\ PopsSomething /\ BlocksOnEmpty /\ NoLostWakeup

IInv == /\ TypeOK /\ Control
        /\ InFlight /\ AcceptedSubmitted /\ AcceptedOnce /\ RunsInOrder

-----------------------------------------------------------------------------
(* What the comments of the code say, and the code does not do             *)

\* "Even when a Stop request comes, all tasks left in the queue are processed and then
\* it ends": a worker that is told to stop ends.
StopEnds == \A w \in Workers : ~running[w] ~> pc[w] = "Done"
=============================================================================
