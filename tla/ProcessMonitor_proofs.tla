----------------------- MODULE ProcessMonitor_proofs -----------------------
(* Proofs about ProcessMonitor, for any number of daemons and any pids. *)
EXTENDS ProcessMonitor, TLAPS

-----------------------------------------------------------------------------
(* Constants *)

\* -1 is no pid, and the daemons are numbers of their own.
LEMMA Constants ==
  /\ NoPid \notin Pid /\ NoPid \in AnyPid /\ Pid \subseteq AnyPid
  /\ 1 \in Daemon /\ \A d \in Daemon : d \in Int /\ d # N + 1
  /\ Free \notin Daemon /\ Other \notin Daemon /\ Free # Other
BY PidAssumption DEF NoPid, AnyPid, Daemon

-----------------------------------------------------------------------------
(* Every step keeps the inductive invariant *)

LEMMA InitIInv == Init => IInv
<1>. SUFFICES ASSUME Init PROVE IInv
  OBVIOUS
<1>1. TypeOK
  BY Constants, PidAssumption DEF Init, TypeOK, Daemon
<1>2. KnowsDaemons
  BY Constants DEF Init, KnowsDaemons
<1>. QED
  BY <1>1, <1>2 DEF IInv

\* What MAIN is at is one round, from the first daemon to the one after the last.
LEMMA NextOne ==
  ASSUME NEW d \in Daemon
  PROVE  d + 1 \in 1 .. N + 1
BY PidAssumption DEF Daemon

\* Run returns the pid it read, or one that is no daemon's yet.
LEMMA ReturnIInv ==
  ASSUME IInv, NEW v \in AnyPid, Return(v), stage \in {"Run", "Read"},
         stage = "Read" => v = pid2, UNCHANGED <<proc, main, phase, pid2, lost>>
  PROVE  IInv'
<1>0. cur \in Daemon /\ phase # "Watch"
  BY DEF IInv, TypeOK
<1>1. TypeOK'
  BY <1>0, NextOne DEF IInv, TypeOK, Return
<1>2. KnowsDaemons'
  <2>. SUFFICES ASSUME NEW p \in Pid, NEW d \in Daemon \ lost, proc[p] = d
                PROVE  (Started(d) /\ ~Starting(d) /\ KnownPid(d) = p)'
    BY DEF KnowsDaemons, Return
  <2>1. Started(d) /\ ~Starting(d) /\ KnownPid(d) = p
    BY DEF IInv, KnowsDaemons
  <2>2. Started(d)'
    BY <1>0, <2>1, PidAssumption DEF Started, Return, Daemon
  <2>3. ~Starting(d)'
    BY DEF Starting, Return
  <2>4. pid'[d] = p
    <3>1. CASE d = cur
      <4>1. stage = "Read" /\ v = pid2
        BY <3>1, <2>1 DEF Starting
      <4>. QED
        BY <4>1, <3>1, <2>1 DEF Return, KnownPid, IInv, TypeOK
    <3>2. CASE d # cur
      BY <3>2, <2>1 DEF Return, KnownPid, IInv, TypeOK
    <3>. QED
      BY <3>1, <3>2
  <2>. QED
    BY <2>2, <2>3, <2>4 DEF KnownPid, Return
<1>. QED
  BY <1>1, <1>2 DEF IInv

\* The process of the daemon that was being started is there, and the report is
\* its pid or it is lost.
LEMMA SpawnIInv ==
  ASSUME IInv, stage = "Forked", NEW q \in Pid, proc[q] = Free,
         proc' = [proc EXCEPT ![q] = cur], stage' = "Read", pid2' \in AnyPid,
         lost' \in {lost, lost \cup {cur}}, cur \in lost' \/ pid2' = q,
         UNCHANGED <<main, phase, cur, pid>>
  PROVE  IInv'
<1>0. cur \in Daemon /\ phase # "Watch"
  BY DEF IInv, TypeOK
<1>1. TypeOK'
  BY <1>0 DEF IInv, TypeOK
<1>2. KnowsDaemons'
  <2>. SUFFICES ASSUME NEW p \in Pid, NEW d \in Daemon, d \notin lost', proc'[p] = d
                PROVE  (Started(d) /\ ~Starting(d) /\ KnownPid(d) = p)'
    BY DEF KnowsDaemons
  <2>1. ~Starting(d)'
    BY DEF Starting
  <2>2. CASE d = cur
    <3>1. p = q
      BY <2>2 DEF IInv, TypeOK, KnowsDaemons, Starting
    <3>2. Started(d)'
      BY <2>2 DEF Started
    <3>. QED
      BY <2>1, <2>2, <3>1, <3>2 DEF KnownPid
  <2>3. CASE d # cur
    <3>1. p # q /\ proc[p] = d /\ d \notin lost
      BY <2>3 DEF IInv, TypeOK
    <3>2. Started(d) /\ KnownPid(d) = p
      BY <3>1 DEF IInv, KnowsDaemons
    <3>. QED
      BY <2>1, <2>3, <3>2 DEF Started, KnownPid
  <2>. QED
    BY <2>2, <2>3
<1>. QED
  BY <1>1, <1>2 DEF IInv

\* Processes that end, and other processes that start, leave what MAIN knows.
LEMMA FewerIInv ==
  ASSUME IInv, proc' \in [Pid -> Daemon \cup {Free, Other}],
         \A p \in Pid : proc'[p] \in Daemon => proc'[p] = proc[p],
         main' \in {"Running", "Stopped", "Dead"},
         stage' = stage \/ (stage = "Forked" /\ stage' = "Idle" /\ phase = "Loop"),
         UNCHANGED <<phase, cur, pid, pid2, lost>>
  PROVE  IInv'
<1>1. TypeOK'
  BY DEF IInv, TypeOK
<1>2. KnowsDaemons'
  <2>. SUFFICES ASSUME NEW p \in Pid, NEW d \in Daemon \ lost, proc'[p] = d
                PROVE  (Started(d) /\ ~Starting(d) /\ KnownPid(d) = p)'
    BY DEF KnowsDaemons
  <2>1. Started(d) /\ ~Starting(d) /\ KnownPid(d) = p
    BY DEF IInv, KnowsDaemons
  <2>. QED
    BY <2>1 DEF Started, Starting, KnownPid
<1>. QED
  BY <1>1, <1>2 DEF IInv

\* MAIN goes on to another daemon or another phase, with no Run in progress.
LEMMA MoveIInv ==
  ASSUME IInv, stage = "Idle", stage' = "Idle", cur' \in 1 .. N + 1,
         phase' \in {"Watch", "Loop", phase}, phase' # "Start",
         UNCHANGED <<proc, main, pid, pid2, lost>>
  PROVE  IInv'
<1>1. TypeOK'
  BY DEF IInv, TypeOK
<1>2. KnowsDaemons'
  BY DEF IInv, KnowsDaemons, Started, Starting, KnownPid
<1>. QED
  BY <1>1, <1>2 DEF IInv

\* Run goes on, or begins, for a daemon that does not run.
LEMMA BeginIInv ==
  ASSUME IInv, cur \in Daemon, phase # "Watch", stage' \in {"Run", "Forked", "Read"},
         pid2' \in AnyPid,
         \A p \in Pid : proc[p] # cur \/ cur \in lost,
         UNCHANGED <<proc, main, phase, cur, pid, lost>>
  PROVE  IInv'
<1>1. TypeOK'
  BY DEF IInv, TypeOK
<1>2. KnowsDaemons'
  <2>. SUFFICES ASSUME NEW p \in Pid, NEW d \in Daemon \ lost, proc[p] = d
                PROVE  (Started(d) /\ ~Starting(d) /\ KnownPid(d) = p)'
    BY DEF KnowsDaemons
  <2>1. d # cur
    OBVIOUS
  <2>2. Started(d) /\ KnownPid(d) = p
    BY DEF IInv, KnowsDaemons
  <2>. QED
    BY <2>1, <2>2 DEF Started, Starting, KnownPid
<1>. QED
  BY <1>1, <1>2 DEF IInv

\* A daemon that is being started has no process, unless one was lost.
LEMMA NotYet ==
  ASSUME IInv, stage \in {"Run", "Forked"}
  PROVE  cur \in Daemon /\ phase # "Watch" /\ \A p \in Pid : proc[p] # cur \/ cur \in lost
BY DEF IInv, TypeOK, KnowsDaemons, Starting

-----------------------------------------------------------------------------
(* The actions *)

LEMMA RunStepIInv == ASSUME IInv, RunStep PROVE IInv'
<1>1. CASE ForkFails
  <2>1. PICK v \in AnyPid : Return(v)
    BY <1>1, Constants DEF ForkFails
  <2>. QED
    BY <1>1, <2>1, ReturnIInv DEF ForkFails, Continues
<1>2. CASE Fork
  BY <1>2, NotYet, BeginIInv DEF Fork, Continues, IInv, TypeOK
<1>3. CASE SecondForkFails
  BY <1>3, NotYet, BeginIInv DEF SecondForkFails
<1>4. CASE Read
  BY <1>4, ReturnIInv DEF Read, Continues, IInv, TypeOK
<1>5. ASSUME NEW p \in Pid, SecondFork(p) PROVE IInv'
  BY <1>5, SpawnIInv, Constants DEF SecondFork
<1>6. ASSUME NEW p \in Pid, WriteFails(p) PROVE IInv'
  BY <1>6, SpawnIInv DEF WriteFails
<1>. QED
  BY <1>1, <1>2, <1>3, <1>4, <1>5, <1>6 DEF RunStep

LEMMA MainStepIInv == ASSUME IInv, MainStep PROVE IInv'
<1>1. CASE StartDaemon
  <2>1. \A p \in Pid : proc[p] # cur \/ cur \in lost
    BY <1>1 DEF StartDaemon, IInv, TypeOK, KnowsDaemons, Started
  <2>. QED
    BY <1>1, <2>1, BeginIInv DEF StartDaemon, Continues, IInv, TypeOK
<1>2. CASE AllStarted \/ AddWatch \/ AllWatched \/ CheckAlive \/ Sleep
  <2>1. stage = "Idle" /\ stage' = "Idle"
    BY <1>2, Constants DEF AllStarted, AddWatch, AllWatched, CheckAlive, Sleep, IInv, TypeOK
  <2>2. cur' \in 1 .. N + 1
    BY <1>2, NextOne, PidAssumption DEF AllStarted, AddWatch, AllWatched, CheckAlive, Sleep
  <2>. QED
    BY <1>2, <2>1, <2>2, MoveIInv
    DEF AllStarted, AddWatch, AllWatched, CheckAlive, Sleep, Continues
<1>3. CASE CheckDead
  <2>1. \A p \in Pid : proc[p] # cur \/ cur \in lost
    BY <1>3, Constants DEF CheckDead, Exists, IInv, TypeOK, KnowsDaemons, KnownPid
  <2>. QED
    BY <1>3, <2>1, BeginIInv DEF CheckDead, Continues, IInv, TypeOK
<1>. QED
  BY <1>1, <1>2, <1>3 DEF MainStep

LEMMA KernelIInv ==
  ASSUME IInv, \/ ReadFails \/ CleanChildren \/ Killed
               \/ \E p \in Pid : Ends(p) \/ OtherStarts(p)
  PROVE  IInv'
<1>1. CASE ReadFails \/ Killed
  BY <1>1, FewerIInv DEF ReadFails, Killed, IInv, TypeOK
<1>2. CASE CleanChildren
  <2>1. /\ proc' \in [Pid -> Daemon \cup {Free, Other}]
        /\ \A p \in Pid : proc'[p] \in Daemon => proc'[p] = proc[p]
    BY <1>2, Constants DEF CleanChildren, IInv, TypeOK
  <2>2. stage' = stage \/ (stage = "Forked" /\ stage' = "Idle" /\ phase = "Loop")
    BY <1>2 DEF CleanChildren, Watched, IInv, TypeOK
  <2>. QED
    BY <1>2, <2>1, <2>2, FewerIInv DEF CleanChildren
<1>3. ASSUME NEW p \in Pid, Ends(p) \/ OtherStarts(p) PROVE IInv'
  <2>1. /\ proc' \in [Pid -> Daemon \cup {Free, Other}]
        /\ \A q \in Pid : proc'[q] \in Daemon => proc'[q] = proc[q]
    BY <1>3, Constants DEF Ends, OtherStarts, IInv, TypeOK
  <2>. QED
    BY <1>3, <2>1, FewerIInv DEF Ends, OtherStarts, IInv, TypeOK
<1>. QED
  BY <1>1, <1>2, <1>3

LEMMA NextIInv == IInv /\ [Next]_vars => IInv'
<1>. SUFFICES ASSUME IInv, [Next]_vars PROVE IInv'
  OBVIOUS
<1>1. CASE Next
  BY <1>1, RunStepIInv, MainStepIInv, KernelIInv DEF Next
<1>2. CASE UNCHANGED vars
  BY <1>2 DEF vars, IInv, TypeOK, KnowsDaemons, Started, Starting, KnownPid
<1>. QED
  BY <1>1, <1>2

-----------------------------------------------------------------------------
(* Theorems *)

\* Every reachable state of MAIN and of the process table satisfies IInv.
THEOREM InductiveInvariant == Spec => []IInv
<1>. QED
  BY InitIInv, NextIInv, PTL DEF Spec

\* The variables keep their types, whatever the kernel does to the pids.
THEOREM TypeCorrect == Spec => []TypeOK
<1>1. IInv => TypeOK
  BY DEF IInv
<1>. QED
  BY <1>1, InductiveInvariant, PTL

\* MAIN never has two processes of one daemon, unless the report of one was lost
\* (BaseDaemon.cpp:47 and ProcessMonitor.cpp:24).
THEOREM OneProcessCorrect == Spec => []OneProcess
<1>1. IInv => OneProcess
  BY DEF IInv, TypeOK, KnowsDaemons, OneProcess
<1>. QED
  BY <1>1, InductiveInvariant, PTL

\* A signal in the loop, outside Run, leaves none of the daemons MAIN knows of
\* (CleanChildren, main.cpp:8).
THEOREM StopCorrect == Spec => StopLeavesNone
<1>1. ASSUME IInv, phase = "Loop", stage \notin {"Forked", "Read"}, main = "Running",
             main' = "Stopped", [Next]_vars, NEW p \in Pid
      PROVE  proc'[p] \notin Daemon \ lost
  <2>1. CleanChildren
    BY <1>1 DEF Next, vars, RunStep, MainStep, ForkFails, Fork, SecondFork, WriteFails,
        SecondForkFails, Read, ReadFails, StartDaemon, AllStarted, AddWatch, AllWatched,
        CheckAlive, CheckDead, Sleep, Killed, Ends, OtherStarts, Continues
  <2>2. Watched = Daemon
    BY <1>1 DEF Watched
  <2>3. ASSUME proc'[p] \in Daemon \ lost PROVE FALSE
    <3>1. proc[p] \in Daemon \ lost /\ p \notin Signalled
      BY <2>1, <2>3, <1>1, Constants DEF CleanChildren
    <3>2. pid[proc[p]] = p
      BY <3>1, <1>1 DEF IInv, KnowsDaemons, KnownPid
    <3>3. p \in {pid[d] : d \in Watched}
      BY <2>2, <3>1, <3>2
    <3>. QED
      BY <3>1, <3>3 DEF Signalled
  <2>. QED
    BY <2>3
<1>2. IInv /\ [Next]_vars =>
        [phase = "Loop" /\ stage \notin {"Forked", "Read"} /\ main' = "Stopped" /\ main = "Running"
           => \A p \in Pid : proc'[p] \notin Daemon \ lost]_vars
  BY <1>1
<1>. QED
  BY <1>2, InductiveInvariant, PTL DEF Spec, StopLeavesNone
=============================================================================
