--------------------------- MODULE ProcessMonitor ---------------------------
(***************************************************************************)
(* The MAIN process: it starts the daemons one after the other with a      *)
(* double fork that reports the pid through a pipe, watches /proc/<pid> of *)
(* each and starts it again when the entry is gone, and on a signal        *)
(* forwards it to the daemons and exits.                                   *)
(*                                                                         *)
(* A step lies between two calls of the kernel.  Beside them processes     *)
(* end (a daemon that cannot be exec'ed ends too), pids are given to other *)
(* processes, and MAIN is killed or told to stop.                          *)
(***************************************************************************)
EXTENDS Integers, FiniteSets

CONSTANTS
  N,          \* the number of daemons, in the order of StartDaemons and AddWatch
  Pid,        \* the numbers the kernel gives to processes
  Free,       \* a pid without a process
  Other,      \* a process that is none of the daemons
  MaxOthers,  \* bound: other processes at the same time
  MaxLost     \* bound: daemons whose report is lost

Daemon == 1 .. N

ASSUME PidAssumption == /\ N \in Nat \ {0}
                        /\ Pid \subseteq Nat \ {0}
                        /\ Free \notin Daemon /\ Other \notin Daemon /\ Free # Other

NoPid == -1                  \* what Run returns when it fails
AnyPid == Pid \cup {NoPid}   \* what a variable that was never written may hold

VARIABLES
  proc,   \* the process table: the daemon (or Other) that runs under each pid
  main,   \* MAIN: "Running", "Stopped" by a signal it handles, or "Dead"
  phase,  \* where MAIN is: "Start", "Watch" (both StartDaemons) or "Loop"
  cur,    \* the daemon MAIN is at; N + 1 at the end of a round
  stage,  \* where BaseDaemon::Run is, for the daemon cur
  pid,    \* m_pid of each daemon until it is watched, then WatchItem::pid
  pid2,   \* pid2 of Run as the read leaves it
  lost    \* history: the daemons that run although their pid was not written

vars == <<proc, main, phase, cur, stage, pid, pid2, lost>>

-----------------------------------------------------------------------------
Init == /\ proc \in [Pid -> {Free, Other}]
        /\ Cardinality({p \in Pid : proc[p] = Other}) =< MaxOthers
        /\ main = "Running"
        /\ phase = "Start" /\ cur = 1 /\ stage = "Idle"
        /\ pid = [d \in Daemon |-> NoPid]
        /\ pid2 = NoPid
        /\ lost = {}

Continues == main = "Running" /\ UNCHANGED main

(* BaseDaemon::Run *)

\* Mutant: the loop does not keep what the callback returns.
ReturnForgets(v) == /\ pid' = IF phase = "Loop" THEN pid ELSE [pid EXCEPT ![cur] = v]
                    /\ cur' = cur + 1
                    /\ stage' = "Idle"

\* Run returns v: to StartDaemons, which reads m_pid later, or to Loop as item.pid.
Return(v) == /\ pid' = [pid EXCEPT ![cur] = v]
             /\ cur' = cur + 1
             /\ stage' = "Idle"

\* pipe or the first fork fails.  StartDaemons does not look at the result, and
\* then m_pid was never written.
ForkFails == /\ Continues /\ stage = "Run"
             /\ \E v \in IF phase = "Start" THEN AnyPid ELSE {NoPid} : Return(v)
             /\ UNCHANGED <<proc, phase, pid2, lost>>

Fork == /\ Continues /\ stage = "Run"
        /\ stage' = "Forked"
        /\ UNCHANGED <<proc, phase, cur, pid, pid2, lost>>

\* The child forks again and writes the pid of the daemon, MAIN being there or not.
SecondFork(p) == /\ stage = "Forked" /\ proc[p] = Free
                 /\ proc' = [proc EXCEPT ![p] = cur]
                 /\ pid2' = p
                 /\ stage' = "Read"
                 /\ UNCHANGED <<main, phase, cur, pid, lost>>

\* The write fails: the daemon runs, and the read of MAIN finds the end of the
\* pipe, which it does not tell from a pid.
WriteFails(p) == /\ stage = "Forked" /\ proc[p] = Free
                 /\ cur \notin lost /\ Cardinality(lost) < MaxLost
                 /\ proc' = [proc EXCEPT ![p] = cur]
                 /\ lost' = lost \cup {cur}
                 /\ pid2' \in AnyPid
                 /\ stage' = "Read"
                 /\ UNCHANGED <<main, phase, cur, pid>>

\* The child cannot fork: the end of the pipe again.
SecondForkFails == /\ stage = "Forked"
                   /\ pid2' \in AnyPid
                   /\ stage' = "Read"
                   /\ UNCHANGED <<proc, main, phase, cur, pid, lost>>

Read == /\ Continues /\ stage = "Read"
        /\ Return(pid2)
        /\ UNCHANGED <<proc, phase, pid2, lost>>

\* The read fails and Run ends the process it runs in, which is MAIN.
ReadFails == /\ main = "Running" /\ stage = "Read"
             /\ main' = "Dead"
             /\ UNCHANGED <<proc, phase, cur, stage, pid, pid2, lost>>

-----------------------------------------------------------------------------
(* ProcessManager::StartDaemons *)

StartDaemon == /\ Continues /\ phase = "Start" /\ stage = "Idle" /\ cur \in Daemon
               /\ stage' = "Run"
               /\ UNCHANGED <<proc, phase, cur, pid, pid2, lost>>

AllStarted == /\ Continues /\ phase = "Start" /\ cur = N + 1
              /\ phase' = "Watch" /\ cur' = 1
              /\ UNCHANGED <<proc, stage, pid, pid2, lost>>

AddWatch == /\ Continues /\ phase = "Watch" /\ cur \in Daemon
            /\ cur' = cur + 1
            /\ UNCHANGED <<proc, phase, stage, pid, pid2, lost>>

AllWatched == /\ Continues /\ phase = "Watch" /\ cur = N + 1
              /\ phase' = "Loop" /\ cur' = 1
              /\ UNCHANGED <<proc, stage, pid, pid2, lost>>

\* The entries of m_items.
Watched == CASE phase = "Start" -> {}
             [] phase = "Watch" -> 1 .. cur - 1
             [] phase = "Loop"  -> Daemon

-----------------------------------------------------------------------------
(* ProcessMonitor::Loop *)

\* Mutant: a start that failed counts as a daemon.
ExistsOrFailed(p) == p # NoPid => proc[p] # Free

\* stat of /proc/<p>.
Exists(p) == p # NoPid /\ proc[p] # Free

CheckAlive == /\ Continues /\ phase = "Loop" /\ stage = "Idle" /\ cur \in Daemon
              /\ Exists(pid[cur])
              /\ cur' = cur + 1
              /\ UNCHANGED <<proc, phase, stage, pid, pid2, lost>>

CheckDead == /\ Continues /\ phase = "Loop" /\ stage = "Idle" /\ cur \in Daemon
             /\ ~Exists(pid[cur])
             /\ stage' = "Run"
             /\ UNCHANGED <<proc, phase, cur, pid, pid2, lost>>

Sleep == /\ Continues /\ phase = "Loop" /\ cur = N + 1
         /\ cur' = 1
         /\ UNCHANGED <<proc, phase, stage, pid, pid2, lost>>

-----------------------------------------------------------------------------
(* Signals *)

\* Mutant: the last entry is left out.
SignalledButLast == LET given == {pid[d] : d \in Watched \ {N}}
                    IN  IF NoPid \in given THEN Pid ELSE given

\* The pids the handler signals, -1 being every process there is.
Signalled == LET given == {pid[d] : d \in Watched}
             IN  IF NoPid \in given THEN Pid ELSE given

\* CleanChildren: no daemon has a handler, so a signal ends it.  Another process
\* that has its pid by now gets the signal too, and may or may not end (Ends).
CleanChildren ==
  /\ main = "Running"
  /\ main' = "Stopped"
  /\ proc' = [p \in Pid |-> IF p \in Signalled /\ proc[p] \in Daemon THEN Free ELSE proc[p]]
  /\ stage' = IF stage = "Forked" /\ \E d \in Watched : pid[d] = NoPid THEN "Idle" ELSE stage
  /\ UNCHANGED <<phase, cur, pid, pid2, lost>>

\* SIGKILL has no handler, although main asks for one.
Killed == /\ main = "Running"
          /\ main' = "Dead"
          /\ UNCHANGED <<proc, phase, cur, stage, pid, pid2, lost>>

-----------------------------------------------------------------------------
(* The other processes of the machine *)

\* A process ends: a daemon that crashes or whose exec fails, or another one.
Ends(p) == /\ proc[p] # Free
           /\ proc' = [proc EXCEPT ![p] = Free]
           /\ UNCHANGED <<main, phase, cur, stage, pid, pid2, lost>>

\* A pid that is free is given to some other process.
OtherStarts(p) == /\ proc[p] = Free
                  /\ Cardinality({q \in Pid : proc[q] = Other}) < MaxOthers
                  /\ proc' = [proc EXCEPT ![p] = Other]
                  /\ UNCHANGED <<main, phase, cur, stage, pid, pid2, lost>>

-----------------------------------------------------------------------------
RunStep == ForkFails \/ Fork \/ SecondForkFails \/ Read \/ \E p \in Pid : SecondFork(p) \/ WriteFails(p)
MainStep == StartDaemon \/ AllStarted \/ AddWatch \/ AllWatched \/ CheckAlive \/ CheckDead \/ Sleep

Next == \/ RunStep \/ ReadFails \/ MainStep
        \/ CleanChildren \/ Killed
        \/ \E p \in Pid : Ends(p) \/ OtherStarts(p)

Spec == Init /\ [][Next]_vars

\* MAIN and the child of Run go on, and a lack of processes passes: for no daemon
\* do the forks fail for ever.
Fairness == /\ WF_vars(RunStep) /\ WF_vars(MainStep)
            /\ \A d \in Daemon : /\ SF_vars(cur = d /\ Fork)
                                 /\ SF_vars(cur = d /\ \E p \in Pid : SecondFork(p))

FairSpec == Spec /\ Fairness

-----------------------------------------------------------------------------
(* Properties *)

TypeOK == /\ proc \in [Pid -> Daemon \cup {Free, Other}]
          /\ main \in {"Running", "Stopped", "Dead"}
          /\ phase \in {"Start", "Watch", "Loop"}
          /\ cur \in 1 .. N + 1
          /\ stage \in {"Idle", "Run", "Forked", "Read"}
          /\ stage # "Idle" => cur \in Daemon /\ phase # "Watch"
          /\ pid \in [Daemon -> AnyPid]
          /\ pid2 \in AnyPid
          /\ lost \subseteq Daemon

\* Restarts, failed forks, pids that come back and signals at any moment never
\* make two processes of one daemon, except where the report of one was lost.
OneProcess == \A p, q \in Pid :
                proc[p] = proc[q] /\ proc[p] \in Daemon \ lost => p = q

\* A signal that reaches MAIN in its loop, and not while it starts a daemon again,
\* leaves none of the daemons whose pid was reported, whatever restarts came before.
StopLeavesNone ==
  [][phase = "Loop" /\ stage \notin {"Forked", "Read"} /\ main' = "Stopped" /\ main = "Running"
       => \A p \in Pid : proc'[p] \notin Daemon \ lost]_vars

Runs(d) == \E p \in Pid : proc[p] = d

\* The pid that is watched for d belongs to something else.
Hidden(d) == pid[d] # NoPid /\ proc[pid[d]] \notin {Free, d}

\* A daemon that is gone runs again while MAIN does, whatever failed before,
\* unless its pid was given away before the loop looked.
ComesBack == \A d \in Daemon :
               phase = "Loop" /\ ~Runs(d) ~> Runs(d) \/ Hidden(d) \/ main # "Running"

-----------------------------------------------------------------------------
(* The inductive invariant *)

\* Run is about to start the daemon d, which does not run.
Starting(d) == cur = d /\ stage \in {"Run", "Forked"}

\* StartDaemons has come past d.
Started(d) == phase = "Start" => d < cur \/ (stage # "Idle" /\ d = cur)

\* Where the pid of the process of d is known to MAIN.
KnownPid(d) == IF stage = "Read" /\ cur = d THEN pid2 ELSE pid[d]

\* A process of a daemon has been started, its daemon is not being started, and
\* MAIN has its pid.
KnowsDaemons == \A p \in Pid, d \in Daemon \ lost :
                  proc[p] = d => Started(d) /\ ~Starting(d) /\ KnownPid(d) = p

IInv == TypeOK /\ KnowsDaemons
=============================================================================
