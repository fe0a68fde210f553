---------------------------- MODULE ChannelState ----------------------------
(***************************************************************************)
(* What a channel server tells Redis about itself, and what the world      *)
(* server reads there when a client chooses a channel.                     *)
(*                                                                         *)
(* A detached thread submits an update to the pool every Interval; a       *)
(* worker reads the user count, writes the state with HSET and gives the   *)
(* key its time to live with EXPIRE, which are two commands.  The key goes *)
(* when its time has run out: that is how a channel that died is noticed.  *)
(* Time is counted in ticks.  A tick waits for the thread but for no       *)
(* worker: an update may be late by any number of ticks.                   *)
(***************************************************************************)
EXTENDS Naturals, Sequences

CONSTANTS
  Workers,      \* the threads of the pool
  Interval,     \* the ticks between two updates
  TTL,          \* the time to live an update gives to the key
  MaxUsers,     \* m_max_user_count
  MaxWaiting,   \* bound: updates in the queue of a worker
  NoKey, NoTask

VARIABLES
  up,        \* the channel server runs
  link,      \* m_ctx of its RedisClient works; hiredis never mends a broken one
  users,     \* m_current_user_count
  sleep,     \* ticks until UpdateChannelState wakes up
  waiting,   \* the updates in the queue of each worker, as the ticks since their submission
  work,      \* the update of each worker
  key,       \* "channel:<id>:status"
  served,    \* history: an update has been completed since the start
  halfDone   \* history: the server stopped, or lost Redis, between HSET and EXPIRE of a new key

svars == <<up, link, users, sleep, waiting, work, key, served, halfDone>>

-----------------------------------------------------------------------------
Forever == 0     \* the time of a key that was never given one
States == {"Normal", "Busy", "Full"}

\* The thresholds of UpdateChannelStateToRedis; without a limit a channel is never full.
StateOf(n) == IF MaxUsers = 0 \/ n * 100 < 70 * MaxUsers THEN "Normal"
              ELSE IF n * 100 < 90 * MaxUsers THEN "Busy" ELSE "Full"

\* CanEnterChannel: what the world server tells a client, who decides.
CanEnterChannel == IF key = NoKey THEN "Die" ELSE key.state

\* An update older than this may have cost the key its time.
Late == TTL - Interval

Older(age) == IF age < Late THEN age + 1 ELSE age

Init == /\ up = TRUE /\ link = TRUE
        /\ users = 0
        /\ sleep = 0
        /\ waiting = [w \in Workers |-> <<>>]
        /\ work = [w \in Workers |-> NoTask]
        /\ key = NoKey
        /\ served = FALSE /\ halfDone = FALSE

-----------------------------------------------------------------------------
(* Time                                                                    *)

Tick == /\ up => sleep > 0
        /\ sleep' = IF up THEN sleep - 1 ELSE sleep
        /\ waiting' = [w \in Workers |-> [i \in DOMAIN waiting[w] |-> Older(waiting[w][i])]]
        /\ work' = [w \in Workers |-> IF work[w] = NoTask THEN NoTask
                                      ELSE [work[w] EXCEPT !.age = Older(@)]]
        /\ key' = IF key = NoKey \/ key.left = Forever THEN key
                  ELSE IF key.left = 1 THEN NoKey ELSE [key EXCEPT !.left = @ - 1]
        /\ UNCHANGED <<up, link, users, served, halfDone>>

-----------------------------------------------------------------------------
(* The channel server                                                      *)

\* Mutant: the thread submits a single update.
SubmitOnce == /\ up /\ sleep = 0
              /\ \E w \in Workers :
                   /\ Len(waiting[w]) < MaxWaiting
                   /\ waiting' = IF served THEN waiting
                                 ELSE [waiting EXCEPT ![w] = Append(@, 0)]
              /\ sleep' = Interval
              /\ UNCHANGED <<up, link, users, work, key, served, halfDone>>

\* UpdateChannelState: Submit and sleep.  The pool deals its tasks out in turn, with those
\* of the maps in between: this one may be any worker's.
SubmitUpdate == /\ up /\ sleep = 0
                /\ \E w \in Workers :
                     /\ Len(waiting[w]) < MaxWaiting
                     /\ waiting' = [waiting EXCEPT ![w] = Append(@, 0)]
                /\ sleep' = Interval
                /\ UNCHANGED <<up, link, users, work, key, served, halfDone>>

\* UpdateChannelStateToRedis reads the count and makes the state of it.
ReadCount(w) == /\ up /\ work[w] = NoTask
                /\ waiting[w] # <<>>
                /\ work' = [work EXCEPT ![w] = [pc |-> "HSet", age |-> Head(waiting[w]),
                                                state |-> StateOf(users)]]
                /\ waiting' = [waiting EXCEPT ![w] = Tail(@)]
                /\ UNCHANGED <<up, link, users, sleep, key, served, halfDone>>

\* Mutant: a field that is there is not written again.
HSetNew(w) == /\ up /\ work[w] # NoTask /\ work[w].pc = "HSet"
              /\ link
              /\ key' = IF key = NoKey THEN [state |-> work[w].state, left |-> Forever] ELSE key
              /\ work' = [work EXCEPT ![w].pc = "Expire"]
              /\ UNCHANGED <<up, link, users, sleep, waiting, served, halfDone>>

\* HSET: the time of a key that is there stays as it is.
HSet(w) == /\ up /\ work[w] # NoTask /\ work[w].pc = "HSet"
           /\ link
           /\ key' = [state |-> work[w].state, left |-> IF key = NoKey THEN Forever ELSE key.left]
           /\ work' = [work EXCEPT ![w].pc = "Expire"]
           /\ UNCHANGED <<up, link, users, sleep, waiting, served, halfDone>>

\* Mutant: HSetAll does not give the key a time.
ExpireForgotten(w) == /\ up /\ work[w] # NoTask /\ work[w].pc = "Expire"
                      /\ link
                      /\ served' = TRUE
                      /\ work' = [work EXCEPT ![w] = NoTask]
                      /\ UNCHANGED <<up, link, users, sleep, waiting, key, halfDone>>

\* EXPIRE: a key that is there lives for TTL from now on.
Expire(w) == /\ up /\ work[w] # NoTask /\ work[w].pc = "Expire"
             /\ link
             /\ key' = IF key = NoKey THEN NoKey ELSE [key EXCEPT !.left = TTL]
             /\ served' = TRUE /\ halfDone' = FALSE
             /\ work' = [work EXCEPT ![w] = NoTask]
             /\ UNCHANGED <<up, link, users, sleep, waiting>>

\* The command fails: the update is given up.
UpdateFails(w) == /\ up /\ work[w] # NoTask
                  /\ ~link
                  /\ work' = [work EXCEPT ![w] = NoTask]
                  /\ UNCHANGED <<up, link, users, sleep, waiting, key, served, halfDone>>

WorkerStep(w) == ReadCount(w) \/ HSet(w) \/ Expire(w) \/ UpdateFails(w)

UsersChange(n) == up /\ users' = n /\ UNCHANGED <<up, link, sleep, waiting, work, key, served, halfDone>>

-----------------------------------------------------------------------------
(* Failures                                                                *)

\* A worker has written a key that was not there and has not given it its time.
HalfDone == /\ key # NoKey /\ key.left = Forever
            /\ \E w \in Workers : work[w] # NoTask /\ work[w].pc = "Expire"

\* The connection to Redis breaks.
LinkBreaks == /\ up /\ link
              /\ link' = FALSE
              /\ halfDone' = (halfDone \/ HalfDone)
              /\ UNCHANGED <<up, users, sleep, waiting, work, key, served>>

\* The process ends: only what Redis has is left.
Crash == /\ up
         /\ up' = FALSE
         /\ users' = 0 /\ sleep' = 0
         /\ waiting' = [w \in Workers |-> <<>>]
         /\ work' = [w \in Workers |-> NoTask]
         /\ served' = FALSE
         /\ halfDone' = (halfDone \/ HalfDone)
         /\ UNCHANGED <<link, key>>

Start == /\ ~up
         /\ up' = TRUE /\ link' = TRUE
         /\ UNCHANGED <<users, sleep, waiting, work, key, served, halfDone>>

-----------------------------------------------------------------------------
Next == \/ Tick \/ SubmitUpdate
        \/ \E w \in Workers : WorkerStep(w)
        \/ UsersChange(users + 1)
        \/ users > 0 /\ UsersChange(users - 1)
        \/ LinkBreaks \/ Crash \/ Start

Spec == Init /\ [][Next]_svars

\* Time passes, the thread wakes up and the workers work.  Nobody has to come, go, or
\* start the server again.
Fairness == /\ WF_svars(Tick) /\ WF_svars(SubmitUpdate)
            /\ \A w \in Workers : WF_svars(WorkerStep(w))

FairSpec == Spec /\ Fairness

-----------------------------------------------------------------------------
(* Properties                                                              *)

Task == [pc : {"HSet", "Expire"}, age : Nat, state : States]
Key == [state : States, left : 1 .. TTL \cup {Forever}]

\* The types of the variables.
TypeOK == /\ up \in BOOLEAN /\ link \in BOOLEAN
          /\ users \in Nat
          /\ sleep \in 0 .. Interval
          /\ waiting \in [Workers -> Seq(Nat)]
          /\ work \in [Workers -> Task \cup {NoTask}]
          /\ key \in Key \cup {NoKey}
          /\ served \in BOOLEAN /\ halfDone \in BOOLEAN

HasLateUpdate ==
  \E w \in Workers :
     \/ \E i \in DOMAIN waiting[w] : waiting[w][i] >= Late
     \/ work[w] # NoTask /\ work[w].age >= Late

\* The key of a channel server that runs and has its connection runs out only while an
\* update is late by what the time to live leaves over the interval: the updates that are
\* on time keep the channel seen, in whatever order the workers carry them out.
SeenWhileAlive ==
  [][key # NoKey /\ key' = NoKey /\ up /\ link /\ served => HasLateUpdate']_svars

\* The time to live makes a channel that is dead, or that has lost Redis and can log
\* nobody in, disappear, unless that happened between HSET and EXPIRE of a key that was
\* not there: then the key is there for good.
DeadDisappears == ~(up /\ link) ~> ((up /\ link) \/ CanEnterChannel = "Die" \/ halfDone)

\* When the server keeps running and its users stay, Redis in the end says of them what
\* is true, whatever older updates were under way.
StateCatchesUp == (<>[](up /\ link) /\ <>[][FALSE]_users)
                     => <>[](CanEnterChannel \in {"Die", StateOf(users)})
=============================================================================
