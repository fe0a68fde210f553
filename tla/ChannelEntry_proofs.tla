------------------------- MODULE ChannelEntry_proofs -------------------------
(***************************************************************************)
(* Proofs about ChannelEntry, for any sessions, characters, workers, users *)
(* and times: what a log-in, a log-out and a raise keep in step, and that  *)
(* the updates that are on time keep the channel seen.                     *)
(***************************************************************************)
EXTENDS ChannelEntry, FiniteSetTheorems, TLAPS

-----------------------------------------------------------------------------
(* The state in Redis                                                      *)

USE DEF S!Forever, P!IsOpen

\* An update that will be late, or be done, before the key has run out.
InTime(age, left) == age + left >= S!Late

\* An update of a queue that will be.
Queued(left) == \E w \in Workers : \E i \in DOMAIN waiting[w] : InTime(waiting[w][i], left)

\* The key of a channel that works either has the time to the next update and what the
\* time to live leaves over the interval, or an update is under way that was submitted
\* early enough.
Renewal == up /\ link /\ served /\ key # NoKey /\ key.left # S!Forever
             => \/ sleep + S!Late <= key.left
                \/ Queued(key.left)
                \/ \E w \in Workers : work[w] # NoTask /\ InTime(work[w].age, key.left)

\* What is not running has completed nothing since its start.
StoppedServesNothing == served => up

\* Every step, as ChannelState sees it.
StateKinds == \/ S!Tick \/ S!SubmitUpdate
              \/ \E w \in Workers : S!WorkerStep(w)
              \/ \E n \in Nat : S!UsersChange(n)
              \/ S!LinkBreaks \/ S!Crash \/ S!Start
              \/ UNCHANGED state

LEMMA LateType == S!Late \in Nat \ {0}
BY EntryAssumption DEF S!Late

\* Time makes an update older, until it is late.
LEMMA OlderType ==
  ASSUME NEW age \in Nat
  PROVE  S!Older(age) \in Nat /\ (S!Older(age) = age + 1 \/ (age >= S!Late /\ S!Older(age) = age))
BY LateType DEF S!Older

LEMMA TimePasses ==
  ASSUME NEW age \in Nat, NEW left \in Nat \ {0}, InTime(age, left)
  PROVE  InTime(S!Older(age), left - 1)
BY LateType, OlderType DEF InTime

LEMMA StateOfType == ASSUME NEW n \in Nat PROVE S!StateOf(n) \in S!States
BY DEF S!StateOf, S!States

LEMMA AgedType ==
  ASSUME NEW q \in Seq(Nat), NEW aged, aged = [i \in DOMAIN q |-> S!Older(q[i])]
  PROVE  /\ aged \in Seq(Nat) /\ DOMAIN aged = DOMAIN q
         /\ \A i \in DOMAIN q : q[i] \in Nat /\ aged[i] = S!Older(q[i])
<1>1. DOMAIN q = 1 .. Len(q) /\ \A i \in DOMAIN q : q[i] \in Nat
  OBVIOUS
<1>2. \A i \in DOMAIN q : S!Older(q[i]) \in Nat
  BY <1>1, OlderType
<1>. QED
  BY <1>1, <1>2

\* Everything a step of ChannelState leaves has its type.
LEMMA StateTypes ==
  ASSUME S!TypeOK, StateKinds
  PROVE  S!TypeOK'
<1> USE EntryAssumption, NothingAssumption DEF S!TypeOK
<1>1. CASE S!Tick
  <2>1. waiting' \in [Workers -> Seq(Nat)]
    <3>1. SUFFICES ASSUME NEW w \in Workers
                   PROVE  [i \in DOMAIN waiting[w] |-> S!Older(waiting[w][i])] \in Seq(Nat)
      BY <1>1 DEF S!Tick
    <3>. QED
      BY AgedType
  <2>2. work' \in [Workers -> S!Task \cup {NoTask}]
    <3>1. SUFFICES ASSUME NEW w \in Workers, work[w] # NoTask
                   PROVE  [work[w] EXCEPT !.age = S!Older(@)] \in S!Task
      BY <1>1 DEF S!Tick
    <3>2. work[w] \in S!Task /\ work[w].age \in Nat
      BY <3>1 DEF S!Task
    <3>. QED
      BY <3>2, OlderType DEF S!Task
  <2>3. key' \in S!Key \cup {NoKey}
    BY <1>1 DEF S!Tick, S!Key
  <2> QED BY <1>1, <2>1, <2>2, <2>3 DEF S!Tick
<1>2. CASE S!SubmitUpdate
  <2>1. PICK w \in Workers : waiting' = [waiting EXCEPT ![w] = Append(@, 0)]
    BY <1>2 DEF S!SubmitUpdate
  <2>2. Append(waiting[w], 0) \in Seq(Nat)
    OBVIOUS
  <2>. QED
    BY <1>2, <2>1, <2>2 DEF S!SubmitUpdate
<1>3. ASSUME NEW w \in Workers, S!WorkerStep(w)
      PROVE  S!TypeOK'
  <2>1. CASE S!ReadCount(w)
    <3>1. waiting[w] \in Seq(Nat) /\ waiting[w] # <<>>
      BY <2>1 DEF S!ReadCount
    <3>2. Head(waiting[w]) \in Nat /\ Tail(waiting[w]) \in Seq(Nat)
      BY <3>1
    <3>3. waiting' \in [Workers -> Seq(Nat)]
      BY <2>1, <3>2 DEF S!ReadCount
    <3>4. work' \in [Workers -> S!Task \cup {NoTask}]
      BY <2>1, <3>2, StateOfType DEF S!ReadCount, S!Task
    <3>. QED
      BY <2>1, <3>3, <3>4 DEF S!ReadCount
  <2>2. CASE S!HSet(w)
    BY <2>2 DEF S!HSet, S!Task, S!Key
  <2>3. CASE S!Expire(w)
    <3>1. key' \in S!Key \cup {NoKey}
      BY <2>3 DEF S!Expire, S!Key
    <3>2. work' \in [Workers -> S!Task \cup {NoTask}]
      BY <2>3 DEF S!Expire
    <3>. QED
      BY <2>3, <3>1, <3>2 DEF S!Expire
  <2>4. CASE S!UpdateFails(w)
    BY <2>4 DEF S!UpdateFails
  <2> QED BY <1>3, <2>1, <2>2, <2>3, <2>4 DEF S!WorkerStep
<1>4. ASSUME NEW n \in Nat, S!UsersChange(n)
      PROVE  S!TypeOK'
  BY <1>4 DEF S!UsersChange
<1>5. CASE S!LinkBreaks
  <2>1. halfDone' \in BOOLEAN
    BY <1>5 DEF S!LinkBreaks, S!HalfDone
  <2>. QED
    BY <1>5, <2>1 DEF S!LinkBreaks
<1>6. CASE S!Crash
  <2>1. halfDone' \in BOOLEAN
    BY <1>6 DEF S!Crash, S!HalfDone
  <2>2. waiting' \in [Workers -> Seq(Nat)]
    BY <1>6 DEF S!Crash
  <2>3. work' \in [Workers -> S!Task \cup {NoTask}]
    BY <1>6 DEF S!Crash
  <2>. QED
    <3>1. up' \in BOOLEAN /\ link' \in BOOLEAN /\ served' \in BOOLEAN
      BY <1>6 DEF S!Crash
    <3>2. users' \in Nat /\ sleep' \in 0 .. Interval /\ key' \in S!Key \cup {NoKey}
      BY <1>6 DEF S!Crash
    <3>. QED
      BY <2>1, <2>2, <2>3, <3>1, <3>2
<1>7. CASE S!Start
  BY <1>7 DEF S!Start
<1>8. CASE UNCHANGED state
  BY <1>8 DEF state
<1> QED BY <1>1, <1>2, <1>3, <1>4, <1>5, <1>6, <1>7, <1>8 DEF StateKinds

\* The updates that are on time: however many workers there are, the key of a channel that
\* works has its time from the last one, or the next one comes before that is over.
LEMMA RenewalNext ==
  ASSUME S!TypeOK, StoppedServesNothing, Renewal, StateKinds
  PROVE  Renewal'
<1>. SUFFICES ASSUME up', link', served', key' # NoKey, key'.left # S!Forever
             PROVE  \/ sleep' + S!Late <= key'.left
                    \/ Queued(key.left)'
                    \/ \E w \in Workers : work'[w] # NoTask /\ InTime(work'[w].age, key'.left)
  BY DEF Renewal
<1>. USE EntryAssumption, LateType DEF S!TypeOK
<1>t. /\ \A w \in Workers : \A i \in DOMAIN waiting[w] : waiting[w][i] \in Nat
      /\ \A w \in Workers : work[w] # NoTask => work[w] \in S!Task /\ work[w].age \in Nat
      /\ key # NoKey => key \in S!Key /\ key.left \in Nat
  BY DEF S!Task, S!Key
<1>1. CASE S!Tick
  <2>1. /\ up /\ link /\ served /\ sleep > 0 /\ sleep' = sleep - 1
        /\ key # NoKey /\ key.left \in Nat \ {0} /\ key'.left = key.left - 1
    BY <1>1, <1>t DEF S!Tick, S!Key
  <2>2. CASE sleep + S!Late <= key.left
    BY <2>1, <2>2, <1>t
  <2>3. ASSUME NEW w \in Workers, NEW i \in DOMAIN waiting[w], InTime(waiting[w][i], key.left)
        PROVE  Queued(key.left)'
    <3>1. waiting'[w] = [j \in DOMAIN waiting[w] |-> S!Older(waiting[w][j])]
      BY <1>1 DEF S!Tick
    <3>2. i \in DOMAIN waiting'[w] /\ waiting'[w][i] = S!Older(waiting[w][i])
      BY <3>1, AgedType
    <3>3. InTime(waiting'[w][i], key'.left)
      BY <2>1, <2>3, <3>2, <1>t, TimePasses
    <3>. QED
      BY <3>2, <3>3 DEF Queued
  <2>4. ASSUME NEW w \in Workers, work[w] # NoTask, InTime(work[w].age, key.left)
        PROVE  work'[w] # NoTask /\ InTime(work'[w].age, key'.left)
    <3>1. work'[w] = [work[w] EXCEPT !.age = S!Older(@)]
      BY <1>1, <2>4 DEF S!Tick
    <3>2. S!Older(work[w].age) \in Nat
      BY <2>4, <1>t, OlderType
    <3>3. work'[w] \in S!Task /\ work'[w].age = S!Older(work[w].age)
      BY <2>4, <3>1, <3>2, <1>t DEF S!Task
    <3>. QED
      BY <2>1, <2>4, <3>3, <1>t, TimePasses, NothingAssumption
  <2>. QED
    BY <2>1, <2>2, <2>3, <2>4 DEF Renewal, Queued
<1>2. CASE S!SubmitUpdate
  <2>0. PICK v \in Workers : waiting' = [waiting EXCEPT ![v] = Append(waiting[v], 0)]
    BY <1>2 DEF S!SubmitUpdate
  <2>1. /\ Len(waiting[v]) + 1 \in DOMAIN waiting'[v]
        /\ waiting'[v][Len(waiting[v]) + 1] = 0
        /\ \A w \in Workers : \A i \in DOMAIN waiting[w] :
              i \in DOMAIN waiting'[w] /\ waiting'[w][i] = waiting[w][i]
    BY <2>0
  <2>2. UNCHANGED <<up, link, served, key, work>> /\ sleep = 0
    BY <1>2 DEF S!SubmitUpdate
  <2>3. CASE sleep + S!Late <= key.left
    <3>1. InTime(waiting'[v][Len(waiting[v]) + 1], key'.left)
      BY <2>1, <2>2, <2>3, <1>t DEF InTime
    <3>. QED
      BY <2>1, <3>1 DEF Queued
  <2>4. CASE ~(sleep + S!Late <= key.left)
    <3>1. Queued(key.left) => Queued(key.left)'
      BY <2>1, <2>2 DEF Queued, InTime
    <3>. QED
      BY <2>2, <2>4, <3>1 DEF Renewal, InTime
  <2>. QED
    BY <2>3, <2>4
<1>3. ASSUME NEW v \in Workers, S!ReadCount(v)
      PROVE  \/ sleep' + S!Late <= key'.left
             \/ Queued(key.left)'
             \/ \E w \in Workers : work'[w] # NoTask /\ InTime(work'[w].age, key'.left)
  <2>1. /\ UNCHANGED <<up, link, served, key, sleep>> /\ work[v] = NoTask
        /\ work'[v].age = waiting[v][1] /\ work'[v] # NoTask
        /\ \A w \in Workers \ {v} : work'[w] = work[w]
    <3>0. waiting[v] \in Seq(Nat) /\ waiting[v] # <<>>
      BY <1>3 DEF S!ReadCount
    <3>1. work'[v] = [pc |-> "HSet", age |-> waiting[v][1], state |-> S!StateOf(users)]
      BY <1>3 DEF S!ReadCount
    <3>2. work'[v] \in S!Task
      BY <3>0, <3>1, StateOfType DEF S!Task
    <3>. QED
      BY <1>3, <3>1, <3>2, NothingAssumption DEF S!ReadCount
  <2>2. \A i \in DOMAIN waiting[v] :
          i = 1 \/ (i - 1 \in DOMAIN waiting'[v] /\ waiting'[v][i - 1] = waiting[v][i])
    BY <1>3 DEF S!ReadCount
  <2>3. ASSUME NEW w \in Workers, NEW i \in DOMAIN waiting[w], InTime(waiting[w][i], key.left)
        PROVE  \/ Queued(key.left)'
               \/ \E u \in Workers : work'[u] # NoTask /\ InTime(work'[u].age, key'.left)
    <3>1. CASE w # v
      <4>1. waiting'[w] = waiting[w]
        BY <1>3, <3>1 DEF S!ReadCount
      <4>. QED
        BY <2>1, <2>3, <4>1 DEF Queued, InTime
    <3>2. CASE w = v /\ i = 1
      BY <2>1, <2>3, <3>2 DEF InTime
    <3>3. CASE w = v /\ i # 1
      BY <2>1, <2>2, <2>3, <3>3 DEF Queued, InTime
    <3>. QED
      BY <3>1, <3>2, <3>3
  <2>4. ASSUME NEW w \in Workers, work[w] # NoTask, InTime(work[w].age, key.left)
        PROVE  work'[w] # NoTask /\ InTime(work'[w].age, key'.left)
    BY <2>1, <2>4 DEF InTime
  <2>. QED
    BY <2>1, <2>3, <2>4 DEF Renewal, Queued
<1>4. ASSUME NEW v \in Workers, S!HSet(v)
      PROVE  \/ sleep' + S!Late <= key'.left
             \/ Queued(key.left)'
             \/ \E w \in Workers : work'[w] # NoTask /\ InTime(work'[w].age, key'.left)
  <2>1. UNCHANGED <<up, link, served, sleep, waiting>> /\ key # NoKey /\ key'.left = key.left
    BY <1>4 DEF S!HSet
  <2>2. ASSUME NEW w \in Workers, work[w] # NoTask
        PROVE  work'[w] # NoTask /\ work'[w].age = work[w].age
    <3>1. work'[w] \in S!Task /\ work'[w].age = work[w].age
      BY <1>4, <2>2, <1>t DEF S!HSet, S!Task
    <3>. QED
      BY <3>1, NothingAssumption
  <2>. QED
    BY <2>1, <2>2 DEF Renewal, Queued, InTime
<1>5. ASSUME NEW v \in Workers, S!Expire(v)
      PROVE  sleep' + S!Late <= key'.left
  <2>1. key'.left = TTL /\ sleep' = sleep
    BY <1>5, <1>t DEF S!Expire, S!Key
  <2>. QED
    BY <2>1 DEF S!Late
<1>6. ASSUME NEW v \in Workers, S!UpdateFails(v)
      PROVE  FALSE
  BY <1>6 DEF S!UpdateFails
<1>7. ASSUME NEW n \in Nat, S!UsersChange(n)
      PROVE  UNCHANGED <<up, link, served, sleep, waiting, work, key>>
  BY <1>7 DEF S!UsersChange
<1>8. CASE S!LinkBreaks \/ S!Crash
  BY <1>8 DEF S!LinkBreaks, S!Crash
<1>9. CASE S!Start
  BY <1>9 DEF S!Start, StoppedServesNothing
<1>10. CASE UNCHANGED <<up, link, served, sleep, waiting, work, key>>
  BY <1>10 DEF Renewal, Queued, InTime
<1>. QED
  BY <1>1, <1>2, <1>3, <1>4, <1>5, <1>6, <1>7, <1>8, <1>9, <1>10
  DEF StateKinds, S!WorkerStep, state

LEMMA StoppedNext ==
  ASSUME StoppedServesNothing, StateKinds
  PROVE  StoppedServesNothing'
BY DEF StoppedServesNothing, StateKinds, state, S!Tick, S!SubmitUpdate, S!WorkerStep, S!ReadCount,
       S!HSet, S!Expire, S!UpdateFails, S!UsersChange, S!LinkBreaks, S!Crash, S!Start

-----------------------------------------------------------------------------
(* The user count                                                          *)

LEMMA OpenIsFinite == IsFiniteSet(P!OpenSessions) /\ Cardinality(P!OpenSessions) \in Nat
<1>1. P!OpenSessions \subseteq Sessions
  BY DEF P!OpenSessions
<1>. QED
  BY <1>1, EntryAssumption, FS_Subset, FS_CardinalityType

\* The sessions that are open after a step, and their number.
LEMMA OpenNext ==
  ASSUME P!TypeOK, UsersAreSessions, Next
  PROVE  UsersAreSessions' /\ StateKinds
<1>. USE DEF UsersAreSessions
<1>u. users \in Nat
  BY OpenIsFinite
<1>1. ASSUME NEW s \in Sessions, Accepting(s)
      PROVE  UsersAreSessions' /\ StateKinds
  <2>1. s \notin P!OpenSessions /\ P!OpenSessions' = P!OpenSessions \cup {s}
    BY <1>1, EntryAssumption DEF Accepting, P!OnAccept, P!OpenSessions, P!TypeOK
  <2>2. users' = users + 1 /\ StateKinds
    BY <1>1, <1>u DEF Accepting, S!UsersChange, StateKinds
  <2>. QED
    BY <2>1, <2>2, OpenIsFinite, FS_AddElement
<1>2. ASSUME NEW s \in Sessions, Leaving(s)
      PROVE  UsersAreSessions' /\ StateKinds
  <2>1. s \in P!OpenSessions /\ P!OpenSessions' = P!OpenSessions \ {s}
    BY <1>2 DEF Leaving, P!OnDisconnect, P!OpenSessions, P!TypeOK
  <2>2. Cardinality(P!OpenSessions') = users - 1
    BY <2>1, OpenIsFinite, FS_RemoveElement
  <2>3. IsFiniteSet(P!OpenSessions')
    BY <2>1, OpenIsFinite, FS_Subset
  <2>4. users - 1 \in Nat
    BY <2>2, <2>3, FS_CardinalityType
  <2>5. users' = users - 1 /\ S!UsersChange(users - 1)
    BY <1>2 DEF Leaving, S!UsersChange
  <2>. QED
    BY <2>2, <2>4, <2>5 DEF StateKinds
<1>3. ASSUME NEW s \in Sessions, Handling(s)
      PROVE  UsersAreSessions' /\ StateKinds
  <2>1. P!OpenSessions' = P!OpenSessions
    BY <1>3, EntryAssumption
    DEF Handling, P!ChannelAuth, P!AlreadyThere, P!UpStat, P!OpenSessions, P!TypeOK
  <2>. QED
    BY <1>3, <2>1 DEF Handling, state, StateKinds
<1>4. CASE Forgetting
  BY <1>4 DEF Forgetting, P!Forget, P!OpenSessions, state, StateKinds
<1>5. CASE Telling
  BY <1>5 DEF Telling, clients, P!OpenSessions, S!Tick, S!SubmitUpdate, StateKinds
<1>6. ASSUME NEW w \in Workers, WorkerStep(w)
      PROVE  UsersAreSessions' /\ StateKinds
  BY <1>6 DEF WorkerStep, clients, P!OpenSessions, S!WorkerStep, S!ReadCount, S!HSet, S!Expire,
              S!UpdateFails, StateKinds
<1>7. CASE LinkBreaks \/ Start
  BY <1>7 DEF LinkBreaks, Start, clients, P!OpenSessions, S!LinkBreaks, S!Start, StateKinds
<1>8. CASE Crash
  <2>1. P!OpenSessions' = {} /\ users' = 0
    BY <1>8 DEF Crash, P!Dies, P!OpenSessions, S!Crash
  <2>. QED
    BY <1>8, <2>1, FS_EmptySet DEF Crash, StateKinds
<1>. QED
  BY <1>1, <1>2, <1>3, <1>4, <1>5, <1>6, <1>7, <1>8 DEF Next

-----------------------------------------------------------------------------
(* Sessions and players                                                    *)

\* Every step, as Players sees it.
ClientKinds == \/ \E s \in Sessions : P!SessionStep(s)
               \/ \E c \in Chars : P!Forget(c)
               \/ P!Dies
               \/ UNCHANGED clients

LEMMA NextIsClientKind ==
  ASSUME [Next]_vars
  PROVE  ClientKinds
BY DEF Next, vars, Accepting, Leaving, Handling, Forgetting, Telling, WorkerStep, LinkBreaks, Crash,
       Start, ClientKinds, P!SessionStep

LEMMA LoadedType ==
  ASSUME P!TypeOK, NEW c \in Chars
  PROVE  P!Loaded(rows[c]) \in P!Stat /\ rows[c].str \in Nat /\ rows[c].luk \in Nat
BY DEF P!TypeOK, P!Loaded, P!Stat, P!Columns

\* Nobody writes the key that a log-in reads.
LEMMA LoadsTheRow == ASSUME NEW c PROVE P!LoadPlayer(c) = P!Loaded(rows[c])
BY DEF P!LoadPlayer, P!ReadName, P!WrittenName

\* A raise raises one field, whatever it is called.
LEMMA UpRaisesOne ==
  ASSUME NEW stat \in P!Stat, NEW type
  PROVE  /\ P!Up(stat, type) \in P!Stat
         /\ P!Up(stat, type).str + P!Up(stat, type).luck = stat.str + stat.luck + 1
<1>1. CASE type = "luck"
  BY <1>1 DEF P!Up, P!Stat, P!Fields
<1>2. CASE type # "luck"
  <2>1. P!Up(stat, type) = [stat EXCEPT !["str"] = @ + 1]
    BY <1>2 DEF P!Up, P!Fields
  <2>. QED
    BY <2>1 DEF P!Stat
<1>. QED
  BY <1>1, <1>2

LEMMA ColumnRaised ==
  ASSUME NEW row \in [P!Columns -> Nat], NEW type \in P!Columns
  PROVE  /\ [row EXCEPT ![type] = @ + 1] \in [P!Columns -> Nat]
         /\ [row EXCEPT ![type] = @ + 1].str + [row EXCEPT ![type] = @ + 1].luk
              = row.str + row.luk + 1
BY DEF P!Columns

\* Types, and what belongs to whom.
ClientsSound == P!TypeOK /\ P!SessionHasItsPlayer /\ P!EntryHasItsSession /\ P!RaisesAgree

LEMMA ClientsNext ==
  ASSUME ClientsSound, ClientKinds, link' \in BOOLEAN
  PROVE  ClientsSound'
<1>. USE EntryAssumption, NothingAssumption DEF P!TypeOK
<1>. SUFFICES /\ P!TypeOK' /\ P!SessionHasItsPlayer' /\ P!EntryHasItsSession' /\ P!RaisesAgree'
  BY DEF ClientsSound
<1>t. P!TypeOK /\ P!SessionHasItsPlayer /\ P!EntryHasItsSession /\ P!RaisesAgree
  BY DEF ClientsSound
<1>1. ASSUME NEW s \in Sessions, P!OnAccept(s)
      PROVE  P!TypeOK' /\ P!SessionHasItsPlayer' /\ P!EntryHasItsSession' /\ P!RaisesAgree'
  <2>1. P!TypeOK'
    BY <1>1, <1>t DEF P!OnAccept
  <2>2. P!SessionHasItsPlayer'
    BY <1>1, <1>t DEF P!OnAccept, P!SessionHasItsPlayer
  <2>3. P!EntryHasItsSession'
    BY <1>1, <1>t DEF P!OnAccept, P!EntryHasItsSession, P!Entry
  <2>4. P!RaisesAgree'
    BY <1>1, <1>t DEF P!OnAccept, P!RaisesAgree, P!Raises
  <2>. QED
    BY <2>1, <2>2, <2>3, <2>4
<1>2. ASSUME NEW s \in Sessions, P!OnDisconnect(s)
      PROVE  P!TypeOK' /\ P!SessionHasItsPlayer' /\ P!EntryHasItsSession' /\ P!RaisesAgree'
  <2>1. P!TypeOK'
    BY <1>2, <1>t DEF P!OnDisconnect, P!RemovePlayer
  <2>2. P!SessionHasItsPlayer'
    BY <1>2, <1>t DEF P!OnDisconnect, P!RemovePlayer, P!SessionHasItsPlayer
  <2>3. P!EntryHasItsSession'
    BY <1>2, <1>t DEF P!OnDisconnect, P!RemovePlayer, P!EntryHasItsSession, P!Entry
  <2>4. P!RaisesAgree'
    BY <1>2, <1>t DEF P!OnDisconnect, P!RemovePlayer, P!RaisesAgree, P!Raises
  <2>. QED
    BY <2>1, <2>2, <2>3, <2>4
<1>3. ASSUME NEW s \in Sessions, NEW c \in Chars, P!ChannelAuth(s, c)
      PROVE  P!TypeOK' /\ P!SessionHasItsPlayer' /\ P!EntryHasItsSession' /\ P!RaisesAgree'
  <2>. DEFINE new == [session |-> s, stat |-> P!Loaded(rows[c]), missed |-> 0]
  <2>0. /\ players[c] = NoEntry /\ session[s] # Closed
        /\ players' = [players EXCEPT ![c] = new]
        /\ session' = [session EXCEPT ![s] = c]
        /\ new \in P!Entry /\ new # NoEntry /\ P!Loaded(rows[c]) \in P!Stat
    <3>1. players' = [players EXCEPT ![c] = new]
      BY <1>3, LoadsTheRow DEF P!ChannelAuth
    <3>2. /\ players[c] = NoEntry /\ session[s] # Closed
          /\ session' = [session EXCEPT ![s] = c]
      BY <1>3 DEF P!ChannelAuth, P!CanAdd
    <3>3. P!Loaded(rows[c]) \in P!Stat
      BY <1>t, LoadedType
    <3>4. new \in P!Entry /\ new # NoEntry
      BY <3>3 DEF P!Entry
    <3>. QED
      BY <3>1, <3>2, <3>3, <3>4
  <2>1. P!TypeOK'
    BY <1>3, <1>t, <2>0 DEF P!ChannelAuth
  <2>2. P!SessionHasItsPlayer'
    BY <1>t, <2>0 DEF P!SessionHasItsPlayer
  <2>3. P!EntryHasItsSession'
    <3>1. SUFFICES ASSUME NEW d \in Chars, d # c, players[d] # NoEntry, d \notin ghosts'
                   PROVE  session'[players[d].session] = d
      BY <1>t, <2>0 DEF P!EntryHasItsSession
    <3>2. ghosts' = IF session[s] \in Chars THEN ghosts \cup {session[s]} ELSE ghosts
      BY <1>3 DEF P!ChannelAuth
    <3>3. session[players[d].session] = d /\ players[d].session # s
      BY <1>t, <3>1, <3>2 DEF P!EntryHasItsSession
    <3>. QED
      BY <1>t, <2>0, <3>1, <3>3 DEF P!Entry
  <2>4. P!RaisesAgree'
    <3>1. P!Loaded(rows[c]).str + P!Loaded(rows[c]).luck + 0 = rows[c].str + rows[c].luk
      <4>1. rows[c].str \in Nat /\ rows[c].luk \in Nat
        BY <1>t, LoadedType
      <4>. QED
        BY <4>1 DEF P!Loaded
    <3>2. rows' = rows
      BY <1>3 DEF P!ChannelAuth
    <3>. QED
      BY <1>t, <2>0, <3>1, <3>2 DEF P!RaisesAgree, P!Raises
  <2>. QED
    BY <2>1, <2>2, <2>3, <2>4
<1>4. ASSUME NEW s \in Sessions, NEW type \in P!Columns, P!UpStat(s, type)
      PROVE  P!TypeOK' /\ P!SessionHasItsPlayer' /\ P!EntryHasItsSession' /\ P!RaisesAgree'
  <2>. DEFINE c == session[s]
  <2>0. /\ c \in Chars /\ players[c] # NoEntry /\ players[c] \in P!Entry
        /\ rows[c] \in [P!Columns -> Nat] /\ players[c].stat \in P!Stat
        /\ rows' = [rows EXCEPT ![c] = [rows[c] EXCEPT ![type] = @ + 1]]
        /\ players[c].missed \in Nat
        /\ UNCHANGED <<session, cached, ghosts>>
    BY <1>4, <1>t DEF P!UpStat, P!SessionHasItsPlayer, P!Entry
  <2>1. P!Up(players[c].stat, type) \in P!Stat
    BY <2>0, UpRaisesOne
  <2>2. /\ players'[c] \in P!Entry /\ players'[c] # NoEntry
        /\ players'[c].session = players[c].session
        /\ players'[c].stat.str + players'[c].stat.luck + players'[c].missed
             = players[c].stat.str + players[c].stat.luck + players[c].missed + 1
        /\ players' \in [Chars -> P!Entry \cup {NoEntry}]
        /\ \A d \in Chars \ {c} : players'[d] = players[d] /\ rows'[d] = rows[d]
    <3>1. CASE players' = [players EXCEPT ![c] = [players[c] EXCEPT !.stat = P!Up(@, type)]]
      <4>1. players'[c] = [players[c] EXCEPT !.stat = P!Up(@, type)]
        BY <2>0, <3>1, <1>t
      <4>2. /\ players'[c] \in P!Entry /\ players'[c].session = players[c].session
            /\ players'[c].stat = P!Up(players[c].stat, type)
            /\ players'[c].missed = players[c].missed
        BY <4>1, <2>0, <2>1 DEF P!Entry
      <4>3. players[c].stat.str \in Nat /\ players[c].stat.luck \in Nat
        BY <2>0 DEF P!Stat
      <4>4. players'[c].stat.str \in Nat /\ players'[c].stat.luck \in Nat
        BY <4>2, <2>1 DEF P!Stat
      <4>5. players'[c].stat.str + players'[c].stat.luck
              = players[c].stat.str + players[c].stat.luck + 1
        BY <4>2, <2>0, UpRaisesOne
      <4>6. players'[c].stat.str + players'[c].stat.luck + players'[c].missed
              = players[c].stat.str + players[c].stat.luck + players[c].missed + 1
        BY <4>2, <4>3, <4>4, <4>5, <2>0
      <4>. QED
        BY <2>0, <3>1, <4>2, <4>6, <1>t
    <3>2. CASE players' = [players EXCEPT ![c] = [players[c] EXCEPT !.missed = @ + 1]]
      <4>1. players'[c] = [players[c] EXCEPT !.missed = @ + 1]
        BY <2>0, <3>2, <1>t
      <4>2. /\ players'[c] \in P!Entry /\ players'[c].session = players[c].session
            /\ players'[c].stat = players[c].stat
            /\ players'[c].missed = players[c].missed + 1
        BY <4>1, <2>0 DEF P!Entry
      <4>3. players[c].stat.str \in Nat /\ players[c].stat.luck \in Nat
        BY <2>0 DEF P!Stat
      <4>4. players'[c].stat.str + players'[c].stat.luck + players'[c].missed
              = players[c].stat.str + players[c].stat.luck + players[c].missed + 1
        BY <4>2, <4>3, <2>0
      <4>. QED
        BY <2>0, <3>2, <4>2, <4>4, <1>t
    <3>. QED
      BY <1>4, <3>1, <3>2 DEF P!UpStat
  <2>3. rows'[c] = [rows[c] EXCEPT ![type] = @ + 1]
    BY <2>0, <1>t
  <2>4. P!TypeOK'
    <3>1. rows' \in [Chars -> [P!Columns -> Nat]]
      BY <2>0, ColumnRaised, <1>t
    <3>. QED
      BY <2>0, <2>2, <3>1, <1>t
  <2>5. P!SessionHasItsPlayer' /\ P!EntryHasItsSession'
    <3>1. /\ \A d \in Chars : /\ players'[d] = NoEntry <=> players[d] = NoEntry
                              /\ players[d] # NoEntry => players'[d].session = players[d].session
          /\ session' = session /\ ghosts' = ghosts
      BY <2>0, <2>2
    <3>2. ASSUME NEW q \in Sessions, session[q] \in Chars
          PROVE  players'[session[q]] # NoEntry /\ players'[session[q]].session = q
      <4>1. players[session[q]] # NoEntry /\ players[session[q]].session = q
        BY <3>2, <1>t DEF P!SessionHasItsPlayer
      <4>. QED
        BY <3>1, <3>2, <4>1
    <3>3. ASSUME NEW d \in Chars, players'[d] # NoEntry, d \notin ghosts
          PROVE  session[players'[d].session] = d
      <4>1. players[d] # NoEntry
        BY <3>1, <3>3
      <4>2. session[players[d].session] = d
        BY <4>1, <3>3, <1>t DEF P!EntryHasItsSession
      <4>. QED
        BY <3>1, <4>1, <4>2
    <3>. QED
      BY <3>1, <3>2, <3>3 DEF P!SessionHasItsPlayer, P!EntryHasItsSession
  <2>6. P!RaisesAgree'
    <3>1. players[c].stat.str + players[c].stat.luck + players[c].missed
            = rows[c].str + rows[c].luk
      BY <2>0, <1>t DEF P!RaisesAgree, P!Raises
    <3>2. rows'[c].str + rows'[c].luk = rows[c].str + rows[c].luk + 1
      BY <2>0, <2>3, ColumnRaised
    <3>3. players'[c].stat.str + players'[c].stat.luck + players'[c].missed
            = rows'[c].str + rows'[c].luk
      BY <2>2, <3>1, <3>2
    <3>. QED
      BY <2>2, <3>3, <1>t DEF P!RaisesAgree, P!Raises
  <2>. QED
    BY <2>4, <2>5, <2>6
<1>5. ASSUME NEW c \in Chars, UNCHANGED <<session, players, rows, ghosts>>,
             cached' = [cached EXCEPT ![c] = P!Loaded(rows[c])]
      PROVE  P!TypeOK' /\ P!SessionHasItsPlayer' /\ P!EntryHasItsSession' /\ P!RaisesAgree'
  <2>1. P!TypeOK'
    BY <1>5, <1>t, LoadedType
  <2>. QED
    BY <1>5, <1>t, <2>1 DEF P!SessionHasItsPlayer, P!EntryHasItsSession, P!RaisesAgree, P!Raises
<1>6. CASE P!Dies
  <2>1. P!TypeOK'
    BY <1>6, <1>t DEF P!Dies
  <2>. QED
    BY <1>6, <2>1 DEF P!Dies, P!SessionHasItsPlayer, P!EntryHasItsSession, P!RaisesAgree, P!Raises
<1>7. CASE UNCHANGED clients
  BY <1>7, <1>t DEF clients, P!SessionHasItsPlayer, P!EntryHasItsSession, P!RaisesAgree, P!Raises
<1>. QED
  BY <1>1, <1>2, <1>3, <1>4, <1>5, <1>6, <1>7
  DEF ClientKinds, P!SessionStep, P!AlreadyThere, P!Forget

-----------------------------------------------------------------------------
(* The theorems                                                            *)

IInv == S!TypeOK /\ UsersAreSessions /\ ClientsSound /\ StoppedServesNothing /\ Renewal

LEMMA InitIInv == Init => IInv
<1>. SUFFICES ASSUME Init PROVE IInv
  OBVIOUS
<1>1. S!TypeOK
  <2>1. waiting \in [Workers -> Seq(Nat)] /\ work \in [Workers -> S!Task \cup {NoTask}]
    BY DEF Init, S!Init
  <2>2. sleep \in 0 .. Interval /\ users \in Nat
    BY EntryAssumption DEF Init, S!Init
  <2>3. up \in BOOLEAN /\ link \in BOOLEAN /\ served \in BOOLEAN /\ halfDone \in BOOLEAN
    BY DEF Init, S!Init
  <2>. QED
    BY <2>1, <2>2, <2>3 DEF Init, S!Init, S!TypeOK
<1>2. UsersAreSessions
  <2>1. P!OpenSessions = {} /\ users = 0
    BY DEF Init, S!Init, P!Init, P!OpenSessions
  <2>. QED
    BY <2>1, FS_EmptySet DEF UsersAreSessions
<1>3. ClientsSound
  <2>1. \A c \in Chars : rows[c] = [str |-> 0, luk |-> 0] /\ rows[c] \in [P!Columns -> Nat]
    BY DEF Init, P!Init, P!Columns
  <2>2. \A c \in Chars : P!Loaded(rows[c]) \in P!Stat
    BY <2>1 DEF P!Loaded, P!Stat
  <2>3. P!TypeOK
    BY <2>1, <2>2 DEF Init, P!Init, P!TypeOK
  <2>4. P!SessionHasItsPlayer /\ P!EntryHasItsSession /\ P!RaisesAgree
    BY EntryAssumption
    DEF Init, P!Init, P!SessionHasItsPlayer, P!EntryHasItsSession, P!RaisesAgree
  <2>. QED
    BY <2>3, <2>4 DEF ClientsSound
<1>. QED
  BY <1>1, <1>2, <1>3 DEF Init, S!Init, IInv, StoppedServesNothing, Renewal

LEMMA NextIInv ==
  ASSUME IInv, [Next]_vars
  PROVE  IInv' /\ StateKinds /\ ClientKinds
<1>1. UsersAreSessions' /\ StateKinds
  <2>1. CASE Next
    BY <2>1, OpenNext DEF IInv, ClientsSound
  <2>2. CASE UNCHANGED vars
    BY <2>2 DEF IInv, UsersAreSessions, P!OpenSessions, StateKinds, vars, clients, state
  <2>. QED
    BY <2>1, <2>2
<1>2. ClientKinds
  BY NextIsClientKind
<1>3. S!TypeOK'
  BY <1>1, StateTypes DEF IInv
<1>4. link' \in BOOLEAN
  BY <1>3 DEF S!TypeOK
<1>. QED
  BY <1>1, <1>2, <1>3, <1>4, ClientsNext, RenewalNext, StoppedNext DEF IInv

LEMMA IInvCorrect == Spec => []IInv
<1>1. IInv /\ [Next]_vars => IInv'
  BY NextIInv
<1>. QED
  BY InitIInv, <1>1, PTL DEF Spec

\* Every variable keeps its type.
THEOREM TypeCorrect == Spec => []TypeOK
<1>1. IInv => TypeOK
  BY DEF IInv, ClientsSound, TypeOK
<1>. QED
  BY IInvCorrect, <1>1, PTL

\* The user count that accept, disconnect and the end of the process leave is the number of
\* the sessions, for any number of them.
THEOREM UsersCorrect == Spec => []UsersAreSessions
<1>1. IInv => UsersAreSessions
  BY DEF IInv
<1>. QED
  BY IInvCorrect, <1>1, PTL

\* A session and its Player belong to each other, whoever logs in twice, or as whom.
THEOREM SessionCorrect == Spec => []SessionHasItsPlayer
<1>1. IInv => SessionHasItsPlayer
  BY DEF IInv, ClientsSound, SessionHasItsPlayer
<1>. QED
  BY IInvCorrect, <1>1, PTL

\* The table keeps no entry whose session has gone, but ghosts.
THEOREM EntryCorrect == Spec => []EntryHasItsSession
<1>1. IInv => EntryHasItsSession
  BY DEF IInv, ClientsSound, EntryHasItsSession
<1>. QED
  BY IInvCorrect, <1>1, PTL

\* A Player has the raises of its row, but for those whose statement reported an error
\* (StatService::UpStat, PlayerStatRepository::Update): for any number of characters and
\* raises, and through every order of log-ins and disconnects.
THEOREM RaisesCorrect == Spec => []RaisesAgree
<1>1. IInv => RaisesAgree
  BY DEF IInv, ClientsSound, RaisesAgree
<1>. QED
  BY IInvCorrect, <1>1, PTL

\* A log-in gives the Player what the row says, whatever Redis has.
THEOREM LoginCorrect == Spec => LoginLoadsTheRow
<1>. DEFINE Loads == \A c \in Chars : players[c] = NoEntry /\ players'[c] # NoEntry =>
                          players'[c].stat = P!Loaded(rows[c])
<1>1. IInv /\ [Next]_vars => [Loads]_<<P!pvars, link>>
  <2>. SUFFICES ASSUME IInv, [Next]_vars PROVE Loads
    OBVIOUS
  <2>0. P!TypeOK /\ P!SessionHasItsPlayer /\ ClientKinds
    BY NextIsClientKind DEF IInv, ClientsSound
  <2>1. ASSUME NEW s \in Sessions, NEW c \in Chars, P!ChannelAuth(s, c)
        PROVE  Loads
    <3>1. players' = [players EXCEPT ![c] = [session |-> s, stat |-> P!Loaded(rows[c]), missed |-> 0]]
      BY <2>1, LoadsTheRow DEF P!ChannelAuth
    <3>. QED
      BY <3>1, <2>0 DEF P!TypeOK
  <2>2. ASSUME NEW s \in Sessions, NEW type \in P!Columns, P!UpStat(s, type)
        PROVE  Loads
    <3>1. session[s] \in Chars /\ players[session[s]] # NoEntry
      BY <2>0, <2>2 DEF P!UpStat, P!SessionHasItsPlayer
    <3>2. \A d \in Chars \ {session[s]} : players'[d] = players[d]
      BY <2>0, <2>2 DEF P!UpStat, P!TypeOK
    <3>. QED
      BY <3>1, <3>2
  <2>3. ASSUME NEW s \in Sessions, P!OnDisconnect(s)
        PROVE  Loads
    BY <2>0, <2>3 DEF P!OnDisconnect, P!RemovePlayer, P!TypeOK
  <2>4. CASE P!Dies
    BY <2>4 DEF P!Dies
  <2>5. CASE UNCHANGED players
    BY <2>5
  <2>. QED
    BY <2>0, <2>1, <2>2, <2>3, <2>4, <2>5
    DEF ClientKinds, P!SessionStep, P!OnAccept, P!AlreadyThere, P!Forget, clients
<1>. QED
  BY IInvCorrect, <1>1, PTL DEF Spec, LoginLoadsTheRow, P!LoginLoadsTheRow

\* With any number of workers, the key of a channel that works does not run out while its
\* updates are on time.
THEOREM SeenCorrect == Spec => SeenWhileAlive
<1>. DEFINE Goes == key # NoKey /\ key' = NoKey /\ up /\ link /\ served
<1>1. IInv /\ [Next]_vars => [Goes => S!HasLateUpdate']_S!svars
  <2>. SUFFICES ASSUME IInv, [Next]_vars, Goes PROVE S!HasLateUpdate'
    OBVIOUS
  <2>. USE EntryAssumption, NothingAssumption, LateType
  <2>0. S!TypeOK /\ Renewal /\ StateKinds
    BY NextIInv DEF IInv
  <2>k. key \in S!Key /\ key.left \in Nat /\ key.left <= TTL
    BY <2>0 DEF S!TypeOK, S!Key
  <2>1. S!Tick
    <3>1. ASSUME NEW w \in Workers, S!HSet(w)
          PROVE  key' \in S!Key
      BY <2>0, <3>1 DEF S!HSet, S!TypeOK, S!Key, S!Task
    <3>2. ASSUME NEW w \in Workers, S!Expire(w)
          PROVE  key' \in S!Key
      BY <2>k, <3>2 DEF S!Expire, S!Key
    <3>3. key' # key /\ key' \notin S!Key
      OBVIOUS
    <3>. QED
      BY <2>0, <3>1, <3>2, <3>3
      DEF StateKinds, state, S!SubmitUpdate, S!WorkerStep, S!ReadCount, S!UpdateFails,
          S!UsersChange, S!LinkBreaks, S!Crash, S!Start
  <2>2. key.left = 1 /\ sleep \in Nat \ {0}
    <3>2. CASE key.left > 1
      <4>1. [key EXCEPT !.left = @ - 1] \in S!Key
        BY <2>k, <3>2 DEF S!Key
      <4>. QED
        BY <2>1, <3>2, <4>1 DEF S!Tick
    <3>3. key.left = 1
      <4>1. key.left # 0
        BY <2>1 DEF S!Tick
      <4>. QED
        BY <2>k, <3>2, <4>1
    <3>4. up /\ sleep \in Nat
      BY <2>0 DEF S!TypeOK
    <3>. QED
      BY <2>1, <3>3, <3>4 DEF S!Tick
  <2>3. ASSUME NEW age \in Nat, InTime(age, 1)
        PROVE  S!Older(age) >= S!Late
    BY <2>3, OlderType DEF InTime
  <2>4. ASSUME NEW w \in Workers, NEW i \in DOMAIN waiting[w], InTime(waiting[w][i], 1)
        PROVE  S!HasLateUpdate'
    <3>1. /\ waiting[w] \in Seq(Nat)
          /\ waiting'[w] = [j \in DOMAIN waiting[w] |-> S!Older(waiting[w][j])]
      BY <2>0, <2>1 DEF S!Tick, S!TypeOK
    <3>2. i \in DOMAIN waiting'[w] /\ waiting[w][i] \in Nat /\ waiting'[w][i] = S!Older(waiting[w][i])
      BY <3>1, AgedType
    <3>. QED
      BY <2>3, <2>4, <3>2 DEF S!HasLateUpdate
  <2>5. ASSUME NEW w \in Workers, work[w] # NoTask, InTime(work[w].age, 1)
        PROVE  S!HasLateUpdate'
    <3>1. work[w] \in S!Task /\ work[w].age \in Nat /\ S!Older(work[w].age) \in Nat
      BY <2>0, <2>5, OlderType DEF S!TypeOK, S!Task
    <3>2. work'[w] = [work[w] EXCEPT !.age = S!Older(@)]
      BY <2>1, <2>5 DEF S!Tick
    <3>3. work'[w] \in S!Task /\ work'[w].age = S!Older(work[w].age)
      BY <3>1, <3>2 DEF S!Task
    <3>. QED
      BY <2>3, <2>5, <3>1, <3>3 DEF S!HasLateUpdate
  <2>. QED
    BY <2>0, <2>2, <2>4, <2>5 DEF Renewal, Queued
<1>. QED
  BY IInvCorrect, <1>1, PTL DEF Spec, SeenWhileAlive, S!SeenWhileAlive
=============================================================================
