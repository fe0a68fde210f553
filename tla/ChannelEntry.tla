---------------------------- MODULE ChannelEntry ----------------------------
(***************************************************************************)
(* A channel server with its clients: Players, the sessions and characters *)
(* the game loop serves, with ChannelState, what it says of itself in      *)
(* Redis.  They share the process, the connection to Redis, and the user   *)
(* count, which accept and disconnect change in the game loop and which a  *)
(* worker reads.                                                           *)
(***************************************************************************)
EXTENDS Naturals, Sequences, FiniteSets

CONSTANTS Workers, Interval, TTL, MaxUsers, MaxWaiting, NoKey, NoTask,
          Sessions, Chars, MaxRaises, Closed, NoPlayer, NoEntry

ASSUME EntryAssumption == /\ Interval \in Nat \ {0} /\ TTL \in Nat \ {0}
                          /\ Interval < TTL
                          /\ MaxUsers \in Nat /\ MaxWaiting \in Nat
                          /\ MaxRaises \in [Chars -> Nat]
                          /\ IsFiniteSet(Sessions)
                          /\ Closed # NoPlayer /\ Chars \cap {Closed, NoPlayer} = {}

VARIABLES up, link, users, sleep, waiting, work, key, served, halfDone,
          session, players, rows, cached, ghosts

S == INSTANCE ChannelState
P == INSTANCE Players

\* What stands for the absence of a record is none.
ASSUME NothingAssumption == NoKey \notin S!Key /\ NoTask \notin S!Task /\ NoEntry \notin P!Entry

state == <<up, link, users, sleep, waiting, work, key, served, halfDone>>
clients == <<session, players, rows, cached, ghosts>>
vars == <<state, clients>>

Init == S!Init /\ P!Init

-----------------------------------------------------------------------------
\* OnAccept counts the user, and asks nobody whether there is room.
Accepting(s) == P!OnAccept(s) /\ S!UsersChange(users + 1)

\* Mutant: a session that never logged in is not counted back.
LeavingUncounted(s) == /\ P!OnDisconnect(s)
                       /\ S!UsersChange(IF session[s] = NoPlayer THEN users ELSE users - 1)

\* OnDisconnect counts the user back.
Leaving(s) == P!OnDisconnect(s) /\ S!UsersChange(users - 1)

\* The handlers of PKT_CHANNEL_AUTH and PKT_STAT_UP, in the game loop.
Handling(s) == /\ up
               /\ \/ \E c \in Chars : P!ChannelAuth(s, c) \/ P!AlreadyThere(s, c)
                  \/ \E type \in P!Columns : P!UpStat(s, type)
               /\ UNCHANGED state

\* A character's key in Redis runs out.
Forgetting == (\E c \in Chars : P!Forget(c)) /\ UNCHANGED state

\* The thread of UpdateChannelState, and time.
Telling == (S!Tick \/ S!SubmitUpdate) /\ UNCHANGED clients
WorkerStep(w) == S!WorkerStep(w) /\ UNCHANGED clients

LinkBreaks == S!LinkBreaks /\ UNCHANGED clients
\* The process ends with its sessions and tables, and is started again.
Crash == S!Crash /\ P!Dies
Start == S!Start /\ UNCHANGED clients

Next == \/ \E s \in Sessions : Accepting(s) \/ Leaving(s) \/ Handling(s)
        \/ Forgetting
        \/ Telling
        \/ \E w \in Workers : WorkerStep(w)
        \/ LinkBreaks \/ Crash \/ Start

Spec == Init /\ [][Next]_vars

Fairness == /\ WF_vars(S!Tick /\ UNCHANGED clients)
            /\ WF_vars(S!SubmitUpdate /\ UNCHANGED clients)
            /\ \A w \in Workers : WF_vars(WorkerStep(w))

FairSpec == Spec /\ Fairness

-----------------------------------------------------------------------------
(* Properties                                                              *)

\* The types of the variables.
TypeOK == S!TypeOK /\ P!TypeOK

\* What the server counts, and tells Redis, is the connections it has: whoever logs in
\* or not, is refused, or goes with the process.
UsersAreSessions == users = Cardinality(P!OpenSessions)

\* A session and its Player in the table belong to each other and to nobody else.
SessionHasItsPlayer == P!SessionHasItsPlayer

\* A character whose session has gone can log in again, but for the ghost of a session
\* that logged in twice.
EntryHasItsSession == P!EntryHasItsSession

\* A log-in loads the row, whatever Redis still has of the character.
LoginLoadsTheRow == P!LoginLoadsTheRow

\* A Player has the raises of its row, but those whose statement reported an error.
RaisesAgree == P!RaisesAgree

\* The key of a running channel runs out only while an update of it is late.
SeenWhileAlive == S!SeenWhileAlive

\* A channel that is down, or that refuses every log-in since it lost Redis, is in the end
\* told to the clients as dead, unless it was cut off between HSET and EXPIRE.
DeadDisappears == S!DeadDisappears

\* What Redis says of a channel whose users stay becomes true.
StateCatchesUp == S!StateCatchesUp
=============================================================================
