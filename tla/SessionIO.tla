----------------------------- MODULE SessionIO -----------------------------
(***************************************************************************)
(* The receiving and the sending side of a channel session together: the   *)
(* one GameLoop takes packets out of the sockets of all clients (Receive)  *)
(* and writes out the queue of the first client's session (SendQueue),     *)
(* while the workers of the pool push into that queue.  The handler of a   *)
(* packet answers it before the next packet is looked at, and the queue is *)
(* written between two events.  A session ends as one: with its input,     *)
(* its queue and its interest in the socket.                               *)
(*                                                                         *)
(* The other daemons have no such queue: their handlers send at once.  For *)
(* them the sending side rests.                                            *)
(***************************************************************************)
EXTENDS SendConstants

CONSTANTS
  Requests, Content, Scripts, HeaderSize, BUFFER_SIZE, Daemons,   \* of Receive
  AnswerTo     \* what the handler of each request sends back

ASSUME SessionAssumption == /\ AnswerTo \in [Requests -> Packets]
                            /\ Content \in [Requests -> Seq(Nat)]
                            /\ \A p \in Requests :
                                  /\ Content[p] # <<>>
                                  /\ \/ Content[p][1] < HeaderSize
                                     \/ Content[p][1] = Len(Content[p])
                            /\ Scripts \subseteq Seq(Seq(Requests))
                            /\ HeaderSize \in Nat \ {0} /\ BUFFER_SIZE \in Nat
                            /\ HeaderSize <= BUFFER_SIZE
                            /\ Daemons \subseteq {"channel", "world", "login", "chat"}

VARIABLES
  daemon, script, polite, coming, cut, net, closed, clients, round, at, parsing, buf,
  recvBuf, up, handled, dropped,
  queue, offset, writeEvent, buffered, loop, worker, open, alive, made, pushed, wire, stranded

R == INSTANCE Receive WITH Packets <- Requests
Q == INSTANCE SendQueue

input == <<daemon, script, polite, coming, cut, net, closed, clients, round, at, parsing, buf,
           recvBuf, up, handled, dropped>>
output == <<queue, offset, writeEvent, buffered, loop, worker, open, alive, made, pushed,
            wire, stranded>>
vars == <<input, output>>

Init == R!Init /\ Q!Init

-----------------------------------------------------------------------------
Session == 1
Queued == daemon = "channel"    \* this daemon has send queues

\* The GameLoop is not inside EnqueueSend or OnSend.
CanReceive == alive /\ loop = "Idle"

EndsSession == Queued /\ open /\ Session \notin {clients'[i] : i \in DOMAIN clients'}

\* A step of the loop that handles nothing: when it ends the session, the queue goes too.
Receiving == /\ CanReceive
             /\ \/ R!Wait \/ R!Pass \/ R!VisitDeleted \/ R!Visit \/ R!HangUp
                \/ R!RecvSome \/ R!RecvAgain \/ R!RecvEnd
                \/ R!NeedMoreData \/ R!InvalidPacket \/ R!ParseThrows
             /\ IF EndsSession THEN Q!OnDisconnect ELSE UNCHANGED output

\* The handler of a packet answers it: through the queue when the session has one.
Handling == /\ CanReceive
            /\ R!Handle
            /\ IF Queued /\ at = Session
               THEN Q!LoopPush(AnswerTo[script[at][Head(recvBuf[at])[1]]])
               ELSE UNCHANGED output

\* EnableWriteEvent, inside the handler.
Enabling == Q!LoopEnable /\ UNCHANGED input

\* EPOLLOUT comes after the EPOLLIN of the same event, and after no EPOLLRDHUP.
OnSend == /\ R!Idle /\ \A i \in DOMAIN round : round[i].client # Session
          /\ Q!OnSend
          /\ UNCHANGED input

Flushing == /\ Q!FlushSome \/ Q!FlushEnds \/ Q!HasPendingSend \/ Q!DisableWriteEvent
            /\ UNCHANGED input

\* send fails: OnSend disconnects.
SendFails == /\ loop = "Flush" /\ Q!OnDisconnect
             /\ R!Disconnect(Session, round)
             /\ UNCHANGED <<daemon, script, polite, coming, cut, closed, up, handled, dropped>>

LoopStep == Receiving \/ Handling \/ Enabling \/ OnSend \/ Flushing

Peer == /\ alive
        /\ \E c \in DOMAIN script : R!Arrive(c) \/ R!Close(c)
        /\ UNCHANGED output

Working == /\ Queued
           /\ \E w \in Workers :
                 \/ Q!WorkerEnable(w)
                 \/ \E p \in Packets \ {AnswerTo[q] : q \in Requests} : Q!WorkerPush(w, p)
           /\ UNCHANGED input

Draining == Q!Drain /\ UNCHANGED input

Next == LoopStep \/ SendFails \/ Peer \/ Working \/ Draining

Spec == Init /\ [][Next]_vars

\* The GameLoop goes on, what the clients have begun to send arrives, a worker ends its
\* EnqueueSend and the peer reads.  Nobody has to close, and send need not fail.
Fairness == /\ WF_vars(LoopStep)
            /\ WF_vars(\E c \in DOMAIN script : R!Arrive(c) /\ UNCHANGED output /\ alive)
            /\ \A w \in Workers : WF_vars(Q!WorkerEnable(w) /\ UNCHANGED input)
            /\ WF_vars(Draining)

FairSpec == Spec /\ Fairness

-----------------------------------------------------------------------------
(* Properties                                                              *)

\* The types of the variables.
TypeOK == R!TypeOK /\ Q!TypeOK

\* The handlers get the packets of a client as they were sent (Receive).
HandledAsSent == R!HandledAsSent

\* Only a full chunk, or a client that left the chat, leaves a daemon in recv (Receive).
BlocksOnlyOnFullChunk == R!BlocksOnlyOnFullChunk

\* OnBytes of the channel server leaves less than a packet, and nothing malformed, when
\* the loop is between two events, answers included.
NothingWhollyKept == loop = "Idle" => R!NothingWhollyKept

\* No packet waits for ever in the buffer of a session (Receive).
EveryPacketHandled == []<>(~alive \/ R!AllHandled)

\* What the peer gets is the pushed packets, whole and in order (SendQueue).
StreamIntact == Q!StreamIntact

\* A packet in the queue has somebody who will look at it (SendQueue).
PendingIsAttended == Q!PendingIsAttended

\* EPOLLOUT does not stay on over an empty queue (SendQueue).
GoesQuiet == Q!GoesQuiet

\* The answer of a request is on the wire to its last byte.
IsAnswered(p) == LET a == AnswerTo[p]
                 IN  \E i \in DOMAIN wire : wire[i] = <<a, Size[a]>>

\* From the socket to the socket: whatever the clients of the channel server and its
\* workers do, a request that has wholly arrived is answered to the last byte and the
\* queue is written to its end, unless the session ends, the loop turned EPOLLOUT off over
\* a packet (send_stuck) or a worker went on with a deleted session.
EveryRequestAnswered ==
  []<>(\/ ~Queued \/ ~open \/ ~alive \/ stranded
       \/ /\ queue = <<>>
          /\ \A k \in 1 .. R!HasArrived(Session) : IsAnswered(script[Session][k]))
=============================================================================
