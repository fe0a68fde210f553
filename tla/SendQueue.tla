----------------------------- MODULE SendQueue -----------------------------
(***************************************************************************)
(* What a ChannelSession still has to send, and the interest of epoll in   *)
(* its socket (EPOLLOUT), for one session from its accept to its end.      *)
(*                                                                         *)
(* Threads: the GameLoop, which answers packets and flushes the queue when *)
(* epoll says the socket is writable, and the workers of the pool, which   *)
(* send to the same session from MapInstance::Update.  Nothing is locked:  *)
(* a step lies between two accesses to the queue or to epoll, and the      *)
(* deque is taken to survive.  A worker that goes on with a session the    *)
(* GameLoop has deleted is undefined, and the model stops there.           *)
(***************************************************************************)
EXTENDS SendConstants

VARIABLES
  queue,       \* ChannelSession::m_sendQueue
  offset,      \* ChannelSession::m_sendOffset
  writeEvent,  \* epoll watches the socket for EPOLLOUT
  buffered,    \* bytes in the socket's send buffer
  loop,        \* where the GameLoop is in EnqueueSend or OnSend
  worker,      \* where each worker is in EnqueueSend
  open,        \* the session is in m_sessions
  alive,       \* no undefined access has happened
  made,        \* the packets made so far
  pushed,      \* history: the packets in the order of push_back
  wire,        \* history: <<packet, number of its byte>> in the order of send
  stranded     \* history: EPOLLOUT went off over a packet that nobody is about to announce

vars == <<queue, offset, writeEvent, buffered, loop, worker, open, alive, made,
          pushed, wire, stranded>>

-----------------------------------------------------------------------------
Init == /\ queue = <<>> /\ offset = 0
        /\ writeEvent = FALSE
        /\ buffered = 0
        /\ loop = "Idle"
        /\ worker = [w \in Workers |-> "Idle"]
        /\ open = TRUE /\ alive = TRUE
        /\ made = {}
        /\ pushed = <<>> /\ wire = <<>>
        /\ stranded = FALSE

\* m_sendQueue.push_back, from whichever thread.
PushBack(p) == /\ p \notin made
               /\ made' = made \cup {p}
               /\ queue' = Append(queue, p)
               /\ pushed' = Append(pushed, p)

-----------------------------------------------------------------------------
(* A worker: Send, SendOk or SendNok through EnqueueSend                   *)

WorkerPush(w, p) == /\ alive /\ open /\ worker[w] = "Idle"
                    /\ PushBack(p)
                    /\ worker' = [worker EXCEPT ![w] = "Enable"]
                    /\ UNCHANGED <<offset, writeEvent, buffered, loop, open, alive, wire, stranded>>

\* EnableWriteEvent(m_fd) of a session that may be deleted by now.
WorkerEnable(w) ==
  /\ alive /\ worker[w] = "Enable"
  /\ worker' = [worker EXCEPT ![w] = "Idle"]
  /\ writeEvent' = (writeEvent \/ open)
  /\ alive' = open
  /\ stranded' = FALSE
  /\ UNCHANGED <<queue, offset, buffered, loop, open, made, pushed, wire>>

-----------------------------------------------------------------------------
(* The GameLoop                                                            *)

\* A handler answers: EnqueueSend, with the workers running beside it.
LoopPush(p) == /\ alive /\ open /\ loop = "Idle"
               /\ PushBack(p)
               /\ loop' = "Enable"
               /\ UNCHANGED <<offset, writeEvent, buffered, worker, open, alive, wire, stranded>>

\* Mutant: the write event is not enabled.
LoopEnablesNothing == /\ alive /\ loop = "Enable"
                      /\ loop' = "Idle"
                      /\ UNCHANGED <<queue, offset, writeEvent, buffered, worker, open, alive,
                                     made, pushed, wire, stranded>>

LoopEnable == /\ alive /\ loop = "Enable"
              /\ writeEvent' = TRUE
              /\ stranded' = FALSE
              /\ loop' = "Idle"
              /\ UNCHANGED <<queue, offset, buffered, worker, open, alive, made, pushed, wire>>

\* epoll is level-triggered: it reports a writable socket as long as EPOLLOUT is on.
OnSend == /\ alive /\ open /\ loop = "Idle"
          /\ writeEvent /\ buffered < Room
          /\ loop' = "Flush"
          /\ UNCHANGED <<queue, offset, writeEvent, buffered, worker, open, alive,
                         made, pushed, wire, stranded>>

\* Mutant: the offset of the last packet is kept.
AdvanceKeepsOffset(n) ==
  IF offset + n = Size[Head(queue)]
  THEN queue' = Tail(queue) /\ offset' = offset + n
  ELSE queue' = queue /\ offset' = offset + n

\* m_sendOffset and m_sendQueue after n bytes of the front were taken by send.
Advance(n) == IF offset + n = Size[Head(queue)]
              THEN queue' = Tail(queue) /\ offset' = 0
              ELSE queue' = queue /\ offset' = offset + n

\* One send of FlushSend: the socket takes some of the bytes.
FlushSome == /\ alive /\ loop = "Flush"
             /\ queue # <<>>
             /\ \E n \in 1 .. Size[Head(queue)] - offset :
                   /\ buffered + n <= Room
                   /\ Advance(n)
                   /\ buffered' = buffered + n
                   /\ wire' = wire \o [k \in 1 .. n |-> <<Head(queue), offset + k>>]
             /\ UNCHANGED <<loop, writeEvent, worker, open, alive, made, pushed, stranded>>

\* EAGAIN, or the queue is empty.
FlushEnds == /\ alive /\ loop = "Flush"
             /\ queue = <<>> \/ buffered = Room
             /\ loop' = "Test"
             /\ UNCHANGED <<queue, offset, writeEvent, buffered, worker, open, alive,
                            made, pushed, wire, stranded>>

\* if (!session->HasPendingSend())
HasPendingSend == /\ alive /\ loop = "Test"
                  /\ loop' = IF queue = <<>> THEN "Disable" ELSE "Idle"
                  /\ UNCHANGED <<queue, offset, writeEvent, buffered, worker, open, alive,
                                 made, pushed, wire, stranded>>

\* Mutant: the write event stays on.
DisablesNothing == /\ alive /\ loop = "Disable"
                   /\ loop' = "Idle"
                   /\ UNCHANGED <<queue, offset, writeEvent, buffered, worker, open, alive,
                                  made, pushed, wire, stranded>>

DisableWriteEvent == /\ alive /\ loop = "Disable"
                     /\ writeEvent' = FALSE
                     /\ loop' = "Idle"
                     /\ stranded' = (queue # <<>> /\ \A w \in Workers : worker[w] = "Idle")
                     /\ UNCHANGED <<queue, offset, buffered, worker, open, alive, made, pushed, wire>>

\* OnDisconnect, after an event of the peer or a failed send.
OnDisconnect == /\ alive /\ open
                /\ loop \in {"Idle", "Flush"}
                /\ open' = FALSE
                /\ writeEvent' = FALSE
                /\ queue' = <<>> /\ offset' = 0
                /\ loop' = "Idle"
                /\ UNCHANGED <<buffered, worker, alive, made, pushed, wire, stranded>>

LoopStep == LoopEnable \/ OnSend \/ FlushSome \/ FlushEnds \/ HasPendingSend \/ DisableWriteEvent

\* The peer reads a byte.
Drain == /\ alive /\ buffered > 0
         /\ buffered' = buffered - 1
         /\ UNCHANGED <<queue, offset, writeEvent, loop, worker, open, alive, made, pushed,
                        wire, stranded>>

-----------------------------------------------------------------------------
Next == \/ \E w \in Workers : WorkerEnable(w) \/ \E p \in Packets : WorkerPush(w, p)
        \/ \E p \in Packets : LoopPush(p)
        \/ LoopStep
        \/ OnDisconnect
        \/ Drain

Spec == Init /\ [][Next]_vars

\* The GameLoop serves what epoll reports, a worker ends its EnqueueSend and the
\* peer reads.  Nobody has to send a packet or to disconnect.
Fairness == /\ WF_vars(LoopStep)
            /\ \A w \in Workers : WF_vars(WorkerEnable(w))
            /\ WF_vars(Drain)

FairSpec == Spec /\ Fairness

-----------------------------------------------------------------------------
(* Properties                                                              *)

\* The types of the variables.
TypeOK == /\ queue \in Seq(Packets)
          /\ offset \in Nat
          /\ writeEvent \in BOOLEAN
          /\ buffered \in 0 .. Room
          /\ loop \in {"Idle", "Enable", "Flush", "Test", "Disable"}
          /\ worker \in [Workers -> {"Idle", "Enable"}]
          /\ open \in BOOLEAN /\ alive \in BOOLEAN /\ stranded \in BOOLEAN
          /\ made \subseteq Packets
          /\ pushed \in Seq(Packets)
          /\ wire \in Seq(Packets \X Nat)

\* The packets that have left the queue.
Sent == Len(pushed) - Len(queue)

\* Byte c comes after byte b in the stream of the pushed packets.
IsNext(b, c) == IF b[2] < Size[b[1]]
                THEN c = <<b[1], b[2] + 1>>
                ELSE /\ c[2] = 1
                     /\ \E i \in 1 .. Len(pushed) - 1 : pushed[i] = b[1] /\ pushed[i + 1] = c[1]

\* The byte before the one that is sent next.
LastByte == IF offset > 0 THEN <<Head(queue), offset>> ELSE <<pushed[Sent], Size[pushed[Sent]]>>

\* The queue is what is left of the pushed packets, and the offset is in its front.
QueueIsRest == /\ Sent \in Nat
               /\ \A i \in 1 .. Len(queue) : queue[i] = pushed[Sent + i]
               /\ offset < IF queue = <<>> THEN 1 ELSE Size[Head(queue)]

\* FlushSend and EnqueueSend: while the session is there, what the peer gets is the
\* pushed packets, whole, once and in order up to the offset in the front of the queue,
\* however the socket cuts them and whoever pushes in between.
StreamIntact ==
  open => /\ QueueIsRest
          /\ wire = <<>> <=> Sent = 0 /\ offset = 0
          /\ wire # <<>> => wire[1] = <<pushed[1], 1>> /\ wire[Len(wire)] = LastByte
          /\ \A k \in 1 .. Len(wire) - 1 : IsNext(wire[k], wire[k + 1])

\* Somebody will look at the queue: a thread is about to enable EPOLLOUT, or the
\* GameLoop has not yet tested the queue.
Attended == \/ writeEvent
            \/ loop \in {"Enable", "Flush", "Test"}
            \/ \E w \in Workers : worker[w] = "Enable"

\* A packet that waits is attended to, unless the GameLoop turned EPOLLOUT off over it
\* and nobody has enabled it since: no other order of EnqueueSend and OnSend, with a full
\* buffer or without, leaves a packet behind.
PendingIsAttended ==
  alive /\ open /\ queue # <<>> /\ loop # "Disable" /\ ~stranded => Attended

\* OnSend runs only with EPOLLOUT on, for a session that is there.
LoopWatches == loop \in {"Flush", "Test", "Disable"} => writeEvent /\ open

\* The inductive invariant of the proofs.
IInv == TypeOK /\ LoopWatches /\ StreamIntact /\ PendingIsAttended

\* "EPOLLOUT goes off again after FlushSend": epoll does not wake the loop for ever
\* over an empty queue.
GoesQuiet == (writeEvent /\ queue = <<>>) ~> (~writeEvent \/ queue # <<>> \/ ~alive)

-----------------------------------------------------------------------------
(* What the comments of the code say, and the code does not do             *)

\* "When data wait in the send queue the watch of EPOLLOUT is turned on": between two
\* events of the loop and outside EnqueueSend, a queue with a packet in it is watched.
PendingIsWatched ==
  alive /\ open /\ queue # <<>> /\ loop = "Idle" /\ (\A w \in Workers : worker[w] = "Idle")
    => writeEvent
=============================================================================
