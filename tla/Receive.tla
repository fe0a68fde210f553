------------------------------ MODULE Receive ------------------------------
(***************************************************************************)
(* How a daemon takes packets out of what its clients send.  All four      *)
(* daemons wait for readable sockets, read chunks of BUFFER_SIZE bytes as   *)
(* long as a chunk is full, append them to the buffer of the session and   *)
(* cut packets off its front; they differ in everything else:              *)
(*                                                                         *)
(*   channel   epoll, sockets that never block, TryParse until there is no *)
(*             whole packet left;                                          *)
(*   world     select, sockets that block, one Parse per readiness;        *)
(*   login     the same, and only the last chunk reaches the buffer;       *)
(*   chat      as world, with a range-for over m_clients that the          *)
(*             disconnect erases from.                                     *)
(*                                                                         *)
(* A byte is a pair: the number of its packet in what the client sends, and *)
(* its place in the packet.  The clients are connected and numbered in the *)
(* order they came.                                                        *)
(***************************************************************************)
EXTENDS Naturals, Sequences, SequencesExt

CONSTANTS
  Packets,
  Content,      \* what each packet consists of, as the numbers a header's length would read
  Scripts,      \* what the clients may be going to send: packets for the first, the second...
  HeaderSize,   \* sizeof(PacketHeader)
  BUFFER_SIZE,  \* the size of a chunk and the largest packet
  Daemons

VARIABLES
  daemon,     \* which daemon this is
  script,     \* what each client is going to send
  polite,     \* each client waits for a packet to be handled before it sends the next
  coming,     \* the packets of each client that have not wholly arrived
  cut,        \* the bytes of the first of them that have
  net,        \* the receive buffer of each socket
  closed,     \* the client has closed its side
  clients,    \* m_clients or m_sessions, in the order they are walked
  round,      \* what this round of the loop has still to look at, as reported before it
  at,         \* the socket the loop is reading
  parsing,    \* its bytes are in the buffer of the session
  buf,        \* what OnReceive has read from it
  recvBuf,    \* m_recvBuf of each session
  up,         \* the daemon runs, and has done nothing undefined
  handled,    \* history: the packets of each client that reached their handler
  dropped     \* history: the clients that lost a chunk

rvars == <<daemon, script, polite, coming, cut, net, closed, clients, round,
           at, parsing, buf, recvBuf, up, handled, dropped>>

peer == <<script, polite, coming, cut, closed>>
histories == <<handled, dropped>>

-----------------------------------------------------------------------------
NoClient == 0

Bytes(c, k) == [j \in 1 .. Len(Content[script[c][k]]) |-> <<k, j>>]   \* packet k of client c
Length(c, b) == Content[script[c][b[1]]][b[2]]   \* hdr->length, in the first byte of a buffer
HasArrived(c) == Len(script[c]) - Len(coming[c])   \* the packets that wholly arrived

Init == /\ daemon \in Daemons
        /\ script \in Scripts
        /\ polite \in BOOLEAN /\ (daemon = "channel" => ~polite)
        /\ coming = script
        /\ cut = [c \in DOMAIN script |-> 0]
        /\ net = [c \in DOMAIN script |-> <<>>]
        /\ closed = [c \in DOMAIN script |-> FALSE]
        /\ clients = [i \in DOMAIN script |-> i]
        /\ round = <<>>
        /\ at = NoClient /\ parsing = FALSE /\ buf = <<>>
        /\ recvBuf = [c \in DOMAIN script |-> <<>>]
        /\ up = TRUE
        /\ handled = [c \in DOMAIN script |-> <<>>]
        /\ dropped = {}

IsOpen(c) == \E i \in DOMAIN clients : clients[i] = c
Idle == at = NoClient
Readable(c) == IsOpen(c) /\ (net[c] # <<>> \/ closed[c])

-----------------------------------------------------------------------------
(* The clients and the network                                             *)

\* The next byte arrives; a polite client begins a packet only when it waits for nothing.
Arrive(c) ==
  /\ IsOpen(c) /\ ~closed[c]
  /\ coming[c] # <<>>
  /\ polite /\ cut[c] = 0 => Len(handled[c]) + Len(coming[c]) = Len(script[c])
  /\ LET k == HasArrived(c) + 1
         whole == cut[c] + 1 = Len(Content[script[c][k]])
     IN  /\ net' = [net EXCEPT ![c] = Append(@, <<k, cut[c] + 1>>)]
         /\ cut' = [cut EXCEPT ![c] = IF whole THEN 0 ELSE @ + 1]
         /\ coming' = IF whole THEN [coming EXCEPT ![c] = Tail(@)] ELSE coming
  /\ UNCHANGED <<daemon, script, polite, closed, clients, round, at, parsing, buf,
                 recvBuf, up, histories>>

Close(c) == /\ IsOpen(c) /\ ~closed[c]
            /\ closed' = [closed EXCEPT ![c] = TRUE]
            /\ UNCHANGED <<daemon, script, polite, coming, cut, net, clients, round, at,
                           parsing, buf, recvBuf, up, histories>>

-----------------------------------------------------------------------------
(* The loop                                                                *)

\* select or epoll_wait returns; a select daemon will walk all its clients.
Wait == /\ up /\ Idle /\ round = <<>>
        /\ \E c \in DOMAIN script : Readable(c)
        /\ round' = [i \in DOMAIN clients |->
                       [client |-> clients[i], set |-> Readable(clients[i]),
                        hup |-> daemon = "channel" /\ closed[clients[i]]]]
        /\ UNCHANGED <<daemon, peer, net, clients, at, parsing, buf, recvBuf, up, histories>>

\* What the rest of a round is after the client that was just looked at was erased: the
\* index of the login server skips one, and so does the iterator of the chat server, which
\* then reaches the old end of the vector, where the last pointer still stands.
RestAfterErase(rest) ==
  IF rest = <<>> \/ daemon \notin {"login", "chat"} THEN rest
  ELSE IF daemon = "login" THEN Tail(rest) ELSE Append(Tail(rest), Last(rest))

\* find and erase.
Erased(s, c) == IF \E i \in DOMAIN s : s[i] = c
                THEN RemoveAt(s, CHOOSE i \in DOMAIN s : s[i] = c) ELSE s

\* OnDisconnect, or the end of ProcessClient: delete, erase and close.
Disconnect(c, rest) == /\ clients' = Erased(clients, c)
                       /\ round' = RestAfterErase(rest)
                       /\ net' = [net EXCEPT ![c] = <<>>]
                       /\ recvBuf' = [recvBuf EXCEPT ![c] = <<>>]
                       /\ at' = NoClient /\ parsing' = FALSE /\ buf' = <<>>

Looking == up /\ Idle /\ round # <<>>
Visited == Head(round).client

\* The client was not reported.
Pass == /\ Looking /\ IsOpen(Visited)
        /\ ~Head(round).set
        /\ round' = Tail(round)
        /\ UNCHANGED <<daemon, peer, net, clients, at, parsing, buf, recvBuf, up, histories>>

\* The chat server reads a client that it has deleted.
VisitDeleted == /\ Looking /\ ~IsOpen(Visited)
                /\ round' = Tail(round)
                /\ up' = FALSE
                /\ UNCHANGED <<daemon, peer, net, clients, at, parsing, buf, recvBuf, histories>>

\* EPOLLRDHUP: the channel server looks at nothing else.
HangUp == /\ Looking /\ Head(round).hup
          /\ Disconnect(Visited, Tail(round))
          /\ UNCHANGED <<daemon, peer, up, histories>>

Visit == /\ Looking /\ IsOpen(Visited)
         /\ Head(round).set /\ ~Head(round).hup
         /\ at' = Visited
         /\ round' = Tail(round)
         /\ UNCHANGED <<daemon, peer, net, clients, parsing, buf, recvBuf, up, histories>>

\* Mutant: recv is called until there is nothing left to read.
NeverTheLast(n) == FALSE

\* while (tempLen == BUFFER_SIZE)
IsLastChunk(n) == n < BUFFER_SIZE

\* Mutant: every daemon keeps the last chunk only.
KeptLast(chunk) == chunk

\* What OnReceive has after a chunk: the login server appends temp instead of buf.
Kept(chunk) == IF daemon = "login" THEN chunk ELSE buf \o chunk

\* recv of at most a chunk.
RecvSome ==
  /\ up /\ ~Idle /\ ~parsing
  /\ net[at] # <<>>
  /\ LET n == Min({Len(net[at]), BUFFER_SIZE})
         chunk == SubSeq(net[at], 1, n)
     IN  /\ net' = [net EXCEPT ![at] = SubSeq(@, n + 1, Len(@))]
         /\ dropped' = IF daemon = "login" /\ buf # <<>> THEN dropped \cup {at} ELSE dropped
         /\ parsing' = IsLastChunk(n)
         /\ IF IsLastChunk(n)
            THEN buf' = <<>> /\ recvBuf' = [recvBuf EXCEPT ![at] = @ \o Kept(chunk)]
            ELSE buf' = Kept(chunk) /\ UNCHANGED recvBuf
  /\ UNCHANGED <<daemon, peer, clients, round, at, up, handled>>

\* Mutant: EAGAIN gives up what was read.
RecvAgainForgets ==
  /\ up /\ ~Idle /\ ~parsing
  /\ daemon = "channel"
  /\ net[at] = <<>> /\ ~closed[at]
  /\ parsing' = TRUE /\ buf' = <<>>
  /\ UNCHANGED <<daemon, peer, net, clients, round, at, recvBuf, up, histories>>

\* EAGAIN.  The sockets of the other daemons block: they have no such step.
RecvAgain == /\ up /\ ~Idle /\ ~parsing
             /\ daemon = "channel"
             /\ net[at] = <<>> /\ ~closed[at]
             /\ parsing' = TRUE
             /\ recvBuf' = [recvBuf EXCEPT ![at] = @ \o buf]
             /\ buf' = <<>>
             /\ UNCHANGED <<daemon, peer, net, clients, round, at, up, histories>>

\* recv returns zero: what was read before it goes with the session.
RecvEnd == /\ up /\ ~Idle /\ ~parsing
           /\ net[at] = <<>> /\ closed[at]
           /\ Disconnect(at, round)
           /\ UNCHANGED <<daemon, peer, up, histories>>

-----------------------------------------------------------------------------
(* TryParse and Parse                                                      *)

Declared(c) == Length(c, Head(recvBuf[c]))
HasHeader(c) == Len(recvBuf[c]) >= HeaderSize
IsInvalid(c) == HasHeader(c) /\ (Declared(c) < HeaderSize \/ Declared(c) > BUFFER_SIZE)
HasPacket(c) == HasHeader(c) /\ Len(recvBuf[c]) >= Declared(c)

\* Mutant: the channel server parses once, as the others do.
HandleOnce == /\ up /\ parsing
              /\ HasPacket(at) /\ Declared(at) >= HeaderSize
              /\ daemon = "channel" => ~IsInvalid(at)
              /\ handled' = [handled EXCEPT ![at] = Append(@, SubSeq(recvBuf[at], 1, Declared(at)))]
              /\ recvBuf' = [recvBuf EXCEPT ![at] = SubSeq(@, Declared(at) + 1, Len(@))]
              /\ at' = NoClient /\ parsing' = FALSE
              /\ UNCHANGED <<daemon, peer, net, clients, round, buf, up, dropped>>

\* A packet comes off the front of the buffer and reaches its handler; the channel server
\* then looks for another.
Handle == /\ up /\ parsing
          /\ HasPacket(at) /\ Declared(at) >= HeaderSize
          /\ daemon = "channel" => ~IsInvalid(at)
          /\ handled' = [handled EXCEPT ![at] = Append(@, SubSeq(recvBuf[at], 1, Declared(at)))]
          /\ recvBuf' = [recvBuf EXCEPT ![at] = SubSeq(@, Declared(at) + 1, Len(@))]
          /\ IF daemon = "channel" THEN UNCHANGED <<at, parsing>>
                                   ELSE at' = NoClient /\ parsing' = FALSE
          /\ UNCHANGED <<daemon, peer, net, clients, round, buf, up, dropped>>

\* Mutant: the beginning of a packet is given up.
NeedMoreDataForgets ==
  /\ up /\ parsing
  /\ ~HasPacket(at)
  /\ daemon = "channel" => ~IsInvalid(at)
  /\ recvBuf' = [recvBuf EXCEPT ![at] = <<>>]
  /\ at' = NoClient /\ parsing' = FALSE
  /\ UNCHANGED <<daemon, peer, net, clients, round, buf, up, histories>>

\* There is no whole packet: what there is stays in the buffer.
NeedMoreData == /\ up /\ parsing
                /\ ~HasPacket(at)
                /\ daemon = "channel" => ~IsInvalid(at)
                /\ at' = NoClient /\ parsing' = FALSE
                /\ UNCHANGED <<daemon, peer, net, clients, round, buf, recvBuf, up, histories>>

\* The channel server closes the session.
InvalidPacket == /\ up /\ parsing /\ daemon = "channel"
                 /\ IsInvalid(at)
                 /\ Disconnect(at, round)
                 /\ UNCHANGED <<daemon, peer, up, histories>>

\* Parse makes a string of a negative length: the exception ends in main.
ParseThrows == /\ up /\ parsing /\ daemon # "channel"
               /\ HasPacket(at) /\ Declared(at) < HeaderSize
               /\ up' = FALSE
               /\ UNCHANGED <<daemon, peer, net, clients, round, at, parsing, buf,
                              recvBuf, histories>>

-----------------------------------------------------------------------------
ServerStep == \/ Wait \/ Pass \/ VisitDeleted \/ Visit \/ HangUp
              \/ RecvSome \/ RecvAgain \/ RecvEnd
              \/ Handle \/ NeedMoreData \/ InvalidPacket \/ ParseThrows

Next == ServerStep \/ \E c \in DOMAIN script : Arrive(c) \/ Close(c)

Spec == Init /\ [][Next]_rvars

-----------------------------------------------------------------------------
(* Properties                                                              *)

\* The bytes client c may send.
Byte(c) == {b \in Nat \X Nat : /\ b[1] \in 1 .. Len(script[c])
                               /\ b[2] \in 1 .. Len(Content[script[c][b[1]]])}

Report == [client : DOMAIN script, set : BOOLEAN, hup : BOOLEAN]

\* The types of the variables: what is in a client's buffers are bytes of that client.
TypeOK == LET Clients == DOMAIN script
          IN  /\ daemon \in Daemons /\ script \in Scripts /\ polite \in BOOLEAN
              /\ coming \in [Clients -> Seq(Packets)]
              /\ cut \in [Clients -> Nat]
              /\ net \in [Clients -> Seq(Nat \X Nat)]
              /\ recvBuf \in [Clients -> Seq(Nat \X Nat)]
              /\ \A c \in Clients : net[c] \in Seq(Byte(c)) /\ recvBuf[c] \in Seq(Byte(c))
              /\ closed \in [Clients -> BOOLEAN]
              /\ clients \in Seq(Clients)
              /\ round \in Seq(Report)
              /\ at \in Clients \cup {NoClient} /\ parsing \in BOOLEAN
              /\ buf \in IF at = NoClient THEN {<<>>} ELSE Seq(Byte(at))
              /\ up \in BOOLEAN
              /\ handled \in [Clients -> Seq(Seq(Nat \X Nat))]
              /\ dropped \subseteq Clients

\* OnReceive, TryParse and Parse: however the packets of a client are cut and joined on
\* their way, the handlers get them whole, once and in the order they were sent, unless a
\* receive of several chunks has lost one (the login server).
HandledAsSent ==
  \A c \in DOMAIN script \ dropped :
     handled[c] = [k \in 1 .. Len(handled[c]) |-> Bytes(c, k)]

\* The loop sits in a recv with nothing to read.
Blocked == up /\ ~Idle /\ ~parsing /\ daemon # "channel" /\ net[at] = <<>> /\ ~closed[at]

\* A daemon is left standing in a recv that blocks only after chunks that were all full,
\* or in the chat server after a client left: a client that sends less than a chunk at a
\* time keeps nobody waiting.
BlocksOnlyOnFullChunk ==
  Blocked => \/ buf # <<>> /\ Len(buf) % BUFFER_SIZE = 0
             \/ daemon = "chat" /\ Len(clients) < Len(script)

\* OnBytes: between two events the channel server keeps less than a packet of any
\* session, and nothing that can never become one.
NothingWhollyKept ==
  daemon = "channel" /\ Idle
    => \A c \in DOMAIN script : ~HasPacket(c) /\ ~IsInvalid(c)

\* Everything that has wholly arrived is handled: by the channel server whoever sends
\* what, by the others for clients that wait for their answers; but for those whose session
\* has ended or who lost a chunk, and while the daemon has stopped or stands in a recv.
AllHandled == \A c \in DOMAIN script :
                 \/ ~up \/ Blocked \/ ~IsOpen(c) \/ c \in dropped
                 \/ daemon # "channel" /\ ~polite
                 \/ Len(handled[c]) >= HasArrived(c)
=============================================================================
