-------------------------- MODULE SessionIO_proofs --------------------------
(***************************************************************************)
(* Proofs about SessionIO, for any daemons, clients, packets, sizes and    *)
(* workers: what arrives is handled whole, once and in order, and the      *)
(* sending side keeps the promises of SendQueue.                           *)
(***************************************************************************)
EXTENDS SessionIO, Integers, TLAPS

-----------------------------------------------------------------------------
(* Sequences *)

LEMMA ConcatFacts ==
  ASSUME NEW S, NEW a \in Seq(S), NEW b \in Seq(S)
  PROVE  /\ a \o b \in Seq(S) /\ Len(a \o b) = Len(a) + Len(b)
         /\ \A i \in 1 .. Len(a) : (a \o b)[i] = a[i]
         /\ \A i \in 1 .. Len(b) : (a \o b)[Len(a) + i] = b[i]
OBVIOUS

LEMMA ConcatSecond ==
  ASSUME NEW S, NEW a \in Seq(S), NEW b \in Seq(S)
  PROVE  \A i \in 1 .. Len(b) : (a \o b)[Len(a) + i] = b[i]
OBVIOUS

LEMMA AppendFacts ==
  ASSUME NEW S, NEW q \in Seq(S), NEW e \in S
  PROVE  /\ Append(q, e) \in Seq(S) /\ Len(Append(q, e)) = Len(q) + 1
         /\ \A i \in 1 .. Len(q) : Append(q, e)[i] = q[i]
         /\ Append(q, e)[Len(q) + 1] = e
OBVIOUS

LEMMA TailFacts ==
  ASSUME NEW S, NEW q \in Seq(S), q # <<>>
  PROVE  Tail(q) \in Seq(S) /\ Len(Tail(q)) = Len(q) - 1 /\ Len(q) \in Nat \ {0}
OBVIOUS

LEMMA SameSequence ==
  ASSUME NEW S, NEW a \in Seq(S), NEW b \in Seq(S), Len(a) = Len(b),
         \A i \in 1 .. Len(a) : a[i] = b[i]
  PROVE  a = b
OBVIOUS

Associates(a, b, c) == (a \o b) \o c = a \o (b \o c)

LEMMA ConcatAssociates ==
  ASSUME NEW S, NEW a \in Seq(S), NEW b \in Seq(S), NEW c \in Seq(S)
  PROVE  Associates(a, b, c)
BY DEF Associates

LEMMA SubSeqFacts ==
  ASSUME NEW S, NEW q \in Seq(S), NEW m \in 1 .. Len(q) + 1, NEW n \in 0 .. Len(q), m <= n + 1
  PROVE  /\ SubSeq(q, m, n) \in Seq(S) /\ Len(SubSeq(q, m, n)) = n - m + 1
         /\ \A i \in 1 .. n - m + 1 : SubSeq(q, m, n)[i] = q[m + i - 1]
OBVIOUS

LEMMA FrontAndRest ==
  ASSUME NEW S, NEW q \in Seq(S), NEW n \in 1 .. Len(q)
  PROVE  /\ SubSeq(q, 1, n) \in Seq(S) /\ Len(SubSeq(q, 1, n)) = n
         /\ SubSeq(q, n + 1, Len(q)) \in Seq(S)
OBVIOUS

LEMMA CutFacts ==
  ASSUME NEW S, NEW q \in Seq(S), NEW n \in 0 .. Len(q)
  PROVE  SubSeq(q, 1, n) \o SubSeq(q, n + 1, Len(q)) = q
<1>. DEFINE a == SubSeq(q, 1, n)
           b == SubSeq(q, n + 1, Len(q))
<1>1. a \in Seq(S) /\ Len(a) = n /\ b \in Seq(S) /\ Len(b) = Len(q) - n
  BY SubSeqFacts
<1>2. /\ \A i \in 1 .. n : a[i] = q[i]
      /\ \A i \in 1 .. Len(q) - n : b[i] = q[n + i]
  BY SubSeqFacts
<1>. HIDE DEF a, b
<1>3. a \o b \in Seq(S) /\ Len(a \o b) = Len(q)
  BY <1>1, ConcatFacts
<1>4. ASSUME NEW i \in 1 .. Len(q) PROVE (a \o b)[i] = q[i]
  <2>1. CASE i <= n
    BY <1>1, <1>2, <2>1
  <2>2. CASE i > n
    <3>. DEFINE d == i - n
    <3>1. d \in 1 .. Len(b) /\ i = n + d
      BY <1>1, <2>2
    <3>2. (a \o b)[Len(a) + d] = b[d]
      BY <1>1, <3>1, ConcatFacts
    <3>. QED
      BY <1>1, <1>2, <3>1, <3>2
  <2>3. i <= n \/ i > n
    OBVIOUS
  <2>. QED
    BY <2>1, <2>2, <2>3
<1>. QED
  BY <1>3, <1>4, SameSequence DEF a, b

\* No value stands twice in a sequence.
Distinct(s) == \A i, j \in 1 .. Len(s) : s[i] = s[j] => i = j

LEMMA RemoveAtFacts ==
  ASSUME NEW S, NEW s \in Seq(S), NEW k \in 1 .. Len(s)
  PROVE  /\ R!RemoveAt(s, k) \in Seq(S) /\ Len(R!RemoveAt(s, k)) = Len(s) - 1
         /\ \A i \in 1 .. k - 1 : R!RemoveAt(s, k)[i] = s[i]
         /\ \A i \in k .. Len(s) - 1 : R!RemoveAt(s, k)[i] = s[i + 1]
<1>. DEFINE a == SubSeq(s, 1, k - 1)
           b == SubSeq(s, k + 1, Len(s))
<1>1. a \in Seq(S) /\ Len(a) = k - 1 /\ b \in Seq(S) /\ Len(b) = Len(s) - k
  BY SubSeqFacts
<1>2. /\ \A i \in 1 .. k - 1 : a[i] = s[i]
      /\ \A i \in 1 .. Len(s) - k : b[i] = s[k + i]
  BY SubSeqFacts
<1>. HIDE DEF a, b
<1>3. a \o b \in Seq(S) /\ Len(a \o b) = Len(s) - 1
  <2>1. a \o b \in Seq(S) /\ Len(a \o b) = Len(a) + Len(b)
    BY <1>1, ConcatFacts
  <2>2. (k - 1) + (Len(s) - k) = Len(s) - 1
    OBVIOUS
  <2>. QED
    BY <1>1, <2>1, <2>2
<1>4. \A i \in 1 .. k - 1 : (a \o b)[i] = s[i]
  BY <1>1, <1>2
<1>5. ASSUME NEW i \in k .. Len(s) - 1 PROVE (a \o b)[i] = s[i + 1]
  <2>. DEFINE d == i - (k - 1)
  <2>1. d \in 1 .. Len(b) /\ i = Len(a) + d /\ k + d = i + 1
    BY <1>1
  <2>2. (a \o b)[Len(a) + d] = b[d]
    <3>1. a \in Seq(S) /\ b \in Seq(S) /\ d \in 1 .. Len(b)
      BY <1>1, <2>1
    <3>. HIDE DEF d
    <3>. QED
      BY <3>1, ConcatFacts
  <2>. QED
    BY <1>1, <1>2, <2>1, <2>2
<1>. QED
  BY <1>3, <1>4, <1>5 DEF R!RemoveAt, a, b

\* The vector after find and erase.
LEMMA ErasedFacts ==
  ASSUME NEW S, NEW s \in Seq(S), NEW c, Distinct(s)
  PROVE  /\ R!Erased(s, c) \in Seq(S) /\ Distinct(R!Erased(s, c))
         /\ Len(R!Erased(s, c)) <= Len(s)
         /\ (\E i \in DOMAIN s : s[i] = c) => Len(R!Erased(s, c)) < Len(s)
         /\ \A j \in 1 .. Len(R!Erased(s, c)) :
               R!Erased(s, c)[j] # c /\ \E i \in 1 .. Len(s) : s[i] = R!Erased(s, c)[j]
<1>1. CASE \E i \in DOMAIN s : s[i] = c
  <2>. DEFINE k == CHOOSE i \in DOMAIN s : s[i] = c
              t == R!RemoveAt(s, k)
  <2>1. k \in 1 .. Len(s) /\ s[k] = c
    <3>1. k \in DOMAIN s /\ s[k] = c
      BY <1>1
    <3>. QED
      BY <3>1
  <2>2. R!Erased(s, c) = t
    BY <1>1 DEF R!Erased
  <2>. HIDE DEF k
  <2>3. /\ t \in Seq(S) /\ Len(t) = Len(s) - 1
        /\ \A i \in 1 .. k - 1 : t[i] = s[i]
        /\ \A i \in k .. Len(s) - 1 : t[i] = s[i + 1]
    BY <2>1, RemoveAtFacts
  <2>. HIDE DEF t
  <2>4. ASSUME NEW j \in 1 .. Len(t)
        PROVE  \E i \in 1 .. Len(s) : i # k /\ t[j] = s[i] /\ i = IF j < k THEN j ELSE j + 1
    <3>1. CASE j < k
      BY <2>1, <2>3, <3>1
    <3>2. CASE j >= k
      BY <2>1, <2>3, <3>2
    <3>. QED
      BY <2>1, <2>3, <3>1, <3>2
  <2>5. \A j \in 1 .. Len(t) : t[j] # c /\ \E i \in 1 .. Len(s) : s[i] = t[j]
    BY <2>1, <2>4 DEF Distinct
  <2>6. Distinct(t)
    <3>. SUFFICES ASSUME NEW i \in 1 .. Len(t), NEW j \in 1 .. Len(t), t[i] = t[j]
                  PROVE  i = j
      BY DEF Distinct
    <3>1. PICK x \in 1 .. Len(s) : t[i] = s[x] /\ x = IF i < k THEN i ELSE i + 1
      BY <2>4
    <3>2. PICK y \in 1 .. Len(s) : t[j] = s[y] /\ y = IF j < k THEN j ELSE j + 1
      BY <2>4
    <3>3. x = y
      BY <3>1, <3>2 DEF Distinct
    <3>. QED
      BY <2>1, <2>3, <3>1, <3>2, <3>3
  <2>. QED
    BY <2>2, <2>3, <2>5, <2>6
<1>2. CASE ~\E i \in DOMAIN s : s[i] = c
  <2>1. R!Erased(s, c) = s
    BY <1>2 DEF R!Erased
  <2>2. \A i \in 1 .. Len(s) : s[i] # c
    BY <1>2
  <2>. QED
    BY <2>1, <2>2
<1>. QED
  BY <1>1, <1>2

-----------------------------------------------------------------------------
(* What a step does to the receiving side                                  *)

LoopStepOfReceive == \/ R!Wait \/ R!Pass \/ R!VisitDeleted \/ R!HangUp \/ R!Visit
                     \/ R!RecvSome \/ R!RecvAgain \/ R!RecvEnd
                     \/ R!Handle \/ R!NeedMoreData \/ R!InvalidPacket \/ R!ParseThrows

\* The session of client c ends: the client hung up or closed, sent what can be no packet,
\* or cannot be sent to.
SessionEnds(c, rest) == /\ R!Disconnect(c, rest)
                        /\ UNCHANGED <<daemon, script, polite, coming, cut, closed, up, handled, dropped>>

InputKinds == \/ LoopStepOfReceive
              \/ Queued /\ R!Idle /\ SessionEnds(Session, round)
              \/ \E c \in DOMAIN script : R!Arrive(c) \/ R!Close(c)
              \/ UNCHANGED input

\* The queue is written between two events, and only where there is one.
SendsBetween == /\ loop \in {"Flush", "Test", "Disable"} => R!Idle
                /\ ~Queued => /\ loop = "Idle" /\ ~writeEvent
                              /\ \A w \in Workers : worker[w] = "Idle"

LEMMA NextIsInputKind == ASSUME SendsBetween, [Next]_vars PROVE InputKinds
BY DEF SendsBetween, Next, vars, LoopStep, Receiving, Handling, Enabling, OnSend, Flushing, SendFails, Peer,
       Working, Draining, InputKinds, LoopStepOfReceive, SessionEnds

\* No client is twice in the list, and the one the loop reads from is in it.
LoopReads == /\ Distinct(clients)
             /\ at # R!NoClient => R!IsOpen(at)
             /\ at = R!NoClient => ~parsing
             /\ parsing => buf = <<>>

\* How far the packets of each client have come.
Arrivals == \A c \in DOMAIN script :
               /\ Len(coming[c]) <= Len(script[c])
               /\ IF coming[c] = <<>> THEN cut[c] = 0
                  ELSE cut[c] < Len(Content[script[c][R!HasArrived(c) + 1]])

InputSound == R!TypeOK /\ LoopReads /\ Arrivals

-----------------------------------------------------------------------------
(* Types of the receiving side                                             *)

LEMMA ScriptType ==
  ASSUME script \in Scripts
  PROVE  /\ script \in Seq(Seq(Requests)) /\ DOMAIN script = 1 .. Len(script)
         /\ R!NoClient \notin DOMAIN script
         /\ \A c \in DOMAIN script : script[c] \in Seq(Requests)
<1>1. script \in Seq(Seq(Requests))
  BY SessionAssumption
<1>. QED
  BY <1>1 DEF R!NoClient

LEMMA ContentType ==
  ASSUME script \in Scripts, NEW c \in DOMAIN script, NEW k \in 1 .. Len(script[c])
  PROVE  /\ Content[script[c][k]] \in Seq(Nat) /\ Len(Content[script[c][k]]) \in Nat \ {0}
         /\ Content[script[c][k]][1] \in Nat
         /\ \/ Content[script[c][k]][1] < HeaderSize
            \/ Content[script[c][k]][1] = Len(Content[script[c][k]])
<1>1. script[c][k] \in Requests
  BY ScriptType
<1>. DEFINE p == script[c][k]
<1>. HIDE DEF p
<1>2. /\ Content[p] \in Seq(Nat) /\ Content[p] # <<>>
      /\ Content[p][1] < HeaderSize \/ Content[p][1] = Len(Content[p])
  BY <1>1, SessionAssumption DEF p
<1>3. Len(Content[p]) \in Nat \ {0} /\ Content[p][1] \in Nat
  <2>. DEFINE q == Content[p]
  <2>1. q \in Seq(Nat) /\ q # <<>>
    BY <1>2
  <2>. HIDE DEF q
  <2>2. Len(q) \in Nat \ {0} /\ q[1] \in Nat
    BY <2>1
  <2>. QED
    BY <2>2 DEF q
<1>. QED
  BY <1>2, <1>3 DEF p

LEMMA SameBytes ==
  ASSUME script' = script
  PROVE  /\ \A c : R!Byte(c)' = R!Byte(c)
         /\ R!Byte(at)' = R!Byte(at')
         /\ R!Report' = R!Report
BY DEF R!Byte, R!Report

LEMMA ByteIsPair == \A c : R!Byte(c) \subseteq Nat \X Nat
BY DEF R!Byte

LEMMA DeclaredType ==
  ASSUME R!TypeOK, NEW c \in DOMAIN script, R!HasHeader(c)
  PROVE  R!Declared(c) \in Nat
<1>1. recvBuf[c] # <<>> /\ Head(recvBuf[c]) \in R!Byte(c)
  <2>1. recvBuf[c] \in Seq(R!Byte(c)) /\ Len(recvBuf[c]) >= HeaderSize
    BY DEF R!TypeOK, R!HasHeader
  <2>. QED
    BY <2>1, SessionAssumption
<1>. DEFINE b == Head(recvBuf[c])
<1>2. b[1] \in 1 .. Len(script[c]) /\ b[2] \in 1 .. Len(Content[script[c][b[1]]])
  BY <1>1 DEF R!Byte
<1>3. Content[script[c][b[1]]] \in Seq(Nat)
  BY <1>2, ContentType DEF R!TypeOK
<1>. HIDE DEF b
<1>4. Content[script[c][b[1]]][b[2]] \in Nat
  BY <1>2, <1>3
<1>. QED
  BY <1>4 DEF R!Declared, R!Length, b

LEMMA RestType ==
  ASSUME NEW S, NEW rest \in Seq(S)
  PROVE  R!RestAfterErase(rest) \in Seq(S)
<1>1. CASE rest = <<>>
  BY <1>1 DEF R!RestAfterErase
<1>2. CASE rest # <<>>
  <2>1. Tail(rest) \in Seq(S) /\ R!Last(rest) \in S
    BY <1>2 DEF R!Last
  <2>. QED
    BY <1>2, <2>1 DEF R!RestAfterErase
<1>. QED
  BY <1>1, <1>2

LEMMA EndsSound ==
  ASSUME InputSound, NEW c, NEW rest \in Seq(R!Report), SessionEnds(c, rest)
  PROVE  InputSound' /\ ~R!IsOpen(c)' /\ \A d : R!IsOpen(d)' => d # c /\ R!IsOpen(d)
<1>0. Distinct(clients) /\ clients \in Seq(DOMAIN script) /\ clients' = R!Erased(clients, c)
  BY DEF LoopReads, R!TypeOK, SessionEnds, R!Disconnect, InputSound
<1>1. /\ clients' \in Seq(DOMAIN script) /\ Distinct(clients')
      /\ \A j \in 1 .. Len(clients') : clients'[j] # c /\ \E i \in 1 .. Len(clients) : clients[i] = clients'[j]
  BY <1>0, ErasedFacts
<1>. USE DEF R!TypeOK, SessionEnds, R!Disconnect, InputSound
<1>2. ~R!IsOpen(c)' /\ \A d : R!IsOpen(d)' => d # c /\ R!IsOpen(d)
  <2>1. DOMAIN clients' = 1 .. Len(clients') /\ DOMAIN clients = 1 .. Len(clients)
    BY <1>0, <1>1
  <2>. QED
    BY <1>1, <2>1 DEF R!IsOpen
<1>3. round' \in Seq(R!Report)
  BY RestType
<1>4. /\ net' \in [DOMAIN script -> Seq(Nat \X Nat)] /\ recvBuf' \in [DOMAIN script -> Seq(Nat \X Nat)]
      /\ \A d \in DOMAIN script : net'[d] \in Seq(R!Byte(d)) /\ recvBuf'[d] \in Seq(R!Byte(d))
  <2>1. <<>> \in Seq(Nat \X Nat) /\ \A d : <<>> \in Seq(R!Byte(d))
    OBVIOUS
  <2>. QED
    BY <2>1
<1>5. R!TypeOK'
  BY <1>1, <1>3, <1>4, SameBytes
<1>6. LoopReads'
  BY <1>1 DEF LoopReads
<1>7. Arrivals'
  BY DEF Arrivals, R!HasArrived
<1>. QED
  BY <1>2, <1>5, <1>6, <1>7

\* What no step but an arrival or the end of a session changes.
Calm == UNCHANGED <<daemon, script, polite, coming, cut, closed, clients>>

LEMMA CalmKeeps ==
  ASSUME InputSound, Calm
  PROVE  /\ Arrivals' /\ Distinct(clients)' /\ \A c : R!IsOpen(c)' = R!IsOpen(c)
         /\ daemon' \in Daemons /\ script' \in Scripts /\ polite' \in BOOLEAN
         /\ DOMAIN script' = DOMAIN script
         /\ coming' \in [DOMAIN script -> Seq(Requests)] /\ cut' \in [DOMAIN script -> Nat]
         /\ closed' \in [DOMAIN script -> BOOLEAN] /\ clients' \in Seq(DOMAIN script)
         /\ \A c : R!Byte(c)' = R!Byte(c)
         /\ R!Byte(at)' = R!Byte(at') /\ R!Report' = R!Report
<1>1. Arrivals'
  BY DEF Calm, InputSound, Arrivals, R!HasArrived
<1>2. Distinct(clients)' /\ \A c : R!IsOpen(c)' = R!IsOpen(c)
  BY DEF Calm, InputSound, LoopReads, Distinct, R!IsOpen
<1>. QED
  BY <1>1, <1>2, SameBytes DEF Calm, InputSound, R!TypeOK

LEMMA FrontType ==
  ASSUME InputSound, round # <<>>
  PROVE  /\ Head(round) \in R!Report /\ R!Visited \in DOMAIN script
         /\ Tail(round) \in Seq(R!Report)
<1>1. round \in Seq(R!Report)
  BY DEF InputSound, R!TypeOK
<1>2. Head(round) \in R!Report /\ Tail(round) \in Seq(R!Report)
  BY <1>1
<1>. QED
  BY <1>2 DEF R!Visited, R!Report

\* The loop looks at the next client, or leaves one.
LEMMA LookingSound ==
  ASSUME InputSound, R!Wait \/ R!Pass \/ R!VisitDeleted \/ R!Visit \/ R!NeedMoreData \/ R!ParseThrows
  PROVE  InputSound'
<1>1. Calm /\ UNCHANGED <<net, buf, recvBuf, handled, dropped>>
  BY DEF R!Wait, R!Pass, R!VisitDeleted, R!Visit, R!NeedMoreData, R!ParseThrows, Calm, R!peer, R!histories
<1>2. round' \in Seq(R!Report)
  <2>1. CASE R!Wait
    <3>1. clients \in Seq(DOMAIN script) /\ DOMAIN clients = 1 .. Len(clients)
      BY DEF InputSound, R!TypeOK
    <3>2. \A c : R!Readable(c) \in BOOLEAN
      BY DEF R!Readable, R!IsOpen
    <3>3. \A c \in DOMAIN script : (daemon = "channel" /\ closed[c]) \in BOOLEAN
      BY DEF InputSound, R!TypeOK
    <3>4. \A i \in 1 .. Len(clients) :
             [client |-> clients[i], set |-> R!Readable(clients[i]),
              hup |-> daemon = "channel" /\ closed[clients[i]]] \in R!Report
      BY <3>1, <3>2, <3>3 DEF R!Report
    <3>5. round' = [i \in 1 .. Len(clients) |->
             [client |-> clients[i], set |-> R!Readable(clients[i]),
              hup |-> daemon = "channel" /\ closed[clients[i]]]]
      BY <2>1, <3>1 DEF R!Wait
    <3>. QED
      BY <3>1, <3>4, <3>5
  <2>2. CASE R!Pass \/ R!VisitDeleted \/ R!Visit
    BY <2>2, FrontType DEF R!Pass, R!VisitDeleted, R!Visit, R!Looking
  <2>3. CASE R!NeedMoreData \/ R!ParseThrows
    BY <2>3 DEF R!NeedMoreData, R!ParseThrows, InputSound, R!TypeOK
  <2>. QED
    BY <2>1, <2>2, <2>3
<1>3. CASE UNCHANGED <<at, parsing>>
  <2>1. LoopReads'
    BY <1>1, <1>3, CalmKeeps DEF InputSound, LoopReads
  <2>2. up' \in BOOLEAN
    BY DEF InputSound, R!TypeOK, R!Wait, R!Pass, R!VisitDeleted, R!Visit, R!NeedMoreData, R!ParseThrows
  <2>3. R!TypeOK'
    BY <1>1, <1>2, <1>3, <2>2, CalmKeeps DEF InputSound, R!TypeOK
  <2>. QED
    BY <1>1, <2>1, <2>3, CalmKeeps DEF InputSound
<1>4. CASE R!Visit
  <2>1. /\ at = R!NoClient /\ buf = <<>> /\ ~parsing /\ parsing' = parsing
        /\ at' \in DOMAIN script /\ R!IsOpen(at')
    BY <1>4, FrontType DEF R!Visit, R!Looking, R!Idle, InputSound, R!TypeOK, LoopReads
  <2>2. LoopReads'
    BY <1>1, <2>1, CalmKeeps DEF LoopReads
  <2>3. buf' \in Seq(R!Byte(at'))
    BY <1>1, <2>1
  <2>4. R!TypeOK'
    BY <1>1, <1>2, <1>4, <2>1, <2>3, CalmKeeps, ScriptType DEF InputSound, R!TypeOK, R!Visit
  <2>. QED
    BY <1>1, <2>2, <2>4, CalmKeeps DEF InputSound
<1>5. CASE R!NeedMoreData
  <2>1. at' = R!NoClient /\ ~parsing' /\ buf' = <<>>
    BY <1>1, <1>5 DEF R!NeedMoreData, InputSound, LoopReads
  <2>2. LoopReads'
    BY <1>1, <2>1, CalmKeeps DEF LoopReads
  <2>3. R!TypeOK'
    BY <1>1, <1>2, <1>5, <2>1, CalmKeeps DEF InputSound, R!TypeOK, R!NeedMoreData
  <2>. QED
    BY <1>1, <2>2, <2>3, CalmKeeps DEF InputSound
<1>. QED
  BY <1>3, <1>4, <1>5 DEF R!Wait, R!Pass, R!VisitDeleted, R!ParseThrows

LEMMA MinOfTwo ==
  ASSUME NEW a \in Nat, NEW b \in Nat
  PROVE  R!Min({a, b}) \in {a, b} /\ R!Min({a, b}) <= a /\ R!Min({a, b}) <= b
<1>1. \E x \in {a, b} : \A y \in {a, b} : x <= y
  <2>1. a <= b \/ b <= a
    OBVIOUS
  <2>. QED
    BY <2>1
<1>. QED
  BY <1>1 DEF R!Min

\* One recv, and what it leaves.
LEMMA ChunkFacts ==
  ASSUME InputSound, R!RecvSome
  PROVE  /\ Calm /\ UNCHANGED <<round, at, up, handled>> /\ at \in DOMAIN script /\ ~parsing
         /\ net' = [net EXCEPT ![at] = net'[at]]
         /\ \E chunk, kept \in Seq(R!Byte(at)) :
              /\ net'[at] \in Seq(R!Byte(at)) /\ net[at] = chunk \o net'[at] /\ chunk # <<>>
              /\ kept = R!Kept(chunk)
              /\ \/ /\ parsing' = TRUE /\ buf' = <<>>
                    /\ recvBuf' = [recvBuf EXCEPT ![at] = @ \o kept]
                 \/ /\ parsing' = FALSE /\ buf' = kept /\ recvBuf' = recvBuf
              /\ dropped' = IF daemon = "login" /\ buf # <<>> THEN dropped \cup {at} ELSE dropped
<1>. DEFINE n == R!Min({Len(net[at]), BUFFER_SIZE})
            chunk == SubSeq(net[at], 1, n)
            rest == SubSeq(net[at], n + 1, Len(net[at]))
<1>1. /\ Calm /\ UNCHANGED <<round, at, up, handled>> /\ ~parsing
      /\ at \in DOMAIN script /\ net[at] # <<>>
  BY DEF R!RecvSome, R!peer, R!Idle, Calm, InputSound, R!TypeOK
<1>2. /\ net[at] \in Seq(R!Byte(at)) /\ buf \in Seq(R!Byte(at))
      /\ net \in [DOMAIN script -> Seq(Nat \X Nat)]
  BY <1>1, ScriptType DEF InputSound, R!TypeOK
<1>3. n \in 1 .. Len(net[at])
  <2>1. Len(net[at]) \in Nat \ {0}
    BY <1>1, <1>2
  <2>2. BUFFER_SIZE \in Nat \ {0}
    BY SessionAssumption
  <2>. QED
    BY <2>1, <2>2, MinOfTwo
<1>4. /\ net' = [net EXCEPT ![at] = rest]
      /\ dropped' = IF daemon = "login" /\ buf # <<>> THEN dropped \cup {at} ELSE dropped
      /\ parsing' = R!IsLastChunk(n)
      /\ IF R!IsLastChunk(n)
         THEN buf' = <<>> /\ recvBuf' = [recvBuf EXCEPT ![at] = @ \o R!Kept(chunk)]
         ELSE buf' = R!Kept(chunk) /\ recvBuf' = recvBuf
  BY DEF R!RecvSome
<1>. HIDE DEF n
<1>5. /\ chunk \in Seq(R!Byte(at)) /\ rest \in Seq(R!Byte(at))
      /\ chunk \o rest = net[at] /\ Len(chunk) = n
  <2>. DEFINE q == net[at]
              S == R!Byte(at)
  <2>1. q \in Seq(S) /\ n \in 1 .. Len(q)
    BY <1>2, <1>3
  <2>. HIDE DEF q, S
  <2>2. SubSeq(q, 1, n) \in Seq(S) /\ Len(SubSeq(q, 1, n)) = n /\ SubSeq(q, n + 1, Len(q)) \in Seq(S)
    BY <2>1, FrontAndRest
  <2>3. SubSeq(q, 1, n) \o SubSeq(q, n + 1, Len(q)) = q
    BY <2>1, CutFacts
  <2>. QED
    BY <2>2, <2>3 DEF q, S
<1>. HIDE DEF chunk, rest
<1>6. R!Kept(chunk) \in Seq(R!Byte(at))
  BY <1>2, <1>5, ConcatFacts DEF R!Kept
<1>7. net'[at] = rest /\ chunk # <<>>
  BY <1>1, <1>2, <1>3, <1>4, <1>5
<1>8. R!IsLastChunk(n) \in BOOLEAN
  BY DEF R!IsLastChunk
<1>9. /\ net'[at] \in Seq(R!Byte(at)) /\ net[at] = chunk \o net'[at] /\ chunk # <<>>
      /\ \/ /\ parsing' = TRUE /\ buf' = <<>>
            /\ recvBuf' = [recvBuf EXCEPT ![at] = @ \o R!Kept(chunk)]
         \/ /\ parsing' = FALSE /\ buf' = R!Kept(chunk) /\ recvBuf' = recvBuf
  BY <1>4, <1>5, <1>7, <1>8
<1>10. net' = [net EXCEPT ![at] = net'[at]]
  BY <1>4, <1>7
<1>. QED
  BY <1>1, <1>4, <1>5, <1>6, <1>9, <1>10

LEMMA RecvSomeSound ==
  ASSUME InputSound, R!RecvSome
  PROVE  InputSound'
<1>1. PICK chunk, kept \in Seq(R!Byte(at)) :
         /\ net'[at] \in Seq(R!Byte(at))
         /\ \/ /\ parsing' = TRUE /\ buf' = <<>>
               /\ recvBuf' = [recvBuf EXCEPT ![at] = @ \o kept]
            \/ /\ parsing' = FALSE /\ buf' = kept /\ recvBuf' = recvBuf
         /\ dropped' = IF daemon = "login" /\ buf # <<>> THEN dropped \cup {at} ELSE dropped
  BY ChunkFacts
<1>2. /\ Calm /\ UNCHANGED <<round, at, up, handled>> /\ at \in DOMAIN script
      /\ net' = [net EXCEPT ![at] = net'[at]]
  BY ChunkFacts
<1>3. at # R!NoClient
  BY <1>2, ScriptType DEF InputSound, R!TypeOK
<1>4. recvBuf[at] \in Seq(R!Byte(at)) /\ recvBuf[at] \o kept \in Seq(R!Byte(at))
  BY <1>2, ConcatFacts DEF InputSound, R!TypeOK
<1>5. \A q \in Seq(R!Byte(at)) : q \in Seq(Nat \X Nat)
  BY ByteIsPair
<1>6. /\ net' \in [DOMAIN script -> Seq(Nat \X Nat)]
      /\ \A c \in DOMAIN script : net'[c] \in Seq(R!Byte(c))
  BY <1>1, <1>2, <1>5 DEF InputSound, R!TypeOK
<1>7. /\ recvBuf' \in [DOMAIN script -> Seq(Nat \X Nat)]
      /\ \A c \in DOMAIN script : recvBuf'[c] \in Seq(R!Byte(c))
  BY <1>1, <1>2, <1>4, <1>5 DEF InputSound, R!TypeOK
<1>8. buf' \in Seq(R!Byte(at)) /\ parsing' \in BOOLEAN /\ (parsing' => buf' = <<>>)
  <2>1. <<>> \in Seq(R!Byte(at))
    OBVIOUS
  <2>. QED
    BY <1>1, <2>1
<1>9. LoopReads'
  BY <1>2, <1>3, <1>8, CalmKeeps DEF InputSound, LoopReads
<1>10. R!TypeOK'
  <2>1. dropped' \subseteq DOMAIN script
    BY <1>1, <1>2 DEF InputSound, R!TypeOK
  <2>. QED
    BY <1>2, <1>3, <1>6, <1>7, <1>8, <2>1, CalmKeeps DEF InputSound, R!TypeOK
<1>. QED
  BY <1>2, <1>9, <1>10, CalmKeeps DEF InputSound

LEMMA RecvAgainSound ==
  ASSUME InputSound, R!RecvAgain
  PROVE  /\ InputSound' /\ Calm /\ UNCHANGED <<round, at, up, handled, dropped, net>>
         /\ at \in DOMAIN script /\ buf \in Seq(R!Byte(at)) /\ buf' = <<>> /\ parsing' = TRUE
         /\ recvBuf' = [recvBuf EXCEPT ![at] = @ \o buf]
<1>1. /\ Calm /\ UNCHANGED <<round, at, up, handled, dropped, net>>
      /\ at # R!NoClient /\ at \in DOMAIN script
      /\ recvBuf' = [recvBuf EXCEPT ![at] = @ \o buf] /\ buf' = <<>> /\ parsing' = TRUE
  BY DEF R!RecvAgain, R!peer, R!histories, R!Idle, Calm, InputSound, R!TypeOK
<1>2. buf \in Seq(R!Byte(at)) /\ recvBuf[at] \in Seq(R!Byte(at))
  BY <1>1 DEF InputSound, R!TypeOK
<1>3. recvBuf[at] \o buf \in Seq(R!Byte(at)) /\ recvBuf[at] \o buf \in Seq(Nat \X Nat)
  <2>1. \A q \in Seq(R!Byte(at)) : q \in Seq(Nat \X Nat)
    BY ByteIsPair
  <2>. QED
    BY <1>2, <2>1, ConcatFacts
<1>4. /\ recvBuf' \in [DOMAIN script -> Seq(Nat \X Nat)]
      /\ \A c \in DOMAIN script : recvBuf'[c] \in Seq(R!Byte(c))
  BY <1>1, <1>3 DEF InputSound, R!TypeOK
<1>5. LoopReads'
  BY <1>1, CalmKeeps DEF InputSound, LoopReads
<1>6. R!TypeOK'
  <2>1. buf' \in Seq(R!Byte(at))
    BY <1>1
  <2>. QED
    BY <1>1, <1>4, <2>1, CalmKeeps DEF InputSound, R!TypeOK
<1>. QED
  BY <1>1, <1>2, <1>5, <1>6, CalmKeeps DEF InputSound

LEMMA HandleFacts ==
  ASSUME InputSound, R!Handle
  PROVE  /\ Calm /\ UNCHANGED <<round, up, dropped, net, buf>> /\ at \in DOMAIN script
         /\ parsing /\ buf = <<>> /\ recvBuf[at] \in Seq(R!Byte(at))
         /\ R!Declared(at) \in 1 .. Len(recvBuf[at]) /\ R!Declared(at) >= HeaderSize
         /\ handled' = [handled EXCEPT ![at] = Append(@, SubSeq(recvBuf[at], 1, R!Declared(at)))]
         /\ recvBuf' = [recvBuf EXCEPT ![at] = SubSeq(@, R!Declared(at) + 1, Len(@))]
         /\ UNCHANGED <<at, parsing>> \/ (at' = R!NoClient /\ parsing' = FALSE)
<1>1. /\ Calm /\ UNCHANGED <<round, up, dropped, net, buf>> /\ parsing
      /\ handled' = [handled EXCEPT ![at] = Append(@, SubSeq(recvBuf[at], 1, R!Declared(at)))]
      /\ recvBuf' = [recvBuf EXCEPT ![at] = SubSeq(@, R!Declared(at) + 1, Len(@))]
      /\ R!HasPacket(at) /\ R!Declared(at) >= HeaderSize
      /\ UNCHANGED <<at, parsing>> \/ (at' = R!NoClient /\ parsing' = FALSE)
  BY DEF R!Handle, R!peer, Calm
<1>2. at \in DOMAIN script /\ recvBuf[at] \in Seq(R!Byte(at)) /\ buf = <<>>
  BY <1>1 DEF InputSound, R!TypeOK, LoopReads
<1>3. R!Declared(at) \in Nat /\ R!Declared(at) <= Len(recvBuf[at])
  BY <1>1, <1>2, DeclaredType DEF InputSound, R!HasPacket
<1>4. R!Declared(at) \in 1 .. Len(recvBuf[at])
  BY <1>1, <1>2, <1>3, SessionAssumption
<1>. QED
  BY <1>1, <1>2, <1>4

LEMMA HandleSound ==
  ASSUME InputSound, R!Handle
  PROVE  InputSound'
<1>. DEFINE D == R!Declared(at)
            packet == SubSeq(recvBuf[at], 1, D)
            rest == SubSeq(recvBuf[at], D + 1, Len(recvBuf[at]))
<1>1. /\ Calm /\ UNCHANGED <<round, up, dropped, net, buf>> /\ at \in DOMAIN script
      /\ parsing /\ buf = <<>> /\ recvBuf[at] \in Seq(R!Byte(at))
      /\ D \in 1 .. Len(recvBuf[at])
      /\ handled' = [handled EXCEPT ![at] = Append(@, packet)]
      /\ recvBuf' = [recvBuf EXCEPT ![at] = rest]
      /\ UNCHANGED <<at, parsing>> \/ (at' = R!NoClient /\ parsing' = FALSE)
  BY HandleFacts
<1>. HIDE DEF D
<1>2. packet \in Seq(R!Byte(at)) /\ rest \in Seq(R!Byte(at))
  BY <1>1, SubSeqFacts
<1>. HIDE DEF packet, rest
<1>3. \A q \in Seq(R!Byte(at)) : q \in Seq(Nat \X Nat)
  BY ByteIsPair
<1>4. /\ recvBuf' \in [DOMAIN script -> Seq(Nat \X Nat)]
      /\ \A c \in DOMAIN script : recvBuf'[c] \in Seq(R!Byte(c))
  BY <1>1, <1>2, <1>3 DEF InputSound, R!TypeOK
<1>5. handled' \in [DOMAIN script -> Seq(Seq(Nat \X Nat))]
  <2>1. handled[at] \in Seq(Seq(Nat \X Nat)) /\ packet \in Seq(Nat \X Nat)
    BY <1>1, <1>2, <1>3 DEF InputSound, R!TypeOK
  <2>2. Append(handled[at], packet) \in Seq(Seq(Nat \X Nat))
    BY <2>1
  <2>. QED
    BY <1>1, <2>2 DEF InputSound, R!TypeOK
<1>6. LoopReads'
  BY <1>1, CalmKeeps DEF InputSound, LoopReads
<1>7. buf' \in IF at' = R!NoClient THEN {<<>>} ELSE Seq(R!Byte(at)')
  <2>1. <<>> \in Seq(R!Byte(at)')
    OBVIOUS
  <2>. QED
    BY <1>1, <2>1
<1>8. R!TypeOK'
  BY <1>1, <1>4, <1>5, <1>7, CalmKeeps DEF InputSound, R!TypeOK
<1>. QED
  BY <1>1, <1>6, <1>8, CalmKeeps DEF InputSound

\* The steps that end a session.
LEMMA WhoEnds ==
  ASSUME InputSound, R!HangUp \/ R!RecvEnd \/ R!InvalidPacket
  PROVE  \E c \in DOMAIN script : \E rest \in Seq(R!Report) : SessionEnds(c, rest)
<1>1. CASE R!HangUp
  <2>1. R!Visited \in DOMAIN script /\ Tail(round) \in Seq(R!Report)
    BY <1>1, FrontType DEF R!HangUp, R!Looking
  <2>2. SessionEnds(R!Visited, Tail(round))
    BY <1>1 DEF R!HangUp, SessionEnds, R!peer, R!histories
  <2>. QED
    BY <2>1, <2>2
<1>2. CASE R!RecvEnd \/ R!InvalidPacket
  <2>1. at \in DOMAIN script /\ round \in Seq(R!Report)
    BY <1>2 DEF R!RecvEnd, R!InvalidPacket, R!Idle, InputSound, R!TypeOK, LoopReads
  <2>2. SessionEnds(at, round)
    BY <1>2 DEF R!RecvEnd, R!InvalidPacket, SessionEnds, R!peer, R!histories
  <2>. QED
    BY <2>1, <2>2
<1>. QED
  BY <1>1, <1>2

LEMMA OneMoreArrived ==
  ASSUME NEW m \in Nat, NEW n \in Nat
  PROVE  m - (n - 1) = m - n + 1
OBVIOUS

LEMMA ArriveFacts ==
  ASSUME InputSound, NEW c \in DOMAIN script, R!Arrive(c)
  PROVE  LET k == R!HasArrived(c) + 1
             len == Len(Content[script[c][k]])
         IN  /\ UNCHANGED <<daemon, script, polite, closed, clients, round, at, parsing, buf,
                            recvBuf, up, handled, dropped>>
             /\ k \in 1 .. Len(script[c]) /\ len \in Nat \ {0} /\ cut[c] \in 0 .. len - 1
             /\ <<k, cut[c] + 1>> \in R!Byte(c)
             /\ net' = [net EXCEPT ![c] = Append(@, <<k, cut[c] + 1>>)]
             /\ R!IsOpen(c)
             /\ \/ /\ cut[c] + 1 = len /\ cut' = [cut EXCEPT ![c] = 0]
                   /\ coming' = [coming EXCEPT ![c] = Tail(@)] /\ R!HasArrived(c)' = k
                \/ /\ cut[c] + 1 < len /\ cut' = [cut EXCEPT ![c] = @ + 1]
                   /\ coming' = coming /\ R!HasArrived(c)' = R!HasArrived(c)
             /\ \A d \in DOMAIN script \ {c} : R!HasArrived(d)' = R!HasArrived(d)
<1>. DEFINE k == R!HasArrived(c) + 1
            len == Len(Content[script[c][k]])
<1>1. /\ UNCHANGED <<daemon, script, polite, closed, clients, round, at, parsing, buf,
                     recvBuf, up, handled, dropped>>
      /\ coming[c] # <<>> /\ R!IsOpen(c)
      /\ net' = [net EXCEPT ![c] = Append(@, <<k, cut[c] + 1>>)]
      /\ cut' = [cut EXCEPT ![c] = IF cut[c] + 1 = len THEN 0 ELSE @ + 1]
      /\ coming' = IF cut[c] + 1 = len THEN [coming EXCEPT ![c] = Tail(@)] ELSE coming
  BY DEF R!Arrive, R!histories
<1>2. /\ script \in Scripts /\ script[c] \in Seq(Requests)
      /\ coming \in [DOMAIN script -> Seq(Requests)] /\ cut \in [DOMAIN script -> Nat]
  BY ScriptType DEF InputSound, R!TypeOK
<1>3. /\ Len(coming[c]) \in 1 .. Len(script[c]) /\ cut[c] < len
  BY <1>1, <1>2 DEF InputSound, Arrivals
<1>4. k \in 1 .. Len(script[c])
  BY <1>2, <1>3 DEF R!HasArrived
<1>5. len \in Nat \ {0}
  BY <1>2, <1>4, ContentType
<1>6. <<k, cut[c] + 1>> \in R!Byte(c)
  BY <1>2, <1>3, <1>4, <1>5 DEF R!Byte
<1>7. \A d \in DOMAIN script \ {c} : R!HasArrived(d)' = R!HasArrived(d)
  BY <1>1, <1>2 DEF R!HasArrived
<1>8. CASE cut[c] + 1 = len
  <2>1. coming'[c] = Tail(coming[c]) /\ Len(Tail(coming[c])) = Len(coming[c]) - 1
    BY <1>1, <1>2, <1>8
  <2>2. R!HasArrived(c)' = k
    <3>1. R!HasArrived(c)' = Len(script[c]) - Len(coming'[c])
      BY <1>1 DEF R!HasArrived
    <3>2. R!HasArrived(c) = Len(script[c]) - Len(coming[c])
      BY DEF R!HasArrived
    <3>3. Len(script[c]) \in Nat /\ Len(coming[c]) \in Nat
      BY <1>2, <1>3
    <3>4. Len(script[c]) - (Len(coming[c]) - 1) = Len(script[c]) - Len(coming[c]) + 1
      BY <3>3, OneMoreArrived
    <3>5. R!HasArrived(c)' = R!HasArrived(c) + 1
      BY <2>1, <3>1, <3>2, <3>4
    <3>. QED
      BY <3>5
  <2>. QED
    BY <1>1, <1>2, <1>3, <1>4, <1>5, <1>6, <1>7, <1>8, <2>2
<1>9. CASE cut[c] + 1 # len
  <2>1. cut[c] + 1 < len /\ coming' = coming
    BY <1>1, <1>2, <1>3, <1>5, <1>9
  <2>2. R!HasArrived(c)' = R!HasArrived(c)
    BY <1>1, <2>1 DEF R!HasArrived
  <2>. QED
    BY <1>1, <1>2, <1>3, <1>4, <1>5, <1>6, <1>7, <1>9, <2>1, <2>2
<1>. QED
  BY <1>8, <1>9

LEMMA ArriveSound ==
  ASSUME InputSound, NEW c \in DOMAIN script, R!Arrive(c)
  PROVE  InputSound'
<1>. DEFINE k == R!HasArrived(c) + 1
            len == Len(Content[script[c][k]])
<1>1. /\ UNCHANGED <<daemon, script, polite, closed, clients, round, at, parsing, buf,
                     recvBuf, up, handled, dropped>>
      /\ k \in 1 .. Len(script[c]) /\ len \in Nat \ {0} /\ cut[c] \in 0 .. len - 1
      /\ <<k, cut[c] + 1>> \in R!Byte(c)
      /\ net' = [net EXCEPT ![c] = Append(@, <<k, cut[c] + 1>>)]
      /\ \/ /\ cut[c] + 1 = len /\ cut' = [cut EXCEPT ![c] = 0]
            /\ coming' = [coming EXCEPT ![c] = Tail(@)] /\ R!HasArrived(c)' = k
         \/ /\ cut[c] + 1 < len /\ cut' = [cut EXCEPT ![c] = @ + 1]
            /\ coming' = coming /\ R!HasArrived(c)' = R!HasArrived(c)
      /\ \A d \in DOMAIN script \ {c} : R!HasArrived(d)' = R!HasArrived(d)
  BY ArriveFacts
<1>2. /\ script \in Scripts /\ script[c] \in Seq(Requests)
      /\ coming \in [DOMAIN script -> Seq(Requests)] /\ cut \in [DOMAIN script -> Nat]
      /\ net \in [DOMAIN script -> Seq(Nat \X Nat)]
      /\ \A d \in DOMAIN script : net[d] \in Seq(R!Byte(d))
  BY ScriptType DEF InputSound, R!TypeOK
<1>. DEFINE byte == <<k, cut[c] + 1>>
<1>3. /\ Append(net[c], byte) \in Seq(R!Byte(c)) /\ Append(net[c], byte) \in Seq(Nat \X Nat)
  <2>1. byte \in R!Byte(c) /\ byte \in Nat \X Nat
    BY <1>1, ByteIsPair
  <2>2. net[c] \in Seq(R!Byte(c)) /\ net[c] \in Seq(Nat \X Nat)
    BY <1>2
  <2>. HIDE DEF byte
  <2>. QED
    BY <2>1, <2>2, AppendFacts
<1>4. coming[c] # <<>> /\ Len(coming[c]) = Len(script[c]) - R!HasArrived(c) /\ Len(coming[c]) \in Nat
  <2>1. coming[c] # <<>>
    BY DEF R!Arrive
  <2>2. Len(coming[c]) \in Nat /\ Len(script[c]) \in Nat
    BY <1>2
  <2>3. \A m, n \in Nat : n = m - (m - n)
    OBVIOUS
  <2>. QED
    BY <2>1, <2>2, <2>3 DEF R!HasArrived
<1>5. Tail(coming[c]) \in Seq(Requests) /\ Len(Tail(coming[c])) = Len(coming[c]) - 1
  <2>1. coming[c] \in Seq(Requests)
    BY <1>2
  <2>. QED
    BY <1>4, <2>1, TailFacts
<1>. HIDE DEF k, len, byte
<1>6. /\ coming' \in [DOMAIN script -> Seq(Requests)] /\ cut' \in [DOMAIN script -> Nat]
  <2>1. cut[c] + 1 \in Nat
    BY <1>2
  <2>2. /\ coming' = coming \/ coming' = [coming EXCEPT ![c] = Tail(@)]
        /\ \/ cut' = [cut EXCEPT ![c] = 0]
           \/ cut' = [cut EXCEPT ![c] = @ + 1]
    BY <1>1
  <2>3. coming' \in [DOMAIN script -> Seq(Requests)]
    BY <1>2, <1>5, <2>2
  <2>4. CASE cut' = [cut EXCEPT ![c] = 0]
    BY <1>2, <2>3, <2>4
  <2>5. CASE cut' = [cut EXCEPT ![c] = @ + 1]
    <3>1. cut' = [cut EXCEPT ![c] = cut[c] + 1]
      BY <2>5
    <3>. QED
      BY <1>2, <2>1, <2>3, <3>1
  <2>. QED
    BY <2>2, <2>4, <2>5
<1>. DEFINE stream == Append(net[c], byte)
<1>7. /\ net' \in [DOMAIN script -> Seq(Nat \X Nat)]
      /\ \A d \in DOMAIN script : net'[d] \in Seq(R!Byte(d))
  <2>1. net' = [net EXCEPT ![c] = stream]
    BY <1>1 DEF byte
  <2>. HIDE DEF stream
  <2>2. stream \in Seq(R!Byte(c)) /\ stream \in Seq(Nat \X Nat)
    BY <1>3 DEF stream
  <2>. QED
    BY <1>2, <2>1, <2>2
<1>8. R!TypeOK'
  BY <1>1, <1>6, <1>7, SameBytes DEF InputSound, R!TypeOK
<1>9. LoopReads'
  BY <1>1 DEF InputSound, LoopReads, Distinct, R!IsOpen
<1>10. Arrivals'
  <2>. SUFFICES ASSUME NEW d \in DOMAIN script
                PROVE  /\ Len(coming'[d]) <= Len(script[d])
                       /\ IF coming'[d] = <<>> THEN cut'[d] = 0
                          ELSE cut'[d] < Len(Content[script[d][R!HasArrived(d)' + 1]])
    BY <1>1 DEF Arrivals
  <2>1. CASE d # c
    <3>1. coming'[d] = coming[d] /\ cut'[d] = cut[d] /\ R!HasArrived(d)' = R!HasArrived(d)
      BY <1>1, <1>2, <2>1
    <3>. QED
      BY <3>1 DEF InputSound, Arrivals
  <2>2. CASE d = c /\ cut[c] + 1 = len
    <3>1. coming'[c] = Tail(coming[c]) /\ cut'[c] = 0 /\ R!HasArrived(c)' = k
      BY <1>1, <1>2, <2>2
    <3>2. Len(coming[c]) <= Len(script[c])
      BY DEF InputSound, Arrivals
    <3>3. CASE Tail(coming[c]) # <<>>
      <4>1. k + 1 \in 1 .. Len(script[c])
        <5>1. Len(coming[c]) - 1 > 0
          BY <1>5, <3>3, TailFacts
        <5>2. R!HasArrived(c) \in Int /\ Len(script[c]) \in Nat
          BY <1>2 DEF R!HasArrived
        <5>3. k = R!HasArrived(c) + 1
          BY DEF k
        <5>. QED
          BY <1>1, <1>4, <5>1, <5>2, <5>3
      <4>. DEFINE next == k + 1
      <4>2. next \in 1 .. Len(script[c])
        BY <4>1
      <4>. HIDE DEF next
      <4>3. Len(Content[script[c][next]]) \in Nat \ {0}
        BY <1>2, <4>2, ContentType
      <4>4. Len(Content[script[c][k + 1]]) > 0
        BY <4>3 DEF next
      <4>. QED
        BY <1>2, <1>5, <2>2, <3>1, <3>2, <4>4
    <3>. QED
      BY <1>2, <1>5, <2>2, <3>1, <3>2, <3>3
  <2>3. CASE d = c /\ cut[c] + 1 < len
    <3>1. coming' = coming /\ cut'[c] = cut[c] + 1 /\ R!HasArrived(c)' = R!HasArrived(c)
      BY <1>1, <1>2, <2>3
    <3>. QED
      BY <1>4, <2>3, <3>1 DEF InputSound, Arrivals, len, k
  <2>. QED
    BY <1>1, <2>1, <2>2, <2>3
<1>. QED
  BY <1>8, <1>9, <1>10 DEF InputSound

LEMMA CloseSound ==
  ASSUME InputSound, NEW c \in DOMAIN script, R!Close(c)
  PROVE  InputSound' /\ UNCHANGED <<daemon, script, coming, cut, net, clients, at, parsing, buf,
                                    recvBuf, handled, dropped>>
<1>1. /\ UNCHANGED <<daemon, script, polite, coming, cut, net, clients, round, at, parsing, buf,
                     recvBuf, up, handled, dropped>>
      /\ closed' = [closed EXCEPT ![c] = TRUE]
  BY DEF R!Close, R!histories
<1>2. R!TypeOK'
  BY <1>1, SameBytes DEF InputSound, R!TypeOK
<1>3. LoopReads' /\ Arrivals'
  BY <1>1 DEF InputSound, LoopReads, Distinct, R!IsOpen, Arrivals, R!HasArrived
<1>. QED
  BY <1>1, <1>2, <1>3 DEF InputSound

LEMMA InputSoundNext ==
  ASSUME InputSound, InputKinds
  PROVE  InputSound'
<1>1. CASE R!HangUp \/ R!RecvEnd \/ R!InvalidPacket
  BY <1>1, WhoEnds, EndsSound
<1>2. CASE Queued /\ R!Idle /\ SessionEnds(Session, round)
  BY <1>2, EndsSound DEF InputSound, R!TypeOK
<1>3. CASE UNCHANGED input
  <2>1. R!TypeOK'
    BY <1>3, SameBytes DEF InputSound, R!TypeOK, input
  <2>2. LoopReads' /\ Arrivals'
    BY <1>3 DEF InputSound, LoopReads, Distinct, R!IsOpen, Arrivals, R!HasArrived, input
  <2>. QED
    BY <2>1, <2>2 DEF InputSound
<1>. QED
  BY <1>1, <1>2, <1>3, LookingSound, RecvSomeSound, RecvAgainSound, HandleSound, ArriveSound, CloseSound
  DEF InputKinds, LoopStepOfReceive

LEMMA InputSoundInit == Init => InputSound
<1>. SUFFICES ASSUME Init PROVE InputSound
  OBVIOUS
<1>0. /\ R!Init /\ script \in Scripts /\ DOMAIN script = 1 .. Len(script)
      /\ script \in [DOMAIN script -> Seq(Requests)]
  <2>1. R!Init /\ script \in Scripts
    BY DEF Init, R!Init
  <2>2. script \in Seq(Seq(Requests))
    BY <2>1, SessionAssumption
  <2>. QED
    BY <2>1, <2>2
<1>1. R!TypeOK
  <2>1. <<>> \in Seq(Nat \X Nat) /\ <<>> \in Seq(Seq(Nat \X Nat)) /\ <<>> \in Seq(R!Report)
    OBVIOUS
  <2>2. \A c : <<>> \in Seq(R!Byte(c))
    OBVIOUS
  <2>3. clients \in Seq(DOMAIN script)
    BY <1>0 DEF R!Init
  <2>. QED
    BY <1>0, <2>1, <2>2, <2>3 DEF R!Init, R!TypeOK
<1>2. LoopReads
  BY <1>0 DEF R!Init, LoopReads, Distinct
<1>3. Arrivals
  <2>. SUFFICES ASSUME NEW c \in DOMAIN script
                PROVE  /\ Len(coming[c]) <= Len(script[c])
                       /\ IF coming[c] = <<>> THEN cut[c] = 0
                          ELSE cut[c] < Len(Content[script[c][R!HasArrived(c) + 1]])
    BY DEF Arrivals
  <2>1. coming[c] = script[c] /\ cut[c] = 0 /\ script[c] \in Seq(Requests)
    BY <1>0 DEF R!Init
  <2>2. CASE script[c] # <<>>
    <3>1. R!HasArrived(c) = 0 /\ 1 \in 1 .. Len(script[c])
      BY <2>1, <2>2 DEF R!HasArrived
    <3>. QED
      BY <1>0, <2>1, <3>1, ContentType
  <2>. QED
    BY <2>1, <2>2
<1>. QED
  BY <1>1, <1>2, <1>3 DEF InputSound

LEMMA SendsBetweenNext ==
  ASSUME SendsBetween, [Next]_vars
  PROVE  SendsBetween'
<1>. USE DEF SendsBetween, R!Idle, Queued
<1>0. daemon' = daemon
  BY DEF Next, vars, input, LoopStep, Receiving, Handling, Enabling, OnSend, Flushing, SendFails, Peer,
         Working, Draining, R!Wait, R!Pass, R!VisitDeleted, R!Visit, R!HangUp, R!RecvSome, R!RecvAgain,
         R!RecvEnd, R!Handle, R!NeedMoreData, R!InvalidPacket, R!ParseThrows, R!Arrive, R!Close
<1>1. CASE Receiving
  <2>1. loop = "Idle" /\ loop' = "Idle"
    BY <1>1 DEF Receiving, CanReceive, Q!OnDisconnect, output
  <2>2. ~Queued => UNCHANGED output
    BY <1>1 DEF Receiving, EndsSession
  <2>. QED
    BY <1>0, <2>1, <2>2 DEF output
<1>2. CASE Handling
  <2>1. loop = "Idle" /\ loop' \in {"Idle", "Enable"}
    BY <1>2 DEF Handling, CanReceive, Q!LoopPush, output
  <2>2. ~Queued => UNCHANGED output
    BY <1>2 DEF Handling
  <2>. QED
    BY <1>0, <2>1, <2>2 DEF output
<1>3. CASE SendFails
  BY <1>0, <1>3 DEF SendFails, Q!OnDisconnect
<1>4. CASE OnSend
  BY <1>4 DEF OnSend, Q!OnSend, input
<1>5. CASE Enabling \/ Flushing
  BY <1>5 DEF Enabling, Flushing, Q!LoopEnable, Q!FlushSome, Q!FlushEnds, Q!HasPendingSend,
              Q!DisableWriteEvent, input
<1>6. CASE Peer
  BY <1>6 DEF Peer, R!Arrive, R!Close, output
<1>7. CASE Working \/ Draining
  BY <1>7 DEF Working, Draining, Q!WorkerEnable, Q!WorkerPush, Q!Drain, input
<1>8. CASE UNCHANGED vars
  BY <1>8 DEF vars, input, output
<1>. QED
  BY <1>1, <1>2, <1>3, <1>4, <1>5, <1>6, <1>7, <1>8 DEF Next, LoopStep

-----------------------------------------------------------------------------
(* The channel server looks until there is no whole packet                 *)

\* No session but the one being parsed has a whole packet, or a malformed one.
Looked == daemon = "channel"
            => \A c \in DOMAIN script :
                  c # at \/ ~parsing => ~R!HasPacket(c) /\ ~R!IsInvalid(c)

LEMMA SameBuffer ==
  ASSUME script' = script, NEW c, recvBuf'[c] = recvBuf[c]
  PROVE  R!HasPacket(c)' = R!HasPacket(c) /\ R!IsInvalid(c)' = R!IsInvalid(c)
BY DEF R!HasPacket, R!IsInvalid, R!HasHeader, R!Declared, R!Length

LEMMA EmptyBuffer ==
  ASSUME NEW c, recvBuf'[c] = <<>>
  PROVE  ~R!HasPacket(c)' /\ ~R!IsInvalid(c)'
<1>1. Len(<<>>) = 0
  OBVIOUS
<1>. QED
  BY <1>1, SessionAssumption DEF R!HasPacket, R!IsInvalid, R!HasHeader

LEMMA LookedEnds ==
  ASSUME InputSound, Looked, NEW c \in DOMAIN script, NEW rest, SessionEnds(c, rest),
         at \in {c, R!NoClient}
  PROVE  Looked'
<1>1. /\ daemon' = daemon /\ script' = script /\ recvBuf' = [recvBuf EXCEPT ![c] = <<>>]
      /\ recvBuf \in [DOMAIN script -> Seq(Nat \X Nat)]
  BY DEF SessionEnds, R!Disconnect, InputSound, R!TypeOK
<1>. SUFFICES ASSUME daemon = "channel", NEW d \in DOMAIN script
              PROVE  ~R!HasPacket(d)' /\ ~R!IsInvalid(d)'
  BY <1>1 DEF Looked
<1>2. CASE d = c
  <2>1. recvBuf'[d] = <<>>
    BY <1>1, <1>2
  <2>. QED
    BY <2>1, EmptyBuffer
<1>3. CASE d # c
  <2>1. recvBuf'[d] = recvBuf[d]
    BY <1>1, <1>3
  <2>2. d # at
    BY <1>3, ScriptType DEF InputSound, R!TypeOK
  <2>. QED
    BY <1>1, <2>1, <2>2, SameBuffer DEF Looked
<1>. QED
  BY <1>2, <1>3

\* What does not touch the buffers of the other sessions.
LEMMA LookedKept ==
  ASSUME Looked, UNCHANGED <<daemon, script>>,
         \A d \in DOMAIN script : d # at' \/ ~parsing' =>
            recvBuf'[d] = recvBuf[d] /\ (d # at \/ ~parsing)
  PROVE  Looked'
BY SameBuffer DEF Looked

LEMMA LookedNext ==
  ASSUME InputSound, Looked, InputKinds
  PROVE  Looked'
<1>1. CASE R!HangUp \/ R!RecvEnd \/ R!InvalidPacket \/ (Queued /\ R!Idle /\ SessionEnds(Session, round))
  <2>1. CASE R!HangUp
    <3>1. R!Visited \in DOMAIN script /\ at = R!NoClient
      BY <2>1, FrontType DEF R!HangUp, R!Looking, R!Idle
    <3>2. SessionEnds(R!Visited, Tail(round))
      BY <2>1 DEF R!HangUp, SessionEnds, R!peer, R!histories
    <3>. QED
      BY <3>1, <3>2, LookedEnds
  <2>2. CASE R!RecvEnd \/ R!InvalidPacket
    <3>1. at \in DOMAIN script
      BY <2>2 DEF R!RecvEnd, R!InvalidPacket, R!Idle, InputSound, R!TypeOK, LoopReads
    <3>2. SessionEnds(at, round)
      BY <2>2 DEF R!RecvEnd, R!InvalidPacket, SessionEnds, R!peer, R!histories
    <3>. QED
      BY <3>1, <3>2, LookedEnds
  <2>3. CASE Queued /\ R!Idle /\ SessionEnds(Session, round)
    <3>1. CASE Session \in DOMAIN script
      BY <2>3, <3>1, LookedEnds DEF R!Idle
    <3>2. CASE Session \notin DOMAIN script
      BY <2>3, <3>2, LookedKept DEF R!Idle, SessionEnds, R!Disconnect, InputSound, R!TypeOK, LoopReads
    <3>. QED
      BY <3>1, <3>2
  <2>. QED
    BY <1>1, <2>1, <2>2, <2>3
<1>2. CASE R!NeedMoreData
  <2>1. /\ UNCHANGED <<daemon, script, recvBuf>> /\ ~R!HasPacket(at)
        /\ daemon = "channel" => ~R!IsInvalid(at)
    BY <1>2 DEF R!NeedMoreData, R!peer
  <2>2. \A d \in DOMAIN script :
           R!HasPacket(d)' = R!HasPacket(d) /\ R!IsInvalid(d)' = R!IsInvalid(d)
    BY <2>1, SameBuffer
  <2>3. \A d \in DOMAIN script : daemon = "channel" => ~R!HasPacket(d) /\ ~R!IsInvalid(d)
    BY <2>1 DEF Looked
  <2>. QED
    BY <2>1, <2>2, <2>3 DEF Looked
<1>3. CASE R!Wait \/ R!Pass \/ R!VisitDeleted \/ R!Visit \/ R!ParseThrows
  <2>1. UNCHANGED <<daemon, script, recvBuf, parsing>> /\ (at' = at \/ ~parsing)
    BY <1>3 DEF R!Wait, R!Pass, R!VisitDeleted, R!Visit, R!ParseThrows, R!peer, R!Looking, R!Idle,
                InputSound, LoopReads
  <2>. QED
    BY <2>1, LookedKept
<1>4. CASE R!RecvSome
  <2>1. PICK kept \in Seq(R!Byte(at)) :
           \/ parsing' = TRUE /\ recvBuf' = [recvBuf EXCEPT ![at] = @ \o kept]
           \/ parsing' = FALSE /\ recvBuf' = recvBuf
    BY <1>4, ChunkFacts
  <2>2. UNCHANGED <<daemon, script, at>> /\ ~parsing /\ recvBuf \in [DOMAIN script -> Seq(Nat \X Nat)]
    BY <1>4, ChunkFacts DEF Calm, InputSound, R!TypeOK
  <2>3. \A d \in DOMAIN script : d # at' \/ ~parsing' => recvBuf'[d] = recvBuf[d]
    BY <2>1, <2>2
  <2>. QED
    BY <2>2, <2>3, LookedKept
<1>5. CASE R!RecvAgain
  <2>1. /\ UNCHANGED <<daemon, script, at>> /\ ~parsing /\ parsing'
        /\ recvBuf' = [recvBuf EXCEPT ![at] = @ \o buf]
        /\ recvBuf \in [DOMAIN script -> Seq(Nat \X Nat)]
    BY <1>5 DEF R!RecvAgain, R!peer, InputSound, R!TypeOK
  <2>2. \A d \in DOMAIN script : d # at' \/ ~parsing' => recvBuf'[d] = recvBuf[d]
    BY <2>1
  <2>. QED
    BY <2>1, <2>2, LookedKept
<1>6. CASE R!Handle
  <2>1. /\ UNCHANGED <<daemon, script>> /\ parsing
        /\ recvBuf' = [recvBuf EXCEPT ![at] = SubSeq(@, R!Declared(at) + 1, Len(@))]
        /\ recvBuf \in [DOMAIN script -> Seq(Nat \X Nat)]
        /\ daemon = "channel" => UNCHANGED <<at, parsing>>
    BY <1>6 DEF R!Handle, R!peer, InputSound, R!TypeOK
  <2>2. CASE daemon = "channel"
    <3>1. \A d \in DOMAIN script : d # at' \/ ~parsing' => recvBuf'[d] = recvBuf[d] /\ d # at
      BY <2>1, <2>2
    <3>. QED
      BY <2>1, <3>1, LookedKept
  <2>. QED
    BY <2>1, <2>2 DEF Looked
<1>7. CASE \E c \in DOMAIN script : R!Arrive(c) \/ R!Close(c)
  <2>1. UNCHANGED <<daemon, script, recvBuf, parsing, at>>
    BY <1>7 DEF R!Arrive, R!Close
  <2>. QED
    BY <2>1, LookedKept
<1>8. CASE UNCHANGED input
  BY <1>8, LookedKept DEF input
<1>. QED
  BY <1>1, <1>2, <1>3, <1>4, <1>5, <1>6, <1>7, <1>8 DEF InputKinds, LoopStepOfReceive

-----------------------------------------------------------------------------
(* Bytes of a script: of what each client sends, only the lengths matter   *)

\* The bytes of N packets whose lengths are L.
Pairs(N, L) == {b \in Nat \X Nat : b[1] \in 1 .. N /\ b[2] \in 1 .. L[b[1]]}

\* From the first byte of a packet on, T goes through it and on to the next.
Blocks(L, T) ==
  \A i \in 1 .. Len(T) : T[i][2] = 1 =>
     \A d \in 0 .. L[T[i][1]] : i + d <= Len(T) =>
        T[i + d] = IF d < L[T[i][1]] THEN <<T[i][1], 1 + d>> ELSE <<T[i][1] + 1, 1>>

\* The last byte that arrived, after a whole packets and n bytes of the next.
LastOf(L, a, n) == IF n > 0 THEN <<a + 1, n>> ELSE <<a, L[a]>>

\* T is what has arrived and comes after the first h packets.
Follows(L, h, a, n, T) == /\ Blocks(L, T)
                          /\ T # <<>> => T[1] = <<h + 1, 1>> /\ T[Len(T)] = LastOf(L, a, n)
                          /\ T = <<>> => a = h /\ n = 0

LEMMA OneLess ==
  ASSUME NEW x \in Nat, NEW y \in Nat, NEW z \in Nat, NEW m \in Nat,
         x >= 1, x <= m, y + x = z + 1
  PROVE  x - 1 \in 0 .. m /\ y + (x - 1) = z /\ x - 1 < m /\ 1 + (x - 1) = x
OBVIOUS

LEMMA Shift ==
  ASSUME NEW x \in Nat, NEW y \in Nat, NEW z \in Nat, NEW m \in Nat, x >= 1, x + y <= z
  PROVE  m + x \in 1 .. m + z /\ m + x + y <= m + z /\ x + y \in 1 .. z
OBVIOUS

LEMMA TakePacket ==
  ASSUME NEW N \in Nat, NEW L \in [1 .. N -> Nat \ {0}], NEW h \in Nat, NEW a \in Nat, NEW n \in Nat,
         NEW p \in Seq(Pairs(N, L)), NEW T \in Seq(Pairs(N, L)),
         Follows(L, h, a, n, p \o T), h + 1 \in 1 .. N, Len(p) = L[h + 1],
         n > 0 => a + 1 \in 1 .. N /\ n < L[a + 1]
  PROVE  (\A d \in 1 .. Len(p) : p[d] = <<h + 1, d>>) /\ Follows(L, h + 1, a, n, T)
<1>. DEFINE U == p \o T
<1>1. /\ U \in Seq(Pairs(N, L)) /\ Len(U) = Len(p) + Len(T)
      /\ \A i \in 1 .. Len(p) : U[i] = p[i]
      /\ \A i \in 1 .. Len(T) : U[Len(p) + i] = T[i]
  <2>. DEFINE S == Pairs(N, L)
  <2>1. p \in Seq(S) /\ T \in Seq(S)
    OBVIOUS
  <2>. HIDE DEF S
  <2>2. U \in Seq(S) /\ Len(U) = Len(p) + Len(T)
    BY <2>1, ConcatFacts
  <2>3. \A i \in 1 .. Len(p) : U[i] = p[i]
    BY <2>1, ConcatFacts
  <2>4. \A i \in 1 .. Len(T) : U[Len(p) + i] = T[i]
    <3>1. \A q \in Seq(S), r \in Seq(S) : \A i \in 1 .. Len(r) : (q \o r)[Len(q) + i] = r[i]
      BY ConcatSecond
    <3>. QED
      BY <2>1, <3>1
  <2>. QED
    BY <2>2, <2>3, <2>4 DEF S
<1>2. Blocks(L, U) /\ Len(p) \in Nat \ {0} /\ Len(T) \in Nat
  BY DEF Follows
<1>3. U # <<>> /\ U[1] = <<h + 1, 1>> /\ U[Len(U)] = LastOf(L, a, n)
  <2>1. U # <<>>
    BY <1>1, <1>2
  <2>. QED
    BY <2>1 DEF Follows
<1>. HIDE DEF U
<1>4. \A d \in 0 .. Len(p) : 1 + d <= Len(U) =>
         U[1 + d] = IF d < Len(p) THEN <<h + 1, 1 + d>> ELSE <<h + 2, 1>>
  <2>1. 1 \in 1 .. Len(U) /\ U[1][1] = h + 1 /\ U[1][2] = 1
    BY <1>1, <1>2, <1>3
  <2>2. \A d \in 0 .. L[U[1][1]] : 1 + d <= Len(U) =>
           U[1 + d] = IF d < L[U[1][1]] THEN <<U[1][1], 1 + d>> ELSE <<U[1][1] + 1, 1>>
    BY <1>2, <2>1 DEF Blocks
  <2>3. h + 1 + 1 = h + 2
    OBVIOUS
  <2>. QED
    BY <2>1, <2>2, <2>3
<1>5. ASSUME NEW d \in 1 .. Len(p) PROVE p[d] = <<h + 1, d>>
  <2>1. d - 1 \in 0 .. Len(p) /\ d - 1 < Len(p) /\ 1 + (d - 1) = d /\ d <= Len(U)
    BY <1>1, <1>2
  <2>. QED
    BY <1>1, <1>4, <2>1
<1>6. ASSUME T # <<>> PROVE T[1] = <<h + 2, 1>> /\ T[Len(T)] = LastOf(L, a, n)
  <2>1. Len(T) > 0
    BY <1>6
  <2>2. U[Len(p) + 1] = T[1] /\ U[Len(p) + Len(T)] = T[Len(T)]
    <3>1. 1 \in 1 .. Len(T) /\ Len(T) \in 1 .. Len(T)
      BY <1>2, <2>1
    <3>. QED
      BY <1>1, <3>1
  <2>3. U[1 + Len(p)] = <<h + 2, 1>>
    <3>1. Len(p) \in 0 .. Len(p) /\ 1 + Len(p) <= Len(U) /\ ~(Len(p) < Len(p))
      BY <1>1, <1>2, <2>1
    <3>. QED
      BY <1>4, <3>1
  <2>4. 1 + Len(p) = Len(p) + 1
    BY <1>2
  <2>. QED
    BY <1>1, <1>3, <2>2, <2>3, <2>4
<1>7. ASSUME T = <<>> PROVE a = h + 1 /\ n = 0
  <2>1. Len(U) = Len(p)
    BY <1>1, <1>2, <1>7
  <2>2. LastOf(L, a, n) = <<h + 1, L[h + 1]>>
    <3>1. Len(p) \in 1 .. Len(p)
      BY <1>2
    <3>2. p[Len(p)] = <<h + 1, Len(p)>>
      BY <1>5, <3>1
    <3>3. U[Len(p)] = p[Len(p)]
      BY <1>1, <3>1
    <3>. QED
      BY <1>3, <2>1, <3>2, <3>3
  <2>3. CASE n > 0
    <3>1. a + 1 = h + 1 /\ n = L[h + 1]
      BY <2>2, <2>3 DEF LastOf
    <3>. QED
      BY <2>3, <3>1
  <2>4. CASE n = 0
    BY <2>2, <2>4 DEF LastOf
  <2>. QED
    BY <2>3, <2>4
<1>8. Blocks(L, T)
  <2>. SUFFICES ASSUME NEW i \in 1 .. Len(T), T[i][2] = 1, NEW d \in 0 .. L[T[i][1]], i + d <= Len(T)
                PROVE  T[i + d] = IF d < L[T[i][1]] THEN <<T[i][1], 1 + d>> ELSE <<T[i][1] + 1, 1>>
    BY DEF Blocks
  <2>. DEFINE j == Len(p) + i
  <2>0. T[i] \in Pairs(N, L)
    OBVIOUS
  <2>1. T[i][1] \in 1 .. N /\ L[T[i][1]] \in Nat
    BY <2>0 DEF Pairs
  <2>2. j \in 1 .. Len(U) /\ U[j] = T[i] /\ j + d <= Len(U) /\ i + d \in 1 .. Len(T) /\ d \in Nat
    <3>1. d \in Nat
      BY <2>1
    <3>2. j \in 1 .. Len(U) /\ j + d <= Len(U) /\ i + d \in 1 .. Len(T)
      <4>1. i \in Nat /\ i >= 1 /\ i + d <= Len(T)
        OBVIOUS
      <4>2. /\ Len(p) + i \in 1 .. Len(p) + Len(T) /\ Len(p) + i + d <= Len(p) + Len(T)
            /\ i + d \in 1 .. Len(T)
        BY <1>2, <3>1, <4>1, Shift
      <4>3. Len(U) = Len(p) + Len(T)
        BY <1>1
      <4>. QED
        BY <4>2, <4>3
    <3>3. U[j] = T[i]
      BY <1>1
    <3>. QED
      BY <3>1, <3>2, <3>3
  <2>3. U[j + d] = T[i + d]
    <3>1. j + d = Len(p) + (i + d)
      <4>. DEFINE w == Len(p)
      <4>1. w \in Nat /\ i \in Nat /\ d \in Nat /\ j = w + i
        BY <1>2, <2>2
      <4>. HIDE DEF w, j
      <4>2. j + d = w + (i + d)
        BY <4>1
      <4>. QED
        BY <4>2 DEF w
    <3>. QED
      BY <1>1, <2>2, <3>1
  <2>. HIDE DEF j
  <2>4. U[j + d] = IF d < L[U[j][1]] THEN <<U[j][1], 1 + d>> ELSE <<U[j][1] + 1, 1>>
    BY <1>2, <2>2 DEF Blocks
  <2>. QED
    BY <2>2, <2>3, <2>4
<1>9. h + 1 + 1 = h + 2
  OBVIOUS
<1>. QED
  BY <1>5, <1>6, <1>7, <1>8, <1>9 DEF Follows

\* The last byte of a sequence in which a packet starts d bytes before its end.
LEMMA LastStep ==
  ASSUME NEW N \in Nat, NEW L \in [1 .. N -> Nat \ {0}], NEW T \in Seq(Pairs(N, L)), Blocks(L, T)
  PROVE  \A i \in 1 .. Len(T) : T[i][2] = 1 =>
            \A d \in 1 .. L[T[i][1]] : i + d = Len(T) + 1 => T[Len(T)] = <<T[i][1], d>>
<1>. SUFFICES ASSUME NEW i \in 1 .. Len(T), T[i][2] = 1,
                     NEW d \in 1 .. L[T[i][1]], i + d = Len(T) + 1
              PROVE  T[Len(T)] = <<T[i][1], d>>
  OBVIOUS
<1>0. L[T[i][1]] \in Nat
  <2>1. T[i] \in Pairs(N, L)
    OBVIOUS
  <2>. QED
    BY <2>1 DEF Pairs
<1>1. d - 1 \in 0 .. L[T[i][1]] /\ i + (d - 1) = Len(T) /\ d - 1 < L[T[i][1]] /\ 1 + (d - 1) = d
  <2>. DEFINE z == Len(T)
              m == L[T[i][1]]
  <2>1. i \in Nat /\ z \in Nat /\ m \in Nat /\ d \in 1 .. m /\ i + d = z + 1
    BY <1>0
  <2>. HIDE DEF z, m
  <2>2. d \in Nat /\ d >= 1 /\ d <= m
    BY <2>1
  <2>3. d - 1 \in 0 .. m /\ i + (d - 1) = z /\ d - 1 < m /\ 1 + (d - 1) = d
    BY <2>1, <2>2, OneLess
  <2>. QED
    BY <2>3 DEF z, m
<1>2. i + (d - 1) <= Len(T)
  BY <1>1
<1>. DEFINE f == d - 1
<1>3. f \in 0 .. L[T[i][1]] /\ i + f <= Len(T) /\ f < L[T[i][1]]
  BY <1>1, <1>2
<1>. HIDE DEF f
<1>4. T[i + f] = IF f < L[T[i][1]] THEN <<T[i][1], 1 + f>> ELSE <<T[i][1] + 1, 1>>
  BY <1>3 DEF Blocks
<1>5. T[i + f] = <<T[i][1], 1 + f>>
  BY <1>3, <1>4
<1>. QED
  BY <1>1, <1>5 DEF f

LEMMA ConcatAppend ==
  ASSUME NEW S, NEW x \in Seq(S), NEW y \in Seq(S), NEW e \in S
  PROVE  x \o Append(y, e) = Append(x \o y, e) /\ x \o y \in Seq(S)
OBVIOUS

LEMMA AddByte ==
  ASSUME NEW N \in Nat, NEW L \in [1 .. N -> Nat \ {0}], NEW h \in Nat, NEW a \in Nat, NEW n \in Nat,
         NEW T \in Seq(Pairs(N, L)), Follows(L, h, a, n, T),
         a + 1 \in 1 .. N, n < L[a + 1]
  PROVE  IF n + 1 = L[a + 1] THEN Follows(L, h, a + 1, 0, Append(T, <<a + 1, n + 1>>))
                             ELSE Follows(L, h, a, n + 1, Append(T, <<a + 1, n + 1>>))
<1>. DEFINE e == <<a + 1, n + 1>>
            U == Append(T, e)
<1>1. e \in Pairs(N, L)
  BY DEF Pairs
<1>2. /\ U \in Seq(Pairs(N, L)) /\ Len(U) = Len(T) + 1 /\ Len(T) \in Nat
      /\ \A i \in 1 .. Len(T) : U[i] = T[i]
      /\ U[Len(T) + 1] = e
  BY <1>1, AppendFacts
<1>. HIDE DEF U
<1>3. U # <<>> /\ U[1] = <<h + 1, 1>>
  <2>0. U # <<>>
    <3>1. Len(U) # 0
      BY <1>2
    <3>. QED
      BY <3>1
  <2>1. CASE T = <<>>
    <3>1. a = h /\ n = 0 /\ Len(T) = 0
      BY <2>1 DEF Follows
    <3>2. e = <<h + 1, 1>> /\ U[1] = e
      BY <1>2, <3>1
    <3>. QED
      BY <2>0, <3>2
  <2>2. CASE T # <<>>
    <3>1. T[1] = <<h + 1, 1>> /\ 1 \in 1 .. Len(T)
      BY <2>2 DEF Follows
    <3>2. U[1] = T[1]
      BY <1>2, <3>1
    <3>. QED
      BY <2>0, <3>1, <3>2
  <2>. QED
    BY <2>1, <2>2
<1>4. U[Len(U)] = IF n + 1 = L[a + 1] THEN LastOf(L, a + 1, 0) ELSE LastOf(L, a, n + 1)
  BY <1>2 DEF LastOf
<1>5. ASSUME NEW i \in 1 .. Len(T), T[i][2] = 1, NEW d \in 0 .. L[T[i][1]], i + d = Len(T) + 1
      PROVE  U[i + d] = IF d < L[T[i][1]] THEN <<T[i][1], 1 + d>> ELSE <<T[i][1] + 1, 1>>
  <2>. DEFINE q == T[i][1]
  <2>0. T[i] \in Pairs(N, L)
    OBVIOUS
  <2>1. q \in 1 .. N /\ L[q] \in Nat \ {0} /\ d \in Nat /\ d >= 1
    <3>1. q \in 1 .. N
      BY <2>0 DEF Pairs
    <3>2. L[q] \in Nat \ {0}
      BY <3>1
    <3>3. d \in Nat
      BY <3>2
    <3>. QED
      BY <1>2, <1>5, <3>1, <3>2, <3>3
  <2>2. T[Len(T)] = <<q, d>>
    <3>1. d \in 1 .. L[T[i][1]] /\ i + d = Len(T) + 1
      BY <1>5, <2>1
    <3>2. Blocks(L, T)
      BY DEF Follows
    <3>3. \A j \in 1 .. Len(T) : T[j][2] = 1 =>
             \A f \in 1 .. L[T[j][1]] : j + f = Len(T) + 1 => T[Len(T)] = <<T[j][1], f>>
      BY <3>2, LastStep, Zenon
    <3>4. T[Len(T)] = <<T[i][1], d>>
      BY <1>5, <3>1, <3>3, Zenon
    <3>. QED
      BY <3>4
  <2>3. LastOf(L, a, n) = <<q, d>>
    <3>1. T # <<>>
      BY <1>2
    <3>. QED
      BY <2>2, <3>1 DEF Follows
  <2>4. CASE n > 0
    <3>1. q = a + 1 /\ d = n
      BY <2>3, <2>4 DEF LastOf
    <3>2. d < L[q] /\ 1 + d = n + 1
      BY <3>1
    <3>. QED
      BY <1>2, <1>5, <3>1, <3>2
  <2>5. CASE n = 0
    <3>1. q = a /\ d = L[q]
      BY <2>3, <2>5 DEF LastOf
    <3>2. ~(d < L[q])
      <4>. HIDE DEF q
      <4>. QED
        BY <2>1, <3>1
    <3>3. e = <<q + 1, 1>>
      BY <2>5, <3>1
    <3>4. U[i + d] = e
      BY <1>2, <1>5
    <3>. QED
      BY <3>2, <3>3, <3>4
  <2>. QED
    BY <2>4, <2>5
<1>6. Blocks(L, U)
  <2>. SUFFICES ASSUME NEW i \in 1 .. Len(U), U[i][2] = 1, NEW d \in 0 .. L[U[i][1]], i + d <= Len(U)
                PROVE  U[i + d] = IF d < L[U[i][1]] THEN <<U[i][1], 1 + d>> ELSE <<U[i][1] + 1, 1>>
    BY DEF Blocks
  <2>0. U[i] \in Pairs(N, L)
    BY <1>2
  <2>1. L[U[i][1]] \in Nat \ {0} /\ d \in Nat /\ U[i][1] \in Nat /\ U[i] = <<U[i][1], U[i][2]>>
    <3>. DEFINE pair == U[i]
    <3>1. pair \in Pairs(N, L)
      BY <2>0
    <3>. HIDE DEF pair
    <3>2. pair[1] \in 1 .. N /\ pair[2] \in 1 .. L[pair[1]] /\ pair = <<pair[1], pair[2]>>
      BY <3>1 DEF Pairs
    <3>3. pair[1] \in Nat /\ L[pair[1]] \in Nat \ {0}
      BY <3>2
    <3>4. U[i][1] \in Nat /\ L[U[i][1]] \in Nat \ {0} /\ U[i] = <<U[i][1], U[i][2]>>
      BY <3>2, <3>3 DEF pair
    <3>. QED
      BY <3>4
  <2>2. CASE d = 0
    <3>1. i + d = i /\ 1 + d = 1 /\ d < L[U[i][1]]
      <4>. DEFINE z == L[U[i][1]]
      <4>1. z \in Nat \ {0} /\ i \in Int
        BY <2>1
      <4>. HIDE DEF z
      <4>2. i + d = i /\ 1 + d = 1 /\ d < z
        BY <2>2, <4>1
      <4>. QED
        BY <4>2 DEF z
    <3>. QED
      BY <2>1, <3>1
  <2>3. CASE d > 0
    <3>0. i \in 1 .. Len(T)
      <4>. DEFINE z == Len(T)
      <4>1. i \in 1 .. z + 1 /\ i + d <= z + 1 /\ z \in Nat /\ d \in Nat
        BY <1>2, <2>1
      <4>. HIDE DEF z
      <4>2. i \in 1 .. z
        BY <2>3, <4>1
      <4>. QED
        BY <4>2 DEF z
    <3>1. i \in 1 .. Len(T) /\ U[i] = T[i]
      BY <1>2, <3>0
    <3>2. CASE i + d = Len(T) + 1
      BY <1>5, <3>1, <3>2
    <3>3. CASE i + d <= Len(T)
      <4>1. T[i + d] = IF d < L[T[i][1]] THEN <<T[i][1], 1 + d>> ELSE <<T[i][1] + 1, 1>>
        BY <3>1, <3>3 DEF Follows, Blocks
      <4>2. U[i + d] = T[i + d]
        <5>1. i + d \in 1 .. Len(T)
          <6>. DEFINE z == Len(T)
          <6>1. i \in 1 .. z /\ i + d <= z /\ z \in Nat /\ d \in Nat
            BY <1>2, <2>1, <3>0, <3>3
          <6>. HIDE DEF z
          <6>2. i + d \in 1 .. z
            BY <6>1
          <6>. QED
            BY <6>2 DEF z
        <5>. QED
          BY <1>2, <5>1
      <4>. QED
        BY <3>1, <4>1, <4>2
    <3>4. i + d = Len(T) + 1 \/ i + d <= Len(T)
      <4>. DEFINE z == Len(T)
      <4>1. i + d <= z + 1 /\ i \in Nat /\ d \in Nat /\ z \in Nat
        BY <1>2, <2>1
      <4>. HIDE DEF z
      <4>2. i + d = z + 1 \/ i + d <= z
        BY <4>1
      <4>. QED
        BY <4>2 DEF z
    <3>. QED
      BY <3>2, <3>3, <3>4
  <2>. QED
    BY <2>1, <2>2, <2>3
<1>. QED
  BY <1>3, <1>4, <1>6 DEF Follows, U

-----------------------------------------------------------------------------
(* The bytes of a client stay in order                                     *)

Lengths(c) == [k \in 1 .. Len(script[c]) |-> Len(Content[script[c][k]])]

\* What has arrived from client c and was not handled, from the session to the socket.
Stream(c) == (recvBuf[c] \o (IF at = c THEN buf ELSE <<>>)) \o net[c]

HandledSoFar(c) == handled[c] = [k \in 1 .. Len(handled[c]) |-> R!Bytes(c, k)]

StreamFollows(c) == Follows(Lengths(c), Len(handled[c]), R!HasArrived(c), cut[c], Stream(c))

\* But for the clients of the login server that lost a chunk, what was handled is what was
\* sent, and what is on its way in an open session comes right after it.
InOrder == \A c \in DOMAIN script \ dropped :
              HandledSoFar(c) /\ (R!IsOpen(c) => StreamFollows(c))

LEMMA LengthsType ==
  ASSUME InputSound, NEW c \in DOMAIN script
  PROVE  /\ Len(script[c]) \in Nat /\ Lengths(c) \in [1 .. Len(script[c]) -> Nat \ {0}]
         /\ Pairs(Len(script[c]), Lengths(c)) = R!Byte(c)
         /\ \A k \in 1 .. Len(script[c]) : Lengths(c)[k] = Len(Content[script[c][k]])
<1>1. script \in Scripts
  BY DEF InputSound, R!TypeOK
<1>2. script[c] \in Seq(Requests)
  BY <1>1, ScriptType
<1>3. \A k \in 1 .. Len(script[c]) : Len(Content[script[c][k]]) \in Nat \ {0}
  BY <1>1, ContentType
<1>4. Len(script[c]) \in Nat
  BY <1>2
<1>5. Lengths(c) \in [1 .. Len(script[c]) -> Nat \ {0}]
  BY <1>3 DEF Lengths
<1>6. Pairs(Len(script[c]), Lengths(c)) = R!Byte(c)
  BY DEF Pairs, R!Byte, Lengths
<1>. QED
  BY <1>4, <1>5, <1>6 DEF Lengths

\* What does not move the bytes of an open session.
LEMMA InOrderKept ==
  ASSUME InOrder, UNCHANGED <<script, coming, cut, handled>>, dropped \subseteq dropped',
         \A c \in DOMAIN script \ dropped' : R!IsOpen(c)' => R!IsOpen(c) /\ Stream(c)' = Stream(c)
  PROVE  InOrder'
<1>1. \A c : /\ HandledSoFar(c)' = HandledSoFar(c) /\ Lengths(c)' = Lengths(c)
              /\ R!HasArrived(c)' = R!HasArrived(c)
  BY DEF HandledSoFar, R!Bytes, Lengths, R!HasArrived
<1>2. ASSUME NEW c \in DOMAIN script \ dropped', R!IsOpen(c)'
      PROVE  StreamFollows(c)'
  <2>1. Stream(c)' = Stream(c) /\ StreamFollows(c)
    BY <1>2 DEF InOrder
  <2>. QED
    BY <1>1, <2>1 DEF StreamFollows
<1>. QED
  BY <1>1, <1>2 DEF InOrder

LEMMA InOrderEnds ==
  ASSUME InputSound, InOrder, NEW c, NEW rest \in Seq(R!Report), SessionEnds(c, rest),
         at \in {c, R!NoClient}
  PROVE  InOrder'
<1>1. /\ UNCHANGED <<script, coming, cut, handled, dropped>> /\ at' = R!NoClient
      /\ recvBuf' = [recvBuf EXCEPT ![c] = <<>>] /\ net' = [net EXCEPT ![c] = <<>>]
      /\ recvBuf \in [DOMAIN script -> Seq(Nat \X Nat)] /\ net \in [DOMAIN script -> Seq(Nat \X Nat)]
  BY DEF SessionEnds, R!Disconnect, InputSound, R!TypeOK
<1>2. ASSUME NEW d \in DOMAIN script, R!IsOpen(d)'
      PROVE  R!IsOpen(d) /\ Stream(d)' = Stream(d)
  <2>1. d # c /\ R!IsOpen(d)
    BY <1>2, EndsSound
  <2>2. recvBuf'[d] = recvBuf[d] /\ net'[d] = net[d] /\ at # d /\ at' # d
    BY <1>1, <2>1, ScriptType DEF InputSound, R!TypeOK
  <2>. QED
    BY <2>1, <2>2 DEF Stream
<1>. QED
  BY <1>1, <1>2, InOrderKept

LEMMA InOrderLooking ==
  ASSUME InputSound, InOrder,
         R!Wait \/ R!Pass \/ R!VisitDeleted \/ R!Visit \/ R!NeedMoreData \/ R!ParseThrows
  PROVE  InOrder'
<1>1. Calm /\ UNCHANGED <<net, recvBuf, buf, handled, dropped>>
  BY DEF R!Wait, R!Pass, R!VisitDeleted, R!Visit, R!NeedMoreData, R!ParseThrows, Calm, R!peer, R!histories
<1>2. at' = at \/ buf = <<>>
  <2>1. at = R!NoClient \/ parsing => buf = <<>>
    BY DEF InputSound, R!TypeOK, LoopReads
  <2>. QED
    BY <2>1 DEF R!Wait, R!Pass, R!VisitDeleted, R!Visit, R!NeedMoreData, R!ParseThrows, R!Looking, R!Idle
<1>3. \A c : Stream(c)' = Stream(c)
  <2>1. CASE at' = at
    BY <1>1, <2>1 DEF Stream
  <2>2. CASE buf = <<>>
    BY <1>1, <2>2 DEF Stream
  <2>. QED
    BY <1>2, <2>1, <2>2
<1>4. \A c : R!IsOpen(c)' = R!IsOpen(c)
  BY <1>1, CalmKeeps
<1>. QED
  BY <1>1, <1>3, <1>4, InOrderKept DEF Calm

LEMMA InOrderRecv ==
  ASSUME InputSound, InOrder, R!RecvSome \/ R!RecvAgain
  PROVE  InOrder'
<1>1. /\ Calm /\ UNCHANGED <<at, handled>> /\ dropped \subseteq dropped' /\ at \in DOMAIN script
      /\ net' = [net EXCEPT ![at] = net'[at]]
  <2>1. CASE R!RecvSome
    BY <2>1, ChunkFacts
  <2>2. CASE R!RecvAgain
    <3>1. net' = net
      BY <2>2, RecvAgainSound
    <3>2. net = [net EXCEPT ![at] = net[at]]
      BY DEF InputSound, R!TypeOK
    <3>. QED
      BY <2>2, <3>1, <3>2, RecvAgainSound
  <2>. QED
    BY <2>1, <2>2
<1>. DEFINE B == R!Byte(at)
<1>2. /\ recvBuf \in [DOMAIN script -> Seq(Nat \X Nat)] /\ net \in [DOMAIN script -> Seq(Nat \X Nat)]
      /\ recvBuf[at] \in Seq(B) /\ net[at] \in Seq(B) /\ buf \in Seq(B)
  <2>1. at # R!NoClient
    BY <1>1, ScriptType DEF InputSound, R!TypeOK
  <2>. QED
    BY <1>1, <2>1 DEF InputSound, R!TypeOK
<1>. HIDE DEF B
<1>3. ASSUME NEW c \in DOMAIN script, c # at PROVE Stream(c)' = Stream(c)
  <2>1. net'[c] = net[c]
    BY <1>1, <1>2, <1>3
  <2>2. recvBuf'[c] = recvBuf[c]
    BY <1>2, <1>3, ChunkFacts, RecvAgainSound
  <2>. QED
    BY <1>1, <1>3, <2>1, <2>2 DEF Stream
<1>4. ASSUME at \notin dropped' PROVE Stream(at)' = Stream(at)
  <2>1. CASE R!RecvSome
    <3>1. PICK chunk, kept \in Seq(B) :
            /\ net'[at] \in Seq(B) /\ net[at] = chunk \o net'[at]
            /\ kept = R!Kept(chunk)
            /\ \/ /\ parsing' = TRUE /\ buf' = <<>>
                  /\ recvBuf' = [recvBuf EXCEPT ![at] = @ \o kept]
               \/ /\ parsing' = FALSE /\ buf' = kept /\ recvBuf' = recvBuf
            /\ dropped' = IF daemon = "login" /\ buf # <<>> THEN dropped \cup {at} ELSE dropped
      BY <2>1, ChunkFacts DEF B
    <3>2. kept = buf \o chunk
      <4>1. daemon # "login" \/ buf = <<>>
        BY <1>4, <3>1
      <4>2. <<>> \o chunk = chunk
        OBVIOUS
      <4>. QED
        BY <3>1, <4>1, <4>2 DEF R!Kept
    <3>3. recvBuf[at] \o kept \in Seq(B) /\ kept \in Seq(B) /\ recvBuf[at] \o buf \in Seq(B)
      BY <1>2, ConcatFacts
    <3>4. (recvBuf[at] \o kept) \o net'[at] = (recvBuf[at] \o buf) \o net[at]
      <4>. DEFINE x == recvBuf[at]
                  y == buf
                  w == net'[at]
      <4>1. x \in Seq(B) /\ y \in Seq(B) /\ w \in Seq(B) /\ chunk \in Seq(B)
        BY <1>2, <3>1
      <4>. HIDE DEF x, y, w
      <4>2. Associates(x, y, chunk) /\ x \o y \in Seq(B)
        BY <4>1, ConcatAssociates, ConcatFacts
      <4>. DEFINE u == x \o y
      <4>3. u \in Seq(B)
        BY <4>2
      <4>. HIDE DEF u
      <4>4. Associates(u, chunk, w)
        BY <4>1, <4>3, ConcatAssociates
      <4>. QED
        BY <3>1, <3>2, <4>2, <4>4 DEF Associates, u, x, y, w
    <3>5. Stream(at)' = (recvBuf[at] \o kept) \o net'[at]
      <4>1. CASE buf' = <<>> /\ recvBuf' = [recvBuf EXCEPT ![at] = @ \o kept]
        <5>1. recvBuf'[at] = recvBuf[at] \o kept
          BY <1>1, <1>2, <4>1
        <5>2. (recvBuf[at] \o kept) \o <<>> = recvBuf[at] \o kept
          BY <3>3
        <5>. QED
          BY <1>1, <4>1, <5>1, <5>2 DEF Stream
      <4>2. CASE buf' = kept /\ recvBuf' = recvBuf
        BY <1>1, <4>2 DEF Stream
      <4>. QED
        BY <3>1, <4>1, <4>2
    <3>. QED
      BY <3>4, <3>5 DEF Stream
  <2>2. CASE R!RecvAgain
    <3>1. recvBuf'[at] = recvBuf[at] \o buf /\ buf' = <<>> /\ net' = net
      BY <1>1, <1>2, <2>2, RecvAgainSound
    <3>2. (recvBuf[at] \o buf) \o <<>> = recvBuf[at] \o buf
      BY <1>2
    <3>. QED
      BY <1>1, <3>1, <3>2 DEF Stream
  <2>. QED
    BY <2>1, <2>2
<1>5. \A c : R!IsOpen(c)' = R!IsOpen(c)
  BY <1>1, CalmKeeps
<1>. QED
  BY <1>1, <1>3, <1>4, <1>5, InOrderKept DEF Calm

LEMMA ArrivalTypes ==
  ASSUME InputSound, NEW c \in DOMAIN script
  PROVE  /\ R!HasArrived(c) \in Nat /\ cut[c] \in Nat /\ Len(handled[c]) \in Nat
         /\ cut[c] > 0 => /\ R!HasArrived(c) + 1 \in 1 .. Len(script[c])
                          /\ cut[c] < Lengths(c)[R!HasArrived(c) + 1]
<1>1. /\ coming[c] \in Seq(Requests) /\ cut[c] \in Nat /\ handled[c] \in Seq(Seq(Nat \X Nat))
      /\ Len(script[c]) \in Nat
  BY LengthsType DEF InputSound, R!TypeOK
<1>2. Len(coming[c]) \in Nat /\ Len(coming[c]) <= Len(script[c])
  BY <1>1 DEF InputSound, Arrivals
<1>3. R!HasArrived(c) \in Nat
  BY <1>1, <1>2 DEF R!HasArrived
<1>4. ASSUME cut[c] > 0
      PROVE  /\ R!HasArrived(c) + 1 \in 1 .. Len(script[c])
             /\ cut[c] < Lengths(c)[R!HasArrived(c) + 1]
  <2>1. /\ coming[c] # <<>>
        /\ cut[c] < Len(Content[script[c][R!HasArrived(c) + 1]])
    BY <1>4 DEF InputSound, Arrivals
  <2>2. Len(coming[c]) > 0
    BY <1>1, <2>1
  <2>3. R!HasArrived(c) + 1 \in 1 .. Len(script[c])
    BY <1>1, <1>2, <2>2 DEF R!HasArrived
  <2>. QED
    BY <2>1, <2>3, LengthsType
<1>. QED
  BY <1>1, <1>3, <1>4

\* The first packet of the buffer is the one after the handled ones.
LEMMA FrontPacket ==
  ASSUME InputSound, InOrder, R!Handle, at \notin dropped
  PROVE  LET c == at
             h == Len(handled[c])
             packet == SubSeq(recvBuf[c], 1, R!Declared(c))
             rest == SubSeq(recvBuf[c], R!Declared(c) + 1, Len(recvBuf[c]))
         IN  /\ h + 1 \in 1 .. Len(script[c])
             /\ packet = R!Bytes(c, h + 1)
             /\ Follows(Lengths(c), h + 1, R!HasArrived(c), cut[c], rest \o net[c])
<1>. DEFINE c == at
            h == Len(handled[c])
            packet == SubSeq(recvBuf[c], 1, R!Declared(c))
            rest == SubSeq(recvBuf[c], R!Declared(c) + 1, Len(recvBuf[c]))
            B == R!Byte(c)
            N == Len(script[c])
            L == Lengths(c)
            a == R!HasArrived(c)
            n == cut[c]
            T == rest \o net[c]
<1>1. /\ c \in DOMAIN script /\ parsing /\ buf = <<>> /\ recvBuf[c] \in Seq(B)
      /\ R!Declared(c) \in 1 .. Len(recvBuf[c]) /\ R!Declared(c) >= HeaderSize
  BY HandleFacts
<1>2. net[c] \in Seq(B) /\ R!IsOpen(c)
  BY <1>1 DEF InputSound, R!TypeOK, LoopReads
<1>3. /\ N \in Nat /\ L \in [1 .. N -> Nat \ {0}] /\ Pairs(N, L) = B
      /\ \A k \in 1 .. N : L[k] = Len(Content[script[c][k]])
  BY <1>1, LengthsType
<1>4. /\ a \in Nat /\ n \in Nat /\ h \in Nat
      /\ n > 0 => a + 1 \in 1 .. N /\ n < L[a + 1]
  BY <1>1, ArrivalTypes
<1>. DEFINE D == R!Declared(c)
<1>5. /\ packet \in Seq(B) /\ Len(packet) = D /\ rest \in Seq(B) /\ packet \o rest = recvBuf[c]
      /\ \A i \in 1 .. D : packet[i] = recvBuf[c][i]
  <2>. HIDE DEF B, D, c
  <2>1. D \in 1 .. Len(recvBuf[c])
    BY <1>1 DEF D
  <2>2. /\ SubSeq(recvBuf[c], 1, D) \in Seq(B) /\ Len(SubSeq(recvBuf[c], 1, D)) = D
        /\ \A i \in 1 .. D : SubSeq(recvBuf[c], 1, D)[i] = recvBuf[c][i]
    BY <1>1, <2>1, SubSeqFacts
  <2>3. SubSeq(recvBuf[c], D + 1, Len(recvBuf[c])) \in Seq(B)
    BY <1>1, <2>1, SubSeqFacts
  <2>4. SubSeq(recvBuf[c], 1, D) \o SubSeq(recvBuf[c], D + 1, Len(recvBuf[c])) = recvBuf[c]
    BY <1>1, <2>1, CutFacts
  <2>. QED
    BY <2>2, <2>3, <2>4 DEF D
<1>6. Follows(L, h, a, n, Stream(c))
  BY <1>1, <1>2 DEF InOrder, StreamFollows
<1>. HIDE DEF B, L, N, a, n, h, packet, rest
<1>7. Stream(c) = packet \o T /\ T \in Seq(B)
  <2>1. Stream(c) = (recvBuf[c] \o <<>>) \o net[c]
    BY <1>1 DEF Stream
  <2>2. recvBuf[c] \o <<>> = recvBuf[c]
    BY <1>1
  <2>. DEFINE w == net[c]
  <2>3. w \in Seq(B)
    BY <1>2
  <2>. HIDE DEF w
  <2>4. (packet \o rest) \o w = packet \o (rest \o w)
    <3>1. Associates(packet, rest, w)
      BY <1>5, <2>3, ConcatAssociates
    <3>. QED
      BY <3>1 DEF Associates
  <2>5. rest \o w \in Seq(B)
    BY <1>5, <2>3, ConcatFacts
  <2>. QED
    BY <1>5, <2>1, <2>2, <2>4, <2>5 DEF w
<1>8. packet[1] = <<h + 1, 1>>
  <2>. HIDE DEF T
  <2>1. Len(packet) \in Nat \ {0} /\ 1 \in 1 .. Len(packet)
    BY <1>1, <1>5
  <2>2. (packet \o T)[1] = packet[1] /\ Len(packet \o T) = Len(packet) + Len(T) /\ Len(T) \in Nat
    <3>1. packet \in Seq(B) /\ T \in Seq(B)
      BY <1>5, <1>7
    <3>2. /\ Len(packet \o T) = Len(packet) + Len(T)
          /\ \A i \in 1 .. Len(packet) : (packet \o T)[i] = packet[i]
      BY <3>1, ConcatFacts
    <3>. QED
      BY <2>1, <3>1, <3>2
  <2>3. packet \o T # <<>>
    BY <2>1, <2>2
  <2>. QED
    BY <1>6, <1>7, <2>2, <2>3 DEF Follows
<1>9. h + 1 \in 1 .. N /\ Len(packet) = L[h + 1]
  <2>1. packet[1] \in B /\ recvBuf[c][1] = packet[1] /\ Head(recvBuf[c]) = recvBuf[c][1]
    <3>1. 1 \in 1 .. D /\ recvBuf[c] # <<>>
      BY <1>1
    <3>. QED
      BY <1>1, <1>5, <3>1
  <2>2. h + 1 \in 1 .. N
    BY <1>8, <2>1 DEF B, N, R!Byte
  <2>3. R!Declared(c) = Content[script[c][h + 1]][1]
    <3>1. R!Declared(c) = Content[script[c][Head(recvBuf[c])[1]]][Head(recvBuf[c])[2]]
      BY DEF R!Declared, R!Length
    <3>2. Head(recvBuf[c])[1] = h + 1 /\ Head(recvBuf[c])[2] = 1
      BY <1>8, <2>1
    <3>. QED
      BY <3>1, <3>2
  <2>4. R!Declared(c) = Len(Content[script[c][h + 1]])
    <3>1. script \in Scripts
      BY DEF InputSound, R!TypeOK
    <3>. QED
      BY <1>1, <2>2, <2>3, <3>1, ContentType, SessionAssumption DEF N
  <2>. QED
    BY <1>3, <1>5, <2>2, <2>4
<1>10. (\A d \in 1 .. Len(packet) : packet[d] = <<h + 1, d>>) /\ Follows(L, h + 1, a, n, T)
  <2>. HIDE DEF T
  <2>1. Follows(L, h, a, n, packet \o T)
    BY <1>6, <1>7
  <2>. QED
    BY <1>3, <1>4, <1>5, <1>7, <1>9, <2>1, TakePacket
<1>11. packet = R!Bytes(c, h + 1)
  <2>1. R!Bytes(c, h + 1) = [j \in 1 .. Len(packet) |-> <<h + 1, j>>]
    BY <1>3, <1>9 DEF R!Bytes
  <2>2. packet = [j \in 1 .. Len(packet) |-> packet[j]]
    BY <1>5
  <2>. QED
    BY <1>10, <2>1, <2>2
<1>. QED
  BY <1>9, <1>10, <1>11 DEF N, L, a, n, h, packet, rest

LEMMA InOrderHandle ==
  ASSUME InputSound, InOrder, R!Handle
  PROVE  InOrder'
<1>. DEFINE packet == SubSeq(recvBuf[at], 1, R!Declared(at))
            rest == SubSeq(recvBuf[at], R!Declared(at) + 1, Len(recvBuf[at]))
            h == Len(handled[at])
<1>1. /\ Calm /\ UNCHANGED <<dropped, net, buf>> /\ at \in DOMAIN script /\ buf = <<>>
      /\ handled' = [handled EXCEPT ![at] = Append(@, packet)]
      /\ recvBuf' = [recvBuf EXCEPT ![at] = rest]
  BY HandleFacts
<1>2. /\ handled \in [DOMAIN script -> Seq(Seq(Nat \X Nat))]
      /\ recvBuf \in [DOMAIN script -> Seq(Nat \X Nat)]
  BY DEF InputSound, R!TypeOK
<1>. HIDE DEF packet, rest
<1>3. \A c : /\ Lengths(c)' = Lengths(c) /\ R!HasArrived(c)' = R!HasArrived(c) /\ cut'[c] = cut[c]
              /\ R!IsOpen(c)' = R!IsOpen(c) /\ \A k : R!Bytes(c, k)' = R!Bytes(c, k)
  BY <1>1 DEF Calm, Lengths, R!HasArrived, R!IsOpen, R!Bytes
<1>4. ASSUME NEW c \in DOMAIN script \ dropped, c # at
      PROVE  HandledSoFar(c)' /\ (R!IsOpen(c)' => StreamFollows(c)')
  <2>1. handled'[c] = handled[c] /\ recvBuf'[c] = recvBuf[c] /\ net'[c] = net[c]
    BY <1>1, <1>2, <1>4
  <2>2. Stream(c)' = Stream(c)
    BY <1>1, <2>1 DEF Stream
  <2>. QED
    BY <1>3, <2>1, <2>2 DEF InOrder, HandledSoFar, StreamFollows
<1>5. ASSUME at \notin dropped
      PROVE  \A c : c = at => HandledSoFar(c)' /\ StreamFollows(c)'
  <2>1. /\ h + 1 \in 1 .. Len(script[at]) /\ packet = R!Bytes(at, h + 1)
        /\ Follows(Lengths(at), h + 1, R!HasArrived(at), cut[at], rest \o net[at])
    BY <1>5, FrontPacket DEF packet, rest
  <2>2. handled'[at] = Append(handled[at], packet) /\ recvBuf'[at] = rest
    BY <1>1, <1>2
  <2>3. packet \in Seq(Nat \X Nat) /\ handled[at] \in Seq(Seq(Nat \X Nat)) /\ rest \in Seq(R!Byte(at))
    <3>1. /\ recvBuf[at] \in Seq(Nat \X Nat) /\ recvBuf[at] \in Seq(R!Byte(at))
          /\ R!Declared(at) \in 1 .. Len(recvBuf[at])
      BY <1>1, <1>2, HandleFacts
    <3>2. packet \in Seq(Nat \X Nat)
      BY <3>1, FrontAndRest DEF packet
    <3>3. rest \in Seq(R!Byte(at))
      BY <3>1, FrontAndRest DEF rest
    <3>. QED
      BY <1>1, <1>2, <3>2, <3>3
  <2>. DEFINE after == Append(handled[at], packet)
  <2>4. /\ after \in Seq(Seq(Nat \X Nat)) /\ Len(after) = h + 1 /\ h \in Nat
        /\ \A k \in 1 .. h : after[k] = handled[at][k]
        /\ after[h + 1] = packet
    BY <2>3, AppendFacts
  <2>. HIDE DEF after
  <2>5. HandledSoFar(at)
    BY <1>1, <1>5 DEF InOrder
  <2>6. after = [k \in 1 .. Len(after) |-> R!Bytes(at, k)]
    <3>1. ASSUME NEW k \in 1 .. Len(after) PROVE after[k] = R!Bytes(at, k)
      <4>1. CASE k = h + 1
        BY <2>1, <2>4, <4>1
      <4>2. CASE k \in 1 .. h
        BY <2>4, <2>5, <4>2 DEF HandledSoFar
      <4>. QED
        BY <2>4, <4>1, <4>2
    <3>. QED
      BY <2>4, <3>1
  <2>7. ASSUME NEW c, c = at PROVE HandledSoFar(c)' /\ StreamFollows(c)'
    <3>1. handled'[c] = after
      BY <2>2, <2>7 DEF after
    <3>2. HandledSoFar(c)'
      BY <1>3, <2>6, <2>7, <3>1 DEF HandledSoFar
    <3>3. Stream(c)' = rest \o net[at]
      <4>1. rest \o <<>> = rest
        BY <2>3
      <4>. QED
        BY <1>1, <2>2, <2>7, <4>1 DEF Stream
    <3>4. Follows(Lengths(c)', Len(handled'[c]), R!HasArrived(c)', cut'[c], Stream(c)')
      BY <1>3, <2>1, <2>4, <2>7, <3>1, <3>3
    <3>. QED
      BY <3>2, <3>4 DEF StreamFollows
  <2>. QED
    BY <2>7
<1>. QED
  BY <1>1, <1>3, <1>4, <1>5 DEF InOrder, Calm

LEMMA InOrderArrive ==
  ASSUME InputSound, InOrder, NEW c \in DOMAIN script, R!Arrive(c)
  PROVE  InOrder'
<1>. DEFINE a == R!HasArrived(c)
            n == cut[c]
            e == <<a + 1, n + 1>>
            N == Len(script[c])
            L == Lengths(c)
            h == Len(handled[c])
<1>1. /\ UNCHANGED <<script, clients, at, buf, recvBuf, handled, dropped>>
      /\ net' = [net EXCEPT ![c] = Append(@, e)] /\ R!IsOpen(c)
      /\ a + 1 \in 1 .. N
      /\ Len(Content[script[c][a + 1]]) \in Nat \ {0} /\ n \in 0 .. Len(Content[script[c][a + 1]]) - 1
      /\ \/ /\ n + 1 = Len(Content[script[c][a + 1]]) /\ cut' = [cut EXCEPT ![c] = 0]
            /\ R!HasArrived(c)' = a + 1
         \/ /\ n + 1 < Len(Content[script[c][a + 1]]) /\ cut' = [cut EXCEPT ![c] = @ + 1]
            /\ R!HasArrived(c)' = a
      /\ e \in R!Byte(c)
      /\ \A d \in DOMAIN script \ {c} : R!HasArrived(d)' = R!HasArrived(d)
  BY ArriveFacts
<1>2. /\ cut \in [DOMAIN script -> Nat] /\ net \in [DOMAIN script -> Seq(Nat \X Nat)]
      /\ net[c] \in Seq(R!Byte(c)) /\ recvBuf[c] \in Seq(R!Byte(c))
      /\ (IF at = c THEN buf ELSE <<>>) \in Seq(R!Byte(c))
  <2>1. at = c => buf \in Seq(R!Byte(c))
    BY ScriptType DEF InputSound, R!TypeOK
  <2>2. <<>> \in Seq(R!Byte(c))
    OBVIOUS
  <2>. QED
    BY <2>1, <2>2 DEF InputSound, R!TypeOK
<1>3. /\ N \in Nat /\ L \in [1 .. N -> Nat \ {0}] /\ Pairs(N, L) = R!Byte(c)
      /\ L[a + 1] = Len(Content[script[c][a + 1]]) /\ n < L[a + 1]
  <2>1. L[a + 1] = Len(Content[script[c][a + 1]])
    BY <1>1, LengthsType
  <2>. HIDE DEF n
  <2>2. n < Len(Content[script[c][a + 1]])
    BY <1>1
  <2>. QED
    BY <2>1, <2>2, LengthsType
<1>4. a \in Nat /\ n \in Nat /\ h \in Nat
  BY ArrivalTypes
<1>. HIDE DEF a, n, e, N, L, h
<1>5. \A d : Lengths(d)' = Lengths(d) /\ HandledSoFar(d)' = HandledSoFar(d) /\ R!IsOpen(d)' = R!IsOpen(d)
  BY <1>1 DEF Lengths, HandledSoFar, R!Bytes, R!IsOpen
<1>6. ASSUME NEW d \in DOMAIN script \ dropped, d # c, R!IsOpen(d)' PROVE StreamFollows(d)'
  <2>1. net'[d] = net[d]
    BY <1>1, <1>2, <1>6
  <2>2. cut'[d] = cut[d]
    BY <1>1, <1>2, <1>6
  <2>3. Stream(d)' = Stream(d) /\ R!HasArrived(d)' = R!HasArrived(d)
    BY <1>1, <1>6, <2>1 DEF Stream
  <2>4. StreamFollows(d)
    BY <1>5, <1>6 DEF InOrder
  <2>. QED
    BY <1>1, <1>5, <2>2, <2>3, <2>4 DEF StreamFollows
<1>7. ASSUME c \notin dropped PROVE StreamFollows(c)'
  <2>. DEFINE x == recvBuf[c] \o (IF at = c THEN buf ELSE <<>>)
              y == net[c]
              T == x \o y
  <2>1. x \in Seq(R!Byte(c)) /\ y \in Seq(R!Byte(c))
    BY <1>2, ConcatFacts
  <2>2. Stream(c)' = x \o Append(y, e)
    <3>1. net'[c] = Append(y, e)
      BY <1>1, <1>2
    <3>. QED
      BY <1>1, <3>1 DEF Stream
  <2>3. Stream(c) = T
    BY DEF Stream
  <2>. HIDE DEF x, y
  <2>4. x \o Append(y, e) = Append(T, e) /\ T \in Seq(R!Byte(c))
    <3>1. e \in R!Byte(c)
      BY <1>1
    <3>. QED
      BY <2>1, <3>1, ConcatAppend
  <2>. HIDE DEF T
  <2>5. Follows(L, h, a, n, T)
    BY <1>1, <1>7, <2>3 DEF InOrder, StreamFollows, L, h, a, n
  <2>6. IF n + 1 = L[a + 1] THEN Follows(L, h, a + 1, 0, Append(T, <<a + 1, n + 1>>))
                            ELSE Follows(L, h, a, n + 1, Append(T, <<a + 1, n + 1>>))
    BY <1>1, <1>3, <1>4, <2>4, <2>5, AddByte
  <2>7. Stream(c)' = Append(T, <<a + 1, n + 1>>)
    BY <2>2, <2>4 DEF e
  <2>8. Lengths(c)' = L /\ Len(handled'[c]) = h
    BY <1>1, <1>5 DEF L, h
  <2>9. CASE n + 1 = L[a + 1]
    <3>1. cut'[c] = 0 /\ R!HasArrived(c)' = a + 1
      BY <1>1, <1>2, <1>3, <2>9
    <3>. QED
      BY <2>6, <2>7, <2>8, <2>9, <3>1 DEF StreamFollows
  <2>10. CASE n + 1 # L[a + 1]
    <3>1. cut'[c] = n + 1 /\ R!HasArrived(c)' = a
      BY <1>1, <1>2, <1>3, <2>10 DEF n
    <3>. QED
      BY <2>6, <2>7, <2>8, <2>10, <3>1 DEF StreamFollows
  <2>. QED
    BY <2>9, <2>10
<1>. QED
  BY <1>1, <1>5, <1>6, <1>7 DEF InOrder

LEMMA InOrderNext ==
  ASSUME InputSound, InOrder, InputKinds
  PROVE  InOrder'
<1>1. CASE R!HangUp
  <2>1. R!Visited \in DOMAIN script /\ Tail(round) \in Seq(R!Report) /\ at = R!NoClient
    BY <1>1, FrontType DEF R!HangUp, R!Looking, R!Idle
  <2>2. SessionEnds(R!Visited, Tail(round))
    BY <1>1 DEF R!HangUp, SessionEnds, R!peer, R!histories
  <2>. QED
    BY <2>1, <2>2, InOrderEnds
<1>2. CASE R!RecvEnd \/ R!InvalidPacket
  <2>1. SessionEnds(at, round) /\ round \in Seq(R!Report)
    BY <1>2 DEF R!RecvEnd, R!InvalidPacket, SessionEnds, R!peer, R!histories, InputSound, R!TypeOK
  <2>. QED
    BY <2>1, InOrderEnds
<1>3. CASE Queued /\ R!Idle /\ SessionEnds(Session, round)
  BY <1>3, InOrderEnds DEF R!Idle, InputSound, R!TypeOK
<1>4. CASE UNCHANGED input
  <2>1. \A c : Stream(c)' = Stream(c) /\ R!IsOpen(c)' = R!IsOpen(c)
    BY <1>4 DEF input, Stream, R!IsOpen
  <2>. QED
    BY <1>4, <2>1, InOrderKept DEF input
<1>5. ASSUME NEW c \in DOMAIN script, R!Close(c) PROVE InOrder'
  <2>1. UNCHANGED <<script, coming, cut, net, clients, at, buf, recvBuf, handled, dropped>>
    BY <1>5, CloseSound
  <2>2. \A d : Stream(d)' = Stream(d) /\ R!IsOpen(d)' = R!IsOpen(d)
    BY <2>1 DEF Stream, R!IsOpen
  <2>. QED
    BY <2>1, <2>2, InOrderKept
<1>. QED
  BY <1>1, <1>2, <1>3, <1>4, <1>5, InOrderLooking, InOrderRecv, InOrderHandle, InOrderArrive
  DEF InputKinds, LoopStepOfReceive

LEMMA ReceiveInit == Init => InOrder /\ Looked /\ SendsBetween
<1>. SUFFICES ASSUME Init PROVE InOrder /\ Looked /\ SendsBetween
  OBVIOUS
<1>1. /\ coming = script /\ cut = [c \in DOMAIN script |-> 0]
      /\ net = [c \in DOMAIN script |-> <<>>] /\ recvBuf = [c \in DOMAIN script |-> <<>>]
      /\ handled = [c \in DOMAIN script |-> <<>>] /\ buf = <<>> /\ at = R!NoClient /\ ~parsing
      /\ loop = "Idle" /\ ~writeEvent /\ worker = [w \in Workers |-> "Idle"]
  BY DEF Init, R!Init, Q!Init
<1>2. Len(<<>>) = 0 /\ <<>> \o <<>> = <<>>
  OBVIOUS
<1>3. ASSUME NEW c \in DOMAIN script PROVE HandledSoFar(c) /\ StreamFollows(c)
  <2>1. script[c] \in Seq(Requests)
    BY InputSoundInit, ScriptType DEF InputSound, R!TypeOK
  <2>2. Stream(c) = <<>>
    BY <1>1, <1>2 DEF Stream
  <2>3. handled[c] = <<>> /\ Len(handled[c]) = 0
    BY <1>1, <1>2
  <2>4. R!HasArrived(c) = 0
    BY <1>1, <2>1 DEF R!HasArrived
  <2>5. HandledSoFar(c)
    BY <2>3 DEF HandledSoFar
  <2>6. Blocks(Lengths(c), <<>>)
    BY <1>2 DEF Blocks
  <2>. QED
    BY <1>1, <2>2, <2>3, <2>4, <2>5, <2>6 DEF StreamFollows, Follows
<1>4. Looked
  BY <1>1, <1>2, SessionAssumption DEF Looked, R!HasPacket, R!IsInvalid, R!HasHeader
<1>. QED
  BY <1>1, <1>3, <1>4 DEF InOrder, SendsBetween

-----------------------------------------------------------------------------
(* A daemon reads where there is something to read                         *)

\* The iterator of the chat server may have run away: a client has left.
Astray == daemon = "chat" /\ Len(clients) < Len(script)

\* No client stands twice in the rest of a round.
Once(s) == \A i, j \in 1 .. Len(s) : s[i].client = s[j].client => i = j

\* What was reported of a client is still so.
Stands(e) == /\ e.client # at
             /\ e.hup => daemon = "channel"
             /\ e.set /\ R!IsOpen(e.client) => net[e.client] # <<>> \/ closed[e.client]

RoundSound == ~Astray => Once(round) /\ \A i \in 1 .. Len(round) : Stands(round[i])

FullChunks == buf # <<>> /\ \E m \in Nat : Len(buf) = m * BUFFER_SIZE

\* The loop has something to read, or has read full chunks only.
ReadSound == ~Astray /\ at # R!NoClient /\ ~parsing
               => FullChunks \/ (buf = <<>> /\ (net[at] # <<>> \/ closed[at]))

LEMMA TailElements ==
  ASSUME NEW S, NEW q \in Seq(S), q # <<>>
  PROVE  \A i \in 1 .. Len(Tail(q)) : Tail(q)[i] = q[i + 1] /\ i + 1 \in 1 .. Len(q)
OBVIOUS

\* Reports of a round stand, if what a step does to them does not upset them.
LEMMA RoundKept ==
  ASSUME InputSound, RoundSound, Astray => Astray',
         round' = round \/ (round # <<>> /\ round' = Tail(round)),
         \A e \in R!Report : ~Astray /\ Stands(e) /\ (round' = round \/ e.client # Head(round).client)
                                => Stands(e)'
  PROVE  RoundSound'
<1>. SUFFICES ASSUME ~Astray, ~Astray'
              PROVE  Once(round)' /\ \A i \in 1 .. Len(round') : Stands(round[i])'
  BY DEF RoundSound
<1>1. /\ round \in Seq(R!Report) /\ Once(round)
      /\ \A i \in 1 .. Len(round) : round[i] \in R!Report /\ Stands(round[i])
  BY DEF InputSound, R!TypeOK, RoundSound
<1>2. CASE round' = round
  <2>1. ASSUME NEW i \in 1 .. Len(round) PROVE Stands(round[i])'
    <3>1. PICK e \in R!Report : e = round[i] /\ Stands(e)
      BY <1>1
    <3>2. Stands(e)'
      BY <1>2, <3>1
    <3>. QED
      BY <1>2, <3>1, <3>2 DEF Stands
  <2>. QED
    BY <1>1, <1>2, <2>1
<1>3. CASE round # <<>> /\ round' = Tail(round)
  <2>1. /\ \A i \in 1 .. Len(round') : round'[i] = round[i + 1] /\ i + 1 \in 1 .. Len(round)
        /\ Head(round) = round[1] /\ 1 \in 1 .. Len(round)
    BY <1>1, <1>3, TailElements
  <2>2. Once(round)'
    <3>. SUFFICES ASSUME NEW i \in 1 .. Len(round'), NEW j \in 1 .. Len(round'),
                         round'[i].client = round'[j].client
                  PROVE  i = j
      BY DEF Once
    <3>0. /\ i + 1 \in 1 .. Len(round) /\ j + 1 \in 1 .. Len(round)
          /\ round[i + 1].client = round[j + 1].client
      BY <2>1
    <3>1. i + 1 = j + 1
      BY <1>1, <3>0 DEF Once
    <3>. QED
      BY <3>1
  <2>3. ASSUME NEW i \in 1 .. Len(round') PROVE Stands(round[i])'
    <3>1. PICK e \in R!Report : e = round[i + 1] /\ Stands(e)
      BY <1>1, <2>1
    <3>2. e.client # Head(round).client
      <4>1. i + 1 # 1
        OBVIOUS
      <4>. QED
        BY <1>1, <2>1, <3>1, <4>1 DEF Once
    <3>3. Stands(e)'
      BY <3>1, <3>2
    <3>. QED
      BY <2>1, <3>1, <3>3 DEF Stands
  <2>. QED
    BY <2>2, <2>3
<1>. QED
  BY <1>2, <1>3

\* No client is added.
AtMostAll == Len(clients) <= Len(script)

LEMMA AtMostAllNext ==
  ASSUME InputSound, AtMostAll, InputKinds
  PROVE  AtMostAll'
<1>1. CASE UNCHANGED <<clients, script>>
  BY <1>1 DEF AtMostAll
<1>2. ASSUME NEW c, NEW rest, SessionEnds(c, rest) PROVE AtMostAll'
  <2>1. /\ script' = script /\ clients' = R!Erased(clients, c)
        /\ clients \in Seq(DOMAIN script) /\ Distinct(clients) /\ Len(script) \in Nat
    BY <1>2, ScriptType DEF SessionEnds, R!Disconnect, InputSound, LoopReads, R!TypeOK
  <2>2. clients' \in Seq(DOMAIN script) /\ Len(clients') <= Len(clients)
    BY <2>1, ErasedFacts
  <2>. QED
    BY <2>1, <2>2 DEF AtMostAll
<1>3. CASE R!HangUp \/ R!RecvEnd \/ R!InvalidPacket
  BY <1>2, <1>3, WhoEnds
<1>. QED
  BY <1>1, <1>2, <1>3 DEF InputKinds, LoopStepOfReceive, R!Wait, R!Pass, R!VisitDeleted, R!Visit,
     R!RecvSome, R!RecvAgain, R!Handle, R!NeedMoreData, R!ParseThrows, R!Arrive, R!Close, R!peer, input

\* While nobody leaves, the chat server is as much astray as before.
LEMMA CalmAstray == ASSUME Calm PROVE Astray' = Astray
BY DEF Calm, Astray

LEMMA RoundEnds ==
  ASSUME InputSound, AtMostAll, RoundSound, NEW c \in DOMAIN script, NEW rest \in Seq(R!Report),
         SessionEnds(c, rest),
         R!IsOpen(c) \/ daemon = "channel",
         rest = round \/ (round # <<>> /\ rest = Tail(round) /\ daemon = "channel")
  PROVE  RoundSound' /\ ReadSound'
<1>1. /\ UNCHANGED <<daemon, script, closed>> /\ clients' = R!Erased(clients, c)
      /\ round' = R!RestAfterErase(rest) /\ net' = [net EXCEPT ![c] = <<>>] /\ at' = R!NoClient
      /\ clients \in Seq(DOMAIN script) /\ Distinct(clients)
      /\ net \in [DOMAIN script -> Seq(Nat \X Nat)]
  BY DEF SessionEnds, R!Disconnect, InputSound, LoopReads, R!TypeOK
<1>2. /\ clients' \in Seq(DOMAIN script) /\ Distinct(clients')
      /\ Len(clients') <= Len(clients)
  BY <1>1, ErasedFacts
<1>3. ReadSound'
  BY <1>1 DEF ReadSound
<1>4. Astray => Astray'
  <2>1. Len(clients') \in Nat /\ Len(clients) \in Nat /\ Len(script) \in Nat
    BY <1>1, <1>2, ScriptType DEF InputSound, R!TypeOK
  <2>. QED
    BY <1>1, <1>2, <2>1 DEF Astray
<1>5. CASE daemon = "chat"
  <2>1. Len(clients') < Len(script)
    <3>1. Len(clients') < Len(clients) /\ Len(clients) <= Len(script)
      BY <1>1, <1>5, ErasedFacts DEF R!IsOpen, AtMostAll
    <3>2. Len(clients') \in Nat /\ Len(clients) \in Nat /\ Len(script) \in Nat
      BY <1>1, <1>2, ScriptType DEF InputSound, R!TypeOK
    <3>. QED
      BY <3>1, <3>2
  <2>2. Astray'
    BY <1>1, <1>5, <2>1 DEF Astray
  <2>. QED
    BY <1>3, <2>2 DEF RoundSound
<1>6. CASE daemon # "chat"
  <2>1. round' = round \/ (round # <<>> /\ round' = Tail(round))
    BY <1>1, <1>6 DEF R!RestAfterErase
  <2>2. ASSUME NEW e \in R!Report, Stands(e) PROVE Stands(e)'
    <3>1. R!IsOpen(e.client)' => e.client # c /\ R!IsOpen(e.client)
      BY EndsSound
    <3>2. e.client # R!NoClient /\ e.client \in DOMAIN script
      BY ScriptType DEF R!Report, InputSound, R!TypeOK
    <3>3. e.client # c => net'[e.client] = net[e.client]
      BY <1>1, <3>2
    <3>. QED
      BY <1>1, <2>2, <3>1, <3>2, <3>3 DEF Stands
  <2>3. RoundSound'
    BY <1>4, <2>1, <2>2, RoundKept
  <2>. QED
    BY <1>3, <2>3
<1>. QED
  BY <1>5, <1>6

LEMMA RoundWait ==
  ASSUME InputSound, RoundSound, R!Wait
  PROVE  RoundSound' /\ ReadSound'
<1>1. /\ Calm /\ UNCHANGED <<at, net>> /\ at = R!NoClient /\ clients \in Seq(DOMAIN script)
      /\ Distinct(clients)
      /\ round' = [i \in 1 .. Len(clients) |->
                     [client |-> clients[i], set |-> R!Readable(clients[i]),
                      hup |-> daemon = "channel" /\ closed[clients[i]]]]
  BY DEF R!Wait, R!peer, R!Idle, Calm, InputSound, LoopReads, R!TypeOK
<1>2. Len(round') = Len(clients) /\ Len(clients) \in Nat
  BY <1>1
<1>3. Once(round)'
  BY <1>1, <1>2 DEF Once, Distinct
<1>4. ASSUME NEW i \in 1 .. Len(round') PROVE Stands(round[i])'
  <2>1. round'[i].client = clients[i] /\ round'[i].set = R!Readable(clients[i]) /\ clients[i] \in DOMAIN script
    BY <1>1, <1>2
  <2>2. clients[i] # R!NoClient
    BY <2>1, ScriptType DEF InputSound, R!TypeOK
  <2>3. net' = net /\ closed' = closed /\ daemon' = daemon
    BY <1>1 DEF Calm
  <2>4. round'[i].hup => daemon = "channel"
    BY <1>1, <1>2
  <2>. QED
    BY <1>1, <2>1, <2>2, <2>3, <2>4 DEF Stands, R!Readable
<1>. QED
  BY <1>1, <1>3, <1>4 DEF RoundSound, ReadSound

LEMMA RoundVisit ==
  ASSUME InputSound, RoundSound, R!Visit
  PROVE  RoundSound' /\ ReadSound'
<1>1. /\ Calm /\ UNCHANGED <<net, buf>> /\ buf = <<>> /\ at' = Head(round).client
      /\ round # <<>> /\ round' = Tail(round) /\ Head(round).set /\ R!IsOpen(Head(round).client)
  BY DEF R!Visit, R!Looking, R!Visited, R!peer, R!Idle, Calm, InputSound, R!TypeOK
<1>2. Astray' = Astray /\ \A c : R!IsOpen(c)' = R!IsOpen(c)
  BY <1>1, CalmAstray, CalmKeeps
<1>3. RoundSound'
  <2>1. round' # round
    BY <1>1 DEF InputSound, R!TypeOK
  <2>2. ASSUME NEW e \in R!Report, Stands(e), e.client # Head(round).client PROVE Stands(e)'
    BY <1>1, <1>2, <2>2 DEF Stands, Calm
  <2>. QED
    BY <1>1, <1>2, <2>1, <2>2, RoundKept
<1>4. ReadSound'
  <2>. SUFFICES ASSUME ~Astray PROVE net[at'] # <<>> \/ closed[at']
    BY <1>1, <1>2 DEF ReadSound, Calm
  <2>1. Head(round) = round[1] /\ 1 \in 1 .. Len(round)
    BY <1>1 DEF InputSound, R!TypeOK
  <2>2. Stands(Head(round))
    BY <2>1 DEF RoundSound
  <2>. QED
    BY <1>1, <2>2 DEF Stands
<1>. QED
  BY <1>3, <1>4

\* A chunk that is not the last one is full.
LEMMA ChunkIsFull ==
  ASSUME InputSound, R!RecvSome, ~parsing'
  PROVE  \E chunk \in Seq(R!Byte(at)) : Len(chunk) = BUFFER_SIZE /\ buf' = R!Kept(chunk)
<1>. DEFINE n == R!Min({Len(net[at]), BUFFER_SIZE})
            chunk == SubSeq(net[at], 1, n)
<1>1. net[at] \in Seq(R!Byte(at)) /\ net[at] # <<>>
  BY DEF R!RecvSome, R!Idle, InputSound, R!TypeOK
<1>2. n \in 1 .. Len(net[at]) /\ n <= BUFFER_SIZE /\ n \in Nat
  <2>1. Len(net[at]) \in Nat \ {0} /\ BUFFER_SIZE \in Nat \ {0}
    BY <1>1, SessionAssumption
  <2>. QED
    BY <2>1, MinOfTwo
<1>3. ~R!IsLastChunk(n) /\ buf' = R!Kept(chunk)
  BY DEF R!RecvSome
<1>. HIDE DEF n
<1>4. n = BUFFER_SIZE
  BY <1>2, <1>3, SessionAssumption DEF R!IsLastChunk
<1>5. chunk \in Seq(R!Byte(at)) /\ Len(chunk) = n
  BY <1>1, <1>2, SubSeqFacts
<1>. QED
  BY <1>3, <1>4, <1>5

LEMMA OneMoreChunk ==
  ASSUME NEW m \in Nat, NEW x \in Nat, x = m * BUFFER_SIZE
  PROVE  x + BUFFER_SIZE = (m + 1) * BUFFER_SIZE /\ BUFFER_SIZE = 1 * BUFFER_SIZE
BY SessionAssumption

LEMMA RoundRecv ==
  ASSUME InputSound, RoundSound, ReadSound, R!RecvSome \/ R!RecvAgain
  PROVE  RoundSound' /\ ReadSound'
<1>1. /\ Calm /\ UNCHANGED <<round, at>> /\ at # R!NoClient /\ ~parsing
      /\ \A c \in DOMAIN script : c # at => net'[c] = net[c]
  BY DEF R!RecvSome, R!RecvAgain, R!peer, R!histories, R!Idle, Calm, InputSound, R!TypeOK
<1>2. Astray' = Astray /\ \A c : R!IsOpen(c)' = R!IsOpen(c)
  BY <1>1, CalmAstray, CalmKeeps
<1>3. RoundSound'
  <2>1. ASSUME NEW e \in R!Report, Stands(e) PROVE Stands(e)'
    BY <1>1, <1>2, <2>1 DEF Stands, Calm, R!Report
  <2>. QED
    BY <1>1, <1>2, <2>1, RoundKept
<1>4. ASSUME ~Astray, R!RecvSome, ~parsing' PROVE FullChunks'
  <2>1. PICK chunk \in Seq(R!Byte(at)) : Len(chunk) = BUFFER_SIZE /\ buf' = R!Kept(chunk)
    BY <1>4, ChunkIsFull
  <2>2. buf \in Seq(R!Byte(at)) /\ BUFFER_SIZE \in Nat \ {0} /\ 1 \in Nat
    BY <1>1, SessionAssumption DEF InputSound, R!TypeOK
  <2>3. CASE buf' = chunk
    <3>1. Len(buf') = 1 * BUFFER_SIZE /\ buf' # <<>>
      BY <2>1, <2>2, <2>3
    <3>. QED
      BY <2>2, <3>1 DEF FullChunks
  <2>4. CASE buf' = buf \o chunk
    <3>0. chunk \in Seq(R!Byte(at)) /\ buf \in Seq(R!Byte(at)) /\ Len(buf) \in Nat
      BY <2>2
    <3>10. Len(buf \o chunk) = Len(buf) + Len(chunk)
      BY <3>0, ConcatFacts
    <3>1. Len(buf') = Len(buf) + BUFFER_SIZE /\ Len(buf) \in Nat
      BY <2>1, <2>4, <3>0, <3>10
    <3>2. buf' # <<>>
      BY <2>2, <3>1
    <3>3. \E m \in Nat : Len(buf) = m * BUFFER_SIZE
      <4>1. CASE buf = <<>>
        <5>1. Len(buf) = 0 /\ 0 = 0 * BUFFER_SIZE /\ 0 \in Nat
          BY <2>2, <4>1
        <5>. QED
          BY <5>1
      <4>2. CASE FullChunks
        BY <4>2 DEF FullChunks
      <4>. QED
        BY <1>1, <1>4, <4>1, <4>2 DEF ReadSound
    <3>4. PICK m \in Nat : Len(buf) = m * BUFFER_SIZE
      BY <3>3
    <3>5. m + 1 \in Nat /\ Len(buf') = (m + 1) * BUFFER_SIZE
      BY <3>1, <3>4, OneMoreChunk
    <3>. QED
      BY <3>2, <3>5 DEF FullChunks
  <2>. QED
    BY <2>1, <2>3, <2>4 DEF R!Kept
<1>5. ReadSound'
  BY <1>2, <1>4 DEF ReadSound, R!RecvAgain
<1>. QED
  BY <1>3, <1>5

LEMMA RoundArrive ==
  ASSUME InputSound, RoundSound, ReadSound, NEW c \in DOMAIN script, R!Arrive(c) \/ R!Close(c)
  PROVE  RoundSound' /\ ReadSound'
<1>1. /\ UNCHANGED <<daemon, script, clients, round, at, parsing, buf>>
      /\ \A d \in DOMAIN script : /\ net'[d] = net[d] \/ net'[d] # <<>>
                                  /\ closed'[d] = closed[d] \/ closed'[d]
  <2>1. CASE R!Arrive(c)
    <3>1. /\ UNCHANGED <<daemon, script, clients, round, at, parsing, buf, closed>>
          /\ \E e \in R!Byte(c) : net' = [net EXCEPT ![c] = Append(@, e)]
      BY <2>1, ArriveFacts
    <3>2. PICK e \in R!Byte(c) : net' = [net EXCEPT ![c] = Append(@, e)]
      BY <3>1
    <3>3. net \in [DOMAIN script -> Seq(Nat \X Nat)] /\ net[c] \in Seq(R!Byte(c))
      BY DEF InputSound, R!TypeOK
    <3>4. Append(net[c], e) # <<>>
      <4>1. Len(Append(net[c], e)) = Len(net[c]) + 1 /\ Len(net[c]) \in Nat
        BY <3>3, AppendFacts
      <4>. QED
        BY <4>1
    <3>. QED
      BY <3>1, <3>2, <3>3, <3>4
  <2>2. CASE R!Close(c)
    BY <2>2 DEF R!Close, InputSound, R!TypeOK
  <2>. QED
    BY <2>1, <2>2
<1>2. Astray' = Astray /\ \A d : R!IsOpen(d)' = R!IsOpen(d)
  BY <1>1 DEF Astray, R!IsOpen
<1>3. RoundSound'
  <2>1. ASSUME NEW e \in R!Report, Stands(e) PROVE Stands(e)'
    BY <1>1, <1>2, <2>1 DEF Stands, R!Report
  <2>. QED
    BY <1>1, <1>2, <2>1, RoundKept
<1>4. ReadSound'
  <2>1. at # R!NoClient => at \in DOMAIN script
    BY DEF InputSound, R!TypeOK
  <2>. QED
    BY <1>1, <1>2, <2>1 DEF ReadSound, FullChunks
<1>. QED
  BY <1>3, <1>4

LEMMA RoundNext ==
  ASSUME InputSound, AtMostAll, RoundSound, ReadSound, InputKinds
  PROVE  RoundSound' /\ ReadSound'
<1>1. CASE R!HangUp
  <2>1. /\ R!Visited \in DOMAIN script /\ Tail(round) \in Seq(R!Report) /\ round # <<>>
        /\ SessionEnds(R!Visited, Tail(round)) /\ Head(round).hup
    BY <1>1, FrontType DEF R!HangUp, R!Looking, SessionEnds, R!peer, R!histories
  <2>2. CASE Astray
    <3>1. /\ UNCHANGED <<daemon, script>> /\ clients' = R!Erased(clients, R!Visited)
          /\ clients \in Seq(DOMAIN script) /\ Distinct(clients) /\ Len(script) \in Nat
      BY <2>1, ScriptType DEF SessionEnds, R!Disconnect, InputSound, LoopReads, R!TypeOK
    <3>2. clients' \in Seq(DOMAIN script) /\ Len(clients') <= Len(clients)
      BY <3>1, ErasedFacts
    <3>3. Astray'
      BY <2>2, <3>1, <3>2 DEF Astray
    <3>. QED
      BY <3>3 DEF RoundSound, ReadSound
  <2>3. CASE ~Astray
    <3>1. Head(round) = round[1] /\ 1 \in 1 .. Len(round)
      BY <2>1 DEF InputSound, R!TypeOK
    <3>2. daemon = "channel"
      BY <2>1, <2>3, <3>1 DEF RoundSound, Stands
    <3>. QED
      BY <2>1, <3>2, RoundEnds
  <2>. QED
    BY <2>2, <2>3
<1>2. CASE R!RecvEnd \/ R!InvalidPacket
  <2>1. /\ SessionEnds(at, round) /\ round \in Seq(R!Report) /\ at \in DOMAIN script /\ R!IsOpen(at)
    BY <1>2 DEF R!RecvEnd, R!InvalidPacket, SessionEnds, R!peer, R!histories, InputSound, R!TypeOK,
                LoopReads, R!Idle
  <2>. QED
    BY <2>1, RoundEnds
<1>3. CASE Queued /\ R!Idle /\ SessionEnds(Session, round)
  <2>1. round \in Seq(R!Report) /\ daemon = "channel"
    BY <1>3 DEF InputSound, R!TypeOK, Queued
  <2>2. CASE Session \in DOMAIN script
    BY <1>3, <2>1, <2>2, RoundEnds
  <2>3. CASE Session \notin DOMAIN script
    <3>1. UNCHANGED <<closed, script, daemon>> /\ ~Astray /\ at = R!NoClient /\ at' = R!NoClient
      BY <1>3, <2>1 DEF SessionEnds, R!Disconnect, Astray, R!Idle
    <3>2. round' = round
      BY <1>3, <2>1 DEF SessionEnds, R!Disconnect, R!RestAfterErase
    <3>3. \A d \in DOMAIN script : net'[d] = net[d]
      BY <1>3, <2>3 DEF SessionEnds, R!Disconnect, InputSound, R!TypeOK
    <3>4. \A d : R!IsOpen(d)' => R!IsOpen(d)
      BY <1>3, <2>1, EndsSound
    <3>5. ASSUME NEW e \in R!Report, Stands(e) PROVE Stands(e)'
      BY <3>1, <3>3, <3>4, <3>5 DEF Stands, R!Report
    <3>6. RoundSound'
      BY <3>1, <3>2, <3>5, RoundKept
    <3>. QED
      BY <3>1, <3>6 DEF ReadSound
  <2>. QED
    BY <2>2, <2>3
<1>4. CASE UNCHANGED <<daemon, script, clients, net, closed, at, parsing, buf>>
           /\ (round' = round \/ (round # <<>> /\ round' = Tail(round)))
  <2>1. Astray' = Astray /\ \A d : R!IsOpen(d)' = R!IsOpen(d)
    BY <1>4 DEF Astray, R!IsOpen
  <2>2. ASSUME NEW e \in R!Report, Stands(e) PROVE Stands(e)'
    BY <1>4, <2>1, <2>2 DEF Stands
  <2>3. RoundSound'
    BY <1>4, <2>1, <2>2, RoundKept
  <2>. QED
    BY <1>4, <2>1, <2>3 DEF ReadSound, FullChunks
<1>5. CASE R!Pass \/ R!VisitDeleted \/ R!ParseThrows \/ UNCHANGED input
  BY <1>4, <1>5 DEF R!Pass, R!VisitDeleted, R!ParseThrows, R!Looking, R!peer, input
<1>6. CASE R!NeedMoreData \/ R!Handle
  <2>1. /\ Calm /\ UNCHANGED <<net, round, buf>> /\ parsing
        /\ UNCHANGED <<at, parsing>> \/ (at' = R!NoClient /\ ~parsing')
    BY <1>6 DEF R!NeedMoreData, R!Handle, R!peer, Calm
  <2>2. Astray' = Astray /\ \A c : R!IsOpen(c)' = R!IsOpen(c)
    BY <2>1, CalmAstray, CalmKeeps
  <2>3. ASSUME NEW e \in R!Report, Stands(e) PROVE Stands(e)'
    <3>1. e.client # R!NoClient
      BY ScriptType DEF R!Report, InputSound, R!TypeOK
    <3>. QED
      BY <2>1, <2>2, <2>3, <3>1 DEF Stands, Calm
  <2>4. RoundSound'
    BY <2>1, <2>2, <2>3, RoundKept
  <2>. QED
    BY <2>1, <2>4 DEF ReadSound
<1>. QED
  BY <1>1, <1>2, <1>3, <1>5, <1>6, RoundWait, RoundVisit, RoundRecv, RoundArrive
  DEF InputKinds, LoopStepOfReceive

LEMMA RoundInit == Init => AtMostAll /\ RoundSound /\ ReadSound
<1>. SUFFICES ASSUME Init PROVE AtMostAll /\ RoundSound /\ ReadSound
  OBVIOUS
<1>1. /\ clients = [i \in DOMAIN script |-> i] /\ DOMAIN script = 1 .. Len(script) /\ Len(script) \in Nat
      /\ round = <<>> /\ at = R!NoClient
  BY InputSoundInit, ScriptType DEF Init, R!Init, InputSound, R!TypeOK
<1>2. Len(clients) = Len(script) /\ Len(round) = 0
  BY <1>1
<1>. QED
  BY <1>1, <1>2 DEF AtMostAll, RoundSound, ReadSound, Once

-----------------------------------------------------------------------------
\* The inductive invariant of the receiving side.
ReceiveInv == InputSound /\ SendsBetween /\ Looked /\ InOrder
              /\ AtMostAll /\ RoundSound /\ ReadSound

LEMMA ReceiveInvariant == Spec => []ReceiveInv
<1>1. Init => ReceiveInv
  BY InputSoundInit, ReceiveInit, RoundInit DEF ReceiveInv
<1>2. ReceiveInv /\ [Next]_vars => ReceiveInv'
  BY NextIsInputKind, InputSoundNext, SendsBetweenNext, LookedNext, InOrderNext, AtMostAllNext,
     RoundNext DEF ReceiveInv
<1>. QED
  BY <1>1, <1>2, PTL DEF Spec

\* Whatever the daemon, its clients, their packets and the cuts of the network: what is
\* handled is what was sent, whole, once and in order.
THEOREM HandledCorrect == Spec => []HandledAsSent
<1>1. ReceiveInv => HandledAsSent
  BY DEF ReceiveInv, InOrder, HandledSoFar, HandledAsSent, R!HandledAsSent
<1>. QED
  BY <1>1, ReceiveInvariant, PTL

\* Between two events the channel server keeps no whole packet and no malformed one.
THEOREM KeptCorrect == Spec => []NothingWhollyKept
<1>1. ReceiveInv => NothingWhollyKept
  BY DEF ReceiveInv, Looked, InputSound, LoopReads, NothingWhollyKept, R!NothingWhollyKept, R!Idle
<1>. QED
  BY <1>1, ReceiveInvariant, PTL

LEMMA WholeChunks ==
  ASSUME NEW m \in Nat
  PROVE  (m * BUFFER_SIZE) % BUFFER_SIZE = 0
<1>1. BUFFER_SIZE \in Nat \ {0}
  BY SessionAssumption
<1>. QED
  BY <1>1

\* A daemon stands in a recv that blocks only after full chunks, or in a chat server that
\* a client has left: whatever the number of its clients and the size of a chunk.
THEOREM BlocksCorrect == Spec => []BlocksOnlyOnFullChunk
<1>1. ReceiveInv => BlocksOnlyOnFullChunk
  <2>. SUFFICES ASSUME ReceiveInv, R!Blocked, ~Astray
                PROVE  buf # <<>> /\ Len(buf) % BUFFER_SIZE = 0
    BY DEF BlocksOnlyOnFullChunk, R!BlocksOnlyOnFullChunk, Astray
  <2>1. FullChunks
    BY DEF ReceiveInv, ReadSound, R!Blocked, R!Idle
  <2>2. PICK m \in Nat : Len(buf) = m * BUFFER_SIZE
    BY <2>1 DEF FullChunks
  <2>. QED
    BY <2>1, <2>2, WholeChunks DEF FullChunks
<1>. QED
  BY <1>1, ReceiveInvariant, PTL

-----------------------------------------------------------------------------
(* The sending side is a SendQueue                                         *)

LEMMA AnswerType ==
  ASSUME InputSound, R!Handle
  PROVE  AnswerTo[script[at][Head(recvBuf[at])[1]]] \in Packets
<1>1. /\ at \in DOMAIN script /\ recvBuf[at] \in Seq(R!Byte(at))
      /\ R!Declared(at) \in 1 .. Len(recvBuf[at])
  BY HandleFacts
<1>2. recvBuf[at] # <<>> /\ Head(recvBuf[at]) \in R!Byte(at)
  BY <1>1
<1>3. Head(recvBuf[at])[1] \in 1 .. Len(script[at])
  BY <1>2 DEF R!Byte
<1>4. script[at] \in Seq(Requests)
  BY <1>1, ScriptType DEF InputSound, R!TypeOK
<1>5. script[at][Head(recvBuf[at])[1]] \in Requests
  BY <1>3, <1>4
<1>. QED
  BY <1>5, SessionAssumption

LEMMA StepIsQueueStep ==
  ASSUME InputSound, [Next]_vars
  PROVE  [Q!Next]_output
<1>1. CASE Receiving
  BY <1>1 DEF Receiving, Q!Next
<1>2. CASE Handling
  <2>1. CASE Queued /\ at = Session
    <3>1. R!Handle /\ Q!LoopPush(AnswerTo[script[at][Head(recvBuf[at])[1]]])
      BY <1>2, <2>1 DEF Handling
    <3>. QED
      BY <3>1, AnswerType DEF Q!Next
  <2>2. CASE ~(Queued /\ at = Session)
    BY <1>2, <2>2 DEF Handling
  <2>. QED
    BY <2>1, <2>2
<1>3. CASE Enabling \/ OnSend \/ Flushing
  BY <1>3 DEF Enabling, OnSend, Flushing, Q!Next, Q!LoopStep
<1>4. CASE SendFails \/ Peer \/ Draining
  BY <1>4 DEF SendFails, Peer, Draining, Q!Next
<1>5. CASE Working
  BY <1>5 DEF Working, Q!Next
<1>6. CASE UNCHANGED vars
  BY <1>6 DEF vars
<1>. QED
  BY <1>1, <1>2, <1>3, <1>4, <1>5, <1>6 DEF Next, LoopStep

\* Receiving and sending together implement SendQueue: the answers of the handlers are
\* pushes of the GameLoop, and the end of the input is the end of the queue.
THEOREM ImplementsSendQueue == Spec => Q!Spec
<1>1. Init => Q!Init
  BY DEF Init
<1>2. ReceiveInv /\ [Next]_vars => [Q!Next]_(Q!vars)
  BY StepIsQueueStep DEF ReceiveInv, output, Q!vars
<1>. QED
  BY <1>1, <1>2, ReceiveInvariant, PTL DEF Spec, Q!Spec

-----------------------------------------------------------------------------
(* The send queue: sequences                                              *)

LEMMA EmptyType ==
  ASSUME NEW S
  PROVE  <<>> \in Seq(S) /\ Len(<<>>) = 0
OBVIOUS

LEMMA AppendType ==
  ASSUME NEW S, NEW q \in Seq(S), NEW e \in S
  PROVE  Append(q, e) \in Seq(S)
OBVIOUS

LEMMA ConcatType ==
  ASSUME NEW S, NEW a \in Seq(S), NEW b \in Seq(S)
  PROVE  a \o b \in Seq(S)
OBVIOUS

\* The elements of a concatenation.
LEMMA ConcatElements ==
  ASSUME NEW S, NEW a \in Seq(S), NEW b \in Seq(S)
  PROVE  /\ Len(a \o b) = Len(a) + Len(b)
         /\ \A k \in 1 .. Len(a) : (a \o b)[k] = a[k]
         /\ \A k \in 1 .. Len(b) : (a \o b)[Len(a) + k] = b[k]
OBVIOUS

\* What pop_front leaves.
LEMMA TailType ==
  ASSUME NEW S, NEW q \in Seq(S), q # <<>>
  PROVE  /\ Tail(q) \in Seq(S) /\ Len(Tail(q)) = Len(q) - 1
         /\ \A i \in 1 .. Len(q) - 1 : Tail(q)[i] = q[i + 1]
OBVIOUS

-----------------------------------------------------------------------------
(* The send queue: types                                                  *)

LEMMA QueueInit == Q!Init => Q!IInv
<1>. SUFFICES ASSUME Q!Init PROVE Q!IInv
  OBVIOUS
<1>1. Q!TypeOK
  <2>1. queue \in Seq(Packets) /\ pushed \in Seq(Packets) /\ wire \in Seq(Packets \X Nat)
    BY EmptyType DEF Q!Init
  <2>2. buffered \in 0 .. Room
    BY SendAssumption DEF Q!Init
  <2>. QED
    BY <2>1, <2>2 DEF Q!Init, Q!TypeOK
<1>2. Q!LoopWatches /\ Q!PendingIsAttended
  BY DEF Q!Init, Q!LoopWatches, Q!PendingIsAttended
<1>3. Q!StreamIntact
  BY DEF Q!Init, Q!StreamIntact, Q!QueueIsRest, Q!Sent
<1>. QED
  BY <1>1, <1>2, <1>3 DEF Q!IInv

\* What one send adds to the wire.
Sending(n) == [k \in 1 .. n |-> <<Head(queue), offset + k>>]

LEMMA SendingType ==
  ASSUME Q!TypeOK, queue # <<>>, NEW n \in Nat
  PROVE  /\ Sending(n) \in Seq(Packets \X Nat)
         /\ Len(Sending(n)) = n
         /\ \A k \in 1 .. n : Sending(n)[k] = <<Head(queue), offset + k>>
<1>1. Head(queue) \in Packets
  BY DEF Q!TypeOK
<1>2. \A k \in 1 .. n : <<Head(queue), offset + k>> \in Packets \X Nat
  BY <1>1 DEF Q!TypeOK
<1>. QED
  BY <1>2 DEF Sending

LEMMA QueueTypeNext ==
  ASSUME Q!TypeOK, [Q!Next]_(Q!vars)
  PROVE  Q!TypeOK'
<1>. USE DEF Q!TypeOK
<1>1. ASSUME NEW p \in Packets, Q!PushBack(p)
      PROVE  queue' \in Seq(Packets) /\ pushed' \in Seq(Packets) /\ made' \subseteq Packets
  BY <1>1, AppendType DEF Q!PushBack
<1>2. ASSUME NEW w \in Workers, Q!WorkerEnable(w) PROVE Q!TypeOK'
  BY <1>2 DEF Q!WorkerEnable
<1>3. ASSUME NEW w \in Workers, NEW p \in Packets, Q!WorkerPush(w, p) PROVE Q!TypeOK'
  BY <1>1, <1>3 DEF Q!WorkerPush
<1>4. ASSUME NEW p \in Packets, Q!LoopPush(p) PROVE Q!TypeOK'
  BY <1>1, <1>4 DEF Q!LoopPush
<1>5. CASE Q!LoopEnable
  BY <1>5 DEF Q!LoopEnable
<1>6. CASE Q!OnSend
  BY <1>6 DEF Q!OnSend
<1>7. CASE Q!FlushSome
  <2>1. queue # <<>>
    BY <1>7 DEF Q!FlushSome
  <2>2. Size[Head(queue)] \in Nat
    BY <2>1, SendAssumption
  <2>3. PICK n \in 1 .. Size[Head(queue)] - offset :
           buffered + n <= Room /\ Q!Advance(n) /\ buffered' = buffered + n /\ wire' = wire \o Sending(n)
    BY <1>7 DEF Q!FlushSome, Sending
  <2>4. n \in Nat
    BY <2>2
  <2>5. queue' \in Seq(Packets) /\ offset' \in Nat
    <3>1. Tail(queue) \in Seq(Packets)
      BY <2>1, TailType
    <3>2. queue' \in {queue, Tail(queue)} /\ offset' \in {0, offset + n}
      BY <2>3 DEF Q!Advance
    <3>. QED
      <4>1. queue' \in Seq(Packets)
        BY <3>1, <3>2
      <4>2. offset + n \in Nat
        BY <2>4
      <4>. QED
        BY <4>1, <4>2, <3>2
  <2>6. wire' \in Seq(Packets \X Nat)
    BY <2>1, <2>3, <2>4, SendingType, ConcatType
  <2>7. buffered' \in 0 .. Room
    BY <2>3, <2>4, SendAssumption
  <2>. QED
    BY <1>7, <2>5, <2>6, <2>7 DEF Q!FlushSome
<1>8. CASE Q!FlushEnds
  BY <1>8 DEF Q!FlushEnds
<1>9. CASE Q!HasPendingSend
  BY <1>9 DEF Q!HasPendingSend
<1>10. CASE Q!DisableWriteEvent
  BY <1>10 DEF Q!DisableWriteEvent
<1>11. CASE Q!OnDisconnect
  BY <1>11, EmptyType DEF Q!OnDisconnect
<1>12. CASE Q!Drain
  BY <1>12, SendAssumption DEF Q!Drain
<1>13. CASE UNCHANGED Q!vars
  BY <1>13 DEF Q!vars
<1>. QED
  BY <1>2, <1>3, <1>4, <1>5, <1>6, <1>7, <1>8, <1>9, <1>10, <1>11, <1>12, <1>13 DEF Q!Next, Q!LoopStep

-----------------------------------------------------------------------------
(* The send queue: who looks at it                                         *)

LEMMA LoopWatchesNext ==
  ASSUME Q!TypeOK, Q!LoopWatches, [Q!Next]_(Q!vars)
  PROVE  Q!LoopWatches'
BY DEF Q!TypeOK, Q!LoopWatches, Q!Next, Q!LoopStep, Q!vars, Q!WorkerEnable, Q!WorkerPush, Q!LoopPush, Q!PushBack,
       Q!LoopEnable, Q!OnSend, Q!FlushSome, Q!FlushEnds, Q!HasPendingSend, Q!DisableWriteEvent, Q!OnDisconnect, Q!Drain

LEMMA AttendedNext ==
  ASSUME Q!TypeOK, Q!LoopWatches, Q!PendingIsAttended, [Q!Next]_(Q!vars)
  PROVE  Q!PendingIsAttended'
<1>. USE DEF Q!PendingIsAttended, Q!Attended, Q!TypeOK
<1>1. ASSUME NEW w \in Workers, Q!WorkerEnable(w) PROVE Q!PendingIsAttended'
  BY <1>1 DEF Q!WorkerEnable
<1>2. ASSUME NEW w \in Workers, NEW p \in Packets, Q!WorkerPush(w, p) PROVE Q!PendingIsAttended'
  BY <1>2 DEF Q!WorkerPush
<1>3. ASSUME NEW p \in Packets, Q!LoopPush(p) PROVE Q!PendingIsAttended'
  BY <1>3 DEF Q!LoopPush
<1>4. CASE Q!LoopEnable
  BY <1>4 DEF Q!LoopEnable
<1>5. CASE Q!OnSend
  BY <1>5 DEF Q!OnSend
<1>6. CASE Q!FlushSome
  BY <1>6 DEF Q!FlushSome
<1>7. CASE Q!FlushEnds
  BY <1>7 DEF Q!FlushEnds
<1>8. CASE Q!HasPendingSend
  BY <1>8 DEF Q!HasPendingSend, Q!LoopWatches
<1>9. CASE Q!DisableWriteEvent
  BY <1>9 DEF Q!DisableWriteEvent
<1>10. CASE Q!OnDisconnect
  BY <1>10 DEF Q!OnDisconnect
<1>11. CASE Q!Drain
  BY <1>11 DEF Q!Drain
<1>12. CASE UNCHANGED Q!vars
  BY <1>12 DEF Q!vars
<1>. QED
  BY <1>1, <1>2, <1>3, <1>4, <1>5, <1>6, <1>7, <1>8, <1>9, <1>10, <1>11, <1>12 DEF Q!Next, Q!LoopStep

-----------------------------------------------------------------------------
(* The send queue: the stream of bytes                                     *)

\* A step that keeps the queue, its offset and the histories keeps the stream.
LEMMA StreamUntouched ==
  ASSUME Q!StreamIntact, open' => open, UNCHANGED <<queue, offset, pushed, wire>>
  PROVE  Q!StreamIntact'
BY DEF Q!StreamIntact, Q!QueueIsRest, Q!Sent, Q!LastByte, Q!IsNext

LEMMA StreamPush ==
  ASSUME Q!TypeOK, Q!StreamIntact, NEW p \in Packets, Q!PushBack(p), UNCHANGED <<offset, open, wire>>
  PROVE  Q!StreamIntact'
<1>. SUFFICES ASSUME open PROVE Q!StreamIntact'
  BY DEF Q!StreamIntact
<1>1. /\ queue' = Append(queue, p) /\ pushed' = Append(pushed, p)
      /\ queue \in Seq(Packets) /\ pushed \in Seq(Packets) /\ wire \in Seq(Packets \X Nat)
      /\ offset \in Nat
  BY DEF Q!PushBack, Q!TypeOK
<1>2. Q!QueueIsRest
  BY DEF Q!StreamIntact
<1>3. Q!Sent' = Q!Sent /\ Q!Sent \in Nat /\ Len(queue) \in Nat /\ Len(pushed) \in Nat /\ Len(pushed) >= Len(queue)
  BY <1>1, <1>2 DEF Q!Sent, Q!QueueIsRest
<1>4. \A i \in 1 .. Len(pushed) : pushed'[i] = pushed[i]
  BY <1>1
<1>5. \A i \in 1 .. Len(queue) : queue'[i] = queue[i]
  BY <1>1
<1>6. Len(queue') = Len(queue) + 1 /\ queue'[Len(queue) + 1] = p /\ pushed'[Len(pushed) + 1] = p
  BY <1>1
<1>7. \A i \in 1 .. Len(queue') : queue'[i] = pushed'[Q!Sent + i]
  <2>. TAKE i \in 1 .. Len(queue')
  <2>1. CASE i \in 1 .. Len(queue)
    <3>1. queue[i] = pushed[Q!Sent + i]
      BY <2>1, <1>2 DEF Q!QueueIsRest
    <3>2. Q!Sent + i \in 1 .. Len(pushed)
      BY <2>1, <1>3 DEF Q!Sent
    <3>3. queue'[i] = queue[i]
      BY <2>1, <1>5
    <3>4. pushed'[Q!Sent + i] = pushed[Q!Sent + i]
      BY <3>2, <1>4
    <3>. QED
      BY <3>1, <3>3, <3>4
  <2>2. CASE i = Len(queue) + 1
    BY <2>2, <1>3, <1>6 DEF Q!Sent
  <2>. QED
    BY <2>1, <2>2, <1>6, <1>3
<1>8. queue' # <<>> /\ Head(queue') = IF queue = <<>> THEN p ELSE Head(queue)
  BY <1>1
<1>9. Q!QueueIsRest'
  <2>1. Size[p] > 0
    BY SendAssumption
  <2>2. offset' < Size[Head(queue')]
    <3>1. CASE queue = <<>>
      <4>1. offset < 1
        BY <3>1, <1>2 DEF Q!QueueIsRest
      <4>2. Head(queue') = p /\ Size[p] \in Nat
        BY <3>1, <1>8, SendAssumption
      <4>. QED
        BY <4>1, <4>2, <2>1, <1>1
    <3>2. CASE queue # <<>>
      <4>1. Head(queue') = Head(queue) /\ offset' = offset
        BY <3>2, <1>8
      <4>2. offset < Size[Head(queue)]
        BY <3>2, <1>2 DEF Q!QueueIsRest
      <4>. QED
        BY <4>1, <4>2
    <3>. QED
      BY <3>1, <3>2
  <2>. QED
    BY <2>2, <1>3, <1>7, <1>8 DEF Q!QueueIsRest
<1>10. ASSUME NEW b, NEW c, Q!IsNext(b, c) PROVE Q!IsNext(b, c)'
  BY <1>10, <1>1, <1>3, <1>4 DEF Q!IsNext
<1>11. \A k \in 1 .. Len(wire) - 1 : Q!IsNext(wire[k], wire[k + 1])'
  BY <1>10 DEF Q!StreamIntact
<1>12. ASSUME wire # <<>>
       PROVE  wire[1] = <<pushed'[1], 1>> /\ wire[Len(wire)] = Q!LastByte'
  <2>1. ~(Q!Sent = 0 /\ offset = 0) /\ wire[1] = <<pushed[1], 1>> /\ wire[Len(wire)] = Q!LastByte
    BY <1>12 DEF Q!StreamIntact
  <2>2. offset > 0 => queue # <<>>
    BY <1>2, <1>1 DEF Q!QueueIsRest
  <2>3. Len(pushed) >= 1
    BY <2>1, <2>2, <1>3, <1>1 DEF Q!Sent
  <2>4. Q!LastByte' = Q!LastByte
    <3>1. CASE offset > 0
      BY <3>1, <2>2, <1>1, <1>8 DEF Q!LastByte
    <3>2. CASE offset = 0
      <4>1. Q!Sent \in 1 .. Len(pushed)
        BY <3>2, <2>1, <1>3 DEF Q!Sent
      <4>2. pushed'[Q!Sent'] = pushed[Q!Sent]
        BY <4>1, <1>3, <1>4
      <4>. QED
        BY <3>2, <4>2 DEF Q!LastByte
    <3>. QED
      BY <3>1, <3>2, <1>1
  <2>. QED
    BY <2>1, <2>3, <2>4, <1>4
<1>. QED
  BY <1>3, <1>9, <1>11, <1>12 DEF Q!StreamIntact

LEMMA StreamFlush ==
  ASSUME Q!TypeOK, Q!StreamIntact, Q!FlushSome
  PROVE  Q!StreamIntact'
<1>. SUFFICES ASSUME open PROVE Q!StreamIntact'
  BY DEF Q!StreamIntact, Q!FlushSome
<1>. DEFINE h == Head(queue)
<1>1. /\ queue # <<>> /\ pushed' = pushed /\ Q!QueueIsRest
      /\ queue \in Seq(Packets) /\ pushed \in Seq(Packets) /\ wire \in Seq(Packets \X Nat)
      /\ offset \in Nat
  BY DEF Q!FlushSome, Q!StreamIntact, Q!TypeOK
<1>2. h \in Packets /\ Size[h] \in Nat /\ Size[h] > 0 /\ offset < Size[h]
  BY <1>1, SendAssumption DEF Q!QueueIsRest
<1>3. PICK n \in 1 .. Size[h] - offset : Q!Advance(n) /\ wire' = wire \o Sending(n)
  BY DEF Q!FlushSome, Sending
<1>4. n \in Nat /\ n >= 1 /\ offset + n <= Size[h]
  BY <1>1, <1>2, <1>3
<1>5. /\ Sending(n) \in Seq(Packets \X Nat) /\ Len(Sending(n)) = n
      /\ \A k \in 1 .. n : Sending(n)[k] = <<h, offset + k>>
  BY <1>1, <1>4, SendingType
<1>6. /\ Q!Sent \in Nat /\ Len(queue) >= 1 /\ Len(queue) \in Nat /\ Len(pushed) = Q!Sent + Len(queue)
      /\ Len(pushed) \in Nat /\ h = pushed[Q!Sent + 1]
  BY <1>1 DEF Q!QueueIsRest, Q!Sent
<1>. HIDE DEF h
<1>7. /\ \A k \in 1 .. Len(wire) : wire'[k] = wire[k]
      /\ \A k \in 1 .. n : wire'[Len(wire) + k] = <<h, offset + k>>
      /\ Len(wire') = Len(wire) + n /\ Len(wire) \in Nat
  <2>1. /\ Len(wire \o Sending(n)) = Len(wire) + Len(Sending(n))
        /\ \A k \in 1 .. Len(wire) : (wire \o Sending(n))[k] = wire[k]
        /\ \A k \in 1 .. Len(Sending(n)) : (wire \o Sending(n))[Len(wire) + k] = Sending(n)[k]
    <3>1. wire \in Seq(Packets \X Nat) /\ Sending(n) \in Seq(Packets \X Nat)
      BY <1>1, <1>5
    <3>. QED
      BY <3>1, ConcatElements
  <2>2. Len(wire) \in Nat
    BY <1>1
  <2>. QED
    BY <2>1, <2>2, <1>3, <1>5
<1>8. IF offset + n = Size[h]
      THEN queue' = Tail(queue) /\ offset' = 0 /\ Q!Sent' = Q!Sent + 1
      ELSE queue' = queue /\ offset' = offset + n /\ Q!Sent' = Q!Sent
  <2>1. queue' = Tail(queue) => Q!Sent' = Q!Sent + 1
    BY <1>1, <1>6, TailType DEF Q!Sent
  <2>2. queue' = queue => Q!Sent' = Q!Sent
    BY <1>1 DEF Q!Sent
  <2>. QED
    BY <2>1, <2>2, <1>3 DEF Q!Advance, h
<1>9. Q!QueueIsRest'
  <2>1. CASE offset + n = Size[h]
    <3>1. Len(queue') = Len(queue) - 1 /\ \A i \in 1 .. Len(queue') : queue'[i] = queue[i + 1]
      <4>1. /\ Len(Tail(queue)) = Len(queue) - 1
            /\ \A i \in 1 .. Len(queue) - 1 : Tail(queue)[i] = queue[i + 1]
        BY <1>1, TailType
      <4>. QED
        BY <4>1, <2>1, <1>8
    <3>2. \A i \in 1 .. Len(queue') : queue'[i] = pushed'[Q!Sent' + i]
      <4>. TAKE i \in 1 .. Len(queue')
      <4>1. i + 1 \in 1 .. Len(queue) /\ queue'[i] = queue[i + 1]
        BY <3>1, <1>1
      <4>2. \A j \in 1 .. Len(queue) : queue[j] = pushed[Q!Sent + j]
        BY <1>1 DEF Q!QueueIsRest
      <4>3. queue[i + 1] = pushed[Q!Sent + (i + 1)]
        BY <4>1, <4>2
      <4>4. Q!Sent' + i = Q!Sent + (i + 1)
        BY <2>1, <1>8, <1>6
      <4>. QED
        BY <4>1, <4>3, <4>4, <1>1
    <3>3. queue' # <<>> => Size[Head(queue')] > 0
      <4>1. queue' \in Seq(Packets)
        BY <2>1, <1>8, <1>1, TailType
      <4>. QED
        BY <4>1, SendAssumption
    <3>. QED
      BY <3>2, <3>3, <2>1, <1>8, <1>6 DEF Q!QueueIsRest
  <2>2. CASE offset + n # Size[h]
    <3>1. queue' = queue /\ pushed' = pushed /\ Q!Sent' = Q!Sent
      BY <2>2, <1>8, <1>1
    <3>2. offset' < Size[Head(queue')]
      <4>1. Head(queue') = h
        BY <3>1 DEF h
      <4>2. offset' = offset + n
        BY <2>2, <1>8
      <4>3. offset + n < Size[h]
        <5>1. offset + n \in Nat /\ Size[h] \in Nat /\ offset + n <= Size[h]
          BY <1>1, <1>2, <1>4
        <5>. QED
          BY <5>1, <2>2
      <4>. QED
        BY <4>1, <4>2, <4>3
    <3>. QED
      BY <3>1, <3>2, <1>1 DEF Q!QueueIsRest
  <2>. QED
    BY <2>1, <2>2
<1>10. wire' # <<>> /\ ~(Q!Sent' = 0 /\ offset' = 0)
  <2>1. Len(wire') >= 1
    BY <1>4, <1>7
  <2>2. wire' # <<>>
    BY <2>1
  <2>. QED
    BY <2>2, <1>8, <1>1, <1>4, <1>6
<1>11. wire'[Len(wire')] = Q!LastByte'
  <2>1. wire'[Len(wire')] = <<h, offset + n>>
    BY <1>4, <1>7
  <2>2. CASE offset + n = Size[h]
    BY <2>1, <2>2, <1>1, <1>6, <1>8 DEF Q!LastByte
  <2>3. CASE offset + n # Size[h]
    BY <2>1, <2>3, <1>1, <1>4, <1>8 DEF Q!LastByte, h
  <2>. QED
    BY <2>2, <2>3
<1>12. wire'[1] = <<pushed'[1], 1>>
  <2>1. CASE wire = <<>>
    <3>1. Q!Sent = 0 /\ offset = 0 /\ Len(wire) = 0
      BY <2>1 DEF Q!StreamIntact
    <3>. QED
      BY <3>1, <1>1, <1>4, <1>6, <1>7
  <2>2. CASE wire # <<>>
    BY <2>2, <1>1, <1>7 DEF Q!StreamIntact
  <2>. QED
    BY <2>1, <2>2
<1>13. ASSUME NEW k \in 1 .. Len(wire') - 1 PROVE Q!IsNext(wire[k], wire[k + 1])'
  <2>1. CASE k < Len(wire)
    <3>1. k \in 1 .. Len(wire) - 1 /\ k \in 1 .. Len(wire) /\ k + 1 \in 1 .. Len(wire)
      BY <2>1, <1>7
    <3>2. Q!IsNext(wire[k], wire[k + 1])
      BY <3>1 DEF Q!StreamIntact
    <3>3. wire'[k] = wire[k] /\ wire'[k + 1] = wire[k + 1]
      BY <3>1, <1>7
    <3>. QED
      BY <3>2, <3>3, <1>1 DEF Q!IsNext
  <2>2. CASE k = Len(wire)
    <3>1. wire # <<>> /\ wire'[k] = Q!LastByte
      BY <2>2, <1>1, <1>7 DEF Q!StreamIntact
    <3>2. wire'[k + 1] = <<h, offset + 1>>
      BY <2>2, <1>4, <1>7
    <3>3. CASE offset > 0
      BY <3>1, <3>2, <3>3, <1>2 DEF Q!LastByte, Q!IsNext, h
    <3>4. CASE offset = 0
      <4>1. Q!Sent >= 1
        BY <3>1, <3>4, <1>6 DEF Q!StreamIntact
      <4>2. wire'[k] = <<pushed[Q!Sent], Size[pushed[Q!Sent]]>>
        BY <3>1, <3>4 DEF Q!LastByte
      <4>3. Q!Sent \in 1 .. Len(pushed) - 1 /\ pushed[Q!Sent + 1] = h
        BY <4>1, <1>6
      <4>4. Size[pushed[Q!Sent]] \in Nat
        BY <4>3, <1>1, <1>6, SendAssumption
      <4>5. wire'[k + 1] = <<pushed[Q!Sent + 1], 1>>
        BY <4>3, <3>2, <3>4
      <4>6. pushed' = pushed
        BY <1>1
      <4>7. ~(wire'[k][2] < Size[wire'[k][1]])
        BY <4>2, <4>4
      <4>8. \E i \in 1 .. Len(pushed') - 1 : wire'[k][1] = pushed'[i] /\ wire'[k + 1][1] = pushed'[i + 1]
        BY <4>2, <4>3, <4>5, <4>6
      <4>9. wire'[k + 1][2] = 1
        BY <4>5
      <4>. QED
        BY <4>7, <4>8, <4>9 DEF Q!IsNext
    <3>. QED
      BY <3>3, <3>4, <1>1
  <2>3. CASE k > Len(wire)
    <3>1. PICK j \in 1 .. n - 1 : k = Len(wire) + j
      <4>1. k - Len(wire) \in 1 .. n - 1 /\ k = Len(wire) + (k - Len(wire))
        BY <2>3, <1>4, <1>7
      <4>. QED
        BY <4>1
    <3>2. wire'[k] = <<h, offset + j>> /\ wire'[k + 1] = <<h, offset + j + 1>>
      <4>1. j \in 1 .. n /\ j + 1 \in 1 .. n /\ k + 1 = Len(wire) + (j + 1)
        BY <3>1, <1>4, <1>7
      <4>. QED
        <5>1. wire'[Len(wire) + j] = <<h, offset + j>>
          BY <4>1, <1>7
        <5>2. wire'[Len(wire) + (j + 1)] = <<h, offset + (j + 1)>>
          BY <4>1, <1>7
        <5>3. offset + (j + 1) = offset + j + 1
          BY <1>1
        <5>. QED
          BY <4>1, <3>1, <5>1, <5>2, <5>3
    <3>3. wire'[k][1] = h /\ wire'[k][2] = offset + j /\ offset + j < Size[h]
      <4>1. offset + j < Size[h]
        BY <1>1, <1>2, <1>4
      <4>. QED
        BY <3>2, <4>1
    <3>4. wire'[k + 1] = <<h, (offset + j) + 1>>
      BY <3>2
    <3>. QED
      BY <3>3, <3>4 DEF Q!IsNext
  <2>. QED
    BY <2>1, <2>2, <2>3, <1>7
<1>. QED
  BY <1>9, <1>10, <1>11, <1>12, <1>13 DEF Q!StreamIntact

LEMMA StreamNext ==
  ASSUME Q!TypeOK, Q!StreamIntact, [Q!Next]_(Q!vars)
  PROVE  Q!StreamIntact'
<1>1. ASSUME NEW w \in Workers, Q!WorkerEnable(w) PROVE Q!StreamIntact'
  BY <1>1, StreamUntouched DEF Q!WorkerEnable
<1>2. ASSUME NEW w \in Workers, NEW p \in Packets, Q!WorkerPush(w, p) PROVE Q!StreamIntact'
  BY <1>2, StreamPush DEF Q!WorkerPush
<1>3. ASSUME NEW p \in Packets, Q!LoopPush(p) PROVE Q!StreamIntact'
  BY <1>3, StreamPush DEF Q!LoopPush
<1>4. CASE Q!LoopEnable
  BY <1>4, StreamUntouched DEF Q!LoopEnable
<1>5. CASE Q!OnSend
  BY <1>5, StreamUntouched DEF Q!OnSend
<1>6. CASE Q!FlushSome
  BY <1>6, StreamFlush
<1>7. CASE Q!FlushEnds
  BY <1>7, StreamUntouched DEF Q!FlushEnds
<1>8. CASE Q!HasPendingSend
  BY <1>8, StreamUntouched DEF Q!HasPendingSend
<1>9. CASE Q!DisableWriteEvent
  BY <1>9, StreamUntouched DEF Q!DisableWriteEvent
<1>10. CASE Q!OnDisconnect
  BY <1>10 DEF Q!OnDisconnect, Q!StreamIntact
<1>11. CASE Q!Drain
  BY <1>11, StreamUntouched DEF Q!Drain
<1>12. CASE UNCHANGED Q!vars
  BY <1>12, StreamUntouched DEF Q!vars
<1>. QED
  BY <1>1, <1>2, <1>3, <1>4, <1>5, <1>6, <1>7, <1>8, <1>9, <1>10, <1>11, <1>12 DEF Q!Next, Q!LoopStep

-----------------------------------------------------------------------------
(* The send queue: results                                                 *)

LEMMA QueueInvariant == Q!Spec => []Q!IInv
<1>1. Q!IInv /\ [Q!Next]_(Q!vars) => Q!IInv'
  BY QueueTypeNext, LoopWatchesNext, StreamNext, AttendedNext DEF Q!IInv
<1>. QED
  BY <1>1, QueueInit, PTL DEF Q!Spec

\* A send queue by itself, whoever pushes into it: types, the bytes on the wire and who
\* attends to what waits, for any packets, sizes, workers and send buffer.
THEOREM QueueCorrect == Q!Spec => [](Q!TypeOK /\ Q!StreamIntact /\ Q!PendingIsAttended)
<1>1. Q!IInv => Q!TypeOK /\ Q!StreamIntact /\ Q!PendingIsAttended
  BY DEF Q!IInv
<1>. QED
  BY <1>1, QueueInvariant, PTL

\* The types of both sides.
THEOREM TypeCorrect == Spec => []TypeOK
<1>1. ReceiveInv => R!TypeOK
  BY DEF ReceiveInv, InputSound
<1>2. R!TypeOK /\ Q!TypeOK => TypeOK
  BY DEF TypeOK
<1>. QED
  BY <1>1, <1>2, ReceiveInvariant, ImplementsSendQueue, QueueCorrect, PTL

\* The peer of a channel session gets the packets that handlers and workers push for it,
\* whole, once and in order, whatever the clients send and however the socket cuts it.
THEOREM StreamCorrect == Spec => []StreamIntact
<1>1. Q!StreamIntact => StreamIntact
  BY DEF StreamIntact
<1>. QED
  BY <1>1, ImplementsSendQueue, QueueCorrect, PTL

\* An answer or a push that waits in the queue is attended to, but for the one order of
\* the send_stuck run.
THEOREM AttendedCorrect == Spec => []PendingIsAttended
<1>1. Q!PendingIsAttended => PendingIsAttended
  BY DEF PendingIsAttended
<1>. QED
  BY <1>1, ImplementsSendQueue, QueueCorrect, PTL
=============================================================================
