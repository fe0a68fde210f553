---------------------------- MODULE TradeService ----------------------------
(***************************************************************************)
(* Item trades between two players of one channel process: the session     *)
(* table TradeService::m_sessions, the five PKT_TRADE_* handlers that run  *)
(* on the GameLoop thread, the SQL transaction of TradeService::Execute,   *)
(* the connection pool it draws from, and the log-ins, disconnects and     *)
(* process deaths that happen around a trade.                              *)
(*                                                                         *)
(* A Player object is known by its address: sessions keep raw pointers and *)
(* tell the two sides apart by comparing them, and an address is used      *)
(* again after the object that had it was freed.                           *)
(***************************************************************************)
EXTENDS TradeRows, Sequences

CONSTANTS Players,      \* character ids
          Addrs,        \* addresses a Player object can have
          SessionIds,   \* TradeSession objects; a leaked one is never reused
          MapIds,       \* maps a player can stand on
          Amounts,      \* what std::stoi makes of the amount in a packet
          MaxOffers,    \* bound on the items that are on offer at once
          PoolSize,     \* connections MySqlConnectionPool is created with
          InitialRows,  \* character_inventory before the first log-in
          Null,         \* nullptr
          Absent        \* no entry in m_sessions

\* TradeItem.  Nobody looks at the amount: it may be zero or negative.
Offer == [item : Items, amount : Amounts]

Session == [aPtr : Addrs, bPtr : Addrs, aId : Players, bId : Players,
            aReady : BOOLEAN, bReady : BOOLEAN,
            aItems : Seq(Offer), bItems : Seq(Offer)]

\* Execute in progress: the session, who pressed Ready last, whether START
\* TRANSACTION took effect, the next transfer and the next statement of it, the
\* rows the connection sees, and (for the properties) those it began with.
Txn == [session : SessionIds, by : Players, open : BOOLEAN,
        next : Nat \ {0}, step : {"Minus", "Delete", "Increase"},
        rows : [Players -> SUBSET Row], before : [Players -> SUBSET Row]]

ASSUME TradeAssumption ==
    /\ Amounts \subseteq Int
    /\ PoolSize \in Nat \ {0}
    /\ MaxOffers \in Nat
    /\ InitialRows \in [Players -> SUBSET Row]
    \* No other code writes the table, and a trade keeps one row per item.
    /\ \A p \in Players : OneRow(InitialRows[p]) /\ SlotKey(InitialRows[p])
    /\ Absent # Null
    /\ Null \notin SessionIds /\ Absent \notin SessionIds
    /\ Null \notin Session /\ Null \notin Txn /\ Null \notin Addrs

VARIABLES
    proc,       \* "up", or why the process died
    online,     \* PlayerManager::m_players: id -> address, or Null
    sessions,   \* TradeService::m_sessions: id -> session, Null or Absent
    heap,       \* the TradeSession objects, Null where none is allocated
    db,         \* committed rows of character_inventory, per character
    freeConns,  \* connections left in MySqlConnectionPool::m_pool
    txn,        \* the transaction TradeService::Execute is in, or Null
    hist        \* history, for the properties: who pressed Ready in a session,
                \* who offered what, and whether a member disconnected

vars == <<proc, online, sessions, heap, db, freeConns, txn, hist>>

NewHist == [pressed |-> {}, offered |-> {}, broken |-> FALSE]

Hist == [pressed : SUBSET Players, offered : SUBSET (Players \X Offer),
         broken : BOOLEAN]

TypeOK ==
    /\ proc \in {"up", "nullSession", "stalePlayer"}
    /\ online \in [Players -> Addrs \cup {Null}]
    /\ sessions \in [Players -> SessionIds \cup {Null, Absent}]
    /\ heap \in [SessionIds -> Session \cup {Null}]
    /\ db \in [Players -> SUBSET Row]
    /\ freeConns \in 0 .. PoolSize
    /\ txn \in Txn \cup {Null}
    /\ hist \in [SessionIds -> Hist]

Init ==
    /\ proc = "up"
    /\ online = [p \in Players |-> Null]
    /\ sessions = [p \in Players |-> Absent]
    /\ heap = [s \in SessionIds |-> Null]
    /\ db = InitialRows
    /\ freeConns = PoolSize
    /\ txn = Null
    /\ hist = [s \in SessionIds |-> NewHist]

-----------------------------------------------------------------------------
\* The GameLoop thread takes the next packet only between two handlers.

Idle == proc = "up" /\ txn = Null

IsOnline(p) == online[p] # Null

Members(s) == {heap[s].aId, heap[s].bId}

\* session->a_player == player
IsASide(s, p) == heap[s].aPtr = online[p]

\* DeleteTradeSession: both ids are erased, whatever they map to by now.
DeleteTradeSession(s) ==
    /\ sessions' = [p \in Players |-> IF p \in Members(s) THEN Absent ELSE sessions[p]]
    /\ heap' = [heap EXCEPT ![s] = Null]
    /\ hist' = [hist EXCEPT ![s] = NewHist]

\* m_sessions[id] inserts a null entry for an id that has none.
InsertNullEntry(p) ==
    sessions' = [sessions EXCEPT ![p] = IF @ = Absent THEN Null ELSE @]

-----------------------------------------------------------------------------
\* PKT_CHANNEL_AUTH: the character is loaded through the pool, so nobody can
\* log in once it is empty; a second log-in of the same id is refused.
Login(p) ==
    /\ Idle
    /\ ~IsOnline(p)
    /\ freeConns > 0
    /\ \E a \in Addrs \ {online[q] : q \in Players} :
          online' = [online EXCEPT ![p] = a]
    /\ UNCHANGED <<proc, sessions, heap, db, freeConns, txn, hist>>

\* ~ChannelSession frees the Player; the trade session is left as it is.
Disconnect(p) ==
    /\ Idle
    /\ IsOnline(p)
    /\ online' = [online EXCEPT ![p] = Null]
    /\ hist' = [s \in SessionIds |->
                  IF heap[s] # Null /\ p \in Members(s)
                  THEN [hist[s] EXCEPT !.broken = TRUE] ELSE hist[s]]
    /\ UNCHANGED <<proc, sessions, heap, db, freeConns, txn>>

\* The checks of TradeService::Start.  Where the players stand and whether
\* they live is decided by the map, so every combination is possible.
Scene == [map : MapIds \cup {Null}, alive : BOOLEAN]
CanStart(r, a) == r.map # Null /\ a.map # Null /\ r.map = a.map /\ r.alive /\ a.alive

\* Mutant: the session a is in is freed before its entry is overwritten.
CreateFreeingOld(s, a, b) ==
    /\ heap[s] = Null
    /\ heap' = [t \in SessionIds |->
          IF t = s
          THEN [aPtr |-> online[a], bPtr |-> online[b], aId |-> a, bId |-> b,
                aReady |-> FALSE, bReady |-> FALSE, aItems |-> <<>>, bItems |-> <<>>]
          ELSE IF t = sessions[a] THEN Null ELSE heap[t]]
    /\ sessions' = [sessions EXCEPT ![a] = s, ![b] = s]
    /\ hist' = [hist EXCEPT ![s] = NewHist]

\* CreateTradeSession: a fresh TradeSession for both, in place of whatever
\* either of them has in the table.
CreateTradeSession(s, a, b) ==
    /\ heap[s] = Null
    /\ heap' = [heap EXCEPT ![s] =
          [aPtr |-> online[a], bPtr |-> online[b], aId |-> a, bId |-> b,
           aReady |-> FALSE, bReady |-> FALSE,
           aItems |-> <<>>, bItems |-> <<>>]]
    /\ sessions' = [sessions EXCEPT ![a] = s, ![b] = s]
    /\ hist' = [hist EXCEPT ![s] = NewHist]

\* PKT_TRADE_ACCEPT of accepter, naming requester: no open request and no
\* running trade is looked for; an older session of either is overwritten in
\* the table and stays on the heap.
TradeAccept(accepter, requester) ==
    /\ Idle
    /\ IsOnline(accepter) /\ IsOnline(requester)
    /\ \E r, a \in Scene : CanStart(r, a)
    /\ \E s \in SessionIds : CreateTradeSession(s, requester, accepter)
    /\ UNCHANGED <<proc, online, db, freeConns, txn>>

\* GetTargetPlayer
TargetPlayer(s, p) == IF IsASide(s, p) THEN heap[s].bPtr ELSE heap[s].aPtr

TransferCount(sess) == Len(sess.aItems) + Len(sess.bItems)

\* Bound: the items on offer in all sessions together.
OnOffer ==
    UNION { {s} \X (1 .. TransferCount(heap[s])) : s \in { t \in SessionIds : heap[t] # Null } }

IsLive(addr) == \E p \in Players : online[p] = addr

\* UploadItem: the item goes to the side the pointer comparison picks.
UploadItem(s, p, offer) ==
    /\ \/ /\ IsASide(s, p)
          /\ heap' = [heap EXCEPT ![s].aItems = Append(@, offer)]
       \/ /\ ~IsASide(s, p)
          /\ heap' = [heap EXCEPT ![s].bItems = Append(@, offer)]
    /\ hist' = [hist EXCEPT ![s].offered = @ \cup {<<p, offer>>}]

\* PKT_TRADE_ADD_ITEM of a player that has a session.  The answer is sent through the other
\* side's Player pointer; if that object was freed, the process may die.
TradeAddItem(p, offer) ==
    /\ Idle
    /\ IsOnline(p)
    /\ sessions[p] \in SessionIds
    /\ Cardinality(OnOffer) < MaxOffers
    /\ UploadItem(sessions[p], p, offer)
    /\ \/ proc' = proc
       \/ ~IsLive(TargetPlayer(sessions[p], p)) /\ proc' = "stalePlayer"
    /\ UNCHANGED <<online, sessions, db, freeConns, txn>>

\* The same packet when the table holds a null entry for the sender:
\* GetTargetPlayer reads a_player through it.  (With no entry at all the
\* handler answers NOK and changes nothing.)
TradeAddItemNull(p) ==
    /\ Idle
    /\ IsOnline(p)
    /\ sessions[p] = Null
    /\ proc' = "nullSession"
    /\ UNCHANGED <<online, sessions, heap, db, freeConns, txn, hist>>

\* PKT_TRADE_READY and PKT_TRADE_CANCEL of a player without a session.
NoSession(p, target) ==
    /\ Idle
    /\ IsOnline(p) /\ IsOnline(target)
    /\ sessions[p] \notin SessionIds
    /\ InsertNullEntry(p)
    /\ UNCHANGED <<proc, online, heap, db, freeConns, txn, hist>>

\* Mutant: any ready flag will do.
AnyIsReady(sess, p) == sess.aReady \/ sess.bReady

\* session->a_id == id && b_ready || session->b_id == id && a_ready
OtherIsReady(sess, p) ==
    (sess.aId = p /\ sess.bReady) \/ (sess.bId = p /\ sess.aReady)

\* The flag of the side the pointer comparison picks is set.
WithReady(s, p) ==
    IF IsASide(s, p) THEN [heap[s] EXCEPT !.aReady = TRUE]
                     ELSE [heap[s] EXCEPT !.bReady = TRUE]

\* PKT_TRADE_READY: when the other side is ready Execute starts, on a connection
\* it never gives back, or fails at once when the pool is empty.  The result of
\* START TRANSACTION is not looked at: without it every statement commits.
TradeReady(p, target) ==
    /\ Idle
    /\ IsOnline(p) /\ IsOnline(target)
    /\ sessions[p] \in SessionIds
    /\ LET s == sessions[p]
           sess == WithReady(s, p)
       IN /\ heap' = [heap EXCEPT ![s] = sess]
          /\ hist' = [hist EXCEPT ![s].pressed = @ \cup {p}]
          /\ \/ /\ OtherIsReady(sess, p)
                /\ freeConns > 0
                /\ freeConns' = freeConns - 1
                /\ \E open \in BOOLEAN :
                      txn' = [session |-> s, by |-> p, open |-> open, next |-> 1,
                              step |-> "Minus", rows |-> db, before |-> db]
             \/ /\ ~OtherIsReady(sess, p) \/ freeConns = 0
                /\ UNCHANGED <<freeConns, txn>>
    /\ UNCHANGED <<proc, online, sessions, db>>

\* PKT_TRADE_CANCEL
TradeCancel(p, target) ==
    /\ Idle
    /\ IsOnline(p) /\ IsOnline(target)
    /\ sessions[p] \in SessionIds
    /\ DeleteTradeSession(sessions[p])
    /\ UNCHANGED <<proc, online, db, freeConns, txn>>

-----------------------------------------------------------------------------
(* TradeService::Execute, one SQL statement at a time.                     *)

InTxn == proc = "up" /\ txn # Null

\* First everything a offers, then everything b offers.
Transfer(sess, k) ==
    IF k <= Len(sess.aItems)
    THEN [from |-> sess.aId, to |-> sess.bId, offer |-> sess.aItems[k]]
    ELSE [from |-> sess.bId, to |-> sess.aId,
          offer |-> sess.bItems[k - Len(sess.aItems)]]

\* The transfer the next statement belongs to; none is left before COMMIT.
Transferring == InTxn /\ txn.next <= TransferCount(heap[txn.session])
CurrentTransfer == Transfer(heap[txn.session], txn.next)

\* What the next statement of transfer t can leave of the rows it finds;
\* empty when it fails.  DecreaseItem is the first two, IncreaseItem the last.
Minus(rows, t) ==
    { [rows EXCEPT ![t.from] = new] :
        new \in UpdateInventoryItemCountMinus(rows[t.from], t.offer.item, t.offer.amount) }

Delete(rows, t) == { [rows EXCEPT ![t.from] = DeleteInventoryItem(@, t.offer.item)] }

Increase(rows, t) ==
    { [rows EXCEPT ![t.to] = new] :
        new \in IncreaseItem(rows[t.to], t.offer.item, t.offer.amount) }

StatementLeaves(rows, t) ==
    CASE txn.step = "Minus"    -> Minus(rows, t)
      [] txn.step = "Delete"   -> Delete(rows, t)
      [] txn.step = "Increase" -> Increase(rows, t)

\* The statement succeeds; outside a transaction its rows are committed.
ExecStatement ==
    /\ Transferring
    /\ \E rows \in StatementLeaves(txn.rows, CurrentTransfer) :
          /\ \/ txn.step = "Minus" /\ txn' = [txn EXCEPT !.rows = rows, !.step = "Delete"]
             \/ txn.step = "Delete" /\ txn' = [txn EXCEPT !.rows = rows, !.step = "Increase"]
             \/ /\ txn.step = "Increase"
                /\ txn' = [txn EXCEPT !.rows = rows, !.step = "Minus", !.next = @ + 1]
          /\ db' = IF txn.open THEN db ELSE rows
    /\ UNCHANGED <<proc, online, sessions, heap, freeConns, hist>>

\* goto err: the statement fails, or moves no row, or its answer is lost after
\* it took effect.  ROLLBACK, which undoes nothing outside a transaction; the
\* handler answers NOK and the session stays as it is, both flags set.
ExecRollback ==
    /\ Transferring
    /\ txn' = Null
    /\ \/ db' = db
       \/ ~txn.open /\ db' \in StatementLeaves(txn.rows, CurrentTransfer)
    /\ UNCHANGED <<proc, online, sessions, heap, freeConns, hist>>

\* COMMIT, whose result is not looked at, and the rest of HandleTradeReady:
\* the session is deleted.  (The inventories of the two Player objects are
\* loaded again: Reload of module Inventory.)
ExecCommit ==
    /\ InTxn
    /\ ~Transferring
    /\ db' \in {txn.rows, db}
    /\ DeleteTradeSession(txn.session)
    /\ txn' = Null
    /\ UNCHANGED <<proc, online, freeConns>>

-----------------------------------------------------------------------------
\* The process dies, by itself or killed, and MAIN starts it again; MySQL
\* rolls an open transaction back.
Restart ==
    /\ proc' = "up"
    /\ online' = [p \in Players |-> Null]
    /\ sessions' = [p \in Players |-> Absent]
    /\ heap' = [s \in SessionIds |-> Null]
    /\ freeConns' = PoolSize
    /\ txn' = Null
    /\ hist' = [s \in SessionIds |-> NewHist]
    /\ UNCHANGED db

Next ==
    \/ \E p \in Players :
          \/ Login(p)
          \/ Disconnect(p)
          \/ TradeAddItemNull(p)
          \/ \E o \in Offer : TradeAddItem(p, o)
          \/ \E q \in Players :
                \/ TradeAccept(p, q)
                \/ TradeReady(p, q)
                \/ TradeCancel(p, q)
                \/ NoSession(p, q)
    \/ ExecStatement
    \/ ExecRollback
    \/ ExecCommit
    \/ Restart

Spec == Init /\ [][Next]_vars

-----------------------------------------------------------------------------
(* Properties.                                                             *)

\* No entry of m_sessions outlives its session: whatever Accept overwrites
\* and Delete erases, an entry is absent, null, or leads to an allocated
\* session the player is a member of.
SessionTableSound ==
    \A p \in Players : sessions[p] \in SessionIds =>
        /\ heap[sessions[p]] # Null
        /\ p \in Members(sessions[p])

\* Execute works on an allocated session of the player who started it, and
\* no handler runs before it ends.
TxnSound ==
    txn # Null =>
        /\ heap[txn.session] # Null
        /\ sessions[txn.by] = txn.session
        /\ txn.by \in Members(txn.session)

\* The statements of Execute never leave two rows of one item or two rows in
\* one slot, neither in what is committed nor on the way: IncreaseItem picks
\* UPDATE or INSERT by what SelectInventoryItemSlot finds.
RowsSound ==
    \A p \in Players :
        /\ OneRow(db[p]) /\ SlotKey(db[p])
        /\ txn # Null => OneRow(txn.rows[p]) /\ SlotKey(txn.rows[p])

\* The members of s agreed: each of them pressed Ready in it.
ReadyByBoth(s) == Members(s) \subseteq hist[s].pressed

\* What a character owns of each item, in rows.
Balance(rows) == [i \in Items |-> CountOf(rows, i)]

\* Why p can be left with less of item i: p put up some of it, or, since nobody
\* looks at the sign of an amount, another member put up a negative amount.
Explained(s, p, i) ==
    \E q \in Players, n \in Amounts :
        /\ <<q, [item |-> i, amount |-> n]>> \in hist[s].offered
        /\ IF q = p THEN n > 0 ELSE n < 0

\* A transaction of a session no member of which has disconnected runs with the
\* Ready of both members.
TxnConsent == txn # Null /\ ~hist[txn.session].broken => ReadyByBoth(txn.session)

\* And at no point of it does a character have less of an item than before,
\* unless that player put it up in this session, or the other side put up a
\* negative amount of it.
LossesExplained ==
    txn # Null /\ ~hist[txn.session].broken =>
        \A p \in Players, i \in Items :
            Balance(txn.rows[p])[i] < Balance(txn.before[p])[i] =>
                Explained(txn.session, p, i)

\* Both together: while no member has disconnected nobody trades without having
\* pressed Ready, or loses what nobody's offer accounts for: the pointer
\* comparison that picks the side is then as good as comparing ids.
ConsentedTrade == TxnConsent /\ LossesExplained

\* Two players that are online are two objects.
OnlineDistinct ==
    \A p, q \in Players : IsOnline(p) /\ online[p] = online[q] => p = q

\* The pointers of a session are those of its two ids, and each side's flag
\* and items are that player's own doing.
OwnSides(s) ==
    /\ heap[s].aPtr = online[heap[s].aId]
    /\ heap[s].bPtr = online[heap[s].bId]
    /\ heap[s].aReady => heap[s].aId \in hist[s].pressed
    /\ heap[s].bReady => heap[s].bId \in hist[s].pressed
    /\ \A k \in 1 .. Len(heap[s].aItems) :
          <<heap[s].aId, heap[s].aItems[k]>> \in hist[s].offered
    /\ \A k \in 1 .. Len(heap[s].bItems) :
          <<heap[s].bId, heap[s].bItems[k]>> \in hist[s].offered

\* That lasts while no member has disconnected.
SidesSound ==
    \A s \in SessionIds : heap[s] # Null /\ ~hist[s].broken => OwnSides(s)

\* The two characters of a trade together; a trade with oneself has only one.
OfBoth(rows, a, b, i) ==
    IF a = b THEN Balance(rows[a])[i] ELSE Balance(rows[a])[i] + Balance(rows[b])[i]

\* What has been taken and not given yet.
InTransit(i) ==
    IF txn.step # "Minus" /\ CurrentTransfer.offer.item = i
    THEN CurrentTransfer.offer.amount ELSE 0

\* However far Execute has come, the two characters and what is in transit add up
\* to what the two owned before, and nobody else is touched.
TxnConserves ==
    txn # Null =>
        LET a == heap[txn.session].aId
            b == heap[txn.session].bId
        IN /\ \A p \in Players \ {a, b} : txn.rows[p] = txn.before[p]
           /\ \A i \in Items :
                 OfBoth(txn.rows, a, b, i) + InTransit(i) = OfBoth(txn.before, a, b, i)

\* An open transaction has committed nothing yet, anything else has committed
\* all it did; and what the UPDATE leaves for the DELETE is not negative, so
\* that the DELETE takes nothing away.
TxnRows ==
    txn # Null =>
        /\ IF txn.open THEN txn.before = db ELSE txn.rows = db
        /\ txn.step # "Minus" => txn.next <= TransferCount(heap[txn.session])
        /\ txn.step = "Delete" =>
              CountOf(txn.rows[CurrentTransfer.from], CurrentTransfer.offer.item) >= 0

\* The inductive invariant behind the theorems of TradeService_proofs: what the
\* invariants above say, and the facts about the sides they rest on.
IInv ==
    /\ TypeOK
    /\ SessionTableSound
    /\ TxnSound
    /\ RowsSound
    /\ OnlineDistinct
    /\ SidesSound
    /\ TxnConsent
    /\ TxnConserves
    /\ TxnRows
    /\ LossesExplained

\* "4. confirm that the other side is Ready, then exchange" (comment in
\* TradeService::Ready), read as it stands.
ExchangeAfterBothReady == txn # Null => ReadyByBoth(txn.session)

\* Taken by a trade outside a transaction and not given yet.
Underway ==
    IF txn # Null /\ ~txn.open /\ txn.step # "Minus"
    THEN CurrentTransfer.offer ELSE Null

\* What a trade promises: in the eyes of the database every step is an atomic
\* exchange between two characters, or nothing; and a trade whose START
\* TRANSACTION failed is out by one transfer at most.
Exchanges == INSTANCE AtomicExchange WITH
                balance <- [p \in Players |-> Balance(db[p])],
                torn <- txn # Null /\ ~txn.open,
                underway <- Underway,
                Nothing <- Null

TradeIsAtomicExchange == Exchanges!Spec
=============================================================================
