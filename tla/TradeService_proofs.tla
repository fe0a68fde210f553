------------------------- MODULE TradeService_proofs -------------------------
(***************************************************************************)
(* Theorems about TradeService for every set of players, items, amounts,   *)
(* addresses and sessions: types, the session table, the rows of the       *)
(* inventory table, the consent of both sides, and the refinement of       *)
(* AtomicExchange.                                                         *)
(***************************************************************************)
EXTENDS TradeService, SequenceTheorems, TLAPS

-----------------------------------------------------------------------------
(* What the SQL statements of a trade preserve, for every set of rows      *)

\* A row after an UPDATE that adds n to the selected rows, and a row INSERTed.
Added(q, selected, n) == IF q \in selected THEN [q EXCEPT !.count = @ + n] ELSE q
RowsOf(rows, i) == { r \in rows : r.item = i }
NewRow(i, k, n) == [type |-> TypeOf[i], slot |-> k, item |-> i, count |-> n]

\* An UPDATE of the count leaves rows it found, some with another count that the
\* column can hold.
LEMMA AddToCountShape ==
    ASSUME NEW rows, NEW selected, NEW n, NEW new, rows \in SUBSET Row,
           selected \in SUBSET rows, n \in Int, new \in AddToCount(rows, selected, n)
    PROVE  /\ new \in SUBSET Row
           /\ selected # {} /\ n # 0
           /\ \A q \in rows : Added(q, selected, n) \in new
           /\ \A r \in new : \E q \in rows :
                 /\ q.type = r.type /\ q.slot = r.slot /\ q.item = r.item
                 /\ r = Added(q, selected, n)
<1>1. /\ new = { IF r \in selected THEN [r EXCEPT !.count = @ + n] ELSE r : r \in rows }
      /\ selected # {} /\ n # 0 /\ \A r \in selected : r.count + n \in Counts
  BY DEF AddToCount
<1>2. ASSUME NEW q \in rows
      PROVE  /\ Added(q, selected, n) \in Row /\ Added(q, selected, n).type = q.type
             /\ Added(q, selected, n).slot = q.slot /\ Added(q, selected, n).item = q.item
  <2>1. q \in Row
    OBVIOUS
  <2>. QED
    BY <1>1, <2>1 DEF Row, Added
<1>3. new = { Added(r, selected, n) : r \in rows }
  BY <1>1 DEF Added
<1>. QED
  BY <1>1, <1>2, <1>3

\* It keeps one row per item and one item per slot.
LEMMA AddToCountKeys ==
    ASSUME NEW rows, NEW selected, NEW n, NEW new, rows \in SUBSET Row,
           selected \in SUBSET rows, n \in Int, new \in AddToCount(rows, selected, n), OneRow(rows), SlotKey(rows)
    PROVE  OneRow(new) /\ SlotKey(new)
<1>1. \A r \in new : \E q \in rows :
         /\ q.type = r.type /\ q.slot = r.slot /\ q.item = r.item
         /\ r = Added(q, selected, n)
  BY AddToCountShape
<1>2. OneRow(new)
  BY <1>1 DEF OneRow
<1>3. SlotKey(new)
  BY <1>1 DEF SlotKey
<1>. QED
  BY <1>2, <1>3

\* So does the DELETE: it only takes rows away.
LEMMA DeleteKeys ==
    ASSUME NEW rows \in SUBSET Row, NEW i, OneRow(rows), SlotKey(rows)
    PROVE  /\ DeleteInventoryItem(rows, i) \in SUBSET Row
           /\ OneRow(DeleteInventoryItem(rows, i)) /\ SlotKey(DeleteInventoryItem(rows, i))
BY DEF DeleteInventoryItem, OneRow, SlotKey

\* A new row fits its columns, and its slot is free (InsertInventoryItem).
LEMMA InsertedRow ==
    ASSUME NEW rows, NEW i \in Items, NEW n \in Int, NEW u \in IncreaseItem(rows, i, n),
           ~HasItem(rows, i)
    PROVE  \E k \in Slots :
              /\ u = rows \cup {NewRow(i, k, n)} /\ NewRow(i, k, n) \in Row
              /\ \A r \in rows : ~(r.type = TypeOf[i] /\ r.slot = k)
<1>1. PICK k : /\ k \in Slots /\ n \in Counts
               /\ ~ \E r \in rows : r.type = TypeOf[i] /\ r.slot = k
               /\ u = rows \cup {[type |-> TypeOf[i], slot |-> k, item |-> i, count |-> n]}
  BY DEF IncreaseItem, InsertInventoryItem
<1>2. TypeOf[i] \in Types
  BY RowsAssumption
<1>3. NewRow(i, k, n) \in Row
  BY <1>1, <1>2 DEF Row, NewRow
<1>. QED
  BY <1>1, <1>3 DEF NewRow

\* IncreaseItem leaves rows that fit their columns, one per item and one per slot:
\* it inserts only when the item has no row, and in a free slot.
LEMMA IncreaseItemKeys ==
    ASSUME NEW rows \in SUBSET Row, NEW i \in Items, NEW n \in Int,
           NEW u \in IncreaseItem(rows, i, n), OneRow(rows), SlotKey(rows)
    PROVE  u \in SUBSET Row /\ OneRow(u) /\ SlotKey(u)
<1>1. CASE HasItem(rows, i)
  <2>. DEFINE all == { r \in rows : r.item = i }
  <2>1. u \in AddToCount(rows, all, n)
    BY <1>1 DEF IncreaseItem, UpdateInventoryItemCountPlus
  <2>2. all \in SUBSET rows
    OBVIOUS
  <2>. HIDE DEF all
  <2>. QED
    BY <2>1, <2>2, AddToCountShape, AddToCountKeys
<1>2. CASE ~HasItem(rows, i)
  <2>1. PICK k \in Slots :
          /\ u = rows \cup {NewRow(i, k, n)} /\ NewRow(i, k, n) \in Row
          /\ \A r \in rows : ~(r.type = TypeOf[i] /\ r.slot = k)
    BY <1>2, InsertedRow
  <2>2. \A r \in rows : r.item # i
    BY <1>2 DEF HasItem
  <2>3. OneRow(u)
    BY <2>1, <2>2 DEF OneRow, NewRow
  <2>4. SlotKey(u)
    BY <2>1 DEF SlotKey, NewRow
  <2>. QED
    BY <2>1, <2>3, <2>4
<1>. QED
  BY <1>1, <1>2

-----------------------------------------------------------------------------
(* What the SQL statements of a trade do to the balances                   *)

\* With one row per item, the count of any row of an item is what is owned of it.
LEMMA CountOfRow ==
    ASSUME NEW rows \in SUBSET Row, OneRow(rows), NEW r \in rows
    PROVE  CountOf(rows, r.item) = r.count
BY DEF CountOf, HasItem, OneRow

\* Nothing is owned of an item without a row.
LEMMA CountOfNone ==
    ASSUME NEW rows, NEW i, ~HasItem(rows, i)
    PROVE  CountOf(rows, i) = 0
BY DEF CountOf

\* What is owned of an item is a number, below zero for what is owed.
LEMMA CountOfType ==
    ASSUME NEW rows \in SUBSET Row, NEW i
    PROVE  CountOf(rows, i) \in Int
<1>1. CASE HasItem(rows, i)
  <2>. DEFINE r == CHOOSE x \in rows : x.item = i
  <2>1. r \in rows
    BY <1>1 DEF HasItem
  <2>2. r.count \in Counts
    BY <2>1 DEF Row
  <2>3. r.count \in Int
    BY <2>2, RowsAssumption DEF Counts
  <2>. QED
    BY <1>1, <2>3 DEF CountOf
<1>2. CASE ~HasItem(rows, i)
  BY <1>2, CountOfNone
<1>. QED
  BY <1>1, <1>2

\* Two sets of rows with the same rows of an item own the same of it.
LEMMA CountOfSame ==
    ASSUME NEW rows \in SUBSET Row, NEW new \in SUBSET Row, OneRow(rows), OneRow(new), NEW i,
           \A r \in rows : r.item = i => r \in new,
           HasItem(new, i) => HasItem(rows, i)
    PROVE  CountOf(new, i) = CountOf(rows, i)
<1>1. CASE HasItem(rows, i)
  <2>1. PICK r \in rows : r.item = i
    BY <1>1 DEF HasItem
  <2>2. r \in new
    BY <2>1
  <2>. QED
    BY <2>1, <2>2, CountOfRow
<1>2. CASE ~HasItem(rows, i)
  BY <1>2, CountOfNone
<1>. QED
  BY <1>1, <1>2

\* An UPDATE of rows of an item adds its number to what is owned of the item, once:
\* there is no second row it could change too.
LEMMA AddToCountCounts ==
    ASSUME NEW rows, NEW selected, NEW n, NEW i, NEW new, rows \in SUBSET Row,
           selected \in SUBSET RowsOf(rows, i), n \in Int,
           new \in AddToCount(rows, selected, n), OneRow(rows), SlotKey(rows)
    PROVE  /\ CountOf(new, i) = CountOf(rows, i) + n
           /\ \A j \in Items \ {i} : CountOf(new, j) = CountOf(rows, j)
<1>0. selected \in SUBSET rows /\ \A r \in selected : r.item = i
  BY DEF RowsOf
<1>1. /\ new \in SUBSET Row /\ OneRow(new) /\ selected # {}
      /\ \A q \in rows : Added(q, selected, n) \in new
      /\ \A r \in new : \E q \in rows :
            /\ q.type = r.type /\ q.slot = r.slot /\ q.item = r.item
            /\ r = Added(q, selected, n)
  BY <1>0, AddToCountShape, AddToCountKeys
<1>2. PICK q \in selected : TRUE
  BY <1>1
<1>. DEFINE changed == Added(q, selected, n)
<1>3. q \in rows /\ q \in Row /\ q.item = i
  BY <1>0, <1>2
<1>4. changed \in new /\ changed.item = i /\ changed.count = q.count + n
  BY <1>1, <1>2, <1>3 DEF Row, Added
<1>5. q.count \in Int
  <2>1. q.count \in Counts
    BY <1>3 DEF Row
  <2>. QED
    BY <2>1, RowsAssumption DEF Counts
<1>6. CountOf(rows, i) = q.count /\ CountOf(new, i) = q.count + n
  <2>1. CountOf(rows, q.item) = q.count
    BY <1>3, CountOfRow
  <2>2. CountOf(new, changed.item) = changed.count
    BY <1>1, <1>4, CountOfRow
  <2>. QED
    BY <1>3, <1>4, <2>1, <2>2
<1>7. ASSUME NEW j \in Items \ {i} PROVE CountOf(new, j) = CountOf(rows, j)
  <2>1. \A r \in rows : r.item = j => r \in new
    BY <1>0, <1>1, <1>7 DEF Added
  <2>2. HasItem(new, j) => HasItem(rows, j)
    BY <1>1 DEF HasItem
  <2>. QED
    BY <1>1, <2>1, <2>2, CountOfSame
<1>. QED
  BY <1>6, <1>7

\* The DELETE takes nothing away from a character that owes nothing of the item.
LEMMA DeleteCounts ==
    ASSUME NEW rows \in SUBSET Row, NEW i, OneRow(rows), SlotKey(rows), CountOf(rows, i) >= 0
    PROVE  \A j \in Items : CountOf(DeleteInventoryItem(rows, i), j) = CountOf(rows, j)
<1>. DEFINE left == DeleteInventoryItem(rows, i)
<1>1. left \in SUBSET Row /\ OneRow(left)
  BY DeleteKeys
<1>2. left \subseteq rows /\ \A r \in rows : ~(r.item = i /\ r.count <= 0) => r \in left
  BY DEF DeleteInventoryItem
<1>. HIDE DEF left
<1>3. ASSUME NEW j \in Items \ {i} PROVE CountOf(left, j) = CountOf(rows, j)
  <2>1. \A r \in rows : r.item = j => r \in left
    BY <1>2, <1>3
  <2>2. HasItem(left, j) => HasItem(rows, j)
    BY <1>2 DEF HasItem
  <2>. QED
    BY <1>1, <2>1, <2>2, CountOfSame
<1>4. CountOf(left, i) = CountOf(rows, i)
  <2>1. CASE HasItem(left, i)
    <3>1. PICK r \in left : r.item = i
      BY <2>1 DEF HasItem
    <3>2. r \in rows
      BY <1>2, <3>1
    <3>. QED
      BY <1>1, <3>1, <3>2, CountOfRow
  <2>2. CASE ~HasItem(left, i)
    <3>1. ASSUME HasItem(rows, i) PROVE CountOf(rows, i) = 0
      <4>1. PICK r \in rows : r.item = i
        BY <3>1 DEF HasItem
      <4>2. r \notin left
        BY <2>2, <4>1 DEF HasItem
      <4>3. r.count <= 0
        BY <1>2, <4>1, <4>2
      <4>4. CountOf(rows, i) = r.count /\ CountOf(rows, i) \in Int
        BY <4>1, CountOfRow, CountOfType
      <4>. QED
        BY <4>3, <4>4
    <3>. QED
      BY <2>2, <3>1, CountOfNone
  <2>. QED
    BY <2>1, <2>2
<1>. QED
  BY <1>3, <1>4 DEF left

\* IncreaseItem adds n to what is owned of the item, in the row it has or in a new
\* one, and nothing to another one; n may be negative.
LEMMA IncreaseItemCounts ==
    ASSUME NEW rows \in SUBSET Row, NEW i \in Items, NEW n \in Int,
           NEW u \in IncreaseItem(rows, i, n), OneRow(rows), SlotKey(rows)
    PROVE  /\ CountOf(u, i) = CountOf(rows, i) + n
           /\ \A j \in Items \ {i} : CountOf(u, j) = CountOf(rows, j)
<1>0. u \in SUBSET Row /\ OneRow(u)
  BY IncreaseItemKeys
<1>1. CASE HasItem(rows, i)
  <2>1. u \in AddToCount(rows, RowsOf(rows, i), n)
    BY <1>1 DEF IncreaseItem, UpdateInventoryItemCountPlus, RowsOf
  <2>2. RowsOf(rows, i) \in SUBSET RowsOf(rows, i)
    OBVIOUS
  <2>3. /\ CountOf(u, i) = CountOf(rows, i) + n
        /\ \A j \in Items \ {i} : CountOf(u, j) = CountOf(rows, j)
    BY <2>1, <2>2, AddToCountCounts
  <2>. QED
    BY <2>3
<1>2. CASE ~HasItem(rows, i)
  <2>1. PICK k \in Slots : u = rows \cup {NewRow(i, k, n)}
    BY <1>2, InsertedRow
  <2>2. CountOf(rows, i) = 0
    BY <1>2, CountOfNone
  <2>3. CountOf(u, i) = n
    <3>1. NewRow(i, k, n) \in u /\ NewRow(i, k, n).item = i /\ NewRow(i, k, n).count = n
      BY <2>1 DEF NewRow
    <3>. QED
      BY <1>0, <3>1, CountOfRow
  <2>4. ASSUME NEW j \in Items \ {i} PROVE CountOf(u, j) = CountOf(rows, j)
    <3>1. \A r \in rows : r.item = j => r \in u
      BY <2>1
    <3>2. HasItem(u, j) => HasItem(rows, j)
      BY <2>1, <2>4 DEF HasItem, NewRow
    <3>. QED
      BY <1>0, <3>1, <3>2, CountOfSame
  <2>. QED
    BY <2>2, <2>3, <2>4
<1>. QED
  BY <1>1, <1>2

-----------------------------------------------------------------------------
(* The trade                                                               *)

Transfers == [from : Players, to : Players, offer : Offer]

\* Every character's rows are keyed.
Keyed(rows) == \A p \in Players : OneRow(rows[p]) /\ SlotKey(rows[p])

\* p has n more of item i, and nothing else changed hands.
Credited(old, new, p, i, n) ==
    /\ \A q \in Players \ {p} : new[q] = old[q]
    /\ \A j \in Items : Balance(new[p])[j] = Balance(old[p])[j] + (IF j = i THEN n ELSE 0)

\* What somebody has, or owes, of an item is a number.
LEMMA BalanceType ==
    ASSUME NEW rows \in [Players -> SUBSET Row], NEW p \in Players, NEW i \in Items
    PROVE  Balance(rows[p])[i] \in Int /\ Balance(rows[p])[i] = CountOf(rows[p], i)
BY CountOfType DEF Balance

\* The UPDATE of DecreaseItem takes n of the item, which is owned, from its giver.
LEMMA MinusCredits ==
    ASSUME NEW rows \in [Players -> SUBSET Row], Keyed(rows), NEW t \in Transfers,
           NEW new \in Minus(rows, t)
    PROVE  /\ new \in [Players -> SUBSET Row] /\ Keyed(new)
           /\ Credited(rows, new, t.from, t.offer.item, -t.offer.amount)
           /\ CountOf(new[t.from], t.offer.item) >= 0
<1>. DEFINE i == t.offer.item
            n == t.offer.amount
            p == t.from
            had == rows[p]
            selected == { r \in had : r.item = i /\ r.count >= n }
<1>1. i \in Items /\ n \in Int /\ p \in Players
  BY TradeAssumption DEF Transfers, Offer
<1>2. PICK left \in AddToCount(had, selected, -n) : new = [rows EXCEPT ![p] = left]
  BY DEF Minus, UpdateInventoryItemCountMinus
<1>3. /\ had \in SUBSET Row /\ OneRow(had) /\ SlotKey(had)
      /\ selected \in SUBSET had /\ selected \in SUBSET RowsOf(had, i) /\ -n \in Int
      /\ \A r \in selected : r.item = i /\ r.count >= n
  BY <1>1 DEF Keyed, RowsOf
<1>. HIDE DEF selected, had, i, n, p
<1>4. left \in SUBSET Row /\ OneRow(left) /\ SlotKey(left) /\ selected # {}
  BY <1>2, <1>3, AddToCountShape, AddToCountKeys
<1>5. /\ CountOf(left, i) = CountOf(had, i) + (-n)
      /\ \A j \in Items \ {i} : CountOf(left, j) = CountOf(had, j)
  BY <1>2, <1>3, AddToCountCounts
<1>6. CountOf(had, i) >= n /\ CountOf(had, i) \in Int
  <2>1. PICK r \in selected : TRUE
    BY <1>4
  <2>2. r \in had /\ r.item = i /\ r.count >= n
    BY <1>3
  <2>. QED
    BY <1>3, <2>2, CountOfRow, CountOfType
<1>7. new \in [Players -> SUBSET Row] /\ new[p] = left /\ \A q \in Players \ {p} : new[q] = rows[q]
  BY <1>1, <1>2, <1>4
<1>8. Keyed(new)
  BY <1>4, <1>7 DEF Keyed
<1>9. \A j \in Items : Balance(new[p])[j] = Balance(had)[j] + (IF j = i THEN -n ELSE 0)
  <2>1. \A j \in Items : CountOf(had, j) \in Int
    BY <1>3, CountOfType
  <2>. QED
    BY <1>5, <1>7, <2>1 DEF Balance
<1>10. CountOf(new[p], i) >= 0
  BY <1>1, <1>5, <1>6, <1>7
<1>. QED
  BY <1>7, <1>8, <1>9, <1>10 DEF Credited, i, n, p, had

\* The DELETE of DecreaseItem takes nothing from a giver who owes nothing.
LEMMA DeleteCredits ==
    ASSUME NEW rows \in [Players -> SUBSET Row], Keyed(rows), NEW t \in Transfers,
           NEW new \in Delete(rows, t), CountOf(rows[t.from], t.offer.item) >= 0
    PROVE  /\ new \in [Players -> SUBSET Row] /\ Keyed(new)
           /\ Credited(rows, new, t.from, t.offer.item, 0)
<1>. DEFINE i == t.offer.item
            p == t.from
            had == rows[p]
            left == DeleteInventoryItem(had, i)
<1>1. i \in Items /\ p \in Players
  BY DEF Transfers, Offer
<1>2. new = [rows EXCEPT ![p] = left]
  BY DEF Delete
<1>3. had \in SUBSET Row /\ OneRow(had) /\ SlotKey(had) /\ CountOf(had, i) >= 0
  BY <1>1 DEF Keyed
<1>. HIDE DEF had, i, p
<1>4. left \in SUBSET Row /\ OneRow(left) /\ SlotKey(left)
  BY <1>3, DeleteKeys
<1>5. \A j \in Items : CountOf(left, j) = CountOf(had, j) /\ CountOf(had, j) \in Int
  BY <1>3, DeleteCounts, CountOfType
<1>. HIDE DEF left
<1>6. new \in [Players -> SUBSET Row] /\ new[p] = left /\ \A q \in Players \ {p} : new[q] = rows[q]
  BY <1>1, <1>2, <1>4
<1>7. Keyed(new)
  BY <1>4, <1>6 DEF Keyed
<1>8. \A j \in Items : Balance(new[p])[j] = Balance(had)[j] + (IF j = i THEN 0 ELSE 0)
  BY <1>5, <1>6 DEF Balance
<1>. QED
  BY <1>6, <1>7, <1>8 DEF Credited, i, p, had

\* IncreaseItem gives n of the item to its taker, or takes it when n is negative.
LEMMA IncreaseCredits ==
    ASSUME NEW rows \in [Players -> SUBSET Row], Keyed(rows), NEW t \in Transfers,
           NEW new \in Increase(rows, t)
    PROVE  /\ new \in [Players -> SUBSET Row] /\ Keyed(new)
           /\ Credited(rows, new, t.to, t.offer.item, t.offer.amount)
<1>. DEFINE i == t.offer.item
            n == t.offer.amount
            p == t.to
            had == rows[p]
<1>1. i \in Items /\ n \in Int /\ p \in Players
  BY TradeAssumption DEF Transfers, Offer
<1>2. PICK more \in IncreaseItem(had, i, n) : new = [rows EXCEPT ![p] = more]
  BY DEF Increase
<1>3. had \in SUBSET Row /\ OneRow(had) /\ SlotKey(had)
  BY <1>1 DEF Keyed
<1>. HIDE DEF had, i, n, p
<1>4. more \in SUBSET Row /\ OneRow(more) /\ SlotKey(more)
  BY <1>1, <1>2, <1>3, IncreaseItemKeys
<1>5. /\ CountOf(more, i) = CountOf(had, i) + n
      /\ \A j \in Items \ {i} : CountOf(more, j) = CountOf(had, j)
  BY <1>1, <1>2, <1>3, IncreaseItemCounts
<1>6. new \in [Players -> SUBSET Row] /\ new[p] = more /\ \A q \in Players \ {p} : new[q] = rows[q]
  BY <1>1, <1>2, <1>4
<1>7. Keyed(new)
  BY <1>4, <1>6 DEF Keyed
<1>8. \A j \in Items : Balance(new[p])[j] = Balance(had)[j] + (IF j = i THEN n ELSE 0)
  <2>1. \A j \in Items : CountOf(had, j) \in Int
    BY <1>3, CountOfType
  <2>. QED
    BY <1>5, <1>6, <2>1 DEF Balance
<1>. QED
  BY <1>6, <1>7, <1>8 DEF Credited, i, n, p, had

\* A credit to one of two characters is a credit to the two together.
LEMMA OfBothCredited ==
    ASSUME NEW old \in [Players -> SUBSET Row], NEW new \in [Players -> SUBSET Row],
           NEW a \in Players, NEW b \in Players, NEW p \in {a, b}, NEW i, NEW n \in Int,
           Credited(old, new, p, i, n), NEW j \in Items
    PROVE  /\ OfBoth(new, a, b, j) = OfBoth(old, a, b, j) + (IF j = i THEN n ELSE 0)
           /\ OfBoth(old, a, b, j) \in Int
<1>1. /\ Balance(old[a])[j] \in Int /\ Balance(old[b])[j] \in Int
      /\ Balance(new[a])[j] \in Int /\ Balance(new[b])[j] \in Int
  BY BalanceType
<1>2. Balance(new[p])[j] = Balance(old[p])[j] + (IF j = i THEN n ELSE 0)
  BY DEF Credited
<1>3. \A q \in {a, b} \ {p} : Balance(new[q])[j] = Balance(old[q])[j]
  BY DEF Credited
<1>. QED
  BY <1>1, <1>2, <1>3 DEF OfBoth

\* The number of transfers of a session is a number.
LEMMA TransferCountType ==
    ASSUME NEW sess \in Session
    PROVE  TransferCount(sess) \in Nat
<1>1. sess.aItems \in Seq(Offer) /\ sess.bItems \in Seq(Offer)
  BY DEF Session
<1>2. Len(sess.aItems) \in Nat /\ Len(sess.bItems) \in Nat
  BY <1>1, LenProperties
<1>3. \A a, b \in Nat : a + b \in Nat
  OBVIOUS
<1>4. QED
  BY <1>2, <1>3 DEF TransferCount

\* A transfer of a session is between its two members.
LEMMA TransferType ==
    ASSUME NEW sess \in Session, NEW k \in 1 .. TransferCount(sess)
    PROVE  /\ Transfer(sess, k) \in Transfers
           /\ \/ Transfer(sess, k).from = sess.aId /\ Transfer(sess, k).to = sess.bId
              \/ Transfer(sess, k).from = sess.bId /\ Transfer(sess, k).to = sess.aId
<1>1. sess.aItems \in Seq(Offer) /\ sess.bItems \in Seq(Offer)
      /\ sess.aId \in Players /\ sess.bId \in Players
  BY DEF Session
<1>2. Len(sess.aItems) \in Nat /\ Len(sess.bItems) \in Nat
  BY <1>1, LenProperties
<1>3. CASE k <= Len(sess.aItems)
  <2>0. k \in 1 .. Len(sess.aItems)
    BY <1>2, <1>3 DEF TransferCount
  <2>1. sess.aItems[k] \in Offer
    BY <1>1, <2>0, ElementOfSeq
  <2>2. QED
    BY <1>1, <1>3, <2>1 DEF Transfer, Transfers
<1>4. CASE ~(k <= Len(sess.aItems))
  <2>1. \A j \in 1 .. Len(sess.bItems) : sess.bItems[j] \in Offer
    BY <1>1, ElementOfSeq
  <2>2. sess.bItems[k - Len(sess.aItems)] \in Offer
    <3>1. \A a, b \in Nat : \A j \in 1 .. a + b : ~(j <= a) => j - a \in 1 .. b
      OBVIOUS
    <3>2. k \in 1 .. Len(sess.aItems) + Len(sess.bItems)
      BY DEF TransferCount
    <3>3. k - Len(sess.aItems) \in 1 .. Len(sess.bItems)
      BY <1>2, <1>4, <3>1, <3>2
    <3>4. QED
      BY <2>1, <3>3
  <2>3. QED
    BY <1>1, <1>4, <2>2 DEF Transfer, Transfers
<1>5. QED
  BY <1>3, <1>4

-----------------------------------------------------------------------------
(* The inductive invariant IInv, one conjunct at a time.                   *)

\* A process that has just started: nobody is online and no trade is open.
LEMMA InitIInv == Init => IInv
<1> SUFFICES ASSUME Init PROVE IInv
  OBVIOUS
<1>2. TypeOK
  BY TradeAssumption DEF Init, TypeOK, NewHist, Hist
<1>3. SessionTableSound
  BY TradeAssumption DEF Init, SessionTableSound
<1>4. TxnSound /\ TxnConsent /\ TxnConserves /\ TxnRows /\ LossesExplained
  BY DEF Init, TxnSound, TxnConsent, TxnConserves, TxnRows, LossesExplained
<1>5. RowsSound
  BY TradeAssumption DEF Init, RowsSound
<1>6. OnlineDistinct
  BY DEF Init, OnlineDistinct, IsOnline
<1>7. SidesSound
  BY DEF Init, SidesSound
<1>8. QED
  BY <1>2, <1>3, <1>4, <1>5, <1>6, <1>7 DEF IInv

\* DeleteTradeSession leaves table, objects and history well-typed.
LEMMA DeleteTradeSessionType ==
    ASSUME TypeOK, NEW s \in SessionIds, DeleteTradeSession(s)
    PROVE  /\ sessions' \in [Players -> SessionIds \cup {Null, Absent}]
           /\ heap' \in [SessionIds -> Session \cup {Null}]
           /\ hist' \in [SessionIds -> Hist]
BY DEF TypeOK, DeleteTradeSession, NewHist, Hist

\* What a statement of Execute finds.
LEMMA StatementFinds ==
    ASSUME IInv, Transferring
    PROVE  /\ txn \in Txn /\ txn # Null
           /\ heap[txn.session] \in Session
           /\ txn.next \in 1 .. TransferCount(heap[txn.session])
           /\ CurrentTransfer \in Transfers
           /\ \/ /\ CurrentTransfer.from = heap[txn.session].aId
                 /\ CurrentTransfer.to = heap[txn.session].bId
              \/ /\ CurrentTransfer.from = heap[txn.session].bId
                 /\ CurrentTransfer.to = heap[txn.session].aId
           /\ txn.rows \in [Players -> SUBSET Row] /\ Keyed(txn.rows)
           /\ txn.step \in {"Minus", "Delete", "Increase"}
<1>. DEFINE sess == heap[txn.session]
<1>1. txn \in Txn /\ txn # Null /\ txn.session \in SessionIds
  BY DEF IInv, TypeOK, Transferring, InTxn, Txn
<1>2. sess \in Session
  BY <1>1 DEF IInv, TypeOK, TxnSound
<1>3. txn.next \in 1 .. TransferCount(sess)
  <2>1. TransferCount(sess) \in Nat
    BY <1>2, TransferCountType
  <2>2. txn.next \in Nat \ {0} /\ txn.next <= TransferCount(sess)
    BY <1>1 DEF Transferring, Txn
  <2>. QED
    BY <2>1, <2>2
<1>4. txn.rows \in [Players -> SUBSET Row] /\ txn.step \in {"Minus", "Delete", "Increase"}
  BY <1>1 DEF Txn
<1>5. Keyed(txn.rows)
  BY <1>1 DEF IInv, RowsSound, Keyed
<1>. QED
  BY <1>1, <1>2, <1>3, <1>4, <1>5, TransferType DEF CurrentTransfer

\* What it leaves, if it succeeds.
LEMMA StatementCredits ==
    ASSUME IInv, Transferring, NEW rows \in StatementLeaves(txn.rows, CurrentTransfer)
    PROVE  /\ rows \in [Players -> SUBSET Row] /\ Keyed(rows)
           /\ txn.step = "Minus" =>
                 /\ Credited(txn.rows, rows, CurrentTransfer.from,
                             CurrentTransfer.offer.item, -CurrentTransfer.offer.amount)
                 /\ CountOf(rows[CurrentTransfer.from], CurrentTransfer.offer.item) >= 0
           /\ txn.step = "Delete" =>
                 Credited(txn.rows, rows, CurrentTransfer.from, CurrentTransfer.offer.item, 0)
           /\ txn.step = "Increase" =>
                 Credited(txn.rows, rows, CurrentTransfer.to,
                          CurrentTransfer.offer.item, CurrentTransfer.offer.amount)
<1>1. /\ txn # Null /\ CurrentTransfer \in Transfers
      /\ txn.rows \in [Players -> SUBSET Row] /\ Keyed(txn.rows)
      /\ txn.step \in {"Minus", "Delete", "Increase"}
  BY StatementFinds
<1>2. CASE txn.step = "Minus"
  <2>1. rows \in Minus(txn.rows, CurrentTransfer)
    BY <1>2 DEF StatementLeaves
  <2>. QED
    BY <1>1, <1>2, <2>1, MinusCredits
<1>3. CASE txn.step = "Delete"
  <2>1. rows \in Delete(txn.rows, CurrentTransfer)
    BY <1>3 DEF StatementLeaves
  <2>2. CountOf(txn.rows[CurrentTransfer.from], CurrentTransfer.offer.item) >= 0
    BY <1>1, <1>3 DEF IInv, TxnRows
  <2>. QED
    BY <1>1, <1>3, <2>1, <2>2, DeleteCredits
<1>4. CASE txn.step = "Increase"
  <2>1. rows \in Increase(txn.rows, CurrentTransfer)
    BY <1>4 DEF StatementLeaves
  <2>. QED
    BY <1>1, <1>4, <2>1, IncreaseCredits
<1>. QED
  BY <1>1, <1>2, <1>3, <1>4

\* The step of Execute that a statement which succeeds is.
LEMMA ExecStatementShape ==
    ASSUME IInv, ExecStatement
    PROVE  /\ Transferring /\ txn # Null
           /\ txn' \in Txn /\ txn' # Null
           /\ txn'.session = txn.session /\ txn'.by = txn.by
           /\ txn'.open = txn.open /\ txn'.before = txn.before
           /\ txn'.rows \in StatementLeaves(txn.rows, CurrentTransfer)
           /\ txn'.rows \in [Players -> SUBSET Row] /\ Keyed(txn'.rows)
           /\ db' = IF txn.open THEN db ELSE txn'.rows
           /\ \/ txn.step = "Minus" /\ txn'.step = "Delete" /\ txn'.next = txn.next
              \/ txn.step = "Delete" /\ txn'.step = "Increase" /\ txn'.next = txn.next
              \/ txn.step = "Increase" /\ txn'.step = "Minus"
           /\ UNCHANGED <<proc, online, sessions, heap, hist>>
<1>1. Transferring /\ txn \in Txn /\ txn # Null
  BY StatementFinds DEF ExecStatement
<1>2. PICK rows \in StatementLeaves(txn.rows, CurrentTransfer) :
        /\ \/ txn.step = "Minus" /\ txn' = [txn EXCEPT !.rows = rows, !.step = "Delete"]
           \/ txn.step = "Delete" /\ txn' = [txn EXCEPT !.rows = rows, !.step = "Increase"]
           \/ /\ txn.step = "Increase"
              /\ txn' = [txn EXCEPT !.rows = rows, !.step = "Minus", !.next = @ + 1]
        /\ db' = IF txn.open THEN db ELSE rows
  BY DEF ExecStatement
<1>3. rows \in [Players -> SUBSET Row] /\ Keyed(rows)
  BY <1>1, StatementCredits
<1>4. /\ txn' \in Txn /\ txn'.rows = rows
      /\ txn'.session = txn.session /\ txn'.by = txn.by
      /\ txn'.open = txn.open /\ txn'.before = txn.before
      /\ \/ txn.step = "Minus" /\ txn'.step = "Delete" /\ txn'.next = txn.next
         \/ txn.step = "Delete" /\ txn'.step = "Increase" /\ txn'.next = txn.next
         \/ txn.step = "Increase" /\ txn'.step = "Minus"
  <2>1. txn.next + 1 \in Nat \ {0}
    BY <1>1 DEF Txn
  <2>2. CASE txn.step = "Minus"
    BY <1>1, <1>2, <1>3, <2>2 DEF Txn
  <2>3. CASE txn.step = "Delete"
    BY <1>1, <1>2, <1>3, <2>3 DEF Txn
  <2>4. CASE txn.step = "Increase"
    BY <1>1, <1>2, <1>3, <2>1, <2>4 DEF Txn
  <2>. QED
    BY <1>2, <2>2, <2>3, <2>4
<1>5. txn' # Null
  BY <1>4, TradeAssumption
<1>. QED
  BY <1>1, <1>2, <1>3, <1>4, <1>5 DEF ExecStatement

\* The same transfer is under way until its item has been given.
LEMMA SameTransfer ==
    ASSUME IInv, ExecStatement, txn'.step # "Minus"
    PROVE  CurrentTransfer' = CurrentTransfer
<1>1. txn'.session = txn.session /\ txn'.next = txn.next /\ heap' = heap
  BY ExecStatementShape
<1>. QED
  BY <1>1 DEF CurrentTransfer

\* A handler, a step of Execute, and a restart keep every variable in its type.
LEMMA TypeNext == IInv /\ [Next]_vars => TypeOK'
<1> SUFFICES ASSUME IInv, [Next]_vars PROVE TypeOK'
  OBVIOUS
<1> USE TradeAssumption
<1>0. TypeOK /\ SessionTableSound /\ TxnSound
  BY DEF IInv
<1>1. ASSUME NEW p \in Players, Login(p) PROVE TypeOK'
  <2>1. online' \in [Players -> Addrs \cup {Null}]
    BY <1>0, <1>1 DEF Login, TypeOK
  <2>. QED
    BY <1>0, <1>1, <2>1 DEF Login, TypeOK
<1>2. ASSUME NEW p \in Players, Disconnect(p) PROVE TypeOK'
  <2>1. hist' \in [SessionIds -> Hist]
    <3>1. hist' = [s \in SessionIds |-> IF heap[s] # Null /\ p \in Members(s)
                                       THEN [hist[s] EXCEPT !.broken = TRUE] ELSE hist[s]]
      BY <1>2 DEF Disconnect
    <3>2. ASSUME NEW s \in SessionIds PROVE [hist[s] EXCEPT !.broken = TRUE] \in Hist /\ hist[s] \in Hist
      <4>1. hist[s] \in Hist
        BY <1>0 DEF TypeOK
      <4>. QED
        BY <4>1 DEF Hist
    <3>. QED
      BY <3>1, <3>2
  <2>2. online' \in [Players -> Addrs \cup {Null}]
    BY <1>0, <1>2 DEF Disconnect, TypeOK
  <2>3. QED
    BY <1>0, <1>2, <2>1, <2>2 DEF Disconnect, TypeOK
<1>3. ASSUME NEW p \in Players, TradeAddItemNull(p) PROVE TypeOK'
  BY <1>0, <1>3 DEF TradeAddItemNull, TypeOK
<1>4. ASSUME NEW p \in Players, NEW o \in Offer, TradeAddItem(p, o) PROVE TypeOK'
  <2> DEFINE s == sessions[p]
  <2>1. s \in SessionIds /\ heap[s] \in Session
    BY <1>0, <1>4 DEF TradeAddItem, TypeOK, SessionTableSound
  <2>2. Append(heap[s].aItems, o) \in Seq(Offer) /\ Append(heap[s].bItems, o) \in Seq(Offer)
    BY <2>1 DEF Session
  <2>3. /\ [heap[s] EXCEPT !.aItems = Append(@, o)] \in Session
        /\ [heap[s] EXCEPT !.bItems = Append(@, o)] \in Session
    BY <2>1, <2>2 DEF Session
  <2>4. heap' \in [SessionIds -> Session \cup {Null}]
    BY <1>0, <1>4, <2>1, <2>3 DEF TradeAddItem, UploadItem, TypeOK
  <2>5. hist' \in [SessionIds -> Hist]
    <3>1. hist[s] \in Hist
      BY <1>0, <2>1 DEF TypeOK
    <3>2. [hist[s] EXCEPT !.offered = @ \cup {<<p, o>>}] \in Hist
      BY <3>1 DEF Hist
    <3>3. hist' = [hist EXCEPT ![s] = [hist[s] EXCEPT !.offered = @ \cup {<<p, o>>}]]
      BY <1>4 DEF TradeAddItem, UploadItem
    <3>4. QED
      BY <1>0, <3>2, <3>3 DEF TypeOK
  <2>6. proc' \in {"up", "nullSession", "stalePlayer"}
    BY <1>0, <1>4 DEF TradeAddItem, TypeOK
  <2>7. QED
    BY <1>0, <1>4, <2>4, <2>5, <2>6 DEF TradeAddItem, TypeOK
<1>5. ASSUME NEW p \in Players, NEW q \in Players, TradeAccept(p, q) PROVE TypeOK'
  <2>1. PICK s \in SessionIds :
          /\ heap' = [heap EXCEPT ![s] =
                [aPtr |-> online[q], bPtr |-> online[p], aId |-> q, bId |-> p,
                 aReady |-> FALSE, bReady |-> FALSE,
                 aItems |-> <<>>, bItems |-> <<>>]]
          /\ sessions' = [sessions EXCEPT ![q] = s, ![p] = s]
          /\ hist' = [hist EXCEPT ![s] = NewHist]
    BY <1>5 DEF TradeAccept, CreateTradeSession
  <2>2. [aPtr |-> online[q], bPtr |-> online[p], aId |-> q, bId |-> p,
         aReady |-> FALSE, bReady |-> FALSE,
         aItems |-> <<>>, bItems |-> <<>>] \in Session
    BY <1>0, <1>5 DEF TradeAccept, IsOnline, TypeOK, Session
  <2>3. heap' \in [SessionIds -> Session \cup {Null}]
    BY <1>0, <2>1, <2>2 DEF TypeOK
  <2>4. sessions' \in [Players -> SessionIds \cup {Null, Absent}]
    BY <1>0, <2>1 DEF TypeOK
  <2>5. hist' \in [SessionIds -> Hist]
    BY <1>0, <2>1 DEF TypeOK, NewHist, Hist
  <2>6. QED
    BY <1>0, <1>5, <2>3, <2>4, <2>5 DEF TradeAccept, TypeOK
<1>6. ASSUME NEW p \in Players, NEW q \in Players, TradeReady(p, q) PROVE TypeOK'
  <2> DEFINE s == sessions[p]
             sess == WithReady(s, p)
  <2>1. s \in SessionIds /\ heap[s] \in Session
    BY <1>0, <1>6 DEF TradeReady, TypeOK, SessionTableSound
  <2>2. sess \in Session
    BY <2>1 DEF Session, WithReady
  <2>3. heap' \in [SessionIds -> Session \cup {Null}]
    BY <1>0, <1>6, <2>2 DEF TradeReady, TypeOK
  <2>4. hist' \in [SessionIds -> Hist]
    <3>1. hist[s] \in Hist
      BY <1>0, <2>1 DEF TypeOK
    <3>2. [hist[s] EXCEPT !.pressed = @ \cup {p}] \in Hist
      BY <3>1 DEF Hist
    <3>3. hist' = [hist EXCEPT ![s] = [hist[s] EXCEPT !.pressed = @ \cup {p}]]
      BY <1>6 DEF TradeReady
    <3>4. QED
      BY <1>0, <3>2, <3>3 DEF TypeOK
  <2>5. \A open \in BOOLEAN :
          [session |-> s, by |-> p, open |-> open, next |-> 1,
           step |-> "Minus", rows |-> db, before |-> db] \in Txn
    BY <1>0, <2>1 DEF TypeOK, Txn
  <2>6. freeConns' \in 0 .. PoolSize /\ txn' \in Txn \cup {Null}
    BY <1>0, <1>6, <2>5 DEF TradeReady, TypeOK
  <2>7. QED
    BY <1>0, <1>6, <2>3, <2>4, <2>6 DEF TradeReady, TypeOK
<1>7. ASSUME NEW p \in Players, NEW q \in Players, TradeCancel(p, q) PROVE TypeOK'
  <2>1. sessions[p] \in SessionIds /\ DeleteTradeSession(sessions[p])
    BY <1>7 DEF TradeCancel
  <2>2. QED
    BY <1>0, <1>7, <2>1, DeleteTradeSessionType DEF TradeCancel, TypeOK
<1>8. ASSUME NEW p \in Players, NEW q \in Players, NoSession(p, q) PROVE TypeOK'
  BY <1>0, <1>8 DEF NoSession, InsertNullEntry, TypeOK
<1>9. ASSUME ExecStatement PROVE TypeOK'
  <2>1. txn' \in Txn /\ db' \in [Players -> SUBSET Row]
    BY <1>0, <1>9, ExecStatementShape DEF TypeOK, Txn
  <2>. QED
    BY <1>0, <1>9, <2>1 DEF ExecStatement, TypeOK
<1>10. ASSUME ExecRollback PROVE TypeOK'
  <2>1. db' \in [Players -> SUBSET Row]
    BY <1>0, <1>10, StatementCredits DEF ExecRollback, TypeOK
  <2>. QED
    BY <1>0, <1>10, <2>1 DEF ExecRollback, TypeOK
<1>11. ASSUME ExecCommit PROVE TypeOK'
  <2>1. txn \in Txn /\ txn.session \in SessionIds /\ txn.rows \in [Players -> SUBSET Row]
    BY <1>0, <1>11 DEF ExecCommit, InTxn, TypeOK, Txn
  <2>2. db' \in [Players -> SUBSET Row]
    BY <1>0, <1>11, <2>1 DEF ExecCommit, TypeOK
  <2>3. DeleteTradeSession(txn.session)
    BY <1>11 DEF ExecCommit
  <2>. QED
    BY <1>0, <1>11, <2>1, <2>2, <2>3, DeleteTradeSessionType DEF ExecCommit, TypeOK
<1>12. ASSUME Restart PROVE TypeOK'
  BY <1>0, <1>12 DEF Restart, TypeOK, NewHist, Hist
<1>13. CASE UNCHANGED vars
  BY <1>0, <1>13 DEF vars, TypeOK
<1>14. QED
  BY <1>1, <1>2, <1>3, <1>4, <1>5, <1>6, <1>7, <1>8, <1>9, <1>10, <1>11, <1>12, <1>13
     DEF Next

\* What PKT_TRADE_ADD_ITEM does to the session of the sender.
LEMMA AddItemShape ==
    ASSUME TypeOK, SessionTableSound,
           NEW p \in Players, NEW o \in Offer, TradeAddItem(p, o)
    PROVE  /\ sessions[p] \in SessionIds /\ heap[sessions[p]] \in Session
           /\ \E new \in Session :
                 /\ heap' = [heap EXCEPT ![sessions[p]] = new]
                 /\ new.aPtr = heap[sessions[p]].aPtr /\ new.bPtr = heap[sessions[p]].bPtr
                 /\ new.aId = heap[sessions[p]].aId /\ new.bId = heap[sessions[p]].bId
                 /\ new.aReady = heap[sessions[p]].aReady
                 /\ new.bReady = heap[sessions[p]].bReady
                 /\ \/ /\ IsASide(sessions[p], p)
                       /\ new.aItems = Append(heap[sessions[p]].aItems, o)
                       /\ new.bItems = heap[sessions[p]].bItems
                    \/ /\ ~IsASide(sessions[p], p)
                       /\ new.aItems = heap[sessions[p]].aItems
                       /\ new.bItems = Append(heap[sessions[p]].bItems, o)
<1> DEFINE s == sessions[p]
           old == heap[s]
           newA == [old EXCEPT !.aItems = Append(@, o)]
           newB == [old EXCEPT !.bItems = Append(@, o)]
<1>1. s \in SessionIds /\ old \in Session
  BY DEF TradeAddItem, TypeOK, SessionTableSound
<1>2. Append(old.aItems, o) \in Seq(Offer) /\ Append(old.bItems, o) \in Seq(Offer)
  BY <1>1 DEF Session
<1>3. newA \in Session /\ newB \in Session
  BY <1>1, <1>2 DEF Session
<1>4. /\ newA.aItems = Append(old.aItems, o) /\ newA.bItems = old.bItems
      /\ newB.aItems = old.aItems /\ newB.bItems = Append(old.bItems, o)
  BY <1>1 DEF Session
<1>5. \A new \in {newA, newB} :
         /\ new.aPtr = old.aPtr /\ new.bPtr = old.bPtr
         /\ new.aId = old.aId /\ new.bId = old.bId
         /\ new.aReady = old.aReady /\ new.bReady = old.bReady
  BY <1>1 DEF Session
<1>6. \/ IsASide(s, p) /\ heap' = [heap EXCEPT ![s] = newA]
      \/ ~IsASide(s, p) /\ heap' = [heap EXCEPT ![s] = newB]
  BY DEF TradeAddItem, UploadItem
<1>7. CASE IsASide(s, p)
  BY <1>1, <1>3, <1>4, <1>5, <1>6, <1>7
<1>8. CASE ~IsASide(s, p)
  BY <1>1, <1>3, <1>4, <1>5, <1>6, <1>8
<1>9. QED
  BY <1>7, <1>8

\* After DeleteTradeSession no entry leads to the session that was freed: an
\* entry of a player is to a session of that player.
LEMMA DeleteTradeSessionTable ==
    ASSUME TypeOK, SessionTableSound, NEW s \in SessionIds, DeleteTradeSession(s)
    PROVE  SessionTableSound'
<1> USE TradeAssumption
<1>1. SUFFICES ASSUME NEW r \in Players, sessions'[r] \in SessionIds
               PROVE  /\ heap'[sessions'[r]] # Null
                      /\ r \in {heap'[sessions'[r]].aId, heap'[sessions'[r]].bId}
  BY DEF SessionTableSound, Members
<1>2. r \notin Members(s) /\ sessions'[r] = sessions[r]
  BY <1>1 DEF DeleteTradeSession, TypeOK
<1>3. heap[sessions[r]] # Null /\ r \in Members(sessions[r])
  BY <1>1, <1>2 DEF SessionTableSound
<1>4. sessions[r] # s /\ heap'[sessions[r]] = heap[sessions[r]]
  BY <1>1, <1>2, <1>3 DEF DeleteTradeSession, TypeOK
<1>5. QED
  BY <1>2, <1>3, <1>4 DEF Members

\* The session table stays sound.
LEMMA TableNext == IInv /\ [Next]_vars => SessionTableSound'
<1> SUFFICES ASSUME IInv, [Next]_vars PROVE SessionTableSound'
  OBVIOUS
<1> USE TradeAssumption
<1>0. TypeOK /\ SessionTableSound /\ TxnSound
  BY DEF IInv
<1>1. ASSUME UNCHANGED <<sessions, heap>> PROVE SessionTableSound'
  BY <1>0, <1>1 DEF SessionTableSound, Members
<1>2. ASSUME NEW p \in Players, NEW o \in Offer, TradeAddItem(p, o)
      PROVE SessionTableSound'
  <2>1. \A s \in SessionIds : heap[s] # Null =>
          heap'[s] # Null /\ heap'[s].aId = heap[s].aId /\ heap'[s].bId = heap[s].bId
    BY <1>0, <1>2, AddItemShape DEF TypeOK
  <2>2. sessions' = sessions
    BY <1>2 DEF TradeAddItem
  <2>3. QED
    BY <1>0, <2>1, <2>2 DEF SessionTableSound, Members
<1>3. ASSUME NEW p \in Players, NEW q \in Players, TradeAccept(p, q)
      PROVE SessionTableSound'
  <2>1. PICK s \in SessionIds :
          /\ heap[s] = Null
          /\ heap' = [heap EXCEPT ![s] =
                [aPtr |-> online[q], bPtr |-> online[p], aId |-> q, bId |-> p,
                 aReady |-> FALSE, bReady |-> FALSE,
                 aItems |-> <<>>, bItems |-> <<>>]]
          /\ sessions' = [sessions EXCEPT ![q] = s, ![p] = s]
    BY <1>3 DEF TradeAccept, CreateTradeSession
  <2>2. heap'[s] # Null /\ Members(s)' = {p, q}
    <3>1. heap'[s] \in Session
      BY <1>0, <1>3, <2>1 DEF TradeAccept, IsOnline, TypeOK, Session
    <3>2. heap'[s].aId = q /\ heap'[s].bId = p
      BY <1>0, <2>1 DEF TypeOK
    <3>3. QED
      BY <3>1, <3>2 DEF Members
  <2>3. \A r \in Players \ {p, q} : sessions'[r] = sessions[r]
    BY <1>0, <2>1 DEF TypeOK
  <2>4. sessions'[p] = s /\ sessions'[q] = s
    BY <1>0, <2>1 DEF TypeOK
  <2>5. \A z \in SessionIds \ {s} : heap'[z] = heap[z]
    BY <1>0, <2>1 DEF TypeOK
  <2>6. \A r \in Players \ {p, q} : sessions[r] # s
    BY <1>0, <2>1 DEF SessionTableSound
  <2>7. QED
    BY <1>0, <2>2, <2>3, <2>4, <2>5, <2>6 DEF SessionTableSound, Members
<1>4. ASSUME NEW p \in Players, NEW q \in Players, TradeReady(p, q)
      PROVE SessionTableSound'
  <2> DEFINE s == sessions[p]
             sess == WithReady(s, p)
  <2>1. s \in SessionIds /\ heap[s] \in Session
    BY <1>0, <1>4 DEF TradeReady, TypeOK, SessionTableSound
  <2>2. sess \in Session /\ sess.aId = heap[s].aId /\ sess.bId = heap[s].bId
    BY <2>1 DEF Session, WithReady
  <2>3. heap' = [heap EXCEPT ![s] = sess] /\ sessions' = sessions
    BY <1>4 DEF TradeReady
  <2>4. \A z \in SessionIds : heap[z] # Null =>
          heap'[z] # Null /\ heap'[z].aId = heap[z].aId /\ heap'[z].bId = heap[z].bId
    BY <1>0, <2>1, <2>2, <2>3 DEF TypeOK
  <2>5. QED
    BY <1>0, <2>3, <2>4 DEF SessionTableSound, Members
<1>5. ASSUME NEW p \in Players, NEW q \in Players, TradeCancel(p, q)
      PROVE SessionTableSound'
  BY <1>0, <1>5, DeleteTradeSessionTable DEF TradeCancel
<1>6. ASSUME NEW p \in Players, NEW q \in Players, NoSession(p, q)
      PROVE SessionTableSound'
  BY <1>0, <1>6 DEF NoSession, InsertNullEntry, TypeOK, SessionTableSound, Members
<1>7. ASSUME ExecCommit PROVE SessionTableSound'
  <2>1. txn.session \in SessionIds
    BY <1>0, <1>7 DEF ExecCommit, InTxn, TypeOK, Txn
  <2>2. DeleteTradeSession(txn.session)
    BY <1>7 DEF ExecCommit
  <2>3. QED
    BY <1>0, <2>1, <2>2, DeleteTradeSessionTable
<1>8. ASSUME Restart PROVE SessionTableSound'
  BY <1>8 DEF Restart, SessionTableSound
<1>9. QED
  BY <1>1, <1>2, <1>3, <1>4, <1>5, <1>6, <1>7, <1>8
     DEF Next, vars, Login, Disconnect, TradeAddItemNull, ExecStatement, ExecRollback

\* Execute keeps working on the session it was started for.
LEMMA TxnNext == IInv /\ [Next]_vars => TxnSound'
<1> SUFFICES ASSUME IInv, [Next]_vars PROVE TxnSound'
  OBVIOUS
<1>0. TypeOK /\ SessionTableSound /\ TxnSound
  BY DEF IInv
<1>1. ASSUME txn' = Null PROVE TxnSound'
  BY <1>1 DEF TxnSound
<1>2. ASSUME Idle, UNCHANGED txn PROVE TxnSound'
  BY <1>2 DEF Idle, TxnSound
<1>3. ASSUME NEW p \in Players, NEW q \in Players, TradeReady(p, q) PROVE TxnSound'
  <2>1. SUFFICES ASSUME txn' # Null PROVE TxnSound'
    BY DEF TxnSound
  <2>2. txn'.session = sessions[p] /\ txn'.by = p /\ sessions' = sessions
    BY <1>3, <2>1 DEF TradeReady, Idle
  <2>3. SessionTableSound' /\ sessions[p] \in SessionIds
    BY <1>3, TableNext DEF TradeReady
  <2>4. QED
    BY <2>2, <2>3 DEF SessionTableSound, TxnSound
<1>4. ASSUME ExecStatement PROVE TxnSound'
  <2>1. txn'.session = txn.session /\ txn'.by = txn.by
    BY <1>4, ExecStatementShape
  <2>2. UNCHANGED <<sessions, heap>> /\ txn # Null
    BY <1>4 DEF ExecStatement, Transferring, InTxn
  <2>. QED
    BY <1>0, <2>1, <2>2 DEF TxnSound, Members
<1>5. CASE UNCHANGED vars
  BY <1>0, <1>5 DEF vars, TxnSound, Members
<1>6. QED
  BY <1>1, <1>2, <1>3, <1>4, <1>5
     DEF Next, Login, Disconnect, TradeAddItemNull, TradeAddItem, TradeAccept,
         TradeCancel, NoSession, ExecRollback, ExecCommit, Restart

\* The rows stay keyed: one row per item, one item per slot.
LEMMA RowsNext == IInv /\ [Next]_vars => RowsSound'
<1> SUFFICES ASSUME IInv, [Next]_vars PROVE RowsSound'
  OBVIOUS
<1>0. TypeOK /\ TxnSound /\ RowsSound
  BY DEF IInv
<1>1. ASSUME UNCHANGED db, txn' = Null PROVE RowsSound'
  BY <1>0, <1>1 DEF RowsSound
<1>2. ASSUME UNCHANGED <<db, txn>> PROVE RowsSound'
  BY <1>0, <1>2 DEF RowsSound
<1>3. ASSUME NEW p \in Players, NEW q \in Players, TradeReady(p, q) PROVE RowsSound'
  <2>1. db' = db /\ (txn' = txn \/ txn'.rows = db)
    BY <1>3 DEF TradeReady
  <2>2. txn = Null
    BY <1>3 DEF TradeReady, Idle
  <2>3. QED
    BY <1>0, <2>1, <2>2 DEF RowsSound
<1>4. ASSUME ExecStatement PROVE RowsSound'
  <2>1. txn # Null /\ Keyed(txn'.rows) /\ (db' = db \/ db' = txn'.rows)
    BY <1>4, ExecStatementShape
  <2>. QED
    BY <1>0, <2>1 DEF RowsSound, Keyed
<1>7. ASSUME ExecRollback PROVE RowsSound'
  <2>1. txn' = Null /\ (db' = db \/ Keyed(db'))
    BY <1>7, StatementCredits DEF ExecRollback
  <2>. QED
    BY <1>0, <2>1 DEF RowsSound, Keyed
<1>5. ASSUME ExecCommit PROVE RowsSound'
  <2>1. txn # Null /\ txn' = Null /\ db' \in {txn.rows, db}
    BY <1>5 DEF ExecCommit, InTxn
  <2>2. QED
    BY <1>0, <2>1 DEF RowsSound
<1>6. QED
  BY <1>1, <1>2, <1>3, <1>4, <1>5, <1>7
     DEF Next, vars, Login, Disconnect, TradeAddItemNull, TradeAddItem, TradeAccept,
         TradeCancel, NoSession, Restart

\* Two Player objects that are alive have different addresses.
LEMMA OnlineNext == IInv /\ [Next]_vars => OnlineDistinct'
<1> SUFFICES ASSUME IInv, [Next]_vars PROVE OnlineDistinct'
  OBVIOUS
<1>0. TypeOK /\ OnlineDistinct
  BY DEF IInv
<1>1. ASSUME NEW p \in Players, Login(p) PROVE OnlineDistinct'
  <2>1. PICK a \in Addrs \ {online[q] : q \in Players} : online' = [online EXCEPT ![p] = a]
    BY <1>1 DEF Login
  <2>2. \A q \in Players \ {p} : online'[q] = online[q] /\ online[q] # a
    BY <1>0, <2>1 DEF TypeOK
  <2>3. online'[p] = a
    BY <1>0, <2>1 DEF TypeOK
  <2>4. QED
    BY <1>0, <2>2, <2>3 DEF OnlineDistinct, IsOnline
<1>2. ASSUME NEW p \in Players, Disconnect(p) PROVE OnlineDistinct'
  BY <1>0, <1>2 DEF Disconnect, OnlineDistinct, IsOnline, TypeOK
<1>3. ASSUME Restart PROVE OnlineDistinct'
  BY <1>3 DEF Restart, OnlineDistinct, IsOnline
<1>4. ASSUME UNCHANGED online PROVE OnlineDistinct'
  BY <1>0, <1>4 DEF OnlineDistinct, IsOnline
<1>5. QED
  BY <1>1, <1>2, <1>3, <1>4
     DEF Next, vars, TradeAddItemNull, TradeAddItem, TradeAccept, TradeReady,
         TradeCancel, NoSession, ExecStatement, ExecRollback, ExecCommit

\* While the members of a session are both still there, the pointer comparison
\* of a handler picks the side of the player the packet came from.
LEMMA PointerTellsSide ==
    ASSUME TypeOK, SessionTableSound, OnlineDistinct, SidesSound,
           NEW p \in Players, IsOnline(p), sessions[p] \in SessionIds,
           ~hist[sessions[p]].broken
    PROVE  /\ OwnSides(sessions[p])
           /\ IsASide(sessions[p], p) => p = heap[sessions[p]].aId
           /\ ~IsASide(sessions[p], p) => p = heap[sessions[p]].bId
<1> DEFINE s == sessions[p]
<1>1. heap[s] \in Session /\ p \in Members(s)
  BY DEF TypeOK, SessionTableSound
<1>2. OwnSides(s)
  BY <1>1, TradeAssumption DEF SidesSound, SessionTableSound
<1>3. heap[s].aId \in Players /\ heap[s].bId \in Players
  BY <1>1 DEF Session
<1>4. IsASide(s, p) => p = heap[s].aId
  BY <1>2, <1>3 DEF IsASide, OwnSides, OnlineDistinct
<1>5. ~IsASide(s, p) => p = heap[s].bId
  BY <1>1, <1>2 DEF IsASide, OwnSides, Members
<1>6. QED
  BY <1>2, <1>4, <1>5

\* Every step leaves the sides of unbroken sessions to their owners.
LEMMA SidesNext == IInv /\ [Next]_vars => SidesSound'
<1> SUFFICES ASSUME IInv, [Next]_vars PROVE SidesSound'
  OBVIOUS
<1> USE TradeAssumption
<1>0. TypeOK /\ SessionTableSound /\ OnlineDistinct /\ SidesSound
  BY DEF IInv
<1>1. ASSUME NEW p \in Players, Login(p) PROVE SidesSound'
  <2>1. SUFFICES ASSUME NEW s \in SessionIds, heap[s] # Null, ~hist[s].broken
                 PROVE OwnSides(s)'
    BY <1>1 DEF Login, SidesSound
  <2>2. OwnSides(s) /\ heap[s] \in Session
    BY <1>0, <2>1 DEF SidesSound, TypeOK
  <2>3. heap[s].aId # p /\ heap[s].bId # p
    BY <1>1, <2>2 DEF Login, IsOnline, OwnSides, Session
  <2>4. online'[heap[s].aId] = online[heap[s].aId] /\ online'[heap[s].bId] = online[heap[s].bId]
    BY <1>0, <1>1, <2>2, <2>3 DEF Login, TypeOK, Session
  <2>5. QED
    BY <1>1, <2>2, <2>4 DEF Login, OwnSides
<1>2. ASSUME NEW p \in Players, Disconnect(p) PROVE SidesSound'
  <2>1. SUFFICES ASSUME NEW s \in SessionIds, heap[s] # Null, ~hist'[s].broken
                 PROVE OwnSides(s)'
    BY <1>2 DEF Disconnect, SidesSound
  <2>2. p \notin Members(s)
    <3>1. SUFFICES ASSUME p \in Members(s) PROVE FALSE
      OBVIOUS
    <3>2. hist'[s] = [hist[s] EXCEPT !.broken = TRUE] /\ hist[s] \in Hist
      BY <1>0, <1>2, <2>1, <3>1 DEF Disconnect, TypeOK
    <3>3. QED
      BY <2>1, <3>2 DEF Hist
  <2>3. hist'[s] = hist[s]
    BY <1>2, <2>2 DEF Disconnect
  <2>4. OwnSides(s) /\ heap[s] \in Session
    BY <1>0, <2>1, <2>3 DEF SidesSound, TypeOK
  <2>5. online'[heap[s].aId] = online[heap[s].aId] /\ online'[heap[s].bId] = online[heap[s].bId]
    BY <1>0, <1>2, <2>2, <2>4 DEF Disconnect, TypeOK, Members, Session
  <2>6. QED
    BY <1>2, <2>3, <2>4, <2>5 DEF Disconnect, OwnSides
<1>3. ASSUME NEW p \in Players, NEW o \in Offer, TradeAddItem(p, o) PROVE SidesSound'
  <2>0. PICK s \in SessionIds : s = sessions[p]
    BY <1>3 DEF TradeAddItem
  <2> DEFINE old == heap[s]
  <2>1. PICK new \in Session :
          /\ heap' = [heap EXCEPT ![s] = new]
          /\ new.aPtr = old.aPtr /\ new.bPtr = old.bPtr
          /\ new.aId = old.aId /\ new.bId = old.bId
          /\ new.aReady = old.aReady /\ new.bReady = old.bReady
          /\ \/ /\ IsASide(s, p)
                /\ new.aItems = Append(old.aItems, o) /\ new.bItems = old.bItems
             \/ /\ ~IsASide(s, p)
                /\ new.aItems = old.aItems /\ new.bItems = Append(old.bItems, o)
    BY <1>0, <1>3, <2>0, AddItemShape
  <2>2. old \in Session /\ IsOnline(p) /\ online' = online
    BY <1>0, <1>3, <2>0, AddItemShape DEF TradeAddItem
  <2>3. /\ hist[s] \in Hist
        /\ hist' = [hist EXCEPT ![s] = [hist[s] EXCEPT !.offered = @ \cup {<<p, o>>}]]
    BY <1>0, <1>3, <2>0 DEF TradeAddItem, UploadItem, TypeOK
  <2>4. /\ hist'[s].offered = hist[s].offered \cup {<<p, o>>}
        /\ hist'[s].pressed = hist[s].pressed /\ hist'[s].broken = hist[s].broken
    BY <1>0, <2>2, <2>3 DEF TypeOK, Hist
  <2>5. \A z \in SessionIds \ {s} : heap'[z] = heap[z] /\ hist'[z] = hist[z]
    BY <1>0, <2>1, <2>3 DEF TypeOK
  <2>6. \A z \in SessionIds \ {s} : heap'[z] # Null /\ ~hist'[z].broken => OwnSides(z)'
    BY <1>0, <2>2, <2>5 DEF SidesSound, OwnSides
  <2>7. ASSUME ~hist'[s].broken PROVE OwnSides(s)'
    <3>1. /\ OwnSides(s)
          /\ IsASide(s, p) => p = old.aId
          /\ ~IsASide(s, p) => p = old.bId
      BY <1>0, <2>0, <2>2, <2>4, <2>7, PointerTellsSide
    <3>2. heap'[s] = new
      BY <1>0, <2>1, <2>2 DEF TypeOK
    <3>3. \A items \in Seq(Offer) : \A k \in 1 .. Len(Append(items, o)) :
             \/ k \in 1 .. Len(items) /\ Append(items, o)[k] = items[k]
             \/ Append(items, o)[k] = o
      OBVIOUS
    <3>4. old.aItems \in Seq(Offer) /\ old.bItems \in Seq(Offer)
      BY <2>2 DEF Session
    <3>5. \A k \in 1 .. Len(new.aItems) : <<new.aId, new.aItems[k]>> \in hist'[s].offered
      <4>1. \A k \in 1 .. Len(old.aItems) : <<old.aId, old.aItems[k]>> \in hist'[s].offered
        BY <2>4, <3>1 DEF OwnSides
      <4>2. CASE IsASide(s, p)
        <5>1. new.aItems = Append(old.aItems, o) /\ new.aId = p
          BY <2>1, <3>1, <4>2
        <5>2. \A k \in 1 .. Len(Append(old.aItems, o)) :
                 \/ k \in 1 .. Len(old.aItems) /\ Append(old.aItems, o)[k] = old.aItems[k]
                 \/ Append(old.aItems, o)[k] = o
          BY <3>3, <3>4
        <5>3. <<p, o>> \in hist'[s].offered /\ old.aId = p
          BY <2>4, <3>1, <4>2
        <5>4. QED
          BY <4>1, <5>1, <5>2, <5>3
      <4>3. CASE ~IsASide(s, p)
        BY <2>1, <4>1, <4>3
      <4>4. QED
        BY <4>2, <4>3
    <3>6. \A k \in 1 .. Len(new.bItems) : <<new.bId, new.bItems[k]>> \in hist'[s].offered
      <4>1. \A k \in 1 .. Len(old.bItems) : <<old.bId, old.bItems[k]>> \in hist'[s].offered
        BY <2>4, <3>1 DEF OwnSides
      <4>2. CASE ~IsASide(s, p)
        <5>1. new.bItems = Append(old.bItems, o) /\ new.bId = p
          BY <2>1, <3>1, <4>2
        <5>2. \A k \in 1 .. Len(Append(old.bItems, o)) :
                 \/ k \in 1 .. Len(old.bItems) /\ Append(old.bItems, o)[k] = old.bItems[k]
                 \/ Append(old.bItems, o)[k] = o
          BY <3>3, <3>4
        <5>3. <<p, o>> \in hist'[s].offered /\ old.bId = p
          BY <2>4, <3>1, <4>2
        <5>4. QED
          BY <4>1, <5>1, <5>2, <5>3
      <4>3. CASE IsASide(s, p)
        BY <2>1, <4>1, <4>3
      <4>4. QED
        BY <4>2, <4>3
    <3>7. QED
      BY <2>1, <2>2, <2>4, <3>1, <3>2, <3>5, <3>6 DEF OwnSides
  <2>8. QED
    BY <2>6, <2>7 DEF SidesSound
<1>4. ASSUME NEW p \in Players, NEW q \in Players, TradeAccept(p, q) PROVE SidesSound'
  <2>1. PICK s \in SessionIds :
          /\ heap' = [heap EXCEPT ![s] =
                [aPtr |-> online[q], bPtr |-> online[p], aId |-> q, bId |-> p,
                 aReady |-> FALSE, bReady |-> FALSE,
                 aItems |-> <<>>, bItems |-> <<>>]]
          /\ hist' = [hist EXCEPT ![s] = NewHist]
    BY <1>4 DEF TradeAccept, CreateTradeSession
  <2>2. online' = online
    BY <1>4 DEF TradeAccept, CreateTradeSession
  <2>3. \A z \in SessionIds \ {s} : heap'[z] = heap[z] /\ hist'[z] = hist[z]
    BY <1>0, <2>1 DEF TypeOK
  <2>4. \A z \in SessionIds \ {s} : heap'[z] # Null /\ ~hist'[z].broken => OwnSides(z)'
    BY <1>0, <2>2, <2>3 DEF SidesSound, OwnSides
  <2>5. OwnSides(s)'
    <3>1. /\ heap'[s].aPtr = online[q] /\ heap'[s].bPtr = online[p]
          /\ heap'[s].aId = q /\ heap'[s].bId = p
          /\ heap'[s].aReady = FALSE /\ heap'[s].bReady = FALSE
          /\ heap'[s].aItems = <<>> /\ heap'[s].bItems = <<>>
      BY <1>0, <2>1 DEF TypeOK
    <3>2. QED
      BY <2>2, <3>1 DEF OwnSides
  <2>6. QED
    BY <2>4, <2>5 DEF SidesSound
<1>5. ASSUME NEW p \in Players, NEW q \in Players, TradeReady(p, q) PROVE SidesSound'
  <2>0. PICK s \in SessionIds : s = sessions[p]
    BY <1>5 DEF TradeReady
  <2> DEFINE old == heap[s]
             new == WithReady(s, p)
  <2>1. old \in Session /\ IsOnline(p) /\ online' = online
    BY <1>0, <1>5, <2>0 DEF TradeReady, TypeOK, SessionTableSound
  <2>2. heap' = [heap EXCEPT ![s] = new]
    BY <1>5, <2>0 DEF TradeReady
  <2>3. /\ hist[s] \in Hist
        /\ hist' = [hist EXCEPT ![s] = [hist[s] EXCEPT !.pressed = @ \cup {p}]]
    BY <1>0, <1>5, <2>0 DEF TradeReady, TypeOK
  <2>4. /\ hist'[s].pressed = hist[s].pressed \cup {p}
        /\ hist'[s].offered = hist[s].offered /\ hist'[s].broken = hist[s].broken
    BY <1>0, <2>1, <2>3 DEF TypeOK, Hist
  <2>5. \A z \in SessionIds \ {s} : heap'[z] = heap[z] /\ hist'[z] = hist[z]
    BY <1>0, <2>2, <2>3 DEF TypeOK
  <2>6. \A z \in SessionIds \ {s} : heap'[z] # Null /\ ~hist'[z].broken => OwnSides(z)'
    BY <1>0, <2>1, <2>5 DEF SidesSound, OwnSides
  <2>7. ASSUME ~hist'[s].broken PROVE OwnSides(s)'
    <3>1. /\ OwnSides(s)
          /\ IsASide(s, p) => p = old.aId
          /\ ~IsASide(s, p) => p = old.bId
      BY <1>0, <2>0, <2>1, <2>4, <2>7, PointerTellsSide
    <3>2. heap'[s] = new
      BY <1>0, <2>1, <2>2 DEF TypeOK
    <3>3. /\ new.aPtr = old.aPtr /\ new.bPtr = old.bPtr
          /\ new.aId = old.aId /\ new.bId = old.bId
          /\ new.aItems = old.aItems /\ new.bItems = old.bItems
          /\ new.aReady => old.aReady \/ IsASide(s, p)
          /\ new.bReady => old.bReady \/ ~IsASide(s, p)
      BY <2>1 DEF Session, WithReady
    <3>4. QED
      BY <2>1, <2>4, <3>1, <3>2, <3>3 DEF OwnSides
  <2>8. QED
    BY <2>6, <2>7 DEF SidesSound
<1>6. ASSUME NEW s \in SessionIds, DeleteTradeSession(s), UNCHANGED online PROVE SidesSound'
  <2>1. \A z \in SessionIds : heap'[z] # Null => heap'[z] = heap[z] /\ hist'[z] = hist[z]
    BY <1>0, <1>6 DEF DeleteTradeSession, TypeOK
  <2>2. QED
    BY <1>0, <1>6, <2>1 DEF SidesSound, OwnSides
<1>7. ASSUME NEW p \in Players, NEW q \in Players, TradeCancel(p, q) PROVE SidesSound'
  BY <1>6, <1>7 DEF TradeCancel
<1>8. ASSUME ExecCommit PROVE SidesSound'
  <2>1. txn.session \in SessionIds
    BY <1>0, <1>8 DEF ExecCommit, InTxn, TypeOK, Txn
  <2>2. QED
    BY <1>6, <1>8, <2>1 DEF ExecCommit
<1>9. ASSUME Restart PROVE SidesSound'
  BY <1>9 DEF Restart, SidesSound
<1>10. ASSUME UNCHANGED <<online, heap, hist>> PROVE SidesSound'
  BY <1>0, <1>10 DEF SidesSound, OwnSides
<1>11. QED
  BY <1>1, <1>2, <1>3, <1>4, <1>5, <1>7, <1>8, <1>9, <1>10
     DEF Next, vars, TradeAddItemNull, NoSession, ExecStatement, ExecRollback

\* A transaction starts, and goes on, with the Ready of both members.
LEMMA ConsentNext == IInv /\ [Next]_vars => TxnConsent'
<1> SUFFICES ASSUME IInv, [Next]_vars PROVE TxnConsent'
  OBVIOUS
<1> USE TradeAssumption
<1>0. TypeOK /\ SessionTableSound /\ TxnSound /\ OnlineDistinct /\ SidesSound /\ TxnConsent
  BY DEF IInv
<1>1. ASSUME txn' = Null PROVE TxnConsent'
  BY <1>1 DEF TxnConsent
<1>2. ASSUME Idle, UNCHANGED txn PROVE TxnConsent'
  BY <1>2 DEF Idle, TxnConsent
<1>3. ASSUME NEW p \in Players, NEW q \in Players, TradeReady(p, q) PROVE TxnConsent'
  <2>0. PICK s \in SessionIds : s = sessions[p]
    BY <1>3 DEF TradeReady
  <2> DEFINE old == heap[s]
             new == WithReady(s, p)
  <2>1. SUFFICES ASSUME txn' # Null, ~hist'[txn'.session].broken
                 PROVE  ReadyByBoth(s)'
    <3>1. txn' # Null => txn'.session = s
      BY <1>3, <2>0 DEF TradeReady, Idle
    <3>2. QED
      BY <3>1 DEF TxnConsent, ReadyByBoth, Members
  <2>2. txn'.session = s /\ OtherIsReady(new, p) /\ heap' = [heap EXCEPT ![s] = new]
    BY <1>3, <2>0, <2>1 DEF TradeReady, Idle
  <2>3. old \in Session /\ p \in {old.aId, old.bId}
    BY <1>0, <2>0 DEF TypeOK, SessionTableSound, Members
  <2>4. hist'[s].pressed = hist[s].pressed \cup {p} /\ hist'[s].broken = hist[s].broken
    <3>1. hist[s] \in Hist
      BY <1>0 DEF TypeOK
    <3>2. hist' = [hist EXCEPT ![s] = [hist[s] EXCEPT !.pressed = @ \cup {p}]]
      BY <1>3, <2>0 DEF TradeReady
    <3>3. QED
      BY <1>0, <3>1, <3>2 DEF TypeOK, Hist
  <2>5. /\ OwnSides(s)
        /\ IsASide(s, p) => p = old.aId
        /\ ~IsASide(s, p) => p = old.bId
    <3>1. IsOnline(p)
      BY <1>3 DEF TradeReady
    <3>2. QED
      BY <1>0, <2>0, <2>1, <2>2, <2>4, <3>1, PointerTellsSide
  <2>6. /\ new.aId = old.aId /\ new.bId = old.bId
        /\ new.aReady => old.aReady \/ p = old.aId
        /\ new.bReady => old.bReady \/ p = old.bId
    BY <2>3, <2>5 DEF Session, WithReady
  <2>7. {old.aId, old.bId} \subseteq hist'[s].pressed
    BY <2>2, <2>3, <2>4, <2>5, <2>6 DEF OtherIsReady, OwnSides
  <2>8. heap'[s] = new
    BY <1>0, <2>2 DEF TypeOK
  <2>9. QED
    BY <2>6, <2>7, <2>8 DEF ReadyByBoth, Members
<1>4. ASSUME ExecStatement PROVE TxnConsent'
  <2>1. txn # Null /\ txn'.session = txn.session /\ UNCHANGED <<heap, hist>>
    BY <1>4, ExecStatementShape DEF ExecStatement
  <2>. QED
    BY <1>0, <2>1 DEF TxnConsent, ReadyByBoth, Members
<1>5. CASE UNCHANGED vars
  BY <1>0, <1>5 DEF vars, TxnConsent, ReadyByBoth, Members
<1>6. QED
  BY <1>1, <1>2, <1>3, <1>4, <1>5
     DEF Next, Login, Disconnect, TradeAddItemNull, TradeAddItem, TradeAccept,
         TradeCancel, NoSession, ExecRollback, ExecCommit, Restart

\* Between the first statement of Execute and its end nothing is made, lost, or
\* moved to a third character.
LEMMA ConservesNext == IInv /\ [Next]_vars => TxnConserves'
<1> SUFFICES ASSUME IInv, [Next]_vars PROVE TxnConserves'
  OBVIOUS
<1>0. TypeOK /\ SessionTableSound /\ TxnSound /\ TxnConserves
  BY DEF IInv
<1>1. ASSUME txn' = Null PROVE TxnConserves'
  BY <1>1 DEF TxnConserves
<1>2. ASSUME Idle, UNCHANGED txn PROVE TxnConserves'
  BY <1>2 DEF Idle, TxnConserves
<1>3. ASSUME NEW p \in Players, NEW q \in Players, TradeReady(p, q) PROVE TxnConserves'
  <2>1. SUFFICES ASSUME txn' # Null PROVE TxnConserves'
    BY DEF TxnConserves
  <2>2. txn'.rows = txn'.before /\ txn'.step = "Minus" /\ txn'.rows = db
        /\ txn'.session = sessions[p] /\ sessions[p] \in SessionIds
    BY <1>3, <2>1 DEF TradeReady, Idle
  <2>3. heap' = [heap EXCEPT ![sessions[p]] = WithReady(sessions[p], p)]
    BY <1>3 DEF TradeReady
  <2>4. heap[sessions[p]] \in Session
    BY <1>0, <2>2 DEF TypeOK, SessionTableSound
  <2>. DEFINE sess == heap'[sessions[p]]
  <2>5. sess.aId \in Players /\ sess.bId \in Players
    BY <1>0, <2>2, <2>3, <2>4 DEF TypeOK, WithReady, Session
  <2>. HIDE DEF sess
  <2>6. \A i \in Items : OfBoth(db, sess.aId, sess.bId, i) + 0 = OfBoth(db, sess.aId, sess.bId, i)
    <3>1. db \in [Players -> SUBSET Row]
      BY <1>0 DEF TypeOK
    <3>. QED
      BY <2>5, <3>1, BalanceType DEF OfBoth
  <2>7. \A i \in Items : InTransit(i)' = 0
    BY <2>2 DEF InTransit
  <2>. QED
    BY <2>2, <2>6, <2>7 DEF TxnConserves, sess
<1>4. ASSUME ExecStatement PROVE TxnConserves'
  <2>. DEFINE a == heap[txn.session].aId
              b == heap[txn.session].bId
              t == CurrentTransfer
              rows == txn'.rows
  <2>1. /\ Transferring /\ txn # Null /\ UNCHANGED heap
        /\ rows \in StatementLeaves(txn.rows, t) /\ rows \in [Players -> SUBSET Row]
        /\ txn'.session = txn.session /\ txn'.before = txn.before
    BY <1>4, ExecStatementShape
  <2>2. /\ t \in Transfers /\ t.from \in {a, b} /\ t.to \in {a, b}
        /\ txn.rows \in [Players -> SUBSET Row]
        /\ a \in Players /\ b \in Players
    BY <2>1, StatementFinds DEF Session
  <2>3. t.offer.item \in Items /\ t.offer.amount \in Int
    BY <2>2, TradeAssumption DEF Transfers, Offer
  <2>4. PICK p \in {a, b}, n \in Int :
          /\ Credited(txn.rows, rows, p, t.offer.item, n)
          /\ \A i \in Items :
                (IF i = t.offer.item THEN n ELSE 0) + InTransit(i)' = InTransit(i)
    <3>1. CASE txn.step = "Minus"
      <4>1. Credited(txn.rows, rows, t.from, t.offer.item, -t.offer.amount)
        BY <2>1, <3>1, StatementCredits
      <4>2. \A i \in Items : /\ InTransit(i) = 0
                             /\ InTransit(i)' = IF t.offer.item = i THEN t.offer.amount ELSE 0
        BY <1>4, <3>1, ExecStatementShape, SameTransfer DEF InTransit
      <4>3. \A i \in Items :
              (IF i = t.offer.item THEN -t.offer.amount ELSE 0) + InTransit(i)' = InTransit(i)
        BY <2>3, <4>2
      <4>. QED
        BY <2>2, <2>3, <4>1, <4>3
    <3>2. CASE txn.step = "Delete"
      <4>1. Credited(txn.rows, rows, t.from, t.offer.item, 0)
        BY <2>1, <3>2, StatementCredits
      <4>2. \A i \in Items :
              /\ InTransit(i)' = InTransit(i)
              /\ InTransit(i) = IF t.offer.item = i THEN t.offer.amount ELSE 0
        BY <1>4, <3>2, ExecStatementShape, SameTransfer DEF InTransit
      <4>3. \A i \in Items : (IF i = t.offer.item THEN 0 ELSE 0) + InTransit(i)' = InTransit(i)
        BY <2>3, <4>2
      <4>. QED
        BY <2>2, <4>1, <4>3
    <3>3. CASE txn.step = "Increase"
      <4>1. Credited(txn.rows, rows, t.to, t.offer.item, t.offer.amount)
        BY <2>1, <3>3, StatementCredits
      <4>2. \A i \in Items : /\ InTransit(i)' = 0
                             /\ InTransit(i) = IF t.offer.item = i THEN t.offer.amount ELSE 0
        BY <1>4, <3>3, ExecStatementShape DEF InTransit
      <4>3. \A i \in Items :
              (IF i = t.offer.item THEN t.offer.amount ELSE 0) + InTransit(i)' = InTransit(i)
        BY <2>3, <4>2
      <4>. QED
        BY <2>2, <2>3, <4>1, <4>3
    <3>. QED
      BY <1>4, <3>1, <3>2, <3>3, ExecStatementShape
  <2>5. ASSUME NEW i \in Items
        PROVE  OfBoth(rows, a, b, i) + InTransit(i)' = OfBoth(txn.before, a, b, i)
    <3>1. /\ OfBoth(rows, a, b, i)
               = OfBoth(txn.rows, a, b, i) + (IF i = t.offer.item THEN n ELSE 0)
          /\ OfBoth(txn.rows, a, b, i) \in Int
      BY <2>1, <2>2, <2>4, OfBothCredited
    <3>2. OfBoth(txn.rows, a, b, i) + InTransit(i) = OfBoth(txn.before, a, b, i)
      BY <1>0, <2>1 DEF TxnConserves
    <3>3. InTransit(i) \in Int /\ InTransit(i)' \in Int
      BY <1>4, <2>3, ExecStatementShape, SameTransfer DEF InTransit
    <3>4. (IF i = t.offer.item THEN n ELSE 0) + InTransit(i)' = InTransit(i)
      BY <2>4
    <3>. QED
      BY <2>4, <3>1, <3>2, <3>3, <3>4
  <2>6. \A p2 \in Players \ {a, b} : rows[p2] = txn.before[p2]
    BY <1>0, <2>1, <2>4 DEF TxnConserves, Credited
  <2>. QED
    BY <2>1, <2>5, <2>6 DEF TxnConserves
<1>5. CASE UNCHANGED vars
  BY <1>0, <1>5 DEF vars, TxnConserves, InTransit, CurrentTransfer
<1>6. QED
  BY <1>1, <1>2, <1>3, <1>4, <1>5
     DEF Next, Login, Disconnect, TradeAddItemNull, TradeAddItem, TradeAccept,
         TradeCancel, NoSession, ExecRollback, ExecCommit, Restart

\* What is committed while Execute runs, and what the next statement may rely on.
LEMMA TxnRowsNext == IInv /\ [Next]_vars => TxnRows'
<1> SUFFICES ASSUME IInv, [Next]_vars PROVE TxnRows'
  OBVIOUS
<1>0. TxnRows
  BY DEF IInv
<1>1. ASSUME txn' = Null PROVE TxnRows'
  BY <1>1 DEF TxnRows
<1>2. ASSUME Idle, UNCHANGED txn PROVE TxnRows'
  BY <1>2 DEF Idle, TxnRows
<1>3. ASSUME NEW p \in Players, NEW q \in Players, TradeReady(p, q) PROVE TxnRows'
  <2>1. SUFFICES ASSUME txn' # Null PROVE TxnRows'
    BY DEF TxnRows
  <2>2. txn'.rows = db /\ txn'.before = db /\ txn'.step = "Minus" /\ db' = db
    BY <1>3, <2>1 DEF TradeReady, Idle
  <2>. QED
    BY <2>2 DEF TxnRows
<1>4. ASSUME ExecStatement PROVE TxnRows'
  <2>1. /\ Transferring /\ txn # Null /\ UNCHANGED heap
        /\ txn'.rows \in StatementLeaves(txn.rows, CurrentTransfer)
        /\ txn'.session = txn.session /\ txn'.before = txn.before /\ txn'.open = txn.open
        /\ db' = IF txn.open THEN db ELSE txn'.rows
    BY <1>4, ExecStatementShape
  <2>2. IF txn'.open THEN txn'.before = db' ELSE txn'.rows = db'
    BY <1>0, <2>1 DEF TxnRows
  <2>3. txn'.step # "Minus" => txn'.next <= TransferCount(heap'[txn'.session])
    BY <1>4, <2>1, ExecStatementShape DEF Transferring
  <2>4. ASSUME txn'.step = "Delete"
        PROVE  CountOf(txn'.rows[CurrentTransfer'.from], CurrentTransfer'.offer.item) >= 0
    <3>1. CurrentTransfer' = CurrentTransfer /\ txn.step = "Minus"
      BY <1>4, <2>4, ExecStatementShape, SameTransfer
    <3>. QED
      BY <2>1, <3>1, StatementCredits
  <2>. QED
    BY <2>2, <2>3, <2>4 DEF TxnRows
<1>5. CASE UNCHANGED vars
  BY <1>0, <1>5 DEF vars, TxnRows, CurrentTransfer
<1>6. QED
  BY <1>1, <1>2, <1>3, <1>4, <1>5
     DEF Next, Login, Disconnect, TradeAddItemNull, TradeAddItem, TradeAccept,
         TradeCancel, NoSession, ExecRollback, ExecCommit, Restart

\* While no member has disconnected, what is transferred was put up by the member it
\* is taken from.
LEMMA OfferedByOwner ==
    ASSUME IInv, Transferring, ~hist[txn.session].broken
    PROVE  <<CurrentTransfer.from, CurrentTransfer.offer>> \in hist[txn.session].offered
<1>. DEFINE s == txn.session
            sess == heap[s]
            k == txn.next
<1>1. sess \in Session /\ k \in 1 .. TransferCount(sess)
  BY StatementFinds
<1>2. OwnSides(s)
  BY DEF IInv, TypeOK, Txn, TxnSound, SidesSound, Transferring, InTxn
<1>3. sess.aItems \in Seq(Offer) /\ sess.bItems \in Seq(Offer)
  BY <1>1 DEF Session
<1>4. Len(sess.aItems) \in Nat /\ Len(sess.bItems) \in Nat
  BY <1>3, LenProperties
<1>5. \A a, b \in Nat : \A j \in 1 .. a + b :
         /\ j <= a => j \in 1 .. a
         /\ ~(j <= a) => j - a \in 1 .. b
  OBVIOUS
<1>6. k \in 1 .. Len(sess.aItems) + Len(sess.bItems)
  BY <1>1 DEF TransferCount
<1>7. /\ k <= Len(sess.aItems) => k \in 1 .. Len(sess.aItems)
      /\ ~(k <= Len(sess.aItems)) => k - Len(sess.aItems) \in 1 .. Len(sess.bItems)
  BY <1>4, <1>5, <1>6
<1>8. CASE k <= Len(sess.aItems)
  BY <1>2, <1>7, <1>8 DEF OwnSides, CurrentTransfer, Transfer
<1>9. CASE ~(k <= Len(sess.aItems))
  BY <1>2, <1>7, <1>9 DEF OwnSides, CurrentTransfer, Transfer
<1>. QED
  BY <1>8, <1>9

\* A statement takes from nobody what no offer accounts for.
LEMMA LossesNext == IInv /\ [Next]_vars => LossesExplained'
<1> SUFFICES ASSUME IInv, [Next]_vars PROVE LossesExplained'
  OBVIOUS
<1>0. TypeOK /\ LossesExplained
  BY DEF IInv
<1>1. ASSUME txn' = Null PROVE LossesExplained'
  BY <1>1 DEF LossesExplained
<1>2. ASSUME Idle, UNCHANGED txn PROVE LossesExplained'
  BY <1>2 DEF Idle, LossesExplained
<1>3. ASSUME NEW p \in Players, NEW q \in Players, TradeReady(p, q) PROVE LossesExplained'
  <2>1. SUFFICES ASSUME txn' # Null PROVE LossesExplained'
    BY DEF LossesExplained
  <2>2. txn'.rows = db /\ txn'.before = db /\ db \in [Players -> SUBSET Row]
    BY <1>0, <1>3, <2>1 DEF TradeReady, Idle, TypeOK
  <2>3. \A r \in Players, i \in Items : ~(Balance(db[r])[i] < Balance(db[r])[i])
    BY <2>2, BalanceType
  <2>. QED
    BY <2>2, <2>3 DEF LossesExplained
<1>4. ASSUME ExecStatement PROVE LossesExplained'
  <2>. DEFINE s == txn.session
              a == heap[s].aId
              t == CurrentTransfer
              rows == txn'.rows
  <2>1. /\ Transferring /\ txn # Null /\ UNCHANGED <<heap, hist>>
        /\ rows \in StatementLeaves(txn.rows, t) /\ rows \in [Players -> SUBSET Row]
        /\ txn'.session = s /\ txn'.before = txn.before /\ txn' \in Txn /\ txn' # Null
    BY <1>4, ExecStatementShape
  <2>2. SUFFICES ASSUME ~hist[s].broken, NEW p \in Players, NEW i \in Items,
                        Balance(rows[p])[i] < Balance(txn.before[p])[i]
                 PROVE  Explained(s, p, i)
    BY <2>1 DEF LossesExplained, Explained
  <2>3. /\ t \in Transfers /\ txn.rows \in [Players -> SUBSET Row]
        /\ \/ t.from = heap[s].aId /\ t.to = heap[s].bId
           \/ t.from = heap[s].bId /\ t.to = heap[s].aId
    BY <2>1, StatementFinds
  <2>4. /\ t.from \in Players /\ t.to \in Players
        /\ t.offer.item \in Items /\ t.offer.amount \in Amounts /\ t.offer.amount \in Int
        /\ t.offer = [item |-> t.offer.item, amount |-> t.offer.amount]
    BY <2>3, TradeAssumption DEF Transfers, Offer
  <2>5. <<t.from, t.offer>> \in hist[s].offered
    BY <2>1, <2>2, OfferedByOwner
  <2>6. txn'.before \in [Players -> SUBSET Row]
    BY <2>1 DEF Txn
  <2>7. /\ Balance(rows[p])[i] \in Int /\ Balance(txn.rows[p])[i] \in Int
        /\ Balance(txn.before[p])[i] \in Int
    BY <2>1, <2>3, <2>6, BalanceType
  <2>. HIDE DEF t, s, rows
  <2>8. CASE Balance(txn.rows[p])[i] < Balance(txn.before[p])[i]
    BY <1>0, <2>1, <2>2, <2>8 DEF LossesExplained, s
  <2>9. CASE ~(Balance(txn.rows[p])[i] < Balance(txn.before[p])[i])
    <3>1. Balance(rows[p])[i] < Balance(txn.rows[p])[i]
      BY <2>2, <2>7, <2>9
    <3>2. CASE txn.step = "Minus"
      <4>1. Credited(txn.rows, rows, t.from, t.offer.item, -t.offer.amount)
        BY <2>1, <3>2, StatementCredits DEF t, rows
      <4>2. p = t.from
        <5>1. p # t.from => rows[p] = txn.rows[p]
          BY <4>1 DEF Credited
        <5>. QED
          BY <2>7, <3>1, <5>1
      <4>3. Balance(rows[p])[i]
              = Balance(txn.rows[p])[i] + (IF i = t.offer.item THEN -t.offer.amount ELSE 0)
        BY <4>1, <4>2 DEF Credited
      <4>4. i = t.offer.item /\ t.offer.amount > 0
        BY <2>4, <2>7, <3>1, <4>3
      <4>. QED
        BY <2>4, <2>5, <4>2, <4>4 DEF Explained
    <3>3. CASE txn.step = "Delete"
      <4>1. Credited(txn.rows, rows, t.from, t.offer.item, 0)
        BY <2>1, <3>3, StatementCredits DEF t, rows
      <4>2. p # t.from => rows[p] = txn.rows[p]
        BY <4>1 DEF Credited
      <4>3. p = t.from => Balance(rows[p])[i]
                            = Balance(txn.rows[p])[i] + (IF i = t.offer.item THEN 0 ELSE 0)
        BY <4>1 DEF Credited
      <4>. QED
        BY <2>7, <3>1, <4>2, <4>3
    <3>4. CASE txn.step = "Increase"
      <4>1. Credited(txn.rows, rows, t.to, t.offer.item, t.offer.amount)
        BY <2>1, <3>4, StatementCredits DEF t, rows
      <4>2. p = t.to
        <5>1. p # t.to => rows[p] = txn.rows[p]
          BY <4>1 DEF Credited
        <5>. QED
          BY <2>7, <3>1, <5>1
      <4>3. Balance(rows[p])[i]
              = Balance(txn.rows[p])[i] + (IF i = t.offer.item THEN t.offer.amount ELSE 0)
        BY <4>1, <4>2 DEF Credited
      <4>4. i = t.offer.item /\ t.offer.amount < 0
        BY <2>4, <2>7, <3>1, <4>3
      <4>5. t.from # p
        \* A trade with oneself: what the transfer took has just been given back.
        <5>1. SUFFICES ASSUME t.from = p PROVE FALSE
          OBVIOUS
        <5>2. heap[s].aId = p /\ heap[s].bId = p
          BY <2>3, <4>2, <5>1
        <5>3. TxnConserves' /\ txn'.step = "Minus" /\ txn'.session = s
          BY <1>4, <2>1, <3>4, ConservesNext, ExecStatementShape DEF s
        <5>4. InTransit(i)' = 0
          BY <5>3 DEF InTransit
        <5>5. OfBoth(rows, p, p, i) + 0 = OfBoth(txn.before, p, p, i)
          BY <2>1, <5>2, <5>3, <5>4 DEF TxnConserves, rows, s
        <5>. QED
          BY <2>2, <2>7, <5>5 DEF OfBoth
      <4>. QED
        BY <2>4, <2>5, <4>2, <4>4, <4>5 DEF Explained
    <3>. QED
      BY <1>4, <3>2, <3>3, <3>4, ExecStatementShape
  <2>. QED
    BY <2>8, <2>9
<1>5. CASE UNCHANGED vars
  BY <1>0, <1>5 DEF vars, LossesExplained, Explained
<1>6. QED
  BY <1>1, <1>2, <1>3, <1>4, <1>5
     DEF Next, Login, Disconnect, TradeAddItemNull, TradeAddItem, TradeAccept,
         TradeCancel, NoSession, ExecRollback, ExecCommit, Restart

-----------------------------------------------------------------------------
\* The invariant holds in every reachable state.
LEMMA Invariant == Spec => []IInv
<1>1. IInv /\ [Next]_vars => IInv'
  BY TypeNext, TableNext, TxnNext, RowsNext, OnlineNext, SidesNext, ConsentNext,
     ConservesNext, TxnRowsNext, LossesNext DEF IInv
<1>2. QED
  BY InitIInv, <1>1, PTL DEF Spec

\* Every variable keeps its type.  Whatever amounts the packets name, no statement of
\* Execute leaves a count or a slot outside its column; a count may be negative.
THEOREM TypeCorrect == Spec => []TypeOK
BY Invariant, PTL DEF IInv

\* No entry of m_sessions outlives its TradeSession: no handler that finds a
\* session works on a freed one, or on one of other players.
THEOREM TableCorrect == Spec => []SessionTableSound
BY Invariant, PTL DEF IInv

\* Execute works on an allocated session of the player who pressed Ready.
THEOREM TxnCorrect == Spec => []TxnSound
BY Invariant, PTL DEF IInv

\* The SQL statements of a trade never leave two rows of an item or two rows
\* in a slot, with or without a transaction around them.
THEOREM RowsCorrect == Spec => []RowsSound
BY Invariant, PTL DEF IInv

\* While no member of a session has disconnected, Execute runs with the Ready of
\* both; and what a character loses on the way that player put up, or the other
\* member offered a negative amount of: HandleTradeAddItem does not look at the sign.
THEOREM TradeConsented == Spec => []ConsentedTrade
BY Invariant, PTL DEF IInv, ConsentedTrade

-----------------------------------------------------------------------------
(* The trade implements AtomicExchange                                     *)

\* The variables of AtomicExchange: what every character owns, whether a trade runs
\* outside a transaction, and (Underway) what it has taken and not given.
Owned == [p \in Players |-> Balance(db[p])]
Torn == txn # Null /\ ~txn.open

\* What is owned, or owed, is a number.
LEMMA OwnedType ==
    ASSUME IInv
    PROVE  /\ Owned \in [Players -> [Items -> Int]]
           /\ \A p \in Players : Owned[p] = Balance(db[p])
<1>1. ASSUME NEW p \in Players PROVE Balance(db[p]) \in [Items -> Int]
  <2>1. db \in [Players -> SUBSET Row]
    BY DEF IInv, TypeOK
  <2>2. \A i \in Items : CountOf(db[p], i) \in Int
    BY <2>1, CountOfType
  <2>. QED
    BY <2>2 DEF Balance
<1>. QED
  BY <1>1 DEF Owned

\* What credits a character in the table credits it in the abstract balance.
LEMMA OwnedCredited ==
    ASSUME IInv, IInv', NEW p \in Players, NEW i \in Items, NEW n \in Int,
           Credited(db, db', p, i, n)
    PROVE  Owned' = [Owned EXCEPT ![p][i] = @ + n]
<1>1. /\ Owned \in [Players -> [Items -> Int]]
      /\ \A q \in Players : Owned[q] = Balance(db[q])
  BY OwnedType
<1>2. /\ Owned' \in [Players -> [Items -> Int]]
      /\ \A q \in Players : Owned'[q] = Balance(db'[q])
  <2>1. ASSUME NEW q \in Players PROVE Balance(db'[q]) \in [Items -> Int]
    <3>1. db' \in [Players -> SUBSET Row]
      BY DEF IInv, TypeOK
    <3>2. \A j \in Items : CountOf(db'[q], j) \in Int
      BY <3>1, CountOfType
    <3>. QED
      BY <3>2 DEF Balance
  <2>. QED
    BY <2>1 DEF Owned
<1>3. \A q \in Players \ {p} : Owned'[q] = Owned[q]
  BY <1>1, <1>2 DEF Credited
<1>4. \A j \in Items : Owned'[p][j] = Owned[p][j] + (IF j = i THEN n ELSE 0)
  BY <1>1, <1>2 DEF Credited
<1>. DEFINE x == Owned
            y == Owned'
<1>5. x \in [Players -> [Items -> Int]] /\ y \in [Players -> [Items -> Int]]
  BY <1>1, <1>2
<1>6. /\ \A q \in Players \ {p} : y[q] = x[q]
      /\ \A j \in Items : y[p][j] = x[p][j] + (IF j = i THEN n ELSE 0)
  BY <1>3, <1>4
<1>. HIDE DEF x, y
<1>7. y[p] = [x[p] EXCEPT ![i] = @ + n]
  BY <1>5, <1>6
<1>8. y = [x EXCEPT ![p][i] = @ + n]
  BY <1>5, <1>6, <1>7
<1>. QED
  BY <1>8 DEF x, y

\* COMMIT makes the exchange of the two members of the session visible at once, and
\* a trade with oneself changes nothing.
LEMMA CommitExchanges ==
    ASSUME IInv, IInv', ExecCommit, txn.open, db' = txn.rows
    PROVE  Exchanges!Next \/ Owned' = Owned
<1>. DEFINE a == heap[txn.session].aId
            b == heap[txn.session].bId
<1>1. a \in Players /\ b \in Players /\ txn # Null
  <2>1. heap[txn.session] \in Session /\ txn # Null
    BY DEF IInv, ExecCommit, InTxn, TypeOK, TxnSound, Txn
  <2>. QED
    BY <2>1 DEF Session
<1>2. /\ \A p \in Players \ {a, b} : db'[p] = db[p]
      /\ \A i \in Items : OfBoth(db', a, b, i) + InTransit(i) = OfBoth(db, a, b, i)
  BY <1>1 DEF IInv, TxnConserves, TxnRows
<1>3. \A i \in Items : InTransit(i) = 0
  BY <1>1 DEF ExecCommit, Transferring, IInv, TxnRows, InTransit
<1>. HIDE DEF a, b
<1>4. /\ Owned \in [Players -> [Items -> Int]]
      /\ \A p \in Players : Owned[p] = Balance(db[p])
  BY OwnedType
<1>5. /\ Owned' \in [Players -> [Items -> Int]]
      /\ \A p \in Players : Owned'[p] = Balance(db'[p])
  <2>1. ASSUME NEW p \in Players PROVE Balance(db'[p]) \in [Items -> Int]
    <3>1. db' \in [Players -> SUBSET Row]
      BY DEF IInv, TypeOK
    <3>2. \A i \in Items : CountOf(db'[p], i) \in Int
      BY <3>1, CountOfType
    <3>. QED
      BY <3>2 DEF Balance
  <2>. QED
    BY <2>1 DEF Owned
<1>6. \A p \in Players \ {a, b} : Owned'[p] = Owned[p]
  BY <1>2, <1>4, <1>5
<1>7. \A i \in Items : IF a = b THEN Owned'[a][i] + 0 = Owned[a][i]
                       ELSE Owned'[a][i] + Owned'[b][i] + 0 = Owned[a][i] + Owned[b][i]
  BY <1>1, <1>2, <1>3, <1>4, <1>5 DEF OfBoth
<1>8. CASE a # b
  <2>1. \A i \in Items : Owned'[a][i] + Owned'[b][i] = Owned[a][i] + Owned[b][i]
    BY <1>1, <1>4, <1>5, <1>7, <1>8
  <2>2. ~Torn /\ ~Torn' /\ Underway = Null /\ Underway' = Null
    BY DEF Torn, Underway, ExecCommit
  <2>3. Exchanges!Exchange(a, b)
    BY <1>5, <1>6, <2>1, <2>2 DEF Exchanges!Exchange, Owned, Torn
  <2>. QED
    BY <1>1, <1>8, <2>3 DEF Exchanges!Next
<1>9. CASE a = b
  <2>. DEFINE x == Owned
              y == Owned'
  <2>1. x \in [Players -> [Items -> Int]] /\ y \in [Players -> [Items -> Int]]
    BY <1>4, <1>5
  <2>2. /\ \A p \in Players \ {a} : y[p] = x[p]
        /\ \A i \in Items : y[a][i] + 0 = x[a][i]
    BY <1>6, <1>7, <1>9
  <2>. HIDE DEF x, y
  <2>3. y[a] = x[a]
    BY <1>1, <2>1, <2>2
  <2>4. y = x
    BY <2>1, <2>2, <2>3
  <2>. QED
    BY <2>4 DEF x, y
<1>. QED
  BY <1>8, <1>9

\* A statement outside a transaction is half of a transfer, which is committed, or the
\* DELETE, which takes nothing; the trade may end with it.
LEMMA TornStatement ==
    ASSUME IInv, IInv', Transferring, ~txn.open,
           db' \in StatementLeaves(txn.rows, CurrentTransfer),
           \/ ~Torn' /\ Underway' = Null
           \/ /\ Torn'
              /\ Underway' = IF txn.step = "Increase" THEN Null ELSE CurrentTransfer.offer
    PROVE  Exchanges!Next \/ (Owned' = Owned /\ Torn' = Torn /\ Underway' = Underway)
<1>. DEFINE t == CurrentTransfer
            i == t.offer.item
            n == t.offer.amount
<1>1. txn # Null /\ txn.rows = db /\ Torn
  BY DEF IInv, TxnRows, Transferring, InTxn, Torn
<1>2. t \in Transfers /\ txn.step \in {"Minus", "Delete", "Increase"}
  BY StatementFinds
<1>3. /\ t.from \in Players /\ t.to \in Players
      /\ i \in Items /\ n \in Amounts /\ n \in Int
      /\ t.offer = [item |-> i, amount |-> n]
  BY <1>2, TradeAssumption DEF Transfers, Offer
<1>4. Underway = IF txn.step = "Minus" THEN Null ELSE t.offer
  BY <1>1 DEF Underway, Torn
<1>5. /\ txn.step = "Minus" => Credited(db, db', t.from, i, -n)
      /\ txn.step = "Delete" => Credited(db, db', t.from, i, 0)
      /\ txn.step = "Increase" => Credited(db, db', t.to, i, n)
  BY <1>1, StatementCredits
<1>. HIDE DEF t, i, n
<1>6. CASE txn.step = "Minus"
  <2>1. Owned' = [Owned EXCEPT ![t.from][i] = @ + (-n)]
    <3>1. -n \in Int
      BY <1>3
    <3>. QED
      BY <1>3, <1>5, <1>6, <3>1, OwnedCredited
  <2>2. \/ ~Torn' /\ Underway' = Null
        \/ Torn' /\ Underway' = [item |-> i, amount |-> n]
    BY <1>3, <1>6 DEF t
  <2>3. Exchanges!Take(t.from, i, n)
    BY <1>1, <1>4, <1>6, <2>1, <2>2
       DEF Exchanges!Take, Exchanges!Credit, Owned, Torn
  <2>. QED
    BY <1>3, <2>3 DEF Exchanges!Next
<1>7. CASE txn.step = "Delete"
  <2>. DEFINE x == Owned
              y == Owned'
  <2>1. x \in [Players -> [Items -> Int]]
    BY OwnedType
  <2>2. y = [x EXCEPT ![t.from][i] = @ + 0]
    BY <1>3, <1>5, <1>7, OwnedCredited
  <2>. HIDE DEF x, y
  <2>3. x[t.from] \in [Items -> Int]
    BY <1>3, <2>1
  <2>4. [x[t.from] EXCEPT ![i] = @ + 0] = x[t.from]
    BY <1>3, <2>3
  <2>5. y = x
    <3>1. y = [x EXCEPT ![t.from] = [x[t.from] EXCEPT ![i] = @ + 0]]
      BY <2>2
    <3>. QED
      BY <1>3, <2>1, <2>4, <3>1
  <2>6. CASE Torn'
    BY <1>1, <1>4, <1>7, <2>5, <2>6 DEF x, y, t
  <2>7. CASE ~Torn'
    <3>1. Exchanges!End
      BY <1>1, <2>5, <2>7 DEF Exchanges!End, Owned, Torn, x, y
    <3>. QED
      BY <3>1 DEF Exchanges!Next
  <2>. QED
    BY <2>6, <2>7
<1>8. CASE txn.step = "Increase"
  <2>1. Owned' = [Owned EXCEPT ![t.to][i] = @ + n]
    BY <1>3, <1>5, <1>8, OwnedCredited
  <2>2. Torn' \in BOOLEAN /\ Underway' = Null
    BY <1>8 DEF Torn
  <2>3. Exchanges!Give(t.to, i, n)
    BY <1>1, <1>3, <1>4, <1>8, <2>1, <2>2
       DEF Exchanges!Give, Exchanges!Credit, Owned, Torn
  <2>. QED
    BY <1>3, <2>3 DEF Exchanges!Next
<1>. QED
  BY <1>2, <1>6, <1>7, <1>8

\* Whatever ends Execute without a trace in the table ends the torn trade, if it was one.
LEMMA EndOfTrade ==
    ASSUME txn' = Null, db' = db
    PROVE  Exchanges!Next \/ (Owned' = Owned /\ Torn' = Torn /\ Underway' = Underway)
<1>1. Owned' = Owned /\ ~Torn' /\ Underway' = Null
  BY DEF Owned, Torn, Underway
<1>2. CASE Torn
  <2>1. Exchanges!End
    BY <1>1, <1>2 DEF Exchanges!End, Owned, Torn
  <2>. QED
    BY <2>1 DEF Exchanges!Next
<1>3. CASE ~Torn
  BY <1>1, <1>3 DEF Torn, Underway
<1>. QED
  BY <1>2, <1>3

\* Whatever packets arrive, connections break, statements fail or processes die: the
\* balances the database holds change by atomic exchanges between two characters, or,
\* where START TRANSACTION failed, by one half of a transfer at a time.
THEOREM ImplementsExchange == Spec => TradeIsAtomicExchange
<1>1. Init /\ IInv => Exchanges!Init
  BY OwnedType DEF Init, Exchanges!Init, Owned, Underway
<1>2. IInv /\ IInv' /\ [Next]_vars =>
        [Exchanges!Next]_<<[p \in Players |-> Balance(db[p])], txn # Null /\ ~txn.open, Underway>>
  <2>. DEFINE Unchanged == Owned' = Owned /\ Torn' = Torn /\ Underway' = Underway
  <2>. SUFFICES ASSUME IInv, IInv', [Next]_vars
                PROVE  Exchanges!Next \/ Unchanged
    BY DEF Owned, Torn
  <2>1. ASSUME db' = db, txn' = txn, txn = Null PROVE Unchanged
    BY <2>1 DEF Owned, Torn, Underway
  <2>2. ASSUME NEW p \in Players, NEW q \in Players, TradeReady(p, q)
        PROVE  Exchanges!Next \/ Unchanged
    <3>1. db' = db /\ txn = Null
      BY <2>2 DEF TradeReady, Idle
    <3>2. Owned' = Owned /\ ~Torn /\ Underway = Null
      BY <3>1 DEF Owned, Torn, Underway
    <3>3. Underway' = Null /\ (txn' = Null \/ txn'.step = "Minus")
      BY <2>2, <3>1 DEF TradeReady, Underway
    <3>4. CASE Torn'
      <4>1. Exchanges!Tear
        BY <3>2, <3>3, <3>4 DEF Exchanges!Tear, Owned, Torn
      <4>. QED
        BY <4>1 DEF Exchanges!Next
    <3>5. CASE ~Torn'
      BY <3>2, <3>3, <3>5 DEF Torn
    <3>. QED
      BY <3>4, <3>5
  <2>3. ASSUME ExecStatement PROVE Exchanges!Next \/ Unchanged
    <3>1. /\ Transferring /\ txn # Null /\ txn' # Null /\ txn'.open = txn.open
          /\ txn'.rows \in StatementLeaves(txn.rows, CurrentTransfer)
          /\ db' = IF txn.open THEN db ELSE txn'.rows
      BY <2>3, ExecStatementShape
    <3>2. CASE txn.open
      BY <3>1, <3>2 DEF Owned, Torn, Underway
    <3>3. CASE ~txn.open
      <4>1. Torn' /\ db' \in StatementLeaves(txn.rows, CurrentTransfer)
        BY <3>1, <3>3 DEF Torn
      <4>2. Underway' = IF txn.step = "Increase" THEN Null ELSE CurrentTransfer.offer
        BY <2>3, <3>1, <3>3, ExecStatementShape, SameTransfer DEF Underway
      <4>. QED
        BY <3>1, <3>3, <4>1, <4>2, TornStatement
    <3>. QED
      BY <3>2, <3>3
  <2>4. ASSUME ExecRollback PROVE Exchanges!Next \/ Unchanged
    <3>1. txn' = Null /\ Transferring
      BY <2>4 DEF ExecRollback
    <3>2. CASE db' = db
      BY <3>1, <3>2, EndOfTrade
    <3>3. CASE ~txn.open /\ db' \in StatementLeaves(txn.rows, CurrentTransfer)
      <4>1. ~Torn' /\ Underway' = Null
        BY <3>1 DEF Torn, Underway
      <4>. QED
        BY <3>1, <3>3, <4>1, TornStatement
    <3>. QED
      BY <2>4, <3>2, <3>3 DEF ExecRollback
  <2>5. ASSUME ExecCommit PROVE Exchanges!Next \/ Unchanged
    <3>1. txn' = Null /\ txn # Null /\ db' \in {txn.rows, db}
      BY <2>5 DEF ExecCommit, InTxn
    <3>2. CASE db' = db
      BY <3>1, <3>2, EndOfTrade
    <3>3. CASE db' # db
      <4>1. txn.open /\ db' = txn.rows
        BY <3>1, <3>3 DEF IInv, TxnRows
      <4>2. Torn' = Torn /\ Underway' = Underway
        BY <3>1, <4>1 DEF Torn, Underway
      <4>. QED
        BY <2>5, <4>1, <4>2, CommitExchanges
    <3>. QED
      BY <3>2, <3>3
  <2>6. ASSUME Restart PROVE Exchanges!Next \/ Unchanged
    BY <2>6, EndOfTrade DEF Restart
  <2>7. ASSUME UNCHANGED vars PROVE Unchanged
    BY <2>7 DEF vars, Owned, Torn, Underway, CurrentTransfer
  <2>. QED
    BY <2>1, <2>2, <2>3, <2>4, <2>5, <2>6, <2>7
       DEF Next, Idle, Login, Disconnect, TradeAddItemNull, TradeAddItem, TradeAccept,
           TradeCancel, NoSession
<1>. QED
  BY InitIInv, Invariant, <1>1, <1>2, PTL DEF Spec, TradeIsAtomicExchange, Exchanges!Spec
=============================================================================
