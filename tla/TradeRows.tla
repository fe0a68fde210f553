------------------------------ MODULE TradeRows ------------------------------
(***************************************************************************)
(* The rows of table character_inventory that belong to one character, and *)
(* the SQL statements TradeService issues on them.  A statement that the   *)
(* code treats as failed has no result: the operators of statements that   *)
(* can fail return the set of row sets they can leave behind, empty when   *)
(* the code returns -1.  Numbers are checked by MySQL (strict mode).       *)
(***************************************************************************)
EXTENDS Integers, FiniteSets

CONSTANTS Items,       \* item ids
          Types,       \* inventory types (first digit of the item id, minus one)
          TypeOf,      \* the inventory type of an item
          MaxSlotPos,  \* largest value the slot_pos column (SMALLINT) can hold
          MaxItemCount \* largest value the item_count column (INT) can hold

ASSUME RowsAssumption ==
    /\ TypeOf \in [Items -> Types]
    /\ MaxSlotPos \in Nat
    /\ MaxItemCount \in Nat

Slots == 0 .. MaxSlotPos

\* A signed column: nothing in the schema keeps a count from being negative.
Counts == -(MaxItemCount + 1) .. MaxItemCount

Row == [type : Types, slot : Slots, item : Items, count : Counts]

\* SELECT slot_pos ... WHERE item_id = ? LIMIT 1 (SelectInventoryItemSlot)
HasItem(rows, i) == \E r \in rows : r.item = i

\* SELECT COALESCE(MAX(slot_pos) + 1, 0) ... WHERE inventory_type = ?
IsNextSlotPos(rows, t, k) ==
    /\ \A r \in rows : r.type = t => r.slot < k
    /\ k = 0 \/ \E r \in rows : r.type = t /\ r.slot = k - 1

\* What SelectNextInventorySlotPos can answer: an error of the fetch is
\* returned as false, which is 0 and success, with the slot still at 0.
NextSlotPos(rows, t) ==
    { k \in 0 .. MaxSlotPos + 1 : IsNextSlotPos(rows, t, k) } \cup {0}

\* An UPDATE that adds n to the count of the selected rows.  It fails when a
\* count leaves its column, and for the code also when it changed no row: a
\* row whose count stays what it was is not affected.
AddToCount(rows, selected, n) ==
    IF selected # {} /\ n # 0 /\ \A r \in selected : r.count + n \in Counts
    THEN { { IF r \in selected THEN [r EXCEPT !.count = @ + n] ELSE r : r \in rows } }
    ELSE {}

\* UPDATE ... SET item_count = item_count + n WHERE item_id = i: every row
\* of the item is changed, whatever its slot.
UpdateInventoryItemCountPlus(rows, i, n) ==
    AddToCount(rows, { r \in rows : r.item = i }, n)

\* Mutant: the AND item_count >= n of the UPDATE is missing.
MinusUnchecked(rows, i, n) == AddToCount(rows, { r \in rows : r.item = i }, -n)

\* UPDATE ... SET item_count = item_count - n WHERE item_id = i AND
\* item_count >= n: again every row that qualifies.
UpdateInventoryItemCountMinus(rows, i, n) ==
    AddToCount(rows, { r \in rows : r.item = i /\ r.count >= n }, -n)

\* DELETE ... WHERE item_id = i AND item_count <= 0
DeleteInventoryItem(rows, i) == { r \in rows : ~(r.item = i /\ r.count <= 0) }

\* INSERT INTO character_inventory of a row in slot k: fails when the slot or
\* the count does not fit its column, or the primary key is taken.
InsertInventoryItem(rows, t, k, i, n) ==
    IF /\ k \in Slots /\ n \in Counts
       /\ ~ \E r \in rows : r.type = t /\ r.slot = k
    THEN { rows \cup {[type |-> t, slot |-> k, item |-> i, count |-> n]} }
    ELSE {}

\* Mutant: INSERT without looking for a row of the item.
InsertAlways(rows, i, n) ==
    UNION { InsertInventoryItem(rows, TypeOf[i], k, i, n) : k \in NextSlotPos(rows, TypeOf[i]) }

\* IncreaseItem
IncreaseItem(rows, i, n) ==
    IF HasItem(rows, i)
    THEN UpdateInventoryItemCountPlus(rows, i, n)
    ELSE UNION { InsertInventoryItem(rows, TypeOf[i], k, i, n)
                   : k \in NextSlotPos(rows, TypeOf[i]) }

-----------------------------------------------------------------------------
\* How many of item i a character owns (of the row OneRow says is the only one).
CountOf(rows, i) ==
    IF HasItem(rows, i) THEN (CHOOSE r \in rows : r.item = i).count ELSE 0

OneRow(rows) == \A r1, r2 \in rows : r1.item = r2.item => r1 = r2

\* PRIMARY KEY (char_id, inventory_type, slot_pos)
SlotKey(rows) ==
    \A r1, r2 \in rows : r1.type = r2.type /\ r1.slot = r2.slot => r1 = r2
=============================================================================
