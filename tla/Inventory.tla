----------------------------- MODULE Inventory -----------------------------
(***************************************************************************)
(* The inventory of one type of every player of a map, and the items on    *)
(* the ground of that map: what the packets "use", "move" and "pick up" do *)
(* to them, and what the client is told.                                   *)
(*                                                                         *)
(* All of it runs in the GameLoop, one packet after the other.  The slots  *)
(* of an Inventory are an unordered_map: a position may be missing, and    *)
(* one from the database may lie beyond m_maxSlot.  None of the packets    *)
(* writes to the database: a player enters with the rows it has, and a     *)
(* trade lays the rows over what two players have by then.  What an item   *)
(* does to HP and MP is CharacterStat's, and the distance to a drop is     *)
(* Player's: a pickup from afar changes nothing.                           *)
(***************************************************************************)
EXTENDS Integers

CONSTANTS
  Players, Items,
  Consumables,      \* the items of type "consumable"
  Stackable,        \* the items that share a slot
  MaxStack,         \* max_stack of each item
  MaxSlot,          \* m_maxSlot
  CurrentSlotSize,  \* m_current_slot_size
  Rows,             \* what the table may hold for each player: positions to <<item, count>>
  End,              \* bound: past every position of a slot, of a row too
  MaxDrops,         \* bound: the drops that are ever spawned
  MaxCount,         \* bound: the count of one drop
  NoItem,           \* the item id 0
  Freed             \* an owner whose Player object is gone

ASSUME InventoryAssumption ==
  /\ Consumables \subseteq Items /\ Stackable \subseteq Items
  /\ NoItem \notin Items /\ Freed \notin Players
  /\ MaxStack \in [Items -> Nat \ {0}]
  /\ MaxSlot \in Nat /\ CurrentSlotSize \in Nat
  /\ End \in Nat /\ MaxSlot <= End
  /\ MaxDrops \in Nat /\ MaxCount \in Nat \ {0}

\* A row of the table holds an item and a count of it: more than a stack when a trade has
\* put more together, none or less when one took what was not there (TradeService).
ASSUME RowsAssumption ==
  \A p \in Players : \A rows \in Rows[p] :
    /\ DOMAIN rows \subseteq 0 .. End - 1
    /\ \A pos \in DOMAIN rows :
         rows[pos][1] \in Items /\ rows[pos][2] \in Int

VARIABLES
  online,    \* the player is in the channel
  slots,     \* Inventory::m_slots of each player
  drops,     \* MapInstance::m_dropItems
  dropId,    \* MapInstance::m_dropId
  alive,     \* no undefined access has happened
  view,      \* the slots the client has been told of
  untold,    \* history: slots have changed and the client was not told: a failed pickup, a trade
  refused,   \* history: the player and the item of a pickup just answered with a failure
  reloaded   \* history: the players whose rows were just read again

vars == <<online, slots, drops, dropId, alive, view, untold, refused, reloaded>>

-----------------------------------------------------------------------------
(* Inventory                                                               *)

Slot(item, count, isEnable) == [item |-> item, count |-> count, isEnable |-> isEnable]

\* Inventory::Inventory: one position more than m_current_slot_size is enabled.
NewSlots == [pos \in 0 .. MaxSlot - 1 |-> Slot(NoItem, 0, pos <= CurrentSlotSize)]

\* SetSlotItem of every row, over what is there: an InventorySlot is enabled by default.
SetSlotItems(s, rows) ==
  [pos \in DOMAIN s \cup DOMAIN rows |->
     IF pos \in DOMAIN rows THEN Slot(rows[pos][1], rows[pos][2], TRUE) ELSE s[pos]]

\* What LoadInventory may leave: it stops where a row cannot be fetched, and the order of
\* the rows is nobody's.
LoadInventory(s, rows) ==
  {SetSlotItems(s, [pos \in read |-> rows[pos]]) : read \in SUBSET DOMAIN rows}

\* A new Player after the two loads, whose results nobody reads: without LoadInventoryMeta
\* there is no Inventory, here one that has no position.
LoadedSlots(p) == {<<>>} \cup UNION {LoadInventory(NewSlots, rows) : rows \in Rows[p]}

\* Mutant: a stack takes all that remains.
AllOf(a, b) == b

AtMost(a, b) == IF a < b THEN a ELSE b

\* The state of AddItem: the slots so far and remainCount.
Adding(s, remain) == [slots |-> s, remain |-> remain]

\* Of what remains n go to a position, which then holds count of the item.
Put(a, pos, item, count, n) ==
  Adding([a.slots EXCEPT ![pos] = Slot(item, count, @.isEnable)], a.remain - n)

\* A position that a loop does not skip: as long as something remains.
Visits(a, pos) == a.remain > 0 /\ pos \in DOMAIN a.slots /\ a.slots[pos].isEnable

\* The first loop: a stack that has room, at one position.
Fill(item, a, pos) ==
  IF Visits(a, pos) /\ a.slots[pos].item = item /\ a.slots[pos].count < MaxStack[item]
  THEN LET addCount == AtMost(MaxStack[item] - a.slots[pos].count, a.remain) IN
       Put(a, pos, item, a.slots[pos].count + addCount, addCount)
  ELSE a

\* The second loop: an empty slot, at one position.
Open(item, a, pos) ==
  IF Visits(a, pos) /\ a.slots[pos].item = NoItem
  THEN LET addCount == IF item \in Stackable THEN AtMost(MaxStack[item], a.remain) ELSE 1 IN
       Put(a, pos, item, addCount, addCount)
  ELSE a

\* The turns of the two loops one after the other: MaxSlot of each.
Turn(item, a, n) ==
  IF n >= MaxSlot THEN Open(item, a, n - MaxSlot)
  ELSE IF item \in Stackable THEN Fill(item, a, n) ELSE a

\* Mutant: only new slots are used.
AddToNewSlots(s, item, count) ==
  LET after[n \in 0 .. MaxSlot] ==
        IF n = 0 THEN Adding(s, count) ELSE Open(item, after[n - 1], n - 1)
  IN after[MaxSlot]

\* Mutant: nothing is ever added.
AddNothing(s, item, count) == Adding(s, count)

\* AddItem fails when something remains; the slots it has changed stay changed.
AddItem(s, item, count) ==
  LET after[n \in 0 .. 2 * MaxSlot] ==
        IF n = 0 THEN Adding(s, count) ELSE Turn(item, after[n - 1], n - 1)
  IN after[2 * MaxSlot]

HasItemBySlot(s, pos, item, count) ==
  pos \in DOMAIN s /\ s[pos].item = item /\ s[pos].count >= count

\* A slot that becomes empty is erased: its position is gone until the next log-in.
RemoveItemBySlot(s, pos, count) ==
  IF s[pos].count = count
  THEN [q \in DOMAIN s \ {pos} |-> s[q]]
  ELSE [s EXCEPT ![pos].count = @ - count]

CanMove(s, from, to) ==
  from # to /\ {from, to} \subseteq DOMAIN s /\ s[from].item # NoItem

\* Mutant: the item moves and the count stays.
MoveItemId(s, from, to) == [s EXCEPT ![from].item = s[to].item, ![to].item = s[from].item]

\* The swap of MoveItemSlot: isEnable stays with the position.
MoveItemSlot(s, from, to) ==
  [s EXCEPT ![from] = Slot(s[to].item, s[to].count, @.isEnable),
            ![to] = Slot(s[from].item, s[from].count, @.isEnable)]

-----------------------------------------------------------------------------
(* What the client is told                                                 *)

Shown(s) == [pos \in DOMAIN s |-> <<s[pos].item, s[pos].count>>]

\* Mutant: an erased slot is not reported.
ToldOfSlots(p, s, positions) ==
  view' = [view EXCEPT ![p] = [pos \in DOMAIN @ \cup (positions \cap DOMAIN s) |->
                                 IF pos \in positions \cap DOMAIN s THEN Shown(s)[pos] ELSE @[pos]]]

\* A message with the contents of some positions.
Told(p, s, positions) ==
  view' = [view EXCEPT ![p] = [pos \in DOMAIN @ \cup positions |->
                                 IF pos \notin positions THEN @[pos]
                                 ELSE IF pos \in DOMAIN s THEN Shown(s)[pos] ELSE <<NoItem, 0>>]]

Changed(s, t) == {pos \in DOMAIN t : s[pos] # t[pos]}

-----------------------------------------------------------------------------
\* Nothing is refused and no row is read.
Quiet == refused' = {} /\ reloaded' = {}

Init == /\ online = [p \in Players |-> FALSE]
        /\ slots = [p \in Players |-> <<>>]
        /\ drops = <<>> /\ dropId = 0
        /\ alive = TRUE
        /\ view = [p \in Players |-> <<>>]
        /\ untold = [p \in Players |-> FALSE]
        /\ refused = {} /\ reloaded = {}

\* HandleChannelAuth: a new Player with what was loaded, sent to the client.
Login(p) == /\ alive /\ ~online[p]
            /\ online' = [online EXCEPT ![p] = TRUE]
            /\ \E s \in LoadedSlots(p) : slots' = [slots EXCEPT ![p] = s]
            /\ view' = [view EXCEPT ![p] = Shown(slots'[p])]
            /\ Quiet
            /\ UNCHANGED <<drops, dropId, alive, untold>>

\* The Player object goes, and the owner of its drops with it.
Logout(p) == /\ alive /\ online[p]
             /\ online' = [online EXCEPT ![p] = FALSE]
             /\ slots' = [slots EXCEPT ![p] = <<>>]
             /\ view' = [view EXCEPT ![p] = <<>>]
             /\ untold' = [untold EXCEPT ![p] = FALSE]
             /\ drops' = [d \in DOMAIN drops |->
                            [drops[d] EXCEPT !.owner = IF @ = p THEN Freed ELSE @]]
             /\ Quiet
             /\ UNCHANGED <<dropId, alive>>

\* The end of HandleTradeReady, at any time here: LoadInventory over the slots of the player
\* who is ready and of the one his packet names.  Both are told of the items of the trade,
\* not of the slots.  (An Inventory that was never made is not told from one that has lost
\* all its positions: it stays as it is, or gets the rows.)
Reload(p, target) ==
  /\ alive /\ online[p] /\ online[target]
  /\ \E rows \in Rows[p], targetRows \in Rows[target] :
       \E mine \in LoadInventory(slots[p], rows),
          its \in LoadInventory(slots[target], targetRows) :
         slots' = [slots EXCEPT ![p] = mine, ![target] = its]
  /\ untold' = [q \in Players |-> untold[q] \/ slots'[q] # slots[q]]
  /\ refused' = {} /\ reloaded' = {p, target}
  /\ UNCHANGED <<online, drops, dropId, alive, view>>

\* ResolveSkillHit of player p kills a monster.
SpawnDropItem(p) ==
  /\ alive /\ online[p]
  /\ dropId < MaxDrops
  /\ \E item \in Items, count \in 1 .. MaxCount :
       drops' = [d \in DOMAIN drops \cup {dropId} |->
                   IF d = dropId THEN [item |-> item, count |-> count, owner |-> p] ELSE drops[d]]
  /\ dropId' = dropId + 1
  /\ Quiet
  /\ UNCHANGED <<online, slots, alive, view, untold>>

\* The owner of the drop is asked for its id; the object may be gone.
OwnerIsGone(p, d) ==
  /\ alive /\ online[p]
  /\ drops[d].owner = Freed
  /\ alive' = FALSE
  /\ UNCHANGED <<online, slots, drops, dropId, view, untold, refused, reloaded>>

\* CanUseItem of a type of inventory that is not there, of an inventory that was never made
\* or of no Player at all, before the log-in: each time nothing is dereferenced.
UseItemOfNothing ==
  /\ alive
  /\ Consumables # {}
  /\ alive' = FALSE
  /\ UNCHANGED <<online, slots, drops, dropId, view, untold, refused, reloaded>>

\* Who may take a drop.  Nothing ever sets an owner to nullptr: CheckDropItem has no caller.
MayTake(p, d) == drops[d].owner = p

PickupDropItem(p, d) ==
  /\ alive /\ online[p]
  /\ MayTake(p, d)
  /\ LET r == AddItem(slots[p], drops[d].item, drops[d].count) IN
       /\ slots' = [slots EXCEPT ![p] = r.slots]
       /\ IF r.remain = 0
          THEN /\ drops' = [e \in DOMAIN drops \ {d} |-> drops[e]]
               /\ Told(p, r.slots, Changed(slots[p], r.slots))
               /\ refused' = {}
               /\ UNCHANGED untold
          ELSE /\ untold' = [untold EXCEPT ![p] = @ \/ r.slots # slots[p]]
               /\ refused' = {<<p, drops[d].item>>}
               /\ UNCHANGED <<drops, view>>
  /\ reloaded' = {}
  /\ UNCHANGED <<online, dropId, alive>>

\* UseItemPacket: CanUseItem, UseItem, and the answer with what remains at the position.
UseItem(p, pos, count) ==
  /\ alive /\ online[p]
  /\ pos \in DOMAIN slots[p]
  /\ LET item == slots[p][pos].item IN
       /\ item \in Consumables
       /\ HasItemBySlot(slots[p], pos, item, count)
  /\ slots' = [slots EXCEPT ![p] = RemoveItemBySlot(@, pos, count)]
  /\ Told(p, slots'[p], {pos})
  /\ Quiet
  /\ UNCHANGED <<online, drops, dropId, alive, untold>>

MoveItem(p, from, to) ==
  /\ alive /\ online[p]
  /\ CanMove(slots[p], from, to)
  /\ slots' = [slots EXCEPT ![p] = MoveItemSlot(@, from, to)]
  /\ Told(p, slots'[p], {from, to})
  /\ Quiet
  /\ UNCHANGED <<online, drops, dropId, alive, untold>>

Next == \/ UseItemOfNothing
        \/ \E p \in Players :
             \/ Login(p) \/ Logout(p) \/ SpawnDropItem(p)
             \/ \E target \in Players : Reload(p, target)
             \/ \E d \in DOMAIN drops : OwnerIsGone(p, d) \/ PickupDropItem(p, d)
             \/ \E pos \in DOMAIN slots[p] :
                  \/ \E count \in 1 .. slots[p][pos].count : UseItem(p, pos, count)
                  \/ \E to \in DOMAIN slots[p] : MoveItem(p, pos, to)

Spec == Init /\ [][Next]_vars

-----------------------------------------------------------------------------
(* Properties                                                              *)

Slots == [item : Items \cup {NoItem}, count : Int, isEnable : BOOLEAN]

Drops == [item : Items, count : 1 .. MaxCount, owner : Players \cup {Freed}]

\* A map from some of the keys to values.
IsMap(m, keys, values) == DOMAIN m \subseteq keys /\ m \in [DOMAIN m -> values]

\* The types of the variables.
TypeOK ==
  /\ online \in [Players -> BOOLEAN] /\ untold \in [Players -> BOOLEAN]
  /\ DOMAIN slots = Players /\ \A p \in Players : IsMap(slots[p], 0 .. End - 1, Slots)
  /\ dropId \in 0 .. MaxDrops /\ IsMap(drops, 0 .. dropId - 1, Drops)
  /\ alive \in BOOLEAN
  /\ refused \subseteq Players \X Items /\ reloaded \subseteq Players
  /\ DOMAIN view = Players
  /\ \A p \in Players : IsMap(view[p], 0 .. End - 1, (Items \cup {NoItem}) \X Int)

\* What can be left of the count of a row by uses, or still missing from it after pickups.
OfCount(n, count) == (n <= count /\ count <= 0) \/ (0 < count /\ count <= n)

\* A count that one slot may have of an item: of a stack, or of a row of the table.
Fits(item, count) ==
  \/ 0 < count /\ count <= MaxStack[item]
  \/ \E p \in Players : \E rows \in Rows[p] : \E pos \in DOMAIN rows :
        rows[pos][1] = item /\ OfCount(rows[pos][2], count)

\* AddItem, RemoveItemBySlot, MoveItemSlot and the loads together: a slot with an item holds,
\* but for what a row says, at least one and at most a stack of it; one without an item
\* holds none.
SlotsSound ==
  TypeOK /\ \A p \in Players : \A pos \in DOMAIN slots[p] :
    LET slot == slots[p][pos] IN
    IF slot.item = NoItem THEN slot.count = 0 ELSE Fits(slot.item, slot.count)

Contents(shown, pos) == IF pos \in DOMAIN shown THEN shown[pos] ELSE <<NoItem, 0>>

\* The answers of the three packets: a client that puts them together sees the slots of
\* the server, position by position, unless a pickup that failed or a trade has changed them.
ClientSeesSlots ==
  \A p \in Players : ~untold[p] =>
    \A pos \in DOMAIN view[p] \cup DOMAIN slots[p] :
      Contents(view[p], pos) = Contents(Shown(slots[p]), pos)

\* f[0] + ... + f[n - 1]
Sum(f, n) == LET sum[k \in Nat] == IF k = 0 THEN 0 ELSE sum[k - 1] + f[k - 1] IN sum[n]

CountAt(s, item) ==
  [pos \in Nat |-> IF pos \in DOMAIN s /\ s[pos].item = item THEN s[pos].count ELSE 0]

Total(s, item) == Sum(CountAt(s, item), End)

\* Player p has got some of the item from the ground.
Received(p, item) == /\ slots'[p] # slots[p] /\ online[p] /\ online'[p] /\ p \notin reloaded'
                     /\ Total(slots'[p], item) > Total(slots[p], item)

\* A stack of the item that AddItem may add to.
HasRoom(s, item, pos) ==
  /\ pos \in DOMAIN s /\ pos < MaxSlot /\ s[pos].isEnable
  /\ \/ item \in Stackable /\ s[pos].item = item /\ s[pos].count < MaxStack[item]
     \/ s[pos].item = NoItem

\* "1. existing slots are filled in order first, 2. what remains goes to empty slots in
\* order" (comments of AddItem): after a pickup a stack with room in it is not followed
\* by one that was filled, and no empty slot was opened behind one or over the
\* top of a stack with room.
FillsInOrder ==
  [][\A p \in Players, item \in Items : Received(p, item) =>
       \A pos, q \in DOMAIN slots[p] :
         /\ slots'[p][pos] # slots[p][pos]
         /\ HasRoom(slots'[p], item, q)
         => /\ slots[p][q].item = slots[p][pos].item => q >= pos
            /\ slots[p][pos].item = NoItem => slots[p][q].item # item]_vars

\* A pickup is answered with a failure only when, with all that it has put somewhere, no
\* position has room for the item: what fits is never left on the ground.
FailsOnlyWhenFull ==
  \A p \in Players, item \in Items : <<p, item>> \in refused =>
    \A pos \in DOMAIN slots[p] : ~HasRoom(slots[p], item, pos)

BagOf(s) == [item \in Items |-> Total(s, item)]

LoadedBags == [p \in Players |-> {BagOf(s) : s \in LoadedSlots(p)}]

\* What the packets promise: the owner of a drop, and nobody else, gets it whole, or a
\* part of it that is then there twice; a use takes some of one item, and a move nothing.
\* What a trade's rows make of two bags is left open.
Bags == INSTANCE ItemBag WITH
          bag <- [p \in Players |-> BagOf(slots[p])],
          ground <- drops,
          DropIds <- 0 .. MaxDrops - 1,
          Loads <- LoadedBags
ImplementsItemBag == Bags!Spec
=============================================================================
