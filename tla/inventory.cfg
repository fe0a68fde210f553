\* Two players, two items, three positions of which two are enabled, and a row beyond them.
SPECIFICATION Spec
CONSTANTS
  potion = potion
  hat = hat
  alice = alice
  bob = bob
  NoItem = NoItem
  Freed = Freed
  Players = {alice, bob}
  Items = {potion, hat}
  Consumables = {potion}
  Stackable = {potion}
  MaxStack <- MCMaxStack
  MaxSlot = 3
  CurrentSlotSize = 1
  Rows <- MCRows
  End = 4
  MaxDrops = 2
  MaxCount = 2
INVARIANTS
  SlotsSound
  ClientSeesSlots
  FailsOnlyWhenFull
PROPERTIES
  FillsInOrder
  ImplementsItemBag
CHECK_DEADLOCK FALSE
CONSTRAINT MCBound
