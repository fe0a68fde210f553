\* Two maps whose ids 16 bits cannot tell apart (57600 is what is left of 100000000), one player, one worker.
SPECIFICATION FairSpec
CONSTANTS
  Players = {p1}
  MapIds = {57600, 100000000}
  Instances = {i1, i2}
  Workers = {w1}
  None = None
  MaxPending = 1
  MaxQueue = 2
INVARIANTS
  TableSound
  CurrentMapLists
PROPERTY EmptyMapGoes
CHECK_DEADLOCK FALSE
