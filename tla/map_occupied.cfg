\* A request made before the player entered is served after it.
SPECIFICATION Spec
CONSTANTS
  Players = {p1}
  MapIds = {1}
  Instances = {i1}
  Workers = {w1}
  None = None
  MaxPending = 1
  MaxQueue = 2
PROPERTY OccupiedMapKept
CHECK_DEADLOCK FALSE
