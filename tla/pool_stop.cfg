\* One worker and the destructor: the notification falls between the predicate and the sleep.
SPECIFICATION FairSpec
CONSTANTS
  N = 1
  Tasks = {t1}
  Submitters = {mapManager}
  None = None
PROPERTY StopEnds
CHECK_DEADLOCK FALSE
