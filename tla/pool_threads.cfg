\* Two workers, two tasks, two submitting threads and the destructor.
SPECIFICATION FairSpec
CONSTANTS
  N = 2
  Tasks = {t1, t2}
  Submitters = {mapManager, stateUpdate}
  None = None
INVARIANTS
  NoLostWakeup
  RunsInOrder
PROPERTIES
  ImplementsTaskPool
  AcceptedIsRun
CHECK_DEADLOCK FALSE
