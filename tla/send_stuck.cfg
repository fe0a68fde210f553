\* A worker pushes between HasPendingSend and DisableWriteEvent.
SPECIFICATION Spec
CONSTANTS
  long = long
  short = short
  single = single
  Packets = {short, single}
  Workers = {w1}
  Room = 2
  Size <- MCSize
INVARIANT PendingIsWatched
CHECK_DEADLOCK FALSE
