\* Up to three clients of each daemon; packets of a chunk, of less and malformed.
SPECIFICATION FairSpec
CONSTANTS
  full = full
  small = small
  small2 = small2
  short = short
  long = long
  brief = brief
  single = single
  view = view
  Requests = {full, small, small2, short}
  Content <- MCContent
  Scripts <- MCScripts
  HeaderSize = 2
  BUFFER_SIZE = 3
  Daemons = {"channel", "world", "login", "chat"}
  Packets = {long, brief, single, view}
  AnswerTo <- MCAnswerTo
  Size <- MCSize
  Workers = {w1}
  Room = 1
INVARIANTS
  HandledAsSent
  BlocksOnlyOnFullChunk
  NothingWhollyKept
  StreamIntact
  PendingIsAttended
PROPERTIES
  EveryPacketHandled
  EveryRequestAnswered
  GoesQuiet
CHECK_DEADLOCK FALSE
