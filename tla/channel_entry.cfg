\* One worker, a time to live of two intervals, two clients and two characters,
\* one of which is raised, twice.
SPECIFICATION FairSpec
CONSTANTS
  Workers = {w1}
  Interval = 1
  TTL = 2
  MaxUsers = 2
  MaxWaiting = 1
  NoKey = NoKey
  NoTask = NoTask
  Sessions = {s1, s2}
  c1 = c1
  c2 = c2
  Chars = {c1, c2}
  MaxRaises <- RaisesOfOne
  Closed = Closed
  NoPlayer = NoPlayer
  NoEntry = NoEntry
INVARIANTS
  UsersAreSessions
  SessionHasItsPlayer
  EntryHasItsSession
  RaisesAgree
PROPERTIES
  LoginLoadsTheRow
  SeenWhileAlive
  DeadDisappears
  StateCatchesUp
CHECK_DEADLOCK FALSE
