SPECIFICATION FairSpec
CONSTANTS
  MaxSessions = 1
  TrackCount = 1
  Transports = {"TCP", "UDP", "MULTICAST"}
  Closers = {other}
  App = App
INVARIANTS
  TypeOK
  NothingIsLeftOpen
  ByeBeforeTeardown
PROPERTIES
  SessionEnds
CHECK_DEADLOCK FALSE
