SPECIFICATION FairSpec
CONSTANTS
  MaxReceives = 2
  MaxDatagrams = 2
  Closers = {app, finalizer}
INVARIANTS
  TypeOK
  FramesAddUp
  DispatchersHaveOwners
  StableUnlessAbandoned
PROPERTIES
  CancelEndsTheCall
CHECK_DEADLOCK FALSE
