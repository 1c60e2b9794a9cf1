SPECIFICATION Spec
CONSTANTS
  Producers = {receiver}
  Closers = {app}
  DispatchThread = dispatch
  KindsOf <- MCVideo
  MaxQueuedFrames = 4
  MaxFrames = 7
  None = None
  VideoThread = None
INVARIANTS
  ChainNeverDamaged
CHECK_DEADLOCK FALSE
