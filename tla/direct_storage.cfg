SPECIFICATION Spec
CONSTANTS
  MaxReceives = 2
  MaxDatagrams = 2
  Closers = {app}
INVARIANTS
  FrameIsStable
CHECK_DEADLOCK FALSE
