SPECIFICATION Spec
CONSTANTS
  Modes = {"Software", "GpuD3D11EndToEnd"}
  GpuFailures = 2
  MaxStarts = 2
  MaxCalls = 3
INVARIANTS
  TypeOK
  StoppedIsEmpty
  NoVideoMeansBlank
  PendingIsVisible
  FedInOrder
CHECK_DEADLOCK FALSE
