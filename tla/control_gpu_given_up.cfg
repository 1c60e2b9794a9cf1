SPECIFICATION Spec
CONSTANTS
  Modes = {"Software", "GpuD3D11EndToEnd"}
  GpuFailures = 2
  MaxStarts = 1
  MaxCalls = 3
INVARIANT
  GivenUpForCause
CHECK_DEADLOCK FALSE
