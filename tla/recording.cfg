SPECIFICATION Spec
CONSTANTS
  Duration = 2
  Steps = {1, 3}
  MaxFrames = 5
  MaxStarts = 2
INVARIANTS
  TypeOK
  PruningIsInvisible
  RecordingIsComplete
  RecorderIsFed
CHECK_DEADLOCK FALSE
