SPECIFICATION FairSpec
CONSTANTS
  Producers = {video, audio}
  Closers = {app}
  DispatchThread = dispatch
  KindsOf <- MCPerTrack
  MaxQueuedFrames = 2
  MaxFrames = 4
  None = None
  VideoThread = video
INVARIANTS
  TryAddIsSafe
  ChainsEndWithAFlush
  NoBufferLost
PROPERTIES
  IsAFrameChannel
  NobodyIsStuck
CHECK_DEADLOCK FALSE
