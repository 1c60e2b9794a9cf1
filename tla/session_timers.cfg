SPECIFICATION TimersSpec
CONSTANTS
  ReceiveTimeout = 2
  Timeouts = {16, 24}
  IntRange = 64
  Latency = 1
  DeliveryTime = 1
  AnswerTime = 4
  InitialSilence = 0
INVARIANTS
  TimersTypeOK
  WatchdogIsPunctual
  ServerKeepsSession
CHECK_DEADLOCK FALSE
