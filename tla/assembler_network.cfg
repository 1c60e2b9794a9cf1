SPECIFICATION Spec
CONSTANTS
  LastPacket = 7
  FrameStarts = {6}
  Packets <- MCPackets
  Payloads <- MCPackets
  SeqNumber <- MCSeqNumber
  Timestamp <- MCTimestamp
  SenderClock <- MCSenderClock
  EmptyPackets <- MCEmptyPackets
  NoPayload = NoPayload
  MaxCorrectionLength = 5
  SeqModulus = 16
  TimestampModulus = 4
  CyclesModulus = 2
  MaxCumulativeLost = 2
  ParserThrows = FALSE
  Copies <- MCCopies
  Duplicated = {2}
  MaxDisplacement = 4
  MaxGap = 2
  MaxStart = 1
  Lossless = FALSE
  MaxReports = 1
INVARIANTS
  TypeOK
  PoolIsSound
  OrderIsRestored
  ParserNeverJoinsAcrossAGap
  ClockFollowsSender
  CountersAddUp
CHECK_DEADLOCK FALSE
