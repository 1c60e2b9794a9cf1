SPECIFICATION Spec
CONSTANTS
  Requests <- MCRequests
  HeadersLimit = 9
  BufferSize = 6
  Payloads = {0, 1, 3}
  Signs = {"line", "$"}
  MaxPackets = 3
  MaxAnswers = 1
INVARIANTS
  TypeOK
  DataIsWhole
  SwallowedOnlyWhenRepeated
PROPERTIES
  EveryPacketArrives
CHECK_DEADLOCK FALSE
