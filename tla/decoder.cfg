SPECIFICATION Spec
CONSTANTS
  Params = {1, 2}
  Sizes = {1, 2}
  Addresses = {1, 2}
  MaxDevices = 2
INVARIANTS
  TypeOK
  ScalesWhatWasDecoded
  OnlyTheFirstFrameIsLost
  DrawsOnOneDevice
