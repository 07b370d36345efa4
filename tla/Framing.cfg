SPECIFICATION ReaderSpec
CONSTANTS
  MaxMsgs = 3
  Sizes = {1, 3}
  MsgPerBuffer = 2
INVARIANTS
  HandledInTime
PROPERTIES
  DoReadReturns
CHECK_DEADLOCK FALSE
