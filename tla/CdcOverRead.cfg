SPECIFICATION Spec
CONSTANTS
  ByteRange = 8
  HeaderSize = 3
  FifoSize = 8
  Messages <- AllSizes
  MaxInFlight = 2
  MaxSent = 3
  MaxCuts = 0
PROPERTY ReadsOneMessage
CHECK_DEADLOCK FALSE
