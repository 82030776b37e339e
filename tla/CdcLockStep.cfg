SPECIFICATION FairSpec
CONSTANTS
  ByteRange = 8
  HeaderSize = 3
  FifoSize = 8
  Messages <- AllSizes
  MaxInFlight = 1
  MaxSent = 3
  MaxCuts = 0
PROPERTY DeliversMessages
PROPERTY HandlesAll
CHECK_DEADLOCK FALSE
