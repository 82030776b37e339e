SPECIFICATION FairSpec
CONSTANTS
  ByteRange = 8
  HeaderSize = 3
  FifoSize = 8
  Messages <- AllSizes
  MaxInFlight = 3
  MaxSent = 3
  MaxCuts = 2
INVARIANT TypeOK
INVARIANT ReadsFit
PROPERTY NeverLocksUp
PROPERTY CompletesExactly
CHECK_DEADLOCK FALSE
