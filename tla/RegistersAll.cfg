SPECIFICATION FairSpec
CONSTANTS
  AddressCount = 35
  AppCount = 2
  AppReadOnly <- Sensor
  Requests <- All
  Values <- TwoValues
  Leftover = Leftover
  Times <- TwoTimes
  None = None
INVARIANT TypeOK
INVARIANT ReadOnlyKept
INVARIANT TimestampAgrees
PROPERTY DumpInOrder
PROPERTY MutedIsQuiet
PROPERTY HandlersEnd
PROPERTY AlwaysCleared
CHECK_DEADLOCK FALSE
