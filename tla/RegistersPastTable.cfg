SPECIFICATION Spec
CONSTANTS
  AddressCount = 256
  AppCount = 2
  AppReadOnly <- Sensor
  Requests <- Stopping
  Values <- TwoValues
  Leftover = Leftover
  Times <- OneTime
  None = None
PROPERTY IgnoresOutOfRange
CHECK_DEADLOCK FALSE
