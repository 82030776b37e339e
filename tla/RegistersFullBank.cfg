SPECIFICATION Spec
CONSTANTS
  AddressCount = 256
  AppCount = 224
  AppReadOnly <- Sensor
  Requests <- Dump
  Values <- TwoValues
  Leftover = Leftover
  Times <- OneTime
  None = None
PROPERTY DumpInOrder
CHECK_DEADLOCK FALSE
