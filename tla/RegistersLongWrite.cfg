SPECIFICATION Spec
CONSTANTS
  AddressCount = 256
  AppCount = 2
  AppReadOnly <- Sensor
  Requests <- LongWrite
  Values <- TwoValues
  Leftover = Leftover
  Times <- OneTime
  None = None
PROPERTY LongWriteGoesOn
