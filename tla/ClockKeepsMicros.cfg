SPECIFICATION Spec
CONSTANTS
  Word = 26
  Wraps = 4
  Second = 4
  Unit = 2
  Leads <- OneLead
  SecondsWritten <- ASecond
  MicrosWritten <- NoWrites
  MaxTime = 9
  MaxDelay = 3
PROPERTY KeepsMicroseconds
