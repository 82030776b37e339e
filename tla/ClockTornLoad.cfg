SPECIFICATION Spec
CONSTANTS
  Word = 26
  Wraps = 4
  Second = 4
  Unit = 2
  Leads <- OneLead
  SecondsWritten <- NoWrites
  MicrosWritten <- NoWrites
  MaxTime = 9
  MaxDelay = 3
PROPERTY LoadsWhole
