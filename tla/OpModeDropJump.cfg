SPECIFICATION HSpec
CONSTANTS
  Word = 20
  Wraps = 3
  Second = 3
  Writes <- NoWrites
  Resets <- NoResets
  SyncTimes <- TwoTimes
  TimeWrites <- TwoTimes
  MaxLag = 1
  None = None
PROPERTY DropsAfterInterval
