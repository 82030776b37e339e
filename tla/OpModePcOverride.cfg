SPECIFICATION HSpec
CONSTANTS
  Word = 20
  Wraps = 3
  Second = 3
  Writes <- ToStandby
  Resets <- NoResets
  SyncTimes <- NoTimes
  TimeWrites <- NoTimes
  MaxLag = 1
  None = None
PROPERTY PcModeSticks
