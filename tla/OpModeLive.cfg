SPECIFICATION FairSpec
CONSTANTS
  Word = 8
  Wraps = 1
  Second = 1
  Writes <- ToActive
  Resets <- DfuReset
  SyncTimes <- OneTime
  TimeWrites <- OneTime
  MaxLag = 1
  None = None
PROPERTY DropsEventually
PROPERTY HeartbeatsKeepComing
