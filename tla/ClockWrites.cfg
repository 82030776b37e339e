SPECIFICATION FairSpec
CONSTANTS
  Word = 26
  Wraps = 4
  Second = 4
  Unit = 2
  Leads <- Jitter
  SecondsWritten <- ASecond
  MicrosWritten <- AMicro
  MaxTime = 6
  MaxDelay = 2
INVARIANT TypeOK
PROPERTY WriteShows
INVARIANT WholeAfterPacket
PROPERTY Heals
PROPERTY FollowsPackets
