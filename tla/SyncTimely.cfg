SPECIFICATION FairSpec
CONSTANTS
  ByteRange = 4
  HEADER_0 = 2
  HEADER_1 = 3
  Word = 256
  Wraps = 20
  Second = 10
  HARP_SYNC_OFFSET_US = 3
  Seconds <- AnySeconds
  JoinsMidPacket = FALSE
  MaxLost = 0
  Nothing = Nothing
INVARIANT TypeOK
PROPERTY FollowsClock
PROPERTY AppliesOn
