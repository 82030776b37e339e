SPECIFICATION FairSpec
CONSTANTS
  ByteRange = 16
  HeaderSize = 3
  StampSize = 1
  NumBytes <- ThreeSizes
  Contents <- TwoContents
  Shared <- Long
  Stamps <- OneStamp
  FifoSize = 13
  PacketSize = 12
  Patience <- Patiences
  MaxReplies = 3
  None = None
INVARIANT TypeOK
INVARIANT NoneCut
INVARIANT RepliesWhole
INVARIANT NothingLeftBehind
PROPERTY RepliesArrive
PROPERTY LossesAreTails
CHECK_DEADLOCK FALSE
