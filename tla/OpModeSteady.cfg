SPECIFICATION HSpec
CONSTANTS
  Word = 14
  Wraps = 2
  Second = 2
  Writes <- ActiveOrSpeed
  Resets <- AllResets
  SyncTimes <- NoTimes
  TimeWrites <- NoTimes
  MaxLag = 1
  None = None
INVARIANT HTypeOK
INVARIANT ActiveInterval
PROPERTY SelfOnOnce
PROPERTY HeartbeatAhead
PROPERTY NoSpuriousDrop
PROPERTY DropsInTime
