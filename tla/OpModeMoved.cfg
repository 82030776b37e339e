SPECIFICATION HSpec
CONSTANTS
  Word = 8
  Wraps = 1
  Second = 1
  Writes <- ActiveOrSpeed
  Resets <- AllResets
  SyncTimes <- OneTime
  TimeWrites <- NoTimes
  MaxLag = 1
  None = None
INVARIANT HTypeOK
INVARIANT ActiveInterval
PROPERTY SelfOnOnce
PROPERTY HeartbeatAhead
PROPERTY NoSpuriousDrop
PROPERTY DropsInTime
VIEW LiveState
