SPECIFICATION AllSpec
CONSTANTS
  DayLen = 3
  MaxTime = 4
  MaxCall = 2
  LeaseTTL = 2
  SessionTTL = 4
  Limit = 2
  Request = {q1, q2}
  Key = {k1, k2}
  Source = {s1, s2}
  Address = {a1}
  Subject = {g1, g2}
  None = None
  Told = {"fact"}
  MaxVersion = 3
  MaxTelling = 1
  Public = {"open"}
  Private = {"private"}
  MaxCalls = 2
  MaxEdit = 2
  MaxTries = 1
  MaxCode = 2
  MaxHash = 2
  Reader = {"visitor"}
  MaxStamp = 3
INVARIANTS RequestsTypeOK ProofsHold
PROPERTIES VoiceHolds NewestWins ToolsHold PictureHolds
SYMMETRY Sym
CHECK_DEADLOCK FALSE
