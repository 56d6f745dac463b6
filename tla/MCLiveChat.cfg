SPECIFICATION FairSpec
CONSTANTS
  Actor = {a1}
  Session = {s1}
  Owner = {w1, w2}
  Item = {i1, i2}
  Conversation = {c1}
  TextTurn = {x1}
  None = None
  TicketTTL = 1
  LeaseTTL = 1
  ReconnectTTL = 1
  SessionTTL = 3
  MaxGen = 3
CHECK_DEADLOCK FALSE
INVARIANTS LiveTurnAlone
PROPERTIES OutputHolds ImplementsLedger SlotFreed
