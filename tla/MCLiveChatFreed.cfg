SPECIFICATION FairSpec
CONSTANTS
  Actor = {a1}
  Session = {s1}
  Owner = {w1, w2}
  Item = {i1}
  Conversation = {c1}
  TextTurn = {}
  None = None
  TicketTTL = 1
  LeaseTTL = 1
  ReconnectTTL = 1
  SessionTTL = 2
  MaxGen = 3
PROPERTIES ChatFreed
CHECK_DEADLOCK FALSE
