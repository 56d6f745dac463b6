SPECIFICATION Spec
CONSTANTS
  Actor = {a1}
  Session = {s1, s2}
  Owner = {w1, w2, w3}
  Item = {i1}
  Conversation = {c1, c2}
  TextTurn = {}
  None = None
  TicketTTL = 1
  LeaseTTL = 2
  ReconnectTTL = 1
  SessionTTL = 3
  MaxGen = 5
SYMMETRY Symmetry
CONSTRAINT OneSessionOrTwoConnections
CHECK_DEADLOCK FALSE
INVARIANTS TypeOK OneActivePerActor
PROPERTIES FencingHolds
