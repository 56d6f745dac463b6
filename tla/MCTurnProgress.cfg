SPECIFICATION FairSpec
CONSTANTS
  Request = {r1, r2}
  Recovery = {f1}
  LiveTurn = {}
  Key = {k1}
  Content = {x1, x2}
  Conversation = {c1}
  Builder = {c1}
  None = None
  RealtimeEnabled = FALSE
CHECK_DEADLOCK FALSE
INVARIANTS AnsweredOnce EffectsOnce
PROPERTIES EverythingSettles
