SPECIFICATION BothSpec
CONSTANTS
  Source = {s1}
  Worker = {w1, w2}
  Tab = {t1, t2}
  Adapter = {"local", "s3"}
  MaxVersion = 2
  MaxFaults = 2
  MaxRetry = 1
  LiveTurn = {l1}
  Key = {k1}
  Content = {x1}
  None = None
INVARIANTS IntakeTypeOK
PROPERTIES SourcesHold ReviewHolds MessagesHold
SYMMETRY Sym
CHECK_DEADLOCK FALSE
