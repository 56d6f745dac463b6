SPECIFICATION AllSpec
CONSTANTS
  Worker = {w1, w2}
  Reader = {r1}
  Source = {s1}
  MediaWorker = {m1}
  MaxChange = 2
  MaxFaults = 1
  None = None
INVARIANTS TypeOK ProfileIsTrue
PROPERTIES ShownIsFresh RepairsHappen
CHECK_DEADLOCK FALSE
