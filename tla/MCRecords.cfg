SPECIFICATION AllSpec
CONSTANTS
  Turn = {1, 2}
  Limit = 1
  BatchSize = 1
  MaxDay = 1
  Caller = {c1, c2}
  Person = {p1}
  Row = {1, 2}
  Date = {1, 2}
  MaxBatch = 2
  OwnerWork = 1
  OwnedLimit = 1
  MaxLegacy = 2
  DayWork = 3
  Chat = {t1}
  Loop = loop
  Thread = {h1}
  Capacity = 1
  Called = 2
INVARIANTS RecordsTypeOK NoTwins BuildingHolds TelemetryHolds
PROPERTIES TextHolds ResolutionHolds
CHECK_DEADLOCK FALSE
