SPECIFICATION FairSpec
CONSTANTS
  None = None
  Worker = {w1}
  Tab = {t1}
  Source = {m1}
  Role = {poster}
  MaxVersion = 1
  MaxAttempts = 2
  MaxCrash = 1
  LeaseTTL = 1
  WriterTTL = 2
  PutTTL = 1
  RetryTTL = 0
  TransitionTTL = 0
  AbsenceTTL = 1
  Remote = FALSE
INVARIANTS RowsAccount
PROPERTIES EverythingSettles
