SPECIFICATION Spec
CONSTANTS
  None = None
  Worker = {w1, w2}
  Tab = {t1}
  Source = {m1}
  Role = {poster}
  MaxVersion = 2
  MaxAttempts = 1
  MaxCrash = 0
  LeaseTTL = 1
  WriterTTL = 2
  PutTTL = 1
  RetryTTL = 1
  TransitionTTL = 0
  AbsenceTTL = 1
  Remote = FALSE
SYMMETRY Symmetry
CONSTRAINT OwnerOnly
INVARIANTS TypeOK OnePreparation
