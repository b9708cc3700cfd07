SPECIFICATION Spec
CONSTANTS
  Deliveries = {d1}
  Workers = {w1, w2}
  MaxAttempts = 2
  StrandedAfter = 1
  MaxBackoff = 1
  HousekeepingBatch = 1
  RecordAttempts = "all"
  PauseBound = 1
  MaxRetries = 1
  None = None
SYMMETRY Symmetry
INVARIANTS ClaimKept LedgerTruthful RunBounded ManualFirstOfRun ReleasedIsOverdue
PROPERTY ImplementsOutbox
