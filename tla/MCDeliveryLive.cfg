SPECIFICATION FairSpec
CONSTANTS
  Deliveries = {d1, d2}
  Workers = {w1}
  MaxAttempts = 2
  StrandedAfter = 1
  MaxBackoff = 1
  HousekeepingBatch = 1
  RecordAttempts = "none"
  PauseBound = 1
  MaxRetries = 0
  None = None
PROPERTY EventuallySettled
