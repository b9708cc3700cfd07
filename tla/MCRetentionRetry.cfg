SPECIFICATION RetentionSpec
CONSTANTS
  n1 = n1
  n2 = n2
  d1 = d1
  d2 = d2
  None = None
  Notices = {n1, n2}
  Deliveries = {d1, d2}
  NoticeOf <- OneEach
  Retriers = {r1}
  Pruners = {u1}
  HousekeepingBatch = 1
  MaxRetries = 1
PROPERTY RetriedKept
