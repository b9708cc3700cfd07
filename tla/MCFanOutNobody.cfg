SPECIFICATION Spec
CONSTANTS
  p1 = p1
  p2 = p2
  t1 = t1
  t2 = t2
  None = None
  Notices = {1}
  Partitions = {p1, p2}
  Targets = {t1, t2}
  Workers = {w1}
  Scope <- Crossing
  Subject <- NoSubject
  Audience <- NoneNamed
  Reach <- SharedReach
  Droppable = {}
  MaxAttempts = 2
  BatchSize = 1
  MaxCopies = 1
  MaxStale = 0
INVARIANT OneShardPerPartition
