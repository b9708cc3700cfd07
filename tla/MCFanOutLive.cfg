SPECIFICATION FairSpec
CONSTANTS
  p1 = p1
  p2 = p2
  t1 = t1
  t2 = t2
  None = None
  Notices = {1, 2}
  Partitions = {p1}
  Targets = {t1}
  Workers = {w1}
  Scope <- BadThenGood
  Subject <- GoodSubjects
  Audience <- GoodAudiences
  Reach <- SmallReach
  Droppable = {}
  MaxAttempts = 2
  BatchSize = 1
  MaxCopies = 0
  MaxStale = 0
PROPERTIES EventuallyFannedOut EventuallyRun
