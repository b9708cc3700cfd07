SPECIFICATION Spec
CONSTANTS
  p1 = p1
  p2 = p2
  t1 = t1
  t2 = t2
  None = None
  Notices = {1}
  Partitions = {p1, p2}
  Targets = {t1, t2}
  Workers = {w1, w2}
  Scope <- Crossing
  Subject <- NoSubject
  Audience <- BothNamed
  Reach <- SharedReach
  Droppable = {p2}
  MaxAttempts = 2
  BatchSize = 1
  MaxCopies = 0
  MaxStale = 1
SYMMETRY WorkerSymmetry
INVARIANTS HeldOnce OnePerTarget NothingLost TriesBounded
PROPERTY OverStaysOver
VIEW SeenState
