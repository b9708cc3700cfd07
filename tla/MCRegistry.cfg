SPECIFICATION Spec
CONSTANTS
  a = a
  b = b
  c = c
  d = d
  x = x
  y = y
  p = p
  q = q
  n1 = n1
  n2 = n2
  d1 = d1
  Writers <- Pair
  MaxAsked = 3
  Variants <- Two
  Every = Every
  KindPolicies = {"mandatory", "default_on", "default_off"}
  Apart = {TRUE, FALSE}
  Callers <- Three
  Sources = {"application", "trigger", "recorded"}
  Workers <- Three
  DISABLE_AFTER = 2
  MaxUnparked = 1
  GrantIds <- Two
  Sweepers <- One
  MaxClock = 2
  SWEEP_LOOKAHEAD = 1
  Promptness = {TRUE}
  Changers <- Two
  Settings = {"free", "capped"}
  Values = {1, 2}
  ForceSources = {"staff", "billing"}
  SettingOf <- Declared
  Operators = {"staff"}
  AtOnce = {TRUE, FALSE}
  Threads <- Two
  TIME_BITS = 2
  COUNTER_BITS = 2
  RAND_A_BITS = 1
  RANDOM_BITS = 1
  MaxKeys = 5
  Commenters <- Two
  CommentIds <- Four
  Targets = {"post", "page"}
  max_depth = 2
  MaxCalls = 5
  Requesters <- WithStaff
  Staff_Members <- One
  Visibilities = {"public", "private"}
  Guards <- Declarations
  Servers <- Two
  People <- Pair
  Objects <- Two
  MaxEvents = 2
  MaxSent = 1
  Order <- Asked_First
  Decl <- Command_Declares
  Invocations <- Offered
  TheSelector = "kdf"
  Clients <- Pair
  On_Row = {"theme", "digest"}
  On_Holder = {"name"}
  Own_Values = {1}
  MaxVersion = 3
  Notices <- Two_Notices
  Deliveries <- One_Delivery
  NoticeOf <- Of_First
  Retriers = {r1}
  Pruners <- Pair
  HousekeepingBatch = 1
  MaxRetries = 1
  None = None
SYMMETRY Symmetry
CHECK_DEADLOCK FALSE
INVARIANTS
  ViewsAgreeWithFanOut
  RecordTruthful
  LaterIsRecorded
  ParkedForItsFailures
  ToldWhatHolds
  NextIsScheduled
  WholeRowKept
  ToldWhatItIs
  SqlAgrees
  KeysSortAsMade
  ThreadsHold
  CausesAreTrue
  NewestFirst
  AcceptedAsDeclared
PROPERTIES
  ForceHolds
  RetiredIsQuiet
  GuardedIsAllowed
  AppliedToNamed
  UnfinishedKept
