SPECIFICATION FairSpec
CONSTANTS
  r1 = r1
  r2 = r2
  r3 = r3
  r4 = r4
  fp1 = fp1
  fp2 = fp2
  None = None
  Requests = {r1, r2, r3, r4}
  Fingerprints = {fp1, fp2}
  FingerprintOf <- Retried
  NoReplay = {fp2}
  ByReference = TRUE
  Impatient = {r2}
  MayPurge = TRUE
INVARIANTS SpentOnce AnswersTrue
PROPERTY EventuallyAnswered
CHECK_DEADLOCK FALSE
