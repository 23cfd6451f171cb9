SPECIFICATION Spec
CONSTANTS
  s1 = s1
  s2 = s2
  s3 = s3
  Site = {s1, s2, s3}
  NoSite = NoSite
  Cell = {c1, c2}
  Val = {0, 1}
  None = None
  RecoveryType <- RetUndoFail
  StmSites = {}
  FISites = {s1, s3}
  CrashPoints = {"window"}
  NonFaultableCalls = {"hook"}
  TolErased = {}
  DontRemember = TRUE
  DefaultToUndolog = TRUE
  AutoAdapt = FALSE
  NoTsxForFail = TRUE
  MaxTries = 2
  RepeatLimit = 2
  SampleSize = 2
  Threshold = 1
  Scale = 1
  CounterMod = 4
  MaxNest = 2
INVARIANTS
  RollbackCorrect
CHECK_DEADLOCK FALSE
