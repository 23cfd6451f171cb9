SPECIFICATION Spec
CONSTANTS
  s1 = s1
  s2 = s2
  s3 = s3
  Site = {s1, s2}
  NoSite = NoSite
  Cell = {c1}
  Val = {0, 1}
  None = None
  RecoveryType <- RetUndo
  StmSites = {}
  FISites = {}
  CrashPoints = {"window"}
  NonFaultableCalls = {}
  TolErased = {}
  DontRemember = FALSE
  DefaultToUndolog = FALSE
  AutoAdapt = FALSE
  NoTsxForFail = FALSE
  MaxTries = 2
  RepeatLimit = 2
  SampleSize = 2
  Threshold = 1
  Scale = 1
  CounterMod = 4
  MaxNest = 2
INVARIANTS
  RollbackCorrect
CHECK_DEADLOCK FALSE
