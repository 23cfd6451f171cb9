SPECIFICATION Spec
CONSTANTS
  s1 = s1
  s2 = s2
  s3 = s3
  Site = {s1, s2}
  NoSite = NoSite
  Cell = {c1}
  Val = {0, 1}
  None = None
  RecoveryType <- RetUndo
  StmSites = {}
  FISites = {}
  CrashPoints = {"window"}
  NonFaultableCalls = {"write"}
  TolErased <- HookErased
  DontRemember = TRUE
  DefaultToUndolog = FALSE
  AutoAdapt = TRUE
  NoTsxForFail = TRUE
  MaxTries = 2
  RepeatLimit = 1
  SampleSize = 2
  Threshold = 60
  Scale = 1
  CounterMod = 5
  MaxNest = 2
CONSTRAINT HitsBound
INVARIANTS
  FailsWithinHits
  WholeSamples
CHECK_DEADLOCK FALSE
