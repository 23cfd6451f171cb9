SPECIFICATION FairSpec
CONSTANTS
  s1 = s1
  s2 = s2
  s3 = s3
  Site = {s1, s2, s3}
  NoSite = NoSite
  Cell = {c1, c2}
  Val = {0, 1}
  None = None
  RecoveryType <- RetUndoFail
  StmSites = {}
  FISites = {}
  CrashPoints = {"window"}
  NonFaultableCalls = {}
  TolErased = {}
  DontRemember = TRUE
  DefaultToUndolog = FALSE
  AutoAdapt = FALSE
  NoTsxForFail = TRUE
  MaxTries = 2
  RepeatLimit = 2
  SampleSize = 2
  Threshold = 1
  Scale = 1
  CounterMod = 4
  MaxNest = 2
INVARIANTS
  TypeOK
  RollbackCorrect
  MechanismAgrees
  NothingRemembered
  NoTransactionAcrossCall
  ErrorPathProtected
  RecoveryAttemptsBounded
PROPERTIES
  ImplementsCheckpoint
  RecoveryTerminates
CHECK_DEADLOCK FALSE
