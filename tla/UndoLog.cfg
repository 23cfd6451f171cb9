SPECIFICATION Spec
CONSTANTS
  NumBytes = 32
  Val = {0, 1}
  Images <- MCImages
  GRANULARITY = 8
  MEMCPY_ALIGN = 4
  MAXLEN = 3
  Accesses <- AlignedAccesses
  LogRegions = {3}
  ControlRegions = {2}
  StackRegions = {}
  LIBCALL_INTERVALS = TRUE
  checkpoint_interval = 2
INVARIANTS
  TypeOK
  UnloggedUnchanged
  FirstCopyIsCheckpoint
  RollbackExact
PROPERTIES
  LogProtected
  ImplementsCheckpoint
CHECK_DEADLOCK FALSE
