SPECIFICATION Spec
CONSTANTS
  NumRegions = 2
  NumPages = 3
  Val = {0, 1}
  Zero = 0
  Thread = {1, 2}
  Builds <- MCBuilds
  EPOCH_MOD = 3
  MPROTECT_MAX_PAGES = 3
  SOFTDIRTY_MAX_PAGES = 2
  PAGEMAP_BATCH = 2
  AreaEnds = {3}
  PAGE_SIZE = 2
  Calls <- MCCalls
  StdioPages = {1}
  Proc = {1, 2}
  Clone = {1, 2, 3}
INVARIANTS
  MechanismTypeOK
  BitmapRecoverable
  MprotectRecoverable
  EfaultOnlyUnchecked
  SoftDirtyComplete
  ForkRecoverable
  ForkNoOrphans
CHECK_DEADLOCK FALSE
