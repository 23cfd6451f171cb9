SPECIFICATION Spec
CONSTANTS
  Functions <- RightOnce
  MayFail <- Repeatable
  SlotReuse <- FrameIgnored
  WindowFrees = {}
  ErrnoStores <- ErrnoIgnored
  ZeroDescriptor = {}
  UndoMayFail <- FailureSeen
  MaxRecoveries <- RightBound
INVARIANTS
  UndoneExactly
  ErrorReturned
  HandlerNeverAborts
  GivesUpOnlyOnFail
CHECK_DEADLOCK FALSE
