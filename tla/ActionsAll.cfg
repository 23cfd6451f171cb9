SPECIFICATION Spec
CONSTANTS
  Functions <- AllFunctions
  MayFail <- AllFunctions
  SlotReuse <- AllFunctions
  WindowFrees <- AllFunctions
  ErrnoStores <- AllFunctions
  ZeroDescriptor <- AllFunctions
  UndoMayFail <- NotFork
  MaxRecoveries <- Twice
INVARIANTS
  TypeOK
PROPERTIES
  HandlerReturns
CHECK_DEADLOCK FALSE
