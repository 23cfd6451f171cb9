SPECIFICATION Spec
CONSTANTS
  Functions = {"accept"}
  MayFail = {}
  SlotReuse = {}
  WindowFrees = {}
  ErrnoStores = {}
  ZeroDescriptor = {}
  UndoMayFail = {}
  MaxRecoveries <- Once
INVARIANTS
  UndoneExactly
CHECK_DEADLOCK FALSE
