SPECIFICATION Spec
CONSTANTS
  NumBlocks = 3
  BlockLen = 3
  Succ <- MCSucc
  Words = {1, 2, 3}
  Programs <- MCPrograms
INVARIANTS
  StoresLogged
  OptimizedStoresLogged
CHECK_DEADLOCK FALSE
