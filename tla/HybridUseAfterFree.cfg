SPECIFICATION Spec
CONSTANTS
  NumClients = 1
  NumBlocks = 1
  NumWorkers = 2
  BufSize = 3
  Prefix = 1
  MaxBytes = 1
  MaxOpen = 1
  Active = {1}
  SendSpace = 1
  Faults = {"fin"}
INVARIANTS NoUseAfterFree
CHECK_DEADLOCK FALSE
