SPECIFICATION ReduceSpec
CONSTANTS
  MaxN = 9
  MaxWorkers = 4
  None = None
INVARIANT ReducesAsLoop
CHECK_DEADLOCK FALSE
