SPECIFICATION FairSpec
CONSTANTS
  MaxN = 5
  Workers = {w1, w2}
  Caller = Caller
  Share = 1
INVARIANTS SmallestFaultReported RunsAsLoop
CHECK_DEADLOCK FALSE
PROPERTY OperatorReturns
