SPECIFICATION GateFairSpec
CONSTANTS
  Threads = {t1, t2}
  None = None
  MaxDepth = 2
  MaxNesting = 2
  MaxGiveUps = 1
  Paced = TRUE
  BlockingLeaves = TRUE
INVARIANT DepthRestored
PROPERTIES ImplementsStopTheWorld StopIsWithdrawn PendingIsServed
