SPECIFICATION FairSpec
CONSTANTS
  Threads = {main, t1}
  Main = main
  Entries = {b1, b2}
  Wrappers = {w1, w2}
  MaxDepth = 3
  None = None
CHECK_DEADLOCK FALSE
INVARIANTS
  NothingLost
  CountsReferences
  DeletedOnce
  ReachableIsUsable
  NewerDeletedFirst
PROPERTY
  ResourcesAreReleased
