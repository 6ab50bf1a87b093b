SPECIFICATION Spec
CONSTANTS
  Threads = {t1, t2}
  Pools = {p1, p2}
  Graphs = {g1, g2}
  Frames = {f1, f2, f3, f4}
  SlotOf <- Collide
  LocalRefill = 2
  LocalMax = 1
  MinChunk = 2
  FullChunk = 1
  None = None
SYMMETRY Alike
INVARIANTS
  OnePlace
  RootsAreHeld
PROPERTIES
  GoneIsUntouched
  LendsFrames
  OperationsAdvance
