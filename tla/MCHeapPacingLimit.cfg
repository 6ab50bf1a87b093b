SPECIFICATION Spec
CONSTANTS
  Objects = {o1, o2, o3}
  Sizes = {1, 2}
  LargeThreshold = 1
  BirthSize = 2
  MinorTrigger = 2
  ElderFloor = 2
  LargeFloor = 2
  GrowthPercent = 100
  HeapLimit = 4
  Copying = TRUE
  MaxBlock = 2
  MaxAdopted = 5
  MaxScopes = 1
INVARIANTS
  LimitJudgesLive
