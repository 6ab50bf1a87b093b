SPECIFICATION FairSpec
CONSTANTS
  Objects = {o1, o2}
  Sizes = {1, 2}
  LargeThreshold = 1
  BirthSize = 1
  MinorTrigger = 2
  ElderFloor = 2
  LargeFloor = 2
  GrowthPercent = 100
  HeapLimit = 3
  Copying = TRUE
  MaxBlock = 4
  MaxAdopted = 4
  MaxScopes = 1
INVARIANTS
  NoRequestLost
  VolumeIsPaced
PROPERTY
  CreditIsSettled
