SPECIFICATION Spec
CONSTANTS
  Birth = {b1}
  SpaceA = {x1}
  SpaceB = {y1}
  Elder = {e1, e2}
  Large = {l1}
  Ids = {1, 2}
  Slots = {s1, s2}
  Fields = {s1, s2}
  Wrappers = {1}
  Rules = {2}
  Root = Root
  Null = Null
  PromotionAgeThreshold = 2
SYMMETRY Alike
INVARIANTS NoDangling RememberedComplete WrappersListed
PROPERTIES MajorIsPrecise CollectorIsInvisible CollectionAdvances
