CONSTANTS
  Cells = {c1}
  Lets = {x1, x2}
  Arrays = {a1, a2, a3}
  Blocks = {b1, b2}
  Values = {1}
  Kinds = {"slots", "compact", "imported"}
  MaxLen = 2
  InlineLen = 1
  MinGrow = 4
  MaxQueued = 2
  None = None
SPECIFICATION Spec
SYMMETRY Alike
INVARIANTS CountsHolders BytesAreLive UncountedNamesKeepTheirValues
PROPERTY WritesStayInOneArray
