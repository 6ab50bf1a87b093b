SPECIFICATION FairSpec
CONSTANTS
  Graphs = {g1, g2, g3, g4, s1}
  Serial = {s1}
  Copies = {c1, c2}
  Slots = 3
  Passing <- MCPassing
  MaxAway = 1
INVARIANTS TableIsWhatIsHeld ReturnsLastCall
PROPERTY SearchEnds
