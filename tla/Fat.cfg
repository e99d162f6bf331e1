CONSTANTS
  SectorBytes = 2
  DeviceSectors = 8
  Headers <- MCHeaders
  End = 15
  Firsts = {1, 2, 4, 5}
  Sizes = {5, 9}
  Offsets = {0, 3, 4}
  Lengths = {0, 1, 5, 9}
SPECIFICATION Spec
CHECK_DEADLOCK FALSE
INVARIANTS
  BytesAreTheFiles
  WalkIsOnTheChain
  ReadsStayInPlace
  LoopsEndTheRead
