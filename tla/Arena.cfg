CONSTANTS
  WordSize = 32
  Base = 23
  Room = 9
  Alignments = {1, 4, 16}
  Sizes = {0, 1, 3, 31}
  Counts = {2, 11}
  DefaultAlignment = 4
  MaxBlocks = 2
  MaxMarks = 2
SPECIFICATION Spec
INVARIANTS
  TypeOK
  BlocksDisjoint
  BlocksInside
  BlocksAligned
