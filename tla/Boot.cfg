CONSTANTS
  AddressMax = 8
  Floor = 1
  Ceiling = 6
  Limit = 7
  ArenaPages = 3
  MaxRegions = 4
  Snapshots <- MCSnapshots
  Kernels <- MCKernels
  ModuleSizes = {1, 2}
  MaxModules = 2
  TablePages = {1, 2}
  MaxTaken = 1
SPECIFICATION Spec
CHECK_DEADLOCK FALSE
INVARIANTS
  HandedMapHonest
  WritesOnlyUsable
  OutsideMovesNothing
  OwnersIntact
PROPERTIES
  BootEnds
