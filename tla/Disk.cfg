CONSTANTS
  WordSize = 20
  NarrowSize = 10
  SectorBytes = 2
  DeviceSectors = 8
  MaxPerRead = 2
  PARTITION_MAX = 2
  MBR_ENTRY_COUNT = 2
  EntryBytes = 3
  Starts = {0, 1, 3, 7, 11, 19}
  Counts = {0, 1, 3, 6, 19}
  Offsets = {0, 1, 2, 5, 19}
  Lengths = {0, 1, 2, 5, 6, 11}
SPECIFICATION Spec
CHECK_DEADLOCK FALSE
INVARIANTS
  PartitionsOnDevice
  AccessConfined
  BytesAsAsked
