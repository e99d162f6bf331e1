CONSTANTS
  Pages = 3
  MapCapacity = 3
  MapSlack = 1
  Attempts = 2
  MaxChanges = 3
  Slots = 2
  RootEntries = 3
  ACPI_RSDP_REVISION_1_BYTES = 20
  ACPI_RSDP_MAX_BYTES = 64
  ACPI_MAX_TABLES = 2
  ACPI_MAX_PROCESSORS = 2
  ACPI_MADT_ENTRIES_OFFSET = 4
  ACPI_MADT_ENTRY_MIN_BYTES = 2
  LocalApicBytes = 3
  X2ApicBytes = 5
  RsdpLengths = {19, 20, 64, 65}
  MadtLengths = {3, 4, 5, 12, 15}
  RecordLengths = {0, 1, 2, 3, 4, 5, 8}
  Buses = 3
  Devices = 1
  Functions = 2
  PCI_MAX_DEVICES = 3
  Machines <- MCMachines
  WordSize = 16
  ELF_MAX_SEGMENTS = 2
  ELF_MAX_PROGRAM_HEADERS = 3
  ELF_PROGRAM_HEADER_BYTES = 5
  Offsets = {0, 12}
  Starts = {0, 4, 13}
  Sizes = {0, 2, 4}
  Placements <- MCPlacements
  BOOT_REQUEST_MAGIC_LOW = 90
  BOOT_REQUEST_MAGIC_HIGH = 91
  BOOT_PROTOCOL_REVISION = 2
  BOOT_MAX_REQUESTS = 2
  Images <- MCImages
  Rooms = {0, 1, 3, 9}
  Letters = {"a", "b"}
  Name <- MCName
  FatComponents = 2
  FAT_LONG_MAX_SEQUENCE = 2
  MaximumEntries = 4
  Checksums = {0, 1}
  Fragments <- MCFragments
  Superblocks <- MCSuperblocks
  Pointers = {0, 1, 2, 3}
  FileSizes = {0, 5, 64}
  Records <- MCRecords
  Asks <- MCAsks
  Ext2Components = 1
  EXT2_MIN_BLOCK_BYTES = 4
  EXT2_MAX_LOG_BLOCK_SIZE = 1
  EXT2_ORIGINAL_INODE_BYTES = 2
  EXT2_POINTER_BYTES = 2
  EXT2_DIRECT_BLOCKS = 1
  EXT2_DIRENT_MIN_BYTES = 2
  Lines <- MCLines
  MaxLines = 5
  FileLengths = {5, 6}
  CONFIG_MAX_BYTES = 5
  CONFIG_MAX_ENTRIES = 2
  CONFIG_MAX_MODULES = 2
  CONFIG_DEFAULT_TIMEOUT_SECONDS = 2
  CONFIG_MAX_TIMEOUT_SECONDS = 2
SPECIFICATION Spec
CHECK_DEADLOCK FALSE
INVARIANTS
  MapIsCurrent
  RecordsInTable
  DevicesExact
  ParsedImageSound
  AnswersExact
  SearchFindsTheName
  Ext2BytesAreTheFiles
  InodeInOneBlock
  ConfigAsWritten
PROPERTIES
  WalksEnd
