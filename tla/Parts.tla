-------------------------------- MODULE Parts --------------------------------
(***************************************************************************)
(* The parts of the loader that take what firmware, hardware, disks and    *)
(* files say and make something of it: FirmwareMap, Acpi, Pci, ElfFile,    *)
(* Protocol, FatDirectory, Ext2 and Config.  boot_core runs them one after *)
(* the other and they share no state while they run, so a behaviour is     *)
(* that of one of them, whichever it is, with the others at rest; the      *)
(* order and what flows between them is Boot's.                            *)
(***************************************************************************)
EXTENDS Integers, Sequences

CONSTANTS
  Pages, MapCapacity, MapSlack, Attempts, MaxChanges,
  Slots, RootEntries, ACPI_RSDP_REVISION_1_BYTES, ACPI_RSDP_MAX_BYTES, ACPI_MAX_TABLES,
  ACPI_MAX_PROCESSORS, ACPI_MADT_ENTRIES_OFFSET, ACPI_MADT_ENTRY_MIN_BYTES, LocalApicBytes,
  X2ApicBytes, RsdpLengths, MadtLengths, RecordLengths,
  Buses, Devices, Functions, PCI_MAX_DEVICES, Machines,
  WordSize, ELF_MAX_SEGMENTS, ELF_MAX_PROGRAM_HEADERS, ELF_PROGRAM_HEADER_BYTES,
  Offsets, Starts, Sizes, Placements,
  BOOT_REQUEST_MAGIC_LOW, BOOT_REQUEST_MAGIC_HIGH, BOOT_PROTOCOL_REVISION,
  BOOT_MAX_REQUESTS, Images, Rooms,
  Letters, Name, FatComponents, FAT_LONG_MAX_SEQUENCE, MaximumEntries, Checksums, Fragments,
  Superblocks, Pointers, FileSizes, Records, Asks, Ext2Components,
  EXT2_MIN_BLOCK_BYTES, EXT2_MAX_LOG_BLOCK_SIZE, EXT2_ORIGINAL_INODE_BYTES,
  EXT2_POINTER_BYTES, EXT2_DIRECT_BLOCKS, EXT2_DIRENT_MIN_BYTES,
  Lines, MaxLines, FileLengths, CONFIG_MAX_BYTES, CONFIG_MAX_ENTRIES, CONFIG_MAX_MODULES,
  CONFIG_DEFAULT_TIMEOUT_SECONDS, CONFIG_MAX_TIMEOUT_SECONDS

VARIABLES
  part,                                                      \* the one that runs
  memory, key, services, stride_ok, map, map_key, exited, call, out,
  stage, slot, left, tables, length, offset, record, processors, truncated,
  machine, pending, seen, cursor, entries, more, done,
  parsing, program, image, lowest, highest, placement,
  words, facts, room, at, answered, replies, result,
  remaining, entries_seen, long_name, fragments, judged, opening,
  step, volume, sought, inode_at, components, file, position, ask, walk, disk, delivered,
  file_bytes, lines, timeout, default_entry, sections, status

firmware_vars  == <<memory, key, services, stride_ok, map, map_key, exited, call, out>>
acpi_vars      == <<stage, slot, left, tables, length, offset, record, processors, truncated>>
pci_vars       == <<machine, pending, seen, cursor, entries, more, done>>
elf_vars       == <<parsing, program, image, lowest, highest, placement>>
protocol_vars  == <<words, facts, room, at, answered, replies, result>>
directory_vars == <<remaining, entries_seen, long_name, fragments, judged, opening>>
ext2_vars      == <<step, volume, sought, inode_at, components, file, position, ask, walk, disk, delivered>>
config_vars    == <<file_bytes, lines, timeout, default_entry, sections, status>>

vars == <<part, firmware_vars, acpi_vars, pci_vars, elf_vars, protocol_vars, directory_vars,
          ext2_vars, config_vars>>

F == INSTANCE FirmwareMap
A == INSTANCE Acpi
P == INSTANCE Pci WITH truncated <- more
E == INSTANCE ElfFile WITH stage <- parsing
R == INSTANCE Protocol WITH image <- words, offset <- at
D == INSTANCE FatDirectory WITH Components <- FatComponents, left <- remaining, seen <- entries_seen,
                                pending <- long_name, result <- opening
X == INSTANCE Ext2 WITH Components <- Ext2Components
C == INSTANCE Config WITH entries <- sections

ASSUME PartsAssumption ==
  /\ F!FirmwareMapAssumption /\ A!AcpiAssumption /\ P!PciAssumption /\ E!ElfFileAssumption
  /\ R!ProtocolAssumption /\ D!FatDirectoryAssumption /\ X!Ext2Assumption /\ C!ConfigAssumption

(* The parts that are at rest have one input each, and keep it.            *)
Init ==
  /\ part \in {"firmware", "acpi", "pci", "elf", "protocol", "directory", "ext2", "config"}
  /\ part # "firmware" => stride_ok = TRUE /\ memory = [page \in 1 .. Pages |-> "conventional"]
  /\ part # "pci" => machine = CHOOSE any \in Machines : TRUE
  /\ part # "protocol" => /\ words = CHOOSE any \in Images : TRUE
                          /\ room = 0 /\ facts = {}
  /\ part # "ext2" => volume = CHOOSE any \in Superblocks : TRUE
  /\ part # "config" => file_bytes = CHOOSE any \in FileLengths : TRUE
  /\ F!Init /\ A!Init /\ P!Init /\ E!Init /\ R!Init /\ D!Init /\ X!Init /\ C!Init
  /\ part # "directory" => long_name.text[1] = CHOOSE any \in Letters : TRUE

Next ==
  \/ /\ part = "firmware" /\ F!Next
     /\ UNCHANGED <<part, acpi_vars, pci_vars, elf_vars, protocol_vars, directory_vars, ext2_vars, config_vars>>
  \/ /\ part = "acpi" /\ A!Next
     /\ UNCHANGED <<part, firmware_vars, pci_vars, elf_vars, protocol_vars, directory_vars, ext2_vars, config_vars>>
  \/ /\ part = "pci" /\ P!Next
     /\ UNCHANGED <<part, firmware_vars, acpi_vars, elf_vars, protocol_vars, directory_vars, ext2_vars, config_vars>>
  \/ /\ part = "elf" /\ E!Next
     /\ UNCHANGED <<part, firmware_vars, acpi_vars, pci_vars, protocol_vars, directory_vars, ext2_vars, config_vars>>
  \/ /\ part = "protocol" /\ R!Next
     /\ UNCHANGED <<part, firmware_vars, acpi_vars, pci_vars, elf_vars, directory_vars, ext2_vars, config_vars>>
  \/ /\ part = "directory" /\ D!Next
     /\ UNCHANGED <<part, firmware_vars, acpi_vars, pci_vars, elf_vars, protocol_vars, ext2_vars, config_vars>>
  \/ /\ part = "ext2" /\ X!Next
     /\ UNCHANGED <<part, firmware_vars, acpi_vars, pci_vars, elf_vars, protocol_vars, directory_vars, config_vars>>
  \/ /\ part = "config" /\ C!Next
     /\ UNCHANGED <<part, firmware_vars, acpi_vars, pci_vars, elf_vars, protocol_vars, directory_vars, ext2_vars>>

(* The walks are loops with nothing to wait for.                           *)
Spec == Init /\ [][Next]_vars /\ WF_vars(Next)

-----------------------------------------------------------------------------
(* The map the firmware is left with; see FirmwareMap.                     *)
MapIsCurrent == part = "firmware" => F!MapIsCurrent

(* What is read of the MADT, and reported; see Acpi.                       *)
RecordsInTable == part = "acpi" => A!RecordsInTable

(* What is reported of the buses; see Pci.                                 *)
DevicesExact == part = "pci" => P!DevicesExact

(* What is accepted of a kernel's file; see ElfFile.                       *)
ParsedImageSound == part = "elf" => E!ParsedImageSound

(* What a kernel's requests are answered with; see Protocol.               *)
AnswersExact == part = "protocol" => R!AnswersExact

(* What a path is followed to; see FatDirectory.                           *)
SearchFindsTheName == part = "directory" => D!SearchFindsTheName

(* What a read of an ext2 file delivers; see Ext2.                         *)
Ext2BytesAreTheFiles == part = "ext2" => X!Ext2BytesAreTheFiles

(* Where an inode is read; see Ext2.                                       *)
InodeInOneBlock == part = "ext2" => X!InodeInOneBlock

(* What is made of the file that says what to boot; see Config.            *)
ConfigAsWritten == part = "config" => C!ConfigAsWritten

(* The walks over what hardware, firmware and disks say end, however the   *)
(* bridges point and whatever lengths the records claim.                   *)
WalksEnd ==
  <>[] CASE part = "pci"       -> P!Ended
         [] part = "acpi"      -> A!Ended
         [] part = "protocol"  -> R!Ended
         [] part = "directory" -> D!Ended
         [] part = "ext2"      -> X!Ended
         [] OTHER              -> TRUE
==============================================================================
