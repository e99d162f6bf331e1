# Verification of tunix-boot

TLA+ models of the boot loader in `src/`, TLC configurations that check them on
small instances, and TLAPS proofs of the results that hold for every instance.
`PROJECT.json` ties every definition to the lines it models, lists the runs, the
mutations each property is known to catch, and the hazards the properties are for.

    tlc -workers 2 -config Boot.cfg MCBoot.tla        # one run; all are listed below
    tlapm MemoryMapProof.tla                          # one proof module

## 1. The system

One processor runs one C program to completion: no threads, no interrupts taken,
nothing preempts it. What is concurrent is around it: the drive, which answers
when it likes or never, and under UEFI the firmware, which keeps allocating
memory while boot services are up. What is hard is therefore elsewhere:

* everything read from the disk and the firmware is arbitrary, and numbers from
  it become addresses, loop bounds and array indices;
* all memory is reached through the identity map, so one part's write can land
  on another part's data and nothing notices;
* an operation that fails half way leaves its first half behind, and most
  callers go on (a failed read of one entry, of one partition, of one walk);
* small caches and cursors (the sector of the FAT in memory, the place a file
  walk got to, the arena's cursor and its marks) outlive the call that made them;
* limits: 64-bit sums and products that wrap, full lists, polls that run out.

### Inventory

| Component | State it keeps | Operations | What makes it correct | Modelled |
|---|---|---|---|---|
| memory map `memory/map.c` | region list, `truncated` | add, finalize, find, find_free(_high), total | after tidying: sorted, disjoint, merged; every byte as strict as its strictest claim; searches exact | yes: MemoryMap |
| arena `memory/arena.c` | base, capacity, used; marks held by callers | allocate (4 forms), reset, mark, release | blocks aligned, inside, never overlapping, also after releases | yes: Arena |
| page tables `memory/paging.c` | the tables, in arena memory | create, map, translate, activate | a tree; nothing remapped or split; success is all of the range | yes: Paging |
| boot sequence `boot/main.c` | memory map, arena, modules, kernel image, mounts | the stages of `boot_core` | writes only usable memory, keeps what it wrote, tells the kernel the truth, ends | the stages that touch memory: Boot |
| ATA driver `block/ata.c` | `ata_channel`; the drive's registers | probe, read_sectors | delivers the sectors asked for; always returns | yes: Ata |
| block layer `block/block.c` | one sector of scratch | block_read, block_read_bytes | exactly the bytes asked for; no request too long | yes: Disk |
| partitions `block/partition.c` | table, `partition_view` | table_read, open, read through the view | no partition past the disk, no access outside the partition | yes: Disk |
| FAT32 `fs/fat.c` | volume, cached FAT sector, per-file walk; the long name under way | mount, open, read | the file's bytes in chain order; reads stay on the volume; loops end; a path leads to the entry that bears the name | yes: Fat, FatDirectory |
| ext2 `fs/ext2.c` | volume, one inode at a time | mount, open, read | the file's bytes through three levels of pointers, holes as zeroes; not reached from `boot_core` | yes: Ext2 |
| ELF reader `elf/elf.c` | `elf_image` | parse, load, entry_point | accepts nothing that overlaps, wraps or leaves its span; checks everything before it moves anything | parse and the window: ElfFile; load: Boot |
| handover `protocol/protocol.c` | answers in the arena, pointers in the image | answer | every request once, absent facts stay null | yes: Protocol; the map answer in Boot |
| UEFI backend `fw/uefi` | map buffer, map key, `exited` | mem_snapshot, exit_boot_services | the map handed on is the one whose key was accepted | the map and the exit: FirmwareMap |
| BIOS backend `fw/bios` | E820 buffer | mem_snapshot, framebuffer, rsdp | conversion keeps kinds | as an initial state of Boot |
| configuration `config/config.c` | entries | parse, default_entry | refused whole or taken as written | yes: Config; its result in Boot |
| ACPI `acpi/acpi.c` | tables kept, processors | find root, collect, processors | nothing read outside a record or its table; the walk ends | yes: Acpi |
| PCI `pci/pci.c` | buses to walk, buses seen, devices | enumerate | everything plugged in once, or told there is more; the walk ends | yes: Pci |
| cpuid, gdt, guard, serial, log, terminal, framebuffer, util | registers, screen | single steps | no property here is about them | no |
| stage1, stage2 | registers | straight-line real mode | no branching worth a model | no |

How they interact: `boot_core` calls downwards only (`docs/layers.txt`). The disk
is a stack of calls: FAT32 reads bytes of a partition, which is a `block_device`
whose read function adds the partition's start and calls the ATA driver's. The
memory map is written by the firmware backend first and by the boot sequence at
the end; the arena is carved from it, and modules, answers and page tables come
out of the arena in that order. The kernel is loaded by way of FAT32 to where
its own headers say. Nothing calls back.

## 2. Modules

| Module | Models | Kind |
|---|---|---|
| MemoryKinds | the order of `enum memory_kind`, strictest last | shared definitions |
| MemoryLedger | what a memory map promises: one verdict per byte | abstract specification |
| MemoryMap, MCMemoryMap | `map.c`, the sweep interval by interval | detailed; implements MemoryLedger |
| MemoryMapProof | theorems about MemoryMap | proofs |
| ArenaFit | `arena_allocate_aligned`'s arithmetic on a w-bit machine | pure operators |
| Arena, MCArena | `arena.c`, with the blocks and marks callers hold | detailed |
| ArenaProof | theorems about Arena | proofs |
| AddressSpace | a mapping that only grows | abstract specification |
| Paging, MCPaging | `paging.c`, one table entry per step | detailed; implements AddressSpace |
| KernelTables, MCPaging | `build_kernel_tables` of `main.c`: the calls of `paging_map`, with segments that begin anywhere in a page | composition over Paging |
| PagingProof | theorems about Paging, any calls in any order, and about the calls of KernelTables | proofs |
| Boot, MCBoot | `boot_core`, one cell per page of memory, with the ledger in place of the map | composition of map, arena, ELF loading, handover |
| BootProof | theorems about Boot | proofs |
| Ata | `ata.c`, one register access or poll per step, and the drive | two processes |
| AtaProof | theorems about Ata | proofs |
| Disk | `partition.c` over `block.c`, from the first sector to a byte range | composition of both |
| DiskProof | theorems about Disk | proofs |
| Fat, MCFat | `fat.c`: mount, chains, caches, reads | detailed |
| FatProof | theorems about Fat | proofs |
| FatDirectory | `fat_open` and `find_in_directory`, entry by entry | detailed |
| Ext2 | `ext2.c`: superblock, inodes, directories, indirection | detailed |
| FirmwareMap | `fw_uefi.c` and `memory.c`: the two calls that read the map, the exit, and the firmware | two processes |
| Acpi | `acpi.c`: root pointer, tables, MADT records | detailed |
| Pci | `pci.c`, function by function | detailed |
| ElfFile | `elf_parse` and the window check of `elf_load` | detailed |
| Protocol | `protocol_answer`: the scan and every answer | detailed |
| Config | `config_parse` line by line, `config_default_entry` | detailed |
| Parts, MCParts | the eight above from FatDirectory on, side by side in one specification | composition by INSTANCE |
| PartsProof | the theorems about FirmwareMap, Acpi, ElfFile, Protocol, Pci, FatDirectory, Ext2 and Config, for Parts | proofs |

Correspondence. Actions carry the names of the C functions; a function that can
stop half way is several actions, one per place it can stop, and a refusal is an
action of its own (`..._refused`, `..._no_room`, `not_followed`,
`device_failed`). Fields of C structs keep their names where a property needs
them. Definitions marked "Slip" are not used by the specification: each is a
plausible mistake in the definition after it, and the mutation list in
`PROJECT.json` says which property notices it.

* `MemoryMap`: `regions`, `truncated` are the struct; `pc`, `start`, `result`,
  `overflowed` are the locals of `memory_map_finalize`. Boundaries are a set,
  because the code sorts and removes doubles before it looks at them.
* `Arena`: `used` is the struct; `blocks`, `marks` are what callers hold. An
  address is a number modulo the word size, and a mask is the multiple below.
* `Paging`: `tables` is a sequence of arrays of entries, in the order the arena
  gave them out. `Fan` stands for 512 and there are four levels, as in the code.
* `Boot`: `ledger` is `memory` as MemoryMap is proved to implement it; `holds`
  says who wrote each page last, which no variable of the program does.
* `Ata`: a register is a digit, a 48-bit register a queue of two. The drive is
  external: it is modelled from what the driver relies on.
* `Disk`: a buffer is a list of positions on the disk, so that "the right bytes"
  is equality of positions. Numbers from tables go up to the word size.
* `Fat`: the cached sector has an index (`fat_sector_index`) and, separately,
  the sector it really holds. The allocation table is any function.
* `KernelTables`: a segment's place is counted in units of half a page, so that
  rounding its two addresses separately can differ; `calls` is the sequence of
  `paging_map` calls still to make, each of which runs in Paging's own steps; a
  segment that stays in the identity map is a call that is left out.
* `FatDirectory`: a directory entry is chosen when it is read. `pending` is
  `struct long_name` with what the stack held where nothing was written;
  `fragments` and `judged` are what the property looks back on.
* `Ext2`: `disk` remembers what was chosen for a pointer when it was first read,
  so that reading it again gives the same; a byte is a block and a place in it.
* `FirmwareMap`: the firmware is a process of its own whose `memory` and `key`
  move together; `map` and `map_key` are `map_buffer` and the key of the last
  call that filled it.
* `Acpi`, `ElfFile`: headers and records are chosen when they are read; lengths,
  offsets and addresses are numbers, with the word's edge where sums are checked.
* `Pci`: a machine says of each place what is there and of each bridge which bus
  is behind it, loops and bridges to bus zero included.
* `Protocol`: the image is a sequence of the words the scan reads; a request may
  be cut short by its end or overlap another.
* `Config`: a line is its kind; what cutting a line into key and value yields is
  the choice of the line. Blank lines and comments are nothing but part of
  `file_bytes`, the length the file is refused for (`too_large`) before any of it
  is read.
* `Parts`: `part` says which of the eight runs. They share no state in the code
  while they run, and none here; what passes between them is Boot's.

## 3. Runs

| Run | Configuration | What it shows |
|---|---|---|
| memory_map | MemoryMap.cfg | any four claims, tidied at any time: TypeOK; SweepInv, the loop invariant; FinalizeCanonical; FinalizeNeverRelaxes; both searches exact (FindFreeExact); ImplementsLedger |
| arena | Arena.cfg | allocations, marks and releases in any order at the very top of a 5-bit address space: BlocksDisjoint, BlocksInside, BlocksAligned |
| paging | Paging.cfg | two calls with every mixture of page sizes and an arena that runs out: TablesAreTree, SuccessIsComplete, MapsOnlyAsAsked, ImplementsAddressSpace; and the calls made for kernels of one and two segments, rounded and not: SegmentsAsAsked |
| boot | Boot.cfg | three machines, every kernel of one or two segments, up to two modules: HandedMapHonest, WritesOnlyUsable, OutsideMovesNothing, OwnersIntact, BootEnds |
| ata | Ata.cfg | every read of one to nine sectors, at every limit of both command sets, from drives that are slow, fail or hang: DeliversWhatWasAsked, CommandsOnlyIdleDrive, ReadsReturn |
| disk | Disk.cfg | every table of two entries with numbers at and past each edge, on drives that report a size or not, then byte ranges at every alignment: PartitionsOnDevice, AccessConfined, BytesAsAsked |
| fat | Fat.cfg | every allocation table of two and three clusters, several files, any order of reads and any failure: BytesAreTheFiles, WalkIsOnTheChain, ReadsStayInPlace, LoopsEndTheRead |
| parts | Parts.cfg | everything the eight parts may be given: MapIsCurrent (the map after the exit is that of memory as it is), RecordsInTable (no record read outside the MADT), DevicesExact (all devices once, or told of more), ParsedImageSound (no accepted segment overlaps, wraps or leaves its span), AnswersExact (each request its own answer), SearchFindsTheName (a path leads to the entry that bears the name), Ext2BytesAreTheFiles and InodeInOneBlock (ext2 reads the file, inodes in one piece), ConfigAsWritten (a file is refused whole or taken as written, and one that is too long is refused unread), WalksEnd (the walks end) |

A module's TypeOK is checked where a property or proof leans on it (memory_map,
arena); in the others the values are typed by construction of the actions, and
the proofs carry their own typing invariant.

Four runs end in a violation, and each is a finding:

* `boot_kernel_over_arena` (BootKernel.cfg, KernelMissesLoader). The comment above
  `load_kernel` says that a segment that would reach the loader's own memory is
  refused because the loader is below a megabyte. Its arena is not: a kernel
  linked where the arena was placed is copied over the modules in it, since the
  claim on the arena is entered into the map only after the load.
* `boot_stale_map` (BootSnapshot.cfg, HandedMapCurrent). `fw.h` says of the
  snapshot that it may be used "never as the map handed to the kernel"; it is.
  Nothing calls `uefi_exit_boot_services`, whose map would be the current one.
* `disk_gpt_offset` (DiskGpt.cfg, EntriesReadAsPlaced). `architecture.md` says
  that arithmetic on sizes from the disk goes through the checked helpers;
  `entry_lba * BLOCK_SECTOR_BYTES_DEFAULT` does not, wraps, and entries are read
  from a place the header did not name. Partitions found that way are still
  checked against the disk (PartitionsOnDevice holds).
* `paging_kernel` (PagingKernel.cfg, NoExecuteAsAsked). `protocol.md` says
  the kernel is entered with its segments "mapped where it asked for them,
  non-executable where its program headers said so". `build_kernel_tables` maps
  no segment whose two addresses are equal: it stays in the identity map, which
  is executable throughout, so such a segment can be executed although no-execute
  is on and its header does not ask for it. (It is writable there as well, of
  which `protocol.md` says nothing; SegmentsAsAsked leaves such segments out.)

### What the properties excuse

* HandedMapHonest excuses a map that ran out of regions. Both claims of
  `claim_loader_memory` are added without looking at the result; on a full list
  they are lost and the kernel's own pages are described as usable.
* OwnersIntact excuses a kernel linked into the arena, which is the first finding.
* DeliversWhatWasAsked excuses reads after one that gave up on a busy drive: the
  driver does not reset the drive, so a late answer can be taken for the next one.
  CommandsOnlyIdleDrive excuses the same reads. Without the excuse both are
  violated; no document says what such a read must return, so no run states it.
  Drives that report more sectors than a 48-bit address reaches are left out.
* Paging asks for no range that reaches across the hole of non-canonical
  addresses: only its two ends are tested, and no caller asks for so much. Nor
  for frames beyond the 52 address bits of an entry: paging_map cuts those short
  without a word (paging.c:102), and no machine has such memory.
* SegmentsAsAsked excuses segments linked where they are loaded (the finding
  above) and segments whose two addresses lie at different places of a page:
  nothing refuses such a file, each address is rounded by itself, and what is
  mapped is shifted by the difference.
* SearchFindsTheName excuses a letter of a long name that no fragment gave: the
  code then compares what the stack held, and may find or miss the entry; and a
  name of more fragments than the code collects (`FAT_LONG_MAX_SEQUENCE`).
* AnswersExact excuses a request that begins inside another one, which the scan
  steps over. The scan covers the whole span of the image, the gaps between
  segments included, where memory is what it was before the kernel was loaded.
* Ext2 refuses a directory record longer than what is left of the directory or
  too short for its name, as the code does; that a record of length zero ends
  the search is a guard here, since each record is chosen anew when it is read.
  The position of an inode is not compared with the volume's end, in the code or
  here; the device refuses it.
* Fat takes a failed sector read to leave the buffer alone, as the ATA driver
  does for one sector. A driver that fails after writing would leave the cached
  FAT sector under its old index.

Things met while modelling that no run states, because no document says what they
should be or because nothing in the loader reaches them yet:

* The kernel's entry point is whatever the header says (`elf.c:212`).
* `acpi.c:98-107` reads the XSDT's address, bytes 24 to 31 of the root pointer,
  with a reader of 64 bytes. The pointer's own length is checked against 20 and
  64 only, and the second checksum covers that length: with one below 32 the
  address is used although no checksum covered all of it, where `acpi.h:12-13`
  says that nothing is used before its checksum passes.
* `uefi_exit_boot_services` has no caller (`boot_stale_map` shows what that
  leads to), and returns false when the exit was accepted but the map does not
  parse (`fw_uefi.c:158`): boot services are then gone and the caller is told
  that the exit failed. MapIsCurrent says so of `exited` and excuses the map.

### Bounds, and why they are enough

* MemoryMap: two regions of capacity, four bytes, kinds from bottom, middle and
  top of the order. Two overlapping claims sweep into three intervals, so both
  ways of running out happen. The proofs remove the bound.
* Arena: the arena ends at the last address, so rounding wraps; two blocks and
  two marks are what a stale release needs. The proofs remove the bound.
* Paging: two entries per table give pages of one, two and four; six tables are
  a root, one whole branch and part of another, so the arena runs out between
  any two levels, and lengths of one, three and six pages
  mix the sizes. Two calls are what a remap or a split needs.
* Boot: eight pages with one on either side of every limit, an arena of three,
  so that a module, an answer and a table fill it; four regions.
* Ata: three values per register: a count that is encoded as zero, both halves
  of a 48-bit address, and the limit of a 28-bit one are all reached in nine
  sectors, and the largest drive has nine. Two polls tell "slow" from "never".
* Disk: a word of 20 with a disk of 16 bytes, so sums and products wrap to the
  inside of the disk; two sectors per request, so a range of eleven bytes has a
  head, several runs and a tail.
* Fat: three clusters admit a chain, a loop of each length, a loop with a tail
  and a cross link; a table of two sectors, so the cache changes; one table is
  too short for its clusters; a file of nine bytes is longer than the volume.
* KernelTables: four identity pages of two units, segments on both sides of every
  page edge, and distances that leave the direct map all, some or none of its
  room or make its sums wrap.
* Parts: three pages and three changes of the firmware's map against two
  attempts, so that a key is stale once, twice and never, and a buffer too small;
  MADTs from one too short for a header to one of more records than there is room
  for, records of no length, too short for their kind and too long; three buses,
  wired straight and in a circle, with one more function than can be reported; two
  segments out of three headers in words of sixteen, so that every sum wraps; two
  requests out of images of three pieces, with arenas for none, one and all; names
  of two fragments in directories of four entries; ext2 blocks of four bytes with
  two pointers each and files that reach through all three levels; five lines of
  configuration against two entries of two modules each, in files of exactly
  CONFIG_MAX_BYTES and of one byte more.

### Fairness

Boot states weak fairness of the loader's next step and Ata of the driver's: the
processor runs nothing else. No fairness is assumed of the drive, the firmware
or a failure: BootEnds and ReadsReturn hold for a drive that never answers. A
serial port that stops accepting characters stops `serial_put`, which waits
without a bound; logging is outside the model, so the liveness results are about
a loader whose log is read or absent. Parts states weak fairness of its next
step: the walks over buses, records, requests, directories and indirection are
loops of one processor that wait for nothing; WalksEnd is about these, and asks
nothing of the firmware, which may change its map as it likes. The other modules
state safety only.

## 4. Proofs

The proofs hold for every value of the constants that satisfies the assumptions
of the modules: memory maps of any capacity and kinds, arenas of any word size,
base and alignments, page tables of any fan-out, machines of any memory with any
kernel and modules, drives and partition tables of any size and contents,
registers of any width, FAT volumes of any geometry, tables and records of any
length, words of any size in ELF headers, images with any requests, firmware
that changes its map any number of times.

* MapTypeCorrect, SweepCorrect, FinalizeIsCanonical, FinalizeKeepsStrictest
  (MemoryMapProof). The inductive invariant is `Inv == TypeOK /\ SweepInv`. "The
  map is tidy" is not inductive: it is false while the sweep runs. SweepInv says
  what holds of the half-built result: it is canonical, it ends at or before the
  edge the sweep stands on, and below that edge it says of every byte what the
  unsorted list says. The step that carries the weight is that an interval
  between two neighbouring edges is covered by a region wholly or not at all.
* SearchesAreExact (MemoryMapProof): for any size and any alignment that is a power
  of two (AlignmentAssumption, which the address space is too), the lowest and the
  highest free place are found whenever there is one. That looking at one
  candidate per region is enough rests on rounding being the least multiple above
  or the greatest below.
* MapImplementsLedger: every step of the sweep is a stutter of the ledger; only
  storing the result can lose anything, and says so.
* ArenaTypeCorrect, ArenaBlocksDisjoint, ArenaBlocksInside, ArenaBlocksAligned
  (ArenaProof). The invariant adds MarksSound: the blocks that were alive when a
  mark was taken, and that its release keeps, end at or below the mark's cursor.
  Without it a release could put the cursor back under a block that stays alive.
  The arithmetic is one lemma, PlacementSound: when the room check passes,
  rounding did not wrap.
* PartitionsAreOnDevice, AccessIsConfined, ReadsAreAsAsked (DiskProof). That the
  right bytes were delivered is a fact about the end of a read; the invariant,
  Progress, says it of every point of one: the buffer holds the first bytes
  asked for, the walk stands on the byte after them and still needs the rest.
  Head, run and tail each keep it, and the splitting is DivMod and the order of
  products. Partitions are on the disk because each sum is compared with what is
  left of it, never formed first.
* ReadsAreInPlace, LoopsAreEnded (FatProof). Mounting leaves a volume whose
  clusters end within the partition (GeometryFits), so a cluster in range is
  whole and in place (ClusterFits). The bound on a read is the count of links:
  what has been delivered is at most a cluster for each link followed and one,
  and no link is followed past the number of clusters, whatever the chain does.
* WalksAreOnTheChain, BytesAreAlwaysTheFiles (FatProof). The place a file keeps
  (`walk_index`, `walk_cluster`) is the cluster of its chain with that number, at
  every step of every read, after a failure too; the sector of the table in
  memory is the one its index names. So a read that starts from the place of an
  earlier one is in the cluster its offset asks for, and what it has delivered is
  the file's bytes from there on, cluster by cluster (DivMod, as for Disk).
* TablesAlwaysTree, SuccessIsAlwaysComplete, OnlyWhatWasAskedIsMapped,
  TablesImplementAddressSpace (PagingProof). The induction rests on one fact: two
  walks that meet in a table came through the one entry it hangs from, so they
  agree in every index above it (PathUnique). Writing an entry therefore changes
  the walk of the addresses that share all indices from there up, and of no
  other; these are one aligned run (SameEntry). The invariant says that the tables
  are a tree, that the loop stands in the table its address leads to, and that
  all it is past is mapped.
* SegmentsAreAsAsked, KernelTablesKeepPaging (PagingProof). The invariant of
  `build_kernel_tables` (KernelInv) says of every point of the plan that each call
  made was whole and acceptable and is mapped where it asked to be, but for the
  one under way, and that nothing is mapped that no call asked for. What a kernel
  is entered with is then arithmetic: where the identity map, the two halves of
  the direct map and the segments lie, that rounding a segment outwards keeps
  every byte of it, and that the direct map stops short of every page a segment
  touches. The assumption IdentityPages < FramePages says that the identity map
  cannot wrap: it ends at 4 GiB, and a frame number has 40 bits. The calls are
  steps of Paging, so its own theorems hold of them as well.
* BootTypeCorrect, WritesAreOnUsable, OutsideAlwaysMovesNothing, OwnersAreIntact,
  HandedMapIsHonest (BootProof). What came out of the arena lies below its cursor
  and what is to come above it, so a module is lost to a segment only, and a
  segment to the arena only; kernel pages are written only after both checks
  passed for all segments; and the two claims cover all of the arena and all of
  the kernel, which tidying the map keeps (TidyKeeps). BootAssumption takes the
  segments of an accepted kernel to be apart: ParsedImageAlwaysSound proves that.
* WhatWasAskedIsDelivered, CommandsFindIdleDrives (AtaProof). As long as no read
  was abandoned, driver and drive agree: the drive stands on the sector after
  those copied and owes the rest. What the registers say is what was asked, at
  every limit of both command sets (Digits, ProductDigits: a full count is
  written as none). The one assumption on drives is that they have no sector
  that a 48-bit address does not reach; `sectors_from_identify` does not ask.
* MapIsAlwaysCurrent, RecordsAlwaysInTable, ParsedImageAlwaysSound,
  AnswersAlwaysExact, DevicesAreExact, SearchesFindTheName, InodesAreInOneBlock,
  Ext2ReadsAreTheFiles, ConfigsAreAsWritten (PartsProof). FirmwareMap: a map whose key is the firmware's
  is the firmware's map, so what is in hand when an exit is accepted is memory as
  it is. Acpi: the walk is past every record reported, so none is reported twice,
  and what was read of a record is inside what the record and the table have
  left. ElfFile: what was accepted so far is apart, inside the span so far and
  not wrapped, at every header. Protocol (ScanInv): the scan is past all it
  answered, the blocks of the answers are above the room left, and everything it
  passed is answered, cannot be answered, or is inside another request. Pci: what
  is reported was walked, a bus that is reached is seen, pending or under the
  cursor, and the cursor is past all that was reported on its bus, so what is left
  out at the end is behind nothing. FatDirectory (NameInv): what `pending` holds
  are the fragments of one name and one checksum, gathered from its last down to
  the one expected next, so a name that is complete is the entry's own. Ext2
  (MountedInv): a block's and an inode's size are powers of two, so the smaller
  divides the larger and no inode straddles two blocks; that EXT2_MIN_BLOCK_BYTES
  is one is the assumption, and mounting checks the rest. FileInv: wherever a walk
  has got to, what it leads to is what the file has in that place, on this disk and
  on any that it turns out to be a part of, so a pointer read later changes nothing
  that was said. The reference says which way through the tree that is by counting
  the ways before it; a way's pointers are the digits of a number (Place), the
  order of the ways is that of their numbers (PlacesAre) and every number below
  the tree's size is one (PlacesHaveWays), so the count is the number (WayToIs) and
  division takes the digits apart again (WayLeads). It rests on a pointer being no
  larger than the least block. Config
  (ConfigInv): as long as no line is refused, each of those read has a meaning
  where it stands, and the entries, the time and the default are what the lines
  so far say; a line more changes what one entry holds, or the globals, and
  nothing else; and a line is refused only if the file with it is not well formed,
  whatever follows; a file longer than CONFIG_MAX_BYTES has no line read. Each
  invariant is kept by the actions of its part, and any other step of Parts
  leaves the variables of the part alone.

An invariant that needs induction over numbers (a chain's n-th cluster, a power
of two, a prefix of a name) takes the least number that is an exception, which
exists because `<` is well-founded (WFMin), and shows that it is none; a recursive
function is unfolded the same way, from the functions that agree with it so far.

Model-checked only: what must eventually happen (BootEnds, ReadsReturn, WalksEnd),
which rests on fairness and is out of the prover's reach. Every invariant and every
action property of a passing run is a theorem.

## 5. What could come next

* The E820 and UEFI descriptors converted into MemoryMap's claims one by one.

## 6. Not modelled

Drawing, fonts and formatting; register reads and writes that cannot interleave
(cpuid, gdt, paging_activate); the stack guard; the serial port's loop; the
firmware seam, which only calls through a table; E820 entries and screen modes,
which are converted one by one without state; the assembly of stage 1 and stage
2; the firmware and the drive beyond what the code relies on. Checksums,
signatures and the cutting of text into lines are choices of what they yield. The
C memory model, compiler and stack are not modelled: a write is where the code
says it is.
