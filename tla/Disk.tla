--------------------------------- MODULE Disk ---------------------------------
(***************************************************************************)
(* src/block/partition.c and src/block/block.c: from the first sector of a *)
(* disk to a byte range of one of its partitions.                          *)
(*                                                                         *)
(* What the disk says is not to be believed: the entries of both kinds of  *)
(* table are whatever values they can hold.  Sums and products are those   *)
(* of the machine: "Wrapped" where the code lets them wrap, and a refusal  *)
(* where it uses a checked helper.  A buffer is the list of the disk's     *)
(* byte positions that were copied into it.                                *)
(***************************************************************************)
EXTENDS Integers, Sequences, SequencesExt, FiniteSetsExt

CONSTANTS
  WordSize,            \* 2^64
  NarrowSize,          \* 2^32, the width of an MBR's numbers
  SectorBytes,         \* BLOCK_SECTOR_BYTES_DEFAULT
  DeviceSectors,       \* the size of the drive, in sectors
  MaxPerRead,          \* BLOCK_MAX_SECTORS_PER_READ
  PARTITION_MAX,
  MBR_ENTRY_COUNT,
  EntryBytes,          \* the stride of a GPT
  Starts, Counts,      \* bounds on the numbers a table may hold
  Offsets, Lengths     \* and on the byte ranges asked for

ASSUME DiskAssumption ==
  /\ {WordSize, SectorBytes, DeviceSectors, MaxPerRead, PARTITION_MAX, EntryBytes} \subseteq Nat \ {0}
  /\ DeviceSectors * SectorBytes < WordSize
  /\ NarrowSize \in Nat /\ NarrowSize + NarrowSize <= WordSize
  /\ Starts \cup Counts \cup Offsets \cup Lengths \subseteq 0 .. WordSize - 1

VARIABLES
  sector_count,   \* what the drive reported, or 0 when it will not say
  pc,        \* "mbr", "header", "entries", "table", "open", "reading", "failed"
  table,     \* partition_table.entries
  header,    \* the GPT header's entry_lba and entry_count
  index,     \* of the entry loops
  at,        \* the byte the last GPT entry was read from
  view,      \* the partition that was opened
  request,   \* the arguments of block_read_bytes
  walk,      \* its locals lba, into_sector, length
  buffer,
  access,    \* the last request made of the drive itself
  outcome    \* of the last block_read_bytes

vars == <<sector_count, pc, table, header, index, at, view, request, walk, buffer, access, outcome>>

Partition == [start : 0 .. WordSize - 1, sectors : 0 .. WordSize - 1]

Init ==
  /\ sector_count \in {0, DeviceSectors}
  /\ pc = "mbr"
  /\ table = <<>>
  /\ header = [lba |-> 0, count |-> 0]
  /\ index = 0
  /\ at = 0
  /\ view = [start |-> 0, sectors |-> 0]
  /\ request = [offset |-> 0, length |-> 0]
  /\ walk = [lba |-> 0, into |-> 0, length |-> 0]
  /\ buffer = <<>>
  /\ access = [lba |-> 0, count |-> 1]
  /\ outcome = "none"

reader == <<sector_count, view, request, walk, buffer, access, outcome>>

-----------------------------------------------------------------------------
(* The tables.                                                             *)

(* A device that will not report its size cannot contradict an end.        *)
Reaches(end) == sector_count = 0 \/ end <= sector_count

(* Slip: the sum is allowed to wrap.                                       *)
InsideWrapping(start, sectors) ==
  sectors # 0 /\ Reaches((start + sectors) % WordSize)

Inside(start, sectors) ==
  sectors # 0 /\ start + sectors < WordSize /\ Reaches(start + sectors)

(* add_entry: an entry that cannot be is dropped, the rest are kept.       *)
WithEntry(start, sectors) ==
  IF Inside(start, sectors) /\ Len(table) < PARTITION_MAX
    THEN Append(table, [start |-> start, sectors |-> sectors])
    ELSE table

mbr_entry(start, sectors) ==
  /\ pc = "mbr" /\ index < MBR_ENTRY_COUNT
  /\ {start, sectors} \subseteq 0 .. NarrowSize - 1
  /\ table' = WithEntry(start, sectors)
  /\ index' = index + 1
  /\ UNCHANGED <<pc, header, at, reader>>

mbr_empty ==
  /\ pc = "mbr" /\ index < MBR_ENTRY_COUNT
  /\ index' = index + 1
  /\ UNCHANGED <<pc, table, header, at, reader>>

(* A protective entry, wherever it is, makes the whole disk a GPT.         *)
mbr_protective ==
  /\ pc = "mbr" /\ index < MBR_ENTRY_COUNT
  /\ table' = <<>>
  /\ pc' = "header"
  /\ UNCHANGED <<header, index, at, reader>>

(* partition_table_read returns, and what it kept of its own is gone.      *)
Found ==
  /\ pc' = IF table # <<>> THEN "table" ELSE "failed"
  /\ index' = 0
  /\ header' = [lba |-> 0, count |-> 0]
  /\ at' = 0
  /\ UNCHANGED <<table, reader>>

mbr_end == pc = "mbr" /\ index = MBR_ENTRY_COUNT /\ Found

(* The first sector, or the header, would not read or is not one.          *)
not_a_table ==
  /\ (pc = "mbr" /\ index = 0) \/ pc = "header"
  /\ pc' = "failed"
  /\ UNCHANGED <<table, header, index, at, reader>>

EntryLimit(count) == Min({count, PARTITION_MAX})

parse_gpt(lba, count) ==
  /\ pc = "header"
  /\ header' = [lba |-> lba, count |-> EntryLimit(count)]
  /\ index' = 0
  /\ pc' = "entries"
  /\ UNCHANGED <<table, at, reader>>

(* The product is the machine's; the sum after it is checked.              *)
EntryOffset == ((header.lba * SectorBytes) % WordSize) + index * EntryBytes

(* block_read_bytes: the whole range, and no sum that wraps.               *)
InRange(offset, length, sectors) ==
  /\ offset + length < WordSize
  /\ sectors = 0 \/ (offset + length - 1) \div SectorBytes < sectors

EntryReadable ==
  /\ InRange(EntryOffset, EntryBytes, sector_count)
  /\ EntryOffset + EntryBytes <= DeviceSectors * SectorBytes

(* A used entry; one that ends before it begins is skipped.                *)
gpt_entry(first, last) ==
  /\ pc = "entries" /\ index < header.count
  /\ EntryReadable
  /\ at' = EntryOffset
  /\ table' = IF last < first THEN table
              ELSE WithEntry(first, (last - first + 1) % WordSize)
  /\ index' = index + 1
  /\ UNCHANGED <<pc, header, reader>>

gpt_unused ==
  /\ pc = "entries" /\ index < header.count
  /\ EntryReadable
  /\ at' = EntryOffset
  /\ index' = index + 1
  /\ UNCHANGED <<pc, table, header, reader>>

(* The loop is over, or an entry would not read: what was found counts.    *)
gpt_end == pc = "entries" /\ Found

(* mount_one: the table is the caller's, and goes when one entry is chosen. *)
partition_open(i) ==
  /\ pc = "table"
  /\ view' = table[i]
  /\ table' = <<>>
  /\ pc' = "open"
  /\ UNCHANGED <<sector_count, header, index, at, request, walk, buffer, access, outcome>>

-----------------------------------------------------------------------------
(* Byte ranges of the open partition.                                      *)

tables == <<sector_count, table, header, index, at, view>>

block_read_bytes(offset, length) ==
  /\ pc = "open"
  /\ length # 0 /\ InRange(offset, length, view.sectors)
  /\ request' = [offset |-> offset, length |-> length]
  /\ walk' = [lba |-> offset \div SectorBytes, into |-> offset % SectorBytes,
              length |-> length]
  /\ buffer' = <<>>
  /\ outcome' = "none"
  /\ pc' = "reading"
  /\ UNCHANGED <<tables, access>>

(* Nothing is asked of the drive: an empty range reads, one outside the    *)
(* partition does not.                                                     *)
block_read_bytes_at_once(offset, length) ==
  /\ pc = "open"
  /\ length = 0 \/ ~ InRange(offset, length, view.sectors)
  /\ request' = [offset |-> offset, length |-> length]
  /\ buffer' = <<>>
  /\ outcome' = IF length = 0 THEN "read" ELSE "failed"
  /\ UNCHANGED <<tables, pc, walk, access>>

(* partition_read_sectors: checked against the partition's own size, then  *)
(* moved to where the partition is.                                        *)
Confined(lba, count) == lba + count <= view.sectors

(* Slip: the partition's start is added twice on the partial path.         *)
AbsoluteTwice(lba) == view.start + view.start + lba
Absolute(lba) == view.start + lba

(* Bytes from .. from + n - 1 of what begins at a sector of the disk.      *)
Bytes(sector, from, n) == [i \in 1 .. n |-> sector * SectorBytes + from + i - 1]

(* One request of the drive, which has the sectors; n bytes of what it     *)
(* returns are kept.                                                       *)
Transfer(count, n) ==
  /\ pc = "reading"
  /\ Confined(walk.lba, count)
  /\ Absolute(walk.lba) + count <= DeviceSectors
  /\ access' = [lba |-> Absolute(walk.lba), count |-> count]
  /\ buffer' = buffer \o Bytes(Absolute(walk.lba), walk.into, n)
  /\ walk' = [lba |-> walk.lba + count, into |-> 0, length |-> walk.length - n]
  /\ pc' = IF walk.length = n THEN "open" ELSE "reading"
  /\ outcome' = IF walk.length = n THEN "read" ELSE outcome
  /\ UNCHANGED <<tables, request>>

read_head ==
  /\ walk.into # 0
  /\ Transfer(1, Min({SectorBytes - walk.into, walk.length}))

(* Slip: as many sectors as are left, in one request.                      *)
ChunkUnbounded == walk.length \div SectorBytes
Chunk == Min({walk.length \div SectorBytes, MaxPerRead})

read_whole ==
  /\ walk.into = 0 /\ walk.length >= SectorBytes
  /\ Transfer(Chunk, Chunk * SectorBytes)

read_tail ==
  /\ walk.into = 0 /\ walk.length \in 1 .. SectorBytes - 1
  /\ Transfer(1, walk.length)

(* The drive, or the confinement, refuses: the whole range is refused.     *)
read_failed ==
  /\ pc = "reading"
  /\ pc' = "open"
  /\ outcome' = "failed"
  /\ UNCHANGED <<tables, request, walk, buffer, access>>

Next ==
  \/ \E start \in Starts, sectors \in Counts : mbr_entry(start, sectors)
  \/ mbr_empty
  \/ mbr_protective
  \/ mbr_end
  \/ not_a_table
  \/ \E lba \in Starts, count \in Counts : parse_gpt(lba, count)
  \/ \E first, last \in Starts : gpt_entry(first, last)
  \/ gpt_unused
  \/ gpt_end
  \/ \E i \in DOMAIN table : partition_open(i)
  \/ \E offset \in Offsets, length \in Lengths : block_read_bytes(offset, length)
  \/ \E offset \in Offsets, length \in Lengths : block_read_bytes_at_once(offset, length)
  \/ read_head
  \/ read_whole
  \/ read_tail
  \/ read_failed

Spec == Init /\ [][Next]_vars

-----------------------------------------------------------------------------
TypeOK ==
  /\ pc \in {"mbr", "header", "entries", "table", "open", "reading", "failed"}
  /\ table \in Seq(Partition) /\ Len(table) <= PARTITION_MAX
  /\ header \in [lba : 0 .. WordSize - 1, count : 0 .. PARTITION_MAX]
  /\ index \in Nat /\ at \in 0 .. WordSize - 1
  /\ view \in Partition
  /\ walk \in [lba : Nat, into : 0 .. SectorBytes - 1, length : 0 .. WordSize - 1]
  /\ outcome \in {"none", "read", "failed"}

(* "A partition claiming to extend past the disk is the one thing here     *)
(* that must never be believed": whatever the entries say.  On a disk that *)
(* will not say how large it is, none wraps round the end of a word.       *)
PartitionsOnDevice ==
  \A i \in DOMAIN table :
    table[i].start + table[i].sectors
      <= IF sector_count = 0 THEN WordSize - 1 ELSE sector_count

(* Whatever the layers above ask of a partition, no sector outside it is   *)
(* ever requested of the drive, and no request is empty or longer than a   *)
(* driver is told to expect (block.h).                                     *)
AccessConfined ==
  buffer # <<>> =>
    /\ view.start <= access.lba
    /\ access.lba + access.count <= view.start + view.sectors
    /\ access.count \in 1 .. MaxPerRead

(* A range that reads as a success is exactly the bytes asked for, however *)
(* it was cut into a head, runs of whole sectors and a tail.               *)
BytesAsAsked ==
  pc = "open" /\ outcome = "read" =>
    buffer = Bytes(view.start, request.offset, request.length)

(* architecture.md: "arithmetic on sizes derived from disk goes through    *)
(* the checked helpers".  A GPT entry is read where its header says it is. *)
EntriesReadAsPlaced ==
  pc = "entries" /\ index > 0 =>
    at = header.lba * SectorBytes + (index - 1) * EntryBytes
=============================================================================
