-------------------------------- MODULE Ext2 --------------------------------
(***************************************************************************)
(* src/fs/ext2.c: mounting a volume, following a path through directories, *)
(* and reading a file through up to three levels of indirection.           *)
(*                                                                         *)
(* What the disk holds is chosen when it is first read and remembered: a   *)
(* pointer by the block it is in and its place there, those of an inode as *)
(* a block of its own.  A byte is the block it is in and its place.  Every *)
(* read of the device may fail.                                            *)
(***************************************************************************)
EXTENDS Integers, Sequences, FiniteSets, FiniteSetsExt

CONSTANTS
  Superblocks,             \* with the device's sectors
  Pointers,                \* numbers the disk may hold
  FileSizes, Records,      \* Records: what a directory entry says of itself
  Asks,                    \* [offset, length] of the reads
  Components,              \* of the path
  EXT2_MIN_BLOCK_BYTES, EXT2_MAX_LOG_BLOCK_SIZE, EXT2_ORIGINAL_INODE_BYTES,
  EXT2_POINTER_BYTES, EXT2_DIRECT_BLOCKS, EXT2_DIRENT_MIN_BYTES

(* A size is a power of two when it has one bit.                           *)
TwoTo[k \in Nat] == IF k = 0 THEN 1 ELSE 2 * TwoTo[k - 1]

(* Slip: any size between the least and a block is taken.                  *)
PowerOfTwoAlways(n) == TRUE
PowerOfTwo(n) == \E k \in 0 .. n : n = TwoTo[k]

Ext2Assumption ==
  /\ {EXT2_MIN_BLOCK_BYTES, EXT2_ORIGINAL_INODE_BYTES, EXT2_POINTER_BYTES, EXT2_DIRENT_MIN_BYTES,
      EXT2_DIRECT_BLOCKS} \subseteq Nat \ {0}
  /\ PowerOfTwo(EXT2_MIN_BLOCK_BYTES) /\ EXT2_POINTER_BYTES <= EXT2_MIN_BLOCK_BYTES
  /\ {EXT2_MAX_LOG_BLOCK_SIZE, Components} \cup Pointers \cup FileSizes \subseteq Nat
  /\ Superblocks \subseteq [magic : BOOLEAN, log_block_size : Nat, sector_bytes : Nat \ {0}, sector_count : Nat,
       extents : BOOLEAN, blocks_per_group : Nat, inodes_per_group : Nat, block_count : Nat,
       inode_count : Nat, original : BOOLEAN, inode_bytes : Nat]
  /\ Records \subseteq [inode : Nat, record : Nat, name_length : Nat, wanted : BOOLEAN]
  /\ Asks \subseteq [offset : Nat, length : Nat]

BLOCK_HOLE == 0
EXT2_ROOT_INODE == 2
Inode == -1                \* the block of an inode's own pointers

VARIABLES
  step,        \* "mounting", "inode", "directory", "open", "reading", "read" or "refused"
  volume,
  sought,      \* the inode to be read, or 0
  inode_at,    \* where it was read, while that is of interest
  components,  \* of the path still to be found
  file,        \* [directory, size] of the inode that was read
  position,    \* in the directory
  ask, walk,   \* a read, and the walk to the block it is at
  disk, delivered

vars == <<step, volume, sought, inode_at, components, file, position, ask, walk, disk, delivered>>

NoWalk == [block |-> BLOCK_HOLE, depth |-> -1, index |-> 0]
Nowhere == -1

Init ==
  /\ step = "mounting" /\ volume \in Superblocks
  /\ sought = 0 /\ inode_at = Nowhere /\ components = Components
  /\ file = [directory |-> TRUE, size |-> 0] /\ position = 0
  /\ ask = [offset |-> 0, length |-> 0] /\ walk = NoWalk
  /\ disk = <<>> /\ delivered = <<>>

-----------------------------------------------------------------------------
BlockBytes == EXT2_MIN_BLOCK_BYTES * TwoTo[volume.log_block_size]
PerBlock == BlockBytes \div EXT2_POINTER_BYTES
InodeBytes == IF volume.original THEN EXT2_ORIGINAL_INODE_BYTES ELSE volume.inode_bytes

Mountable ==
  /\ volume.magic
  /\ volume.log_block_size <= EXT2_MAX_LOG_BLOCK_SIZE
  /\ BlockBytes % volume.sector_bytes = 0
  /\ ~ volume.extents
  /\ 0 \notin {volume.blocks_per_group, volume.inodes_per_group, volume.block_count, volume.inode_count}
  /\ InodeBytes \in EXT2_ORIGINAL_INODE_BYTES .. BlockBytes /\ PowerOfTwo(InodeBytes)
  /\ volume.sector_count # 0 =>
       volume.block_count * BlockBytes <= volume.sector_count * volume.sector_bytes

ext2_mount ==
  /\ step = "mounting"
  /\ step' = IF Mountable THEN "inode" ELSE "refused"
  /\ sought' = EXT2_ROOT_INODE
  /\ UNCHANGED <<volume, inode_at, components, file, position, ask, walk, disk, delivered>>

(* Slip: the block after the last one is taken for the last.               *)
InVolumeOrNext(block) == block \in 1 .. volume.block_count
InVolume(block) == block \in 1 .. volume.block_count - 1

(* A step may end in a refusal, whatever the step.                         *)
Refuse ==
  /\ step' = "refused"
  /\ UNCHANGED <<volume, sought, inode_at, components, file, position, ask, walk, disk, delivered>>

(* The group of an inode says which block its table begins in.  What a     *)
(* path begins in or goes on through is a directory.                       *)
read_inode(table_block, directory, size) ==
  /\ step = "inode"
  /\ sought \in 1 .. volume.inode_count
  /\ (components = 0 /\ Components # 0) \/ directory
  /\ InVolume(table_block)
  /\ inode_at' = table_block * BlockBytes + ((sought - 1) % volume.inodes_per_group) * InodeBytes
  /\ file' = [directory |-> directory, size |-> size]
  /\ step' = IF components = 0 THEN "open" ELSE "directory"
  /\ sought' = 0 /\ position' = 0
  /\ UNCHANGED <<volume, components, ask, walk, disk, delivered>>

read_inode_refused == step = "inode" /\ Refuse

(* The next record of a directory.                                         *)
Remaining == file.size - position

RecordFits(r) ==
  r.record \in EXT2_DIRENT_MIN_BYTES .. Remaining /\ EXT2_DIRENT_MIN_BYTES + r.name_length <= r.record

Entry(r) == step = "directory" /\ EXT2_DIRENT_MIN_BYTES <= Remaining /\ RecordFits(r) /\ inode_at' = Nowhere

Matches(r) == r.inode # 0 /\ r.wanted

next_record(r) ==
  /\ Entry(r)
  /\ ~ Matches(r)
  /\ position' = position + r.record
  /\ UNCHANGED <<step, volume, sought, components, file, ask, walk, disk, delivered>>

name_found(r) ==
  /\ Entry(r)
  /\ Matches(r)
  /\ sought' = r.inode /\ components' = components - 1 /\ step' = "inode"
  /\ UNCHANGED <<volume, file, position, ask, walk, disk, delivered>>

(* The end of the directory, a record that is not one, or a failed read.   *)
not_found == step = "directory" /\ Refuse

-----------------------------------------------------------------------------
ext2_read(a) ==
  /\ step = "open"
  /\ ~ file.directory /\ a.length > 0 /\ a.offset + a.length <= file.size
  /\ ask' = a /\ step' = "reading" /\ inode_at' = Nowhere /\ position' = 0
  /\ UNCHANGED <<volume, sought, components, file, walk, disk, delivered>>

(* Where the read has got to, and the block of the file that is in.        *)
Offset == ask.offset + Len(delivered)
Index == Offset \div BlockBytes
IntoBlock == Offset % BlockBytes

(* The blocks of the file that one pointer leads to, from so deep, and     *)
(* those that come before all that are as deep.                            *)
Span(depth) == << 1, PerBlock, PerBlock * PerBlock, PerBlock * PerBlock * PerBlock >>[depth + 1]
Before(depth) ==
  EXT2_DIRECT_BLOCKS + << 0, Span(1), Span(1) + Span(2), Span(1) + Span(2) + Span(3) >>[depth]

(* Slip: the first block of the next level is taken for one of this.       *)
ReachesOneMore(depth) == Index <= Before(depth + 1)
Reaches(depth) == Index < Before(depth + 1)

(* A pointer of the disk, as it is or as it turns out to be.               *)
Holds(block, slot, pointer) ==
  /\ <<block, slot>> \in DOMAIN disk => disk[<<block, slot>>] = pointer
  /\ disk' = [place \in DOMAIN disk \cup {<<block, slot>>} |->
                IF place = <<block, slot>> THEN pointer ELSE disk[place]]

Resolving == step = "reading" /\ walk = NoWalk

resolve_direct(pointer) ==
  /\ Resolving
  /\ Index < EXT2_DIRECT_BLOCKS
  /\ Holds(Inode, Index, pointer)
  /\ walk' = [block |-> pointer, depth |-> 0, index |-> 0]
  /\ UNCHANGED <<step, volume, sought, inode_at, components, file, position, ask, delivered>>

resolve_indirect(depth, pointer) ==
  /\ Resolving
  /\ Index >= EXT2_DIRECT_BLOCKS
  /\ Reaches(depth) /\ \A less \in 1 .. depth - 1 : ~ Reaches(less)
  /\ Holds(Inode, EXT2_DIRECT_BLOCKS + depth - 1, pointer)
  /\ walk' = [block |-> pointer, depth |-> depth, index |-> Index - Before(depth)]
  /\ UNCHANGED <<step, volume, sought, inode_at, components, file, position, ask, delivered>>

descend(pointer) ==
  /\ step = "reading" /\ walk.depth > 0
  /\ InVolume(walk.block)
  /\ LET span == Span(walk.depth - 1) IN
       /\ Holds(walk.block, walk.index \div span, pointer)
       /\ walk' = [block |-> pointer, depth |-> walk.depth - 1, index |-> walk.index % span]
  /\ UNCHANGED <<step, volume, sought, inode_at, components, file, position, ask, delivered>>

Take == Min({BlockBytes - IntoBlock, ask.length - Len(delivered)})

Deliver(bytes) ==
  /\ delivered' = delivered \o bytes
  /\ walk' = NoWalk
  /\ step' = IF Len(delivered') = ask.length THEN "read" ELSE "reading"
  /\ UNCHANGED <<volume, sought, inode_at, components, file, position, ask, disk>>

Zero == <<BLOCK_HOLE, 0>>

(* A pointer to nothing, at any level, is zeroes.                          *)
hole ==
  /\ step = "reading" /\ walk # NoWalk
  /\ walk.block = BLOCK_HOLE
  /\ Deliver([i \in 1 .. Take |-> Zero])

read_block ==
  /\ step = "reading" /\ walk.depth = 0
  /\ InVolume(walk.block)
  /\ Deliver([i \in 1 .. Take |-> <<walk.block, IntoBlock + i - 1>>])

(* A pointer out of the volume, a block no pointer leads to, or a read     *)
(* that fails.                                                             *)
read_refused == step = "reading" /\ Refuse

Next ==
  \/ ext2_mount
  \/ \E block \in Pointers, directory \in BOOLEAN, size \in FileSizes : read_inode(block, directory, size)
  \/ read_inode_refused
  \/ \E r \in Records : next_record(r) \/ name_found(r)
  \/ not_found
  \/ \E a \in Asks : ext2_read(a)
  \/ \E pointer \in Pointers :
       \/ resolve_direct(pointer)
       \/ \E depth \in 1 .. 3 : resolve_indirect(depth, pointer)
       \/ descend(pointer)
  \/ hole
  \/ read_block
  \/ read_refused

Spec == Init /\ [][Next]_vars

-----------------------------------------------------------------------------
(* The blocks of a file in the order of the file, each as the way to it    *)
(* from the inode: by length, and then as one counts.                      *)
Ways ==
  LET Places == 0 .. PerBlock - 1 IN
  { <<i>> : i \in 0 .. EXT2_DIRECT_BLOCKS - 1 } \cup
  { <<EXT2_DIRECT_BLOCKS, i>> : i \in Places } \cup
  { <<EXT2_DIRECT_BLOCKS + 1, i, j>> : i, j \in Places } \cup
  { <<EXT2_DIRECT_BLOCKS + 2, i, j, k>> : i, j, k \in Places }
Earlier(v, w) ==
  \/ Len(v) < Len(w)
  \/ /\ Len(v) = Len(w)
     /\ \E i \in DOMAIN v : v[i] < w[i] /\ \A j \in 1 .. i - 1 : v[j] = w[j]
WayTo(n) == CHOOSE w \in Ways : Cardinality({v \in Ways : Earlier(v, w)}) = n

(* What is at the end of a way on this disk; a pointer nobody has read yet *)
(* leads to no block.                                                      *)
Unread == -2
PointerAt(block, slot) ==
  IF block = BLOCK_HOLE THEN block
  ELSE IF <<block, slot>> \in DOMAIN disk THEN disk[<<block, slot>>] ELSE Unread
BlockAt(way) ==
  LET reached[n \in 0 .. Len(way)] == IF n = 0 THEN Inode ELSE PointerAt(reached[n - 1], way[n])
  IN reached[Len(way)]

(* A read that succeeds delivers the bytes of the file, in order, each     *)
(* from the block the inode's tree has in that place, zeroes where it has  *)
(* none, and never one from a block that is not the volume's.              *)
Ext2BytesAreTheFiles ==
  step = "read" =>
    \A i \in DOMAIN delivered :
      LET at == ask.offset + i - 1
          block == BlockAt(WayTo(at \div BlockBytes))
      IN IF block = BLOCK_HOLE THEN delivered[i] = Zero
         ELSE delivered[i] = <<block, at % BlockBytes>> /\ block < volume.block_count

(* What mounting checks is enough for reading an inode in one piece: it    *)
(* lies in one block, whichever it is.                                     *)
InodeInOneBlock ==
  inode_at # Nowhere =>
    (inode_at % BlockBytes) + EXT2_ORIGINAL_INODE_BYTES <= BlockBytes

(* Where a path or a read comes to, whatever the records of a directory    *)
(* claim of their length.                                                  *)
Ended == step \in {"open", "read", "refused"}
=============================================================================
