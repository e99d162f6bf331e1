------------------------------ MODULE MCParts ------------------------------
(***************************************************************************)
(* Parts with three pages of memory; a MADT of a few records of every   *)
(* length from none to too long; three buses of one device of two          *)
(* functions, wired in any way along two patterns, one of which closes on  *)
(* itself, with room to report three; a file of three headers over words   *)
(* of sixteen; and images of up to three pieces, a request of every kind,  *)
(* the halves of its magic and a request cut short among them; long names  *)
(* of two fragments among stray ones; ext2 volumes of three blocks, of two *)
(* pointers each, with files of up to sixteen; and configurations of five  *)
(* lines.                                                                  *)
(***************************************************************************)
EXTENDS Parts, SequencesExt

MCBuses == 0 .. Buses - 1
MCPlaces == MCBuses \X (0 .. Devices - 1) \X (0 .. Functions - 1)

MCMachines ==
  { [kind |-> k, behind |-> [p \in MCPlaces |-> (p[1] + p[3] + b) % Buses],
     multi |-> [d \in MCBuses \X (0 .. Devices - 1) |-> d[1] \in m]] :
      k \in [MCPlaces -> {"none", "device", "bridge"}], m \in {MCBuses, {0}}, b \in {0, 1} }

MCPlacements ==
  { [bias |-> bias, low |-> low, high |-> 12] : bias \in {-4, 0, 3}, low \in {0, 4, 12} }

Request(id, revision) ==
  << BOOT_REQUEST_MAGIC_LOW, BOOT_REQUEST_MAGIC_HIGH, id, revision, 0 >>

MCPieces ==
  { Request(id, 1) : id \in 1 .. 9 } \cup
  { Request(1, 3), Request(BOOT_REQUEST_MAGIC_LOW, BOOT_REQUEST_MAGIC_HIGH),
    << BOOT_REQUEST_MAGIC_LOW >>, << BOOT_REQUEST_MAGIC_HIGH >>,
    SubSeq(Request(2, 0), 1, 4) }

MCImages ==
  { FlattenSeq(pieces) : pieces \in UNION {[1 .. n -> MCPieces] : n \in 0 .. 2} } \cup
  { FlattenSeq(pieces) : pieces \in [1 .. 3 -> { Request(1, 2), Request(6, 0), << BOOT_REQUEST_MAGIC_LOW >>,
                                                 << BOOT_REQUEST_MAGIC_HIGH >> }] }

MCName == << "a", "b" >>

Fragment(sequence, last, units) ==
  [sequence : {sequence}, last : {last}, checksum : Checksums, unit : units]

MCFragments ==
  Fragment(2, TRUE, {"b"}) \cup Fragment(1, FALSE, {"a"}) \cup
  { [sequence |-> 2, last |-> TRUE,  checksum |-> 0, unit |-> "end"],
    [sequence |-> 2, last |-> FALSE, checksum |-> 0, unit |-> "a"],
    [sequence |-> 1, last |-> FALSE, checksum |-> 0, unit |-> "b"],
    [sequence |-> 1, last |-> TRUE,  checksum |-> 0, unit |-> "a"],
    [sequence |-> 3, last |-> TRUE,  checksum |-> 0, unit |-> "a"],
    [sequence |-> 1, last |-> FALSE, checksum |-> 0, unit |-> "other"] }

Superblock ==
  [magic |-> TRUE, log_block_size |-> 0, sector_bytes |-> 2, sector_count |-> 0, extents |-> FALSE,
   blocks_per_group |-> 3, inodes_per_group |-> 2, block_count |-> 3, inode_count |-> 3,
   original |-> FALSE, inode_bytes |-> 2]

MCSuperblocks ==
  { [Superblock EXCEPT !.inode_bytes = n, !.log_block_size = l] : n \in {1, 2, 3, 4, 8}, l \in 0 .. 2 } \cup
  { [Superblock EXCEPT !.magic = FALSE], [Superblock EXCEPT !.extents = TRUE],
    [Superblock EXCEPT !.original = TRUE], [Superblock EXCEPT !.sector_bytes = 8],
    [Superblock EXCEPT !.sector_count = 5], [Superblock EXCEPT !.sector_count = 6],
    [Superblock EXCEPT !.inode_count = 0], [Superblock EXCEPT !.inodes_per_group = 0] }

MCRecords == [inode : {0, 3, 4}, record : {0, 2, 3, 4}, name_length : {1, 2}, wanted : BOOLEAN]

MCAsks == [offset : {0, 3, 4, 7, 11, 12, 27, 28, 56, 59}, length : {1, 2, 5}]

Setting(name, values) == [kind : {"setting"}, key : {name}, value : values]

MCLines ==
  [kind : {"entry"}, name : {"a", "b", ""}] \cup [kind : {"long", "junk"}] \cup
  Setting("timeout", {1, 3}) \cup Setting("default", {"b", ""}) \cup
  Setting("kernel", {"x", "y", ""}) \cup Setting("cmdline", {"x"}) \cup
  Setting("module", {"x", "y"}) \cup Setting("other", {"x"})
=============================================================================
