---------------------------------- MODULE Fat ----------------------------------
(***************************************************************************)
(* src/fs/fat.c: mounting a FAT32 volume and reading bytes of a file by    *)
(* following its cluster chain.                                            *)
(*                                                                         *)
(* The volume is whatever the disk holds: the numbers of its first sector  *)
(* are any numbers, the allocation table is any function, and a file's     *)
(* first cluster and size are whatever its directory entry says.  Two      *)
(* things are remembered from one read to the next, the last sector of the *)
(* allocation table and, per file, how far along the chain the last read   *)
(* got; a read may end in the middle of either, because the drive failed   *)
(* or the chain did.                                                       *)
(*                                                                         *)
(* An entry of the table is one byte here and a byte read from the disk is *)
(* named by its position.                                                  *)
(***************************************************************************)
EXTENDS Integers, Sequences, FiniteSets, FiniteSetsExt

CONSTANTS
  SectorBytes,      \* bytes of a sector, and entries of the table in one
  DeviceSectors,    \* of the partition
  Headers,          \* what the first sector may say
  End,              \* FAT_CLUSTER_END, greater than every cluster
  Firsts, Sizes,    \* what a directory entry may say of a file
  Offsets, Lengths  \* what fat_read is asked for

FAT_FIRST_DATA_CLUSTER == 2

ASSUME FatAssumption ==
  /\ SectorBytes \in Nat \ {0} /\ DeviceSectors \in Nat \ {0}
  /\ Headers \subseteq [reserved : Nat, fats : Nat, sectors_per_fat : Nat,
                        total : Nat, sectors_per_cluster : Nat, root : Nat]
  /\ End \in Nat /\ End > DeviceSectors + FAT_FIRST_DATA_CLUSTER
  /\ Firsts \cup Sizes \cup Offsets \cup Lengths \subseteq Nat

VARIABLES
  pc,         \* "unmounted", "mounted", "idle", "advance", "take", "link"
  volume,     \* struct fat_volume, but for the two below
  fat,        \* what the allocation table holds on disk
  fat_sector, \* the table's sector in memory: whether there is one, which one
              \* fat_sector_index says it is, and which one it holds
  file,       \* struct fat_file: first cluster and size
  walk,       \* its struct fat_walk
  request,    \* the arguments of fat_read
  locals,     \* of read_chain: cluster, links to go, bytes to go, both counters
  data,       \* the bytes delivered
  access,     \* the last range asked of the device, in bytes
  outcome     \* of the last fat_read

vars == <<pc, volume, fat, fat_sector, file, walk, request, locals, data, access, outcome>>

NoVolume == [fat_start |-> 0, sectors_per_fat |-> 0, data_start |-> 0,
             sectors_per_cluster |-> 1, cluster_count |-> 0]
NoAccess == [of |-> "none", from |-> 0, to |-> 0]
NoWalk == [valid |-> FALSE, cluster |-> 0, offset |-> 0]
NoLocals == [cluster |-> 0, count |-> 0, index |-> 0, length |-> 0, steps |-> 0, walked |-> 0]

Init ==
  /\ pc = "unmounted"
  /\ volume = NoVolume
  /\ fat = <<>>
  /\ fat_sector = [valid |-> FALSE, index |-> 0, holds |-> 0]
  /\ file = [first |-> 0, size |-> 0]
  /\ walk = NoWalk
  /\ request = [offset |-> 0, length |-> 0]
  /\ locals = NoLocals
  /\ data = <<>>
  /\ access = NoAccess
  /\ outcome = "none"

-----------------------------------------------------------------------------
(* The volume.                                                             *)

ClustersFrom(count) == FAT_FIRST_DATA_CLUSTER .. FAT_FIRST_DATA_CLUSTER + count - 1

(* Slip: the number of clusters is taken for the last cluster's number.    *)
cluster_in_range_to_end(cluster) ==
  cluster \in FAT_FIRST_DATA_CLUSTER .. FAT_FIRST_DATA_CLUSTER + volume.cluster_count
cluster_in_range(cluster) == cluster \in ClustersFrom(volume.cluster_count)

cluster_bytes == volume.sectors_per_cluster * SectorBytes

cluster_sector(cluster) ==
  volume.data_start + (cluster - FAT_FIRST_DATA_CLUSTER) * volume.sectors_per_cluster

DataStart(h) == h.reserved + h.fats * h.sectors_per_fat

Mountable(h) ==
  /\ h.sectors_per_fat # 0 /\ h.reserved # 0 /\ h.fats # 0
  /\ h.sectors_per_cluster \in {1, 2, 4, 8, 16, 32, 64, 128}
  /\ h.total # 0 /\ h.total <= DeviceSectors
  /\ DataStart(h) < h.total
  /\ (h.total - DataStart(h)) \div h.sectors_per_cluster # 0

Geometry(h) ==
  [fat_start |-> h.reserved, sectors_per_fat |-> h.sectors_per_fat,
   data_start |-> DataStart(h), sectors_per_cluster |-> h.sectors_per_cluster,
   cluster_count |-> (h.total - DataStart(h)) \div h.sectors_per_cluster]

(* The table on the disk has an entry for every cluster number up to the   *)
(* last one the volume has, whether or not sectors_per_fat reaches it: a   *)
(* copy, or the data, begins where it ends.                                *)
fat_mount(h) ==
  /\ pc = "unmounted"
  /\ Mountable(h)
  /\ h.root \in ClustersFrom(Geometry(h).cluster_count)
  /\ volume' = Geometry(h)
  /\ \E table \in [ClustersFrom(Geometry(h).cluster_count)
                     -> {0, End} \cup ClustersFrom(Geometry(h).cluster_count)] : fat' = table
  /\ pc' = "mounted"
  /\ UNCHANGED <<fat_sector, file, walk, request, locals, data, access, outcome>>

fat_mount_refused(h) ==
  /\ pc = "unmounted"
  /\ \/ ~ Mountable(h)
     \/ h.root \notin ClustersFrom(Geometry(h).cluster_count)
  /\ UNCHANGED vars

(* Slip: the walk of the file that was open before is left in place.       *)
FreshWalkKept == walk
FreshWalk == NoWalk

(* fat_open, at its end: the entry's first cluster and size as they are.   *)
fat_open(first, size) ==
  /\ pc \in {"mounted", "idle"}
  /\ file' = [first |-> first, size |-> size]
  /\ walk' = FreshWalk
  /\ request' = [offset |-> 0, length |-> 0]
  /\ data' = <<>>
  /\ outcome' = "none"
  /\ pc' = "idle"
  /\ access' = NoAccess
  /\ UNCHANGED <<volume, fat, fat_sector, locals>>

-----------------------------------------------------------------------------
(* One link of a chain.                                                    *)

entries_per_fat == volume.sectors_per_fat * SectorBytes

CanFollow(cluster) == cluster_in_range(cluster) /\ cluster < entries_per_fat

SectorOf(cluster) == volume.fat_start + cluster \div SectorBytes

(* Slip: any sector of the table that was read before will do.             *)
CachedAny(cluster) == fat_sector.valid
Cached(cluster) == fat_sector.valid /\ fat_sector.index = SectorOf(cluster)

(* next_cluster as far as the sector: read it unless it is there.          *)
Fetch(cluster) ==
  IF Cached(cluster) THEN UNCHANGED <<fat_sector, access>>
  ELSE /\ fat_sector' = [valid |-> TRUE, index |-> SectorOf(cluster), holds |-> SectorOf(cluster)]
       /\ access' = [of |-> "fat", from |-> SectorOf(cluster) * SectorBytes,
                     to |-> (SectorOf(cluster) + 1) * SectorBytes]

(* What is at the cluster's place in a sector of the table.  Only entries  *)
(* of clusters have been given values; the two before them are reserved.   *)
EntryIn(sector, cluster) ==
  LET at == (sector - volume.fat_start) * SectorBytes + (cluster % SectorBytes)
  IN  IF at \in DOMAIN fat THEN fat[at] ELSE 0

is_end_of_chain(cluster) == cluster >= End

(* What was delivered before a failure is not looked at.                   *)
Failed ==
  /\ pc' = "idle"
  /\ outcome' = "failed"
  /\ data' = <<>>
  /\ locals' = NoLocals

-----------------------------------------------------------------------------
(* fat_read and read_chain.                                                *)

WalkUsable(target) == walk.valid /\ walk.offset <= target

fat_read(offset, length) ==
  LET target == offset \div cluster_bytes
  IN  /\ pc = "idle"
      /\ length # 0 /\ offset + length <= file.size
      /\ request' = [offset |-> offset, length |-> length]
      /\ locals' =
           [NoLocals EXCEPT
              !.cluster = IF WalkUsable(target) THEN walk.cluster ELSE file.first,
              !.count = target - (IF WalkUsable(target) THEN walk.offset ELSE 0),
              !.index = target,
              !.length = length]
      /\ data' = <<>>
      /\ outcome' = "none"
      /\ pc' = "advance"
      /\ access' = NoAccess
      /\ UNCHANGED <<volume, fat, fat_sector, file, walk>>

fat_read_at_once(offset, length) ==
  /\ pc = "idle"
  /\ length = 0 \/ offset + length > file.size
  /\ request' = [offset |-> offset, length |-> length]
  /\ data' = <<>>
  /\ outcome' = IF length = 0 THEN "read" ELSE "failed"
  /\ access' = NoAccess
  /\ UNCHANGED <<pc, volume, fat, fat_sector, file, walk, locals>>

(* advance: one link.  Slip: without counting them.                        *)
WithinBoundNever(count) == TRUE
WithinBound(count) == count <= volume.cluster_count

advance ==
  /\ pc = "advance" /\ locals.count > 0
  /\ CanFollow(locals.cluster)
  /\ Fetch(locals.cluster)
  /\ LET next == EntryIn(fat_sector'.holds, locals.cluster)
         good == /\ ~ is_end_of_chain(next) /\ cluster_in_range(next)
                 /\ WithinBound(locals.steps + 1)
     IN  \/ /\ good
            /\ locals' = [locals EXCEPT !.cluster = next, !.count = @ - 1, !.steps = @ + 1]
            /\ UNCHANGED <<pc, data, outcome>>
         \/ ~ good /\ Failed
  /\ UNCHANGED <<volume, fat, file, walk, request>>

(* The walk is remembered before anything has been read.                   *)
advanced ==
  /\ pc = "advance" /\ locals.count = 0
  /\ walk' = [valid |-> TRUE, cluster |-> locals.cluster, offset |-> locals.index]
  /\ pc' = "take"
  /\ UNCHANGED <<volume, fat, fat_sector, file, request, locals, data, access, outcome>>

into_cluster == IF data = <<>> THEN request.offset % cluster_bytes ELSE 0
Taken == Min({cluster_bytes - into_cluster, locals.length})

take ==
  LET from == cluster_sector(locals.cluster) * SectorBytes + into_cluster
  IN  /\ pc = "take"
      /\ cluster_in_range(locals.cluster)
      /\ access' = [of |-> "data", from |-> from, to |-> from + Taken]
      /\ data' = data \o [i \in 1 .. Taken |-> from + i - 1]
      /\ IF locals.length = Taken
           THEN pc' = "idle" /\ outcome' = "read" /\ locals' = NoLocals
           ELSE /\ pc' = "link"
                /\ locals' = [locals EXCEPT !.length = @ - Taken]
                /\ UNCHANGED outcome
      /\ UNCHANGED <<volume, fat, fat_sector, file, walk, request>>

link ==
  /\ pc = "link"
  /\ CanFollow(locals.cluster)
  /\ Fetch(locals.cluster)
  /\ LET next == EntryIn(fat_sector'.holds, locals.cluster)
         good == ~ is_end_of_chain(next) /\ WithinBound(locals.walked + 1)
     IN  \/ /\ good
            /\ locals' = [locals EXCEPT !.cluster = next, !.walked = @ + 1]
            /\ pc' = "take"
            /\ UNCHANGED <<data, outcome>>
         \/ ~ good /\ Failed
  /\ UNCHANGED <<volume, fat, file, walk, request>>

(* A cluster that is none, or is past the end of the table.                *)
not_followed ==
  /\ \/ pc = "advance" /\ locals.count > 0 /\ ~ CanFollow(locals.cluster)
     \/ pc = "take" /\ ~ cluster_in_range(locals.cluster)
     \/ pc = "link" /\ ~ CanFollow(locals.cluster)
  /\ Failed
  /\ UNCHANGED <<volume, fat, fat_sector, file, walk, request, access>>

(* The device refuses a sector; it has written nothing (ata_read_sectors). *)
device_failed ==
  /\ \/ pc = "take" /\ cluster_in_range(locals.cluster)
     \/ /\ \/ pc = "advance" /\ locals.count > 0
           \/ pc = "link"
        /\ CanFollow(locals.cluster) /\ ~ Cached(locals.cluster)
  /\ Failed
  /\ UNCHANGED <<volume, fat, fat_sector, file, walk, request, access>>

Step == advance \/ advanced \/ take \/ link \/ not_followed \/ device_failed

Next ==
  \/ \E h \in Headers : fat_mount(h)
  \/ \E h \in Headers : fat_mount_refused(h)
  \/ \E first \in Firsts, size \in Sizes : fat_open(first, size)
  \/ \E offset \in Offsets, length \in Lengths : fat_read(offset, length)
  \/ \E offset \in Offsets, length \in Lengths : fat_read_at_once(offset, length)
  \/ Step

Spec == Init /\ [][Next]_vars

-----------------------------------------------------------------------------
TypeOK ==
  /\ pc \in {"unmounted", "mounted", "idle", "advance", "take", "link"}
  /\ volume \in [fat_start : Nat, sectors_per_fat : Nat, data_start : Nat,
                 sectors_per_cluster : Nat \ {0}, cluster_count : Nat]
  /\ fat_sector \in [valid : BOOLEAN, index : Nat, holds : Nat]
  /\ walk \in [valid : BOOLEAN, cluster : Nat, offset : Nat]
  /\ locals \in [cluster : Nat, count : Nat, index : Nat, length : Nat, steps : Nat, walked : Nat]
  /\ outcome \in {"none", "read", "failed"}

(* What the table on the disk says follows a cluster: 0 if it says nothing *)
(* of it.                                                                  *)
AfterOnDisk(cluster) ==
  IF cluster \in DOMAIN fat /\ cluster < entries_per_fat THEN fat[cluster] ELSE 0

(* The file's clusters in order, from the table on the disk alone.         *)
Chain ==
  LET clusters[i \in 0 .. (file.size \div cluster_bytes) + 1] ==
        IF i = 0 THEN file.first ELSE AfterOnDisk(clusters[i - 1])
  IN  clusters

ByteOfFile(position) ==
  cluster_sector(Chain[position \div cluster_bytes]) * SectorBytes + (position % cluster_bytes)

(* A read that succeeds delivers exactly the file's bytes at that offset,  *)
(* in chain order: whatever was read before it, whichever sector of the    *)
(* table is in memory, wherever the last walk stopped and however it       *)
(* failed, and whatever the chain looks like.                              *)
BytesAreTheFiles ==
  pc = "idle" /\ outcome = "read" =>
    /\ Len(data) = request.length
    /\ \A i \in DOMAIN data : data[i] = ByteOfFile(request.offset + i - 1)

(* What is remembered of a walk is a place on this file's chain, or it is  *)
(* not used: a later read starts from it without looking back.             *)
WalkIsOnTheChain ==
  walk.valid => /\ walk.offset * cluster_bytes < file.size
                /\ walk.cluster = Chain[walk.offset]

(* "Every field that decides where a read lands is checked against the     *)
(* volume it came from": the table's reads stay in its first copy and the  *)
(* data's inside one cluster of the volume, which is inside the partition. *)
ReadsStayInPlace ==
  CASE access.of = "fat" ->
         /\ volume.fat_start * SectorBytes <= access.from
         /\ access.to <= (volume.fat_start + volume.sectors_per_fat) * SectorBytes
    [] access.of = "data" ->
         \E cluster \in ClustersFrom(volume.cluster_count) :
           /\ cluster_sector(cluster) * SectorBytes <= access.from
           /\ access.to <= (cluster_sector(cluster) + volume.sectors_per_cluster) * SectorBytes
           /\ access.to <= DeviceSectors * SectorBytes
    [] OTHER -> TRUE

(* "A FAT that loops back on itself ends the walk instead of the boot":    *)
(* a read never goes on for longer than the volume has clusters, however   *)
(* long the file claims to be.                                             *)
LoopsEndTheRead == Len(data) <= (volume.cluster_count + 1) * cluster_bytes
=============================================================================
