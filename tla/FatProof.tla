------------------------------- MODULE FatProof -------------------------------
(***************************************************************************)
(* Fat proved for volumes of any geometry, tables of any contents, files   *)
(* of any claimed length and any ranges: ReadsStayInPlace,                 *)
(* LoopsEndTheRead, BytesAreTheFiles and WalkIsOnTheChain.                 *)
(*                                                                         *)
(* The first rests on what mounting leaves true of the volume, that its    *)
(* clusters end within the partition; the second on the walk's count of    *)
(* links, which bounds what has been delivered at every step of a read.    *)
(* The other two rest on where a read stands: at which place of the file's *)
(* chain its cluster is, before and after each link, and how many bytes    *)
(* that place is from the range's start.  The chain is a function that     *)
(* the table defines by recursion; what it holds at each place follows     *)
(* from its value at the one before, by induction over its length.         *)
(***************************************************************************)
EXTENDS Fat, WellFoundedInduction, TLAPS

Volumes ==
  [fat_start : Nat, sectors_per_fat : Nat, data_start : Nat,
   sectors_per_cluster : Nat \ {0}, cluster_count : Nat]

Locals ==
  [cluster : Nat, count : Int, index : Int, length : Nat, steps : Int, walked : Int]

(* What a mounted volume is, and that its clusters are on the partition.   *)
VolumeInv ==
  /\ volume \in Volumes
  /\ volume.data_start + volume.cluster_count * volume.sectors_per_cluster <= DeviceSectors
  /\ \A i \in DOMAIN fat : fat[i] \in Nat

Typed ==
  /\ file.first \in Nat
  /\ walk.offset \in Int /\ walk.cluster \in Nat
  /\ request.offset \in Nat
  /\ locals \in Locals
  /\ data \in Seq(Int)

(* Nothing has been asked for or delivered of a volume not yet there.      *)
Fresh ==
  /\ pc = "unmounted" => access.of = "none"
  /\ pc \in {"unmounted", "mounted", "advance"} => data = <<>>

(* What was delivered is no more than a cluster for each link followed.    *)
Counted ==
  /\ pc \in {"advance", "take", "link"} => locals.walked \in 0 .. volume.cluster_count
  /\ pc = "take" => Len(data) <= locals.walked * cluster_bytes
  /\ pc = "link" => Len(data) <= (locals.walked + 1) * cluster_bytes
  /\ LoopsEndTheRead

IInv == VolumeInv /\ Typed /\ Fresh /\ Counted /\ ReadsStayInPlace

-----------------------------------------------------------------------------
(* Arithmetic.                                                             *)
LEMMA DivMod ==
  ASSUME NEW a \in Nat, NEW b \in Nat \ {0}
  PROVE  /\ a \div b \in Nat /\ a % b \in 0 .. b - 1
         /\ a = (a \div b) * b + (a % b)
  OBVIOUS

LEMMA ProductOrder ==
  ASSUME NEW a \in Nat, NEW b \in Nat, NEW c \in Nat, a <= b
  PROVE  a * c <= b * c /\ a * c \in Nat /\ b * c \in Nat
  OBVIOUS

LEMMA DivDown ==
  ASSUME NEW a \in Nat, NEW b \in Nat \ {0}
  PROVE  (a \div b) * b <= a
<1> DEFINE product == (a \div b) * b
<1>1. product \in Nat /\ a % b \in Nat /\ a = product + (a % b)
  BY DivMod
<1> HIDE DEF product
<1>2. product <= a
  BY <1>1
<1> QED
  BY <1>2 DEF product

(* Fewer than a number of whole sectors is within one of them.             *)
LEMMA DivBelow ==
  ASSUME NEW a \in Nat, NEW b \in Nat \ {0}, NEW c \in Nat, a < c * b
  PROVE  a \div b + 1 <= c
<1> SUFFICES ASSUME c <= a \div b PROVE FALSE
  BY DivMod
<1>1. c * b <= (a \div b) * b /\ c * b \in Nat
  BY DivMod, ProductOrder
<1>2. (a \div b) * b <= a /\ (a \div b) * b \in Nat
  BY DivMod, DivDown
<1> DEFINE p == c * b
           q == (a \div b) * b
<1> HIDE DEF p, q
<1>3. p <= q /\ q <= a /\ a < p /\ p \in Nat /\ q \in Nat
  BY <1>1, <1>2 DEF p, q
<1> QED
  BY <1>3

LEMMA MinOfTwo ==
  ASSUME NEW a \in Int, NEW b \in Int
  PROVE  /\ Min({a, b}) \in {a, b}
         /\ Min({a, b}) <= a /\ Min({a, b}) <= b
<1>1. \E x \in {a, b} : \A y \in {a, b} : x =< y
  OBVIOUS
<1> QED
  BY <1>1 DEF Min

-----------------------------------------------------------------------------
(* The sizes of a volume.                                                  *)

LEMMA Sizes0 ==
  ASSUME volume \in Volumes
  PROVE  /\ SectorBytes \in Nat \ {0} /\ DeviceSectors \in Nat
         /\ volume.sectors_per_cluster \in Nat \ {0} /\ volume.cluster_count \in Nat
         /\ volume.data_start \in Nat /\ volume.fat_start \in Nat /\ volume.sectors_per_fat \in Nat
         /\ cluster_bytes \in Nat \ {0}
<1>1. SectorBytes \in Nat \ {0} /\ DeviceSectors \in Nat
  BY FatAssumption DEF FatAssumption
<1>2. /\ volume.sectors_per_cluster \in Nat \ {0} /\ volume.cluster_count \in Nat
      /\ volume.data_start \in Nat /\ volume.fat_start \in Nat /\ volume.sectors_per_fat \in Nat
  BY DEF Volumes
<1>3. cluster_bytes \in Nat \ {0}
  BY <1>1, <1>2 DEF cluster_bytes
<1> QED
  BY <1>1, <1>2, <1>3

(* A cluster of the volume is whole and in the partition.                  *)
LEMMA ClusterFits ==
  ASSUME VolumeInv, NEW cluster \in Nat, cluster_in_range(cluster)
  PROVE  /\ cluster_sector(cluster) \in Nat
         /\ cluster_sector(cluster) + volume.sectors_per_cluster <= DeviceSectors
<1> DEFINE k == cluster - FAT_FIRST_DATA_CLUSTER
           n == volume.cluster_count
           s == volume.sectors_per_cluster
           start == k * s
           all == n * s
<1>1. k \in Nat /\ k + 1 <= n /\ n \in Nat /\ s \in Nat /\ volume.data_start \in Nat /\ DeviceSectors \in Nat
  BY Sizes0 DEF VolumeInv, cluster_in_range, ClustersFrom, FAT_FIRST_DATA_CLUSTER
<1>2. (k + 1) * s <= all /\ all \in Nat /\ start \in Nat /\ (k + 1) * s = start + s
  <2> HIDE DEF k, n, s
  <2>1. k + 1 \in Nat
    BY <1>1
  <2> QED
    BY <1>1, <2>1, ProductOrder
<1>3. cluster_sector(cluster) = volume.data_start + start /\ volume.data_start + all <= DeviceSectors
  BY DEF cluster_sector, VolumeInv
<1> HIDE DEF k, n, start, all
<1> QED
  BY <1>1, <1>2, <1>3

-----------------------------------------------------------------------------
LEMMA InitInv == Init => IInv
<1> SUFFICES ASSUME Init PROVE IInv
  OBVIOUS
<1>1. volume = NoVolume /\ NoVolume \in Volumes
  BY DEF Init, NoVolume, Volumes
<1>2. VolumeInv
  <2>1. volume.data_start = 0 /\ volume.cluster_count = 0 /\ volume.sectors_per_cluster = 1
    BY <1>1 DEF NoVolume
  <2>2. \A i \in DOMAIN fat : fat[i] \in Nat
    BY DEF Init
  <2> QED
    BY <1>1, <2>1, <2>2, FatAssumption DEF VolumeInv, FatAssumption
<1>3. Typed
  <2>1. locals \in Locals
    BY DEF Init, NoLocals, Locals
  <2>2. data = <<>> /\ file.first = 0 /\ walk.offset = 0 /\ walk.cluster = 0 /\ request.offset = 0
    BY DEF Init, NoWalk
  <2> QED
    BY <2>1, <2>2 DEF Typed
<1>4. pc = "unmounted" /\ data = <<>> /\ access.of = "none"
  BY DEF Init, NoAccess
<1>5. Counted
  <2>1. Len(data) = 0 /\ (volume.cluster_count + 1) * cluster_bytes \in Nat
    BY <1>1, <1>4, Sizes0
  <2> QED
    BY <1>4, <2>1 DEF Counted, LoopsEndTheRead
<1> QED
  BY <1>2, <1>3, <1>4, <1>5 DEF IInv, Fresh, ReadsStayInPlace

LEMMA GeometryFits ==
  ASSUME NEW h \in Headers, Mountable(h)
  PROVE  /\ Geometry(h) \in Volumes
         /\ Geometry(h).data_start + Geometry(h).cluster_count * Geometry(h).sectors_per_cluster
              <= DeviceSectors
<1> DEFINE s == h.sectors_per_cluster
           d == DataStart(h)
           room == h.total - d
           used == (room \div s) * s
<1>1. h \in [reserved : Nat, fats : Nat, sectors_per_fat : Nat,
             total : Nat, sectors_per_cluster : Nat, root : Nat]
  BY FatAssumption DEF FatAssumption
<1>2. s \in Nat \ {0}
  BY DEF Mountable
<1>3. d \in Nat /\ d < h.total /\ h.total \in Nat /\ h.total <= DeviceSectors /\ DeviceSectors \in Nat
  BY <1>1, FatAssumption DEF Mountable, DataStart, FatAssumption
<1>4. room \in Nat
  BY <1>3
<1>5. room \div s \in Nat /\ used <= room /\ used \in Nat
  <2> HIDE DEF s, room
  <2> QED
    BY <1>2, <1>4, DivMod, DivDown, ProductOrder
<1>6. d + used <= DeviceSectors
  <2> HIDE DEF used, d
  <2> QED
    BY <1>3, <1>5
<1>7. Geometry(h) = [fat_start |-> h.reserved, sectors_per_fat |-> h.sectors_per_fat,
                     data_start |-> d, sectors_per_cluster |-> s, cluster_count |-> room \div s]
  BY DEF Geometry
<1>8. Geometry(h) \in Volumes
  <2> HIDE DEF d, s, room
  <2> QED
    BY <1>1, <1>2, <1>3, <1>5, <1>7 DEF Volumes
<1>9. /\ Geometry(h).data_start = d /\ Geometry(h).cluster_count = room \div s
      /\ Geometry(h).sectors_per_cluster = s
  BY <1>7
<1> QED
  BY <1>6, <1>8, <1>9

LEMMA MountInv ==
  ASSUME IInv, NEW h \in Headers, fat_mount(h)
  PROVE  IInv'
<1>1. /\ pc = "unmounted" /\ pc' = "mounted" /\ Mountable(h) /\ volume' = Geometry(h)
      /\ UNCHANGED <<fat_sector, file, walk, request, locals, data, access, outcome>>
      /\ fat' \in [ClustersFrom(Geometry(h).cluster_count)
                     -> {0, End} \cup ClustersFrom(Geometry(h).cluster_count)]
  BY DEF fat_mount
<1>2. VolumeInv'
  <2>1. /\ volume' \in Volumes
        /\ volume'.data_start + volume'.cluster_count * volume'.sectors_per_cluster <= DeviceSectors
    BY <1>1, GeometryFits
  <2>2. {0, End} \cup ClustersFrom(Geometry(h).cluster_count) \subseteq Nat
    BY FatAssumption DEF FatAssumption, ClustersFrom, FAT_FIRST_DATA_CLUSTER
  <2>3. \A i \in DOMAIN fat' : fat'[i] \in Nat
    BY <1>1, <2>2
  <2> QED
    BY <2>1, <2>3 DEF VolumeInv
<1>3. data' = <<>> /\ access'.of = "none"
  BY <1>1 DEF IInv, Fresh
<1>4. Typed'
  BY <1>1 DEF IInv, Typed
<1>5. Counted'
  <2>1. cluster_bytes' \in Nat /\ volume'.cluster_count \in Nat
    <3>1. SectorBytes \in Nat
      BY FatAssumption DEF FatAssumption
    <3>2. volume' \in Volumes
      BY <1>2 DEF VolumeInv
    <3> QED
      BY <3>1, <3>2 DEF Volumes, cluster_bytes
  <2>2. Len(data') = 0 /\ (volume'.cluster_count + 1) * cluster_bytes' \in Nat
    BY <1>3, <2>1
  <2> QED
    BY <1>1, <2>2 DEF Counted, LoopsEndTheRead
<1> QED
  BY <1>1, <1>2, <1>3, <1>4, <1>5 DEF IInv, Fresh, ReadsStayInPlace

(* What every other step keeps: the volume, and what follows of it.        *)
LEMMA VolumeKept ==
  ASSUME IInv, UNCHANGED <<volume, fat>>
  PROVE  VolumeInv' /\ cluster_bytes' = cluster_bytes
  BY DEF IInv, VolumeInv, cluster_bytes

(* The end of a read, and what begins with nothing delivered.              *)
LEMMA NothingDelivered ==
  ASSUME IInv, UNCHANGED <<volume, fat>>, data' = <<>>,
         pc' \in {"idle", "mounted", "unmounted"} \/ (pc' = "advance" /\ locals'.walked = 0)
  PROVE  Counted' /\ data' \in Seq(Int)
<1>1. /\ cluster_bytes \in Nat /\ volume.cluster_count \in Nat /\ volume' = volume
      /\ cluster_bytes' = cluster_bytes
  BY Sizes0, VolumeKept DEF IInv, VolumeInv
<1>2. Len(data') = 0 /\ (volume.cluster_count + 1) * cluster_bytes \in Nat
  BY <1>1
<1> QED
  BY <1>1, <1>2 DEF Counted, LoopsEndTheRead

(* A request that was made stays where it was made.                        *)
LEMMA AccessKept ==
  ASSUME IInv, UNCHANGED <<volume, access>> \/ (UNCHANGED volume /\ access' = NoAccess)
  PROVE  ReadsStayInPlace'
<1>1. CASE access' = NoAccess
  BY <1>1 DEF NoAccess, ReadsStayInPlace
<1>2. CASE UNCHANGED <<volume, access>>
  BY <1>2 DEF IInv, ReadsStayInPlace, cluster_sector, ClustersFrom
<1> QED
  BY <1>1, <1>2

LEMMA OpenInv ==
  ASSUME IInv, NEW first \in Firsts, NEW size \in Sizes, fat_open(first, size)
  PROVE  IInv'
<1>1. /\ file' = [first |-> first, size |-> size] /\ walk' = NoWalk
      /\ request' = [offset |-> 0, length |-> 0] /\ data' = <<>> /\ pc' = "idle"
      /\ access' = NoAccess /\ UNCHANGED <<volume, fat, locals>>
  BY DEF fat_open, FreshWalk
<1>2. VolumeInv' /\ Counted' /\ ReadsStayInPlace'
  BY <1>1, VolumeKept, NothingDelivered, AccessKept
<1>3. first \in Nat
  BY FatAssumption DEF FatAssumption
<1>4. file'.first \in Nat /\ walk'.offset \in Int /\ walk'.cluster \in Nat /\ request'.offset \in Nat
  BY <1>1, <1>3 DEF NoWalk
<1>5. Typed'
  BY <1>1, <1>4 DEF IInv, Typed
<1>6. Fresh'
  BY <1>1 DEF Fresh
<1> QED
  BY <1>2, <1>5, <1>6 DEF IInv

LEMMA ReadInv ==
  ASSUME IInv, NEW offset \in Offsets, NEW length \in Lengths, fat_read(offset, length)
  PROVE  IInv'
<1> DEFINE target == offset \div cluster_bytes
           from == IF WalkUsable(target) THEN walk.cluster ELSE file.first
           links == target - (IF WalkUsable(target) THEN walk.offset ELSE 0)
<1>1. /\ request' = [offset |-> offset, length |-> length] /\ data' = <<>> /\ pc' = "advance"
      /\ locals' = [NoLocals EXCEPT !.cluster = from, !.count = links, !.index = target, !.length = length]
      /\ access' = NoAccess /\ UNCHANGED <<volume, fat, file, walk>>
  BY DEF fat_read
<1>2. offset \in Nat /\ length \in Nat
  BY FatAssumption DEF FatAssumption
<1>3. target \in Nat
  BY <1>2, Sizes0, DivMod DEF IInv, VolumeInv
<1>4. from \in Nat /\ links \in Int
  <2> HIDE DEF target
  <2> QED
    BY <1>3 DEF IInv, Typed
<1>5. locals' = [cluster |-> from, count |-> links, index |-> target, length |-> length,
                 steps |-> 0, walked |-> 0]
  <2> HIDE DEF target, from, links
  <2> QED
    BY <1>1 DEF NoLocals
<1>6. locals' \in Locals /\ locals'.walked = 0
  <2> HIDE DEF target, from, links
  <2> QED
    BY <1>2, <1>3, <1>4, <1>5 DEF Locals
<1>7. VolumeInv' /\ Counted' /\ ReadsStayInPlace' /\ data' \in Seq(Int)
  BY <1>1, <1>6, VolumeKept, NothingDelivered, AccessKept
<1>8. request'.offset \in Nat
  BY <1>1, <1>2
<1>9. Typed'
  BY <1>1, <1>6, <1>7, <1>8 DEF IInv, Typed
<1>10. Fresh'
  BY <1>1 DEF Fresh
<1> QED
  BY <1>7, <1>9, <1>10 DEF IInv

LEMMA AtOnceInv ==
  ASSUME IInv, NEW offset \in Offsets, NEW length \in Lengths, fat_read_at_once(offset, length)
  PROVE  IInv'
<1>1. /\ request' = [offset |-> offset, length |-> length] /\ data' = <<>>
      /\ pc' = "idle" /\ access' = NoAccess /\ UNCHANGED <<volume, fat, file, walk, locals>>
  BY DEF fat_read_at_once
<1>2. VolumeInv' /\ Counted' /\ ReadsStayInPlace' /\ data' \in Seq(Int)
  BY <1>1, VolumeKept, NothingDelivered, AccessKept
<1>3. request'.offset \in Nat
  BY <1>1, FatAssumption DEF FatAssumption
<1>4. Typed'
  BY <1>1, <1>2, <1>3 DEF IInv, Typed
<1>5. Fresh'
  BY <1>1 DEF Fresh
<1> QED
  BY <1>2, <1>4, <1>5 DEF IInv

-----------------------------------------------------------------------------
(* The steps of a read.                                                    *)

(* A failure forgets what was delivered and ends the read.                 *)
LEMMA FailedInv ==
  ASSUME IInv, Failed, UNCHANGED <<volume, fat, file, walk, request>>, ReadsStayInPlace'
  PROVE  IInv'
<1>1. pc' = "idle" /\ data' = <<>> /\ locals' = NoLocals
  BY DEF Failed
<1>2. locals' \in Locals
  BY <1>1 DEF NoLocals, Locals
<1>3. VolumeInv' /\ Counted' /\ data' \in Seq(Int)
  BY <1>1, VolumeKept, NothingDelivered
<1>4. Typed'
  BY <1>2, <1>3 DEF IInv, Typed
<1>5. Fresh'
  BY <1>1 DEF Fresh
<1> QED
  BY <1>3, <1>4, <1>5 DEF IInv

(* A sector of the table that is read for a cluster with an entry is one   *)
(* of the table's.                                                         *)
LEMMA FetchInPlace ==
  ASSUME IInv, NEW cluster \in Nat, CanFollow(cluster), Fetch(cluster), UNCHANGED volume
  PROVE  ReadsStayInPlace'
<1>1. CASE Cached(cluster)
  BY <1>1, AccessKept DEF Fetch
<1>2. CASE ~ Cached(cluster)
  <2> DEFINE q == cluster \div SectorBytes
             first == volume.fat_start
             count == volume.sectors_per_fat
  <2>1. /\ SectorBytes \in Nat \ {0} /\ first \in Nat /\ count \in Nat
    BY Sizes0 DEF IInv, VolumeInv
  <2>2. cluster < count * SectorBytes
    BY DEF CanFollow, entries_per_fat
  <2>3. q \in Nat /\ q + 1 <= count
    <3> HIDE DEF count
    <3> QED
      BY <2>1, <2>2, DivMod, DivBelow
  <2>4. /\ access'.of = "fat" /\ access'.from = (first + q) * SectorBytes
        /\ access'.to = (first + q + 1) * SectorBytes
    BY <1>2 DEF Fetch, SectorOf
  <2>5. /\ first * SectorBytes <= (first + q) * SectorBytes
        /\ (first + q + 1) * SectorBytes <= (first + count) * SectorBytes
    <3> HIDE DEF first, count, q
    <3>1. first + q \in Nat /\ first + q + 1 \in Nat /\ first + count \in Nat
      BY <2>1, <2>3
    <3>2. first <= first + q /\ first + q + 1 <= first + count
      BY <2>1, <2>3
    <3> QED
      BY <2>1, <3>1, <3>2, ProductOrder
  <2>6. /\ volume'.fat_start * SectorBytes <= access'.from
        /\ access'.to <= (volume'.fat_start + volume'.sectors_per_fat) * SectorBytes
    BY <2>4, <2>5
  <2> QED
    BY <2>4, <2>6, Zenon DEF ReadsStayInPlace
<1> QED
  BY <1>1, <1>2

(* What is in the table is the number of a cluster, or is the end.         *)
LEMMA EntryIsNumber ==
  ASSUME VolumeInv, NEW sector, NEW cluster
  PROVE  EntryIn(sector, cluster) \in Nat
  BY DEF EntryIn, VolumeInv

(* The two ways a link changes a read's locals.                            *)
LEMMA OneLinkOn ==
  ASSUME locals \in Locals, NEW next \in Nat,
         locals' = [locals EXCEPT !.cluster = next, !.count = @ - 1, !.steps = @ + 1]
  PROVE  locals' \in Locals /\ locals'.walked = locals.walked
<1>1. locals' = [cluster |-> next, count |-> locals.count - 1, index |-> locals.index,
                 length |-> locals.length, steps |-> locals.steps + 1, walked |-> locals.walked]
  BY DEF Locals
<1>2. /\ locals.count - 1 \in Int /\ locals.steps + 1 \in Int /\ locals.index \in Int
      /\ locals.length \in Nat /\ locals.walked \in Int
  BY DEF Locals
<1> QED
  BY <1>1, <1>2 DEF Locals

LEMMA OneLinkCounted ==
  ASSUME locals \in Locals, NEW next \in Nat,
         locals' = [locals EXCEPT !.cluster = next, !.walked = @ + 1]
  PROVE  locals' \in Locals /\ locals'.walked = locals.walked + 1
<1>1. locals' = [cluster |-> next, count |-> locals.count, index |-> locals.index,
                 length |-> locals.length, steps |-> locals.steps, walked |-> locals.walked + 1]
  BY DEF Locals
<1>2. /\ locals.count \in Int /\ locals.steps \in Int /\ locals.index \in Int
      /\ locals.length \in Nat /\ locals.walked + 1 \in Int
  BY DEF Locals
<1> QED
  BY <1>1, <1>2 DEF Locals

LEMMA AdvanceInv ==
  ASSUME IInv, advance
  PROVE  IInv'
<1> DEFINE next == EntryIn(fat_sector'.holds, locals.cluster)
<1>1. /\ pc = "advance" /\ CanFollow(locals.cluster) /\ Fetch(locals.cluster)
      /\ UNCHANGED <<volume, fat, file, walk, request>>
  BY DEF advance
<1>2. locals \in Locals /\ locals.cluster \in Nat /\ data = <<>>
  BY <1>1 DEF IInv, Typed, Fresh, Locals
<1>3. ReadsStayInPlace'
  BY <1>1, <1>2, FetchInPlace
<1>4. \/ /\ locals' = [locals EXCEPT !.cluster = next, !.count = @ - 1, !.steps = @ + 1]
         /\ UNCHANGED <<pc, data>>
      \/ Failed
  BY DEF advance
<1>5. CASE Failed
  BY <1>1, <1>3, <1>5, FailedInv
<1>6. CASE /\ locals' = [locals EXCEPT !.cluster = next, !.count = @ - 1, !.steps = @ + 1]
           /\ UNCHANGED <<pc, data>>
  <2>1. next \in Nat
    BY EntryIsNumber DEF IInv
  <2>2. locals' \in Locals /\ locals'.walked = locals.walked
    BY <1>2, <1>6, <2>1, OneLinkOn
  <2>3. VolumeInv' /\ cluster_bytes' = cluster_bytes
    BY <1>1, VolumeKept
  <2>4. Typed'
    BY <1>1, <1>6, <2>2 DEF IInv, Typed
  <2>5. Fresh'
    BY <1>1, <1>2, <1>6 DEF Fresh
  <2>6. Counted'
    BY <1>1, <1>6, <2>2, <2>3 DEF IInv, Counted, LoopsEndTheRead
  <2> QED
    BY <1>3, <2>3, <2>4, <2>5, <2>6 DEF IInv
<1> QED
  BY <1>4, <1>5, <1>6

LEMMA AdvancedInv ==
  ASSUME IInv, advanced
  PROVE  IInv'
<1>1. /\ pc = "advance" /\ pc' = "take"
      /\ walk' = [valid |-> TRUE, cluster |-> locals.cluster, offset |-> locals.index]
      /\ UNCHANGED <<volume, fat, file, request, locals, data, access>>
  BY DEF advanced
<1>2. data = <<>> /\ locals.walked \in Nat /\ locals \in Locals
  BY <1>1, Sizes0 DEF IInv, Fresh, Counted, VolumeInv, Typed
<1>3. VolumeInv' /\ cluster_bytes' = cluster_bytes /\ ReadsStayInPlace'
  BY <1>1, VolumeKept, AccessKept
<1>4. walk'.offset \in Int /\ walk'.cluster \in Nat
  BY <1>1, <1>2 DEF Locals
<1>5. Typed' /\ Fresh'
  BY <1>1, <1>2, <1>4 DEF IInv, Typed, Fresh
<1>6. Counted'
  <2>1. Len(data) = 0 /\ locals.walked * cluster_bytes \in Nat
    BY <1>2, Sizes0 DEF IInv, VolumeInv
  <2> QED
    BY <1>1, <1>3, <2>1 DEF IInv, Counted, LoopsEndTheRead
<1> QED
  BY <1>3, <1>5, <1>6 DEF IInv

LEMMA LinkInv ==
  ASSUME IInv, link
  PROVE  IInv'
<1> DEFINE next == EntryIn(fat_sector'.holds, locals.cluster)
<1>1. /\ pc = "link" /\ CanFollow(locals.cluster) /\ Fetch(locals.cluster)
      /\ UNCHANGED <<volume, fat, file, walk, request>>
  BY DEF link
<1>2. locals \in Locals /\ locals.cluster \in Nat
  BY DEF IInv, Typed, Locals
<1>3. ReadsStayInPlace'
  BY <1>1, <1>2, FetchInPlace
<1>4. \/ /\ locals' = [locals EXCEPT !.cluster = next, !.walked = @ + 1]
         /\ WithinBound(locals.walked + 1) /\ pc' = "take" /\ UNCHANGED data
      \/ Failed
  BY DEF link
<1>5. CASE Failed
  BY <1>1, <1>3, <1>5, FailedInv
<1>6. CASE /\ locals' = [locals EXCEPT !.cluster = next, !.walked = @ + 1]
           /\ WithinBound(locals.walked + 1) /\ pc' = "take" /\ UNCHANGED data
  <2>1. next \in Nat
    BY EntryIsNumber DEF IInv
  <2>2. locals' \in Locals /\ locals'.walked = locals.walked + 1
    BY <1>2, <1>6, <2>1, OneLinkCounted
  <2>3. VolumeInv' /\ cluster_bytes' = cluster_bytes
    BY <1>1, VolumeKept
  <2>4. Typed' /\ Fresh'
    BY <1>1, <1>6, <2>2 DEF IInv, Typed, Fresh
  <2>5. locals.walked \in 0 .. volume.cluster_count /\ locals.walked + 1 <= volume.cluster_count
    BY <1>1, <1>6 DEF IInv, Counted, WithinBound
  <2>6. locals'.walked \in 0 .. volume'.cluster_count
    BY <1>1, <2>2, <2>5, Sizes0 DEF IInv, VolumeInv
  <2>7. Len(data) <= (locals.walked + 1) * cluster_bytes /\ LoopsEndTheRead
    BY <1>1 DEF IInv, Counted
  <2>8. Len(data') <= locals'.walked * cluster_bytes'
    BY <1>6, <2>2, <2>3, <2>7
  <2>9. LoopsEndTheRead'
    BY <1>1, <1>6, <2>3, <2>7 DEF LoopsEndTheRead
  <2>10. Counted'
    BY <1>6, <2>6, <2>8, <2>9 DEF Counted
  <2> QED
    BY <1>3, <2>3, <2>4, <2>10 DEF IInv
<1> QED
  BY <1>4, <1>5, <1>6

LEMMA Appended ==
  ASSUME NEW s \in Seq(Int), NEW t \in Seq(Int)
  PROVE  s \o t \in Seq(Int) /\ Len(s \o t) = Len(s) + Len(t)
  OBVIOUS

(* What is taken of a cluster is inside it.                                *)
LEMMA TakenFits ==
  ASSUME IInv
  PROVE  /\ into_cluster \in Nat /\ Taken \in Nat /\ Taken <= locals.length
         /\ into_cluster + Taken <= cluster_bytes
         /\ Taken = locals.length \/ Taken = cluster_bytes - into_cluster
         /\ into_cluster < cluster_bytes
<1>1. cluster_bytes \in Nat \ {0} /\ request.offset \in Nat /\ locals.length \in Nat
  BY Sizes0 DEF IInv, VolumeInv, Typed, Locals
<1>2. into_cluster \in 0 .. cluster_bytes - 1
  <2>1. request.offset % cluster_bytes \in 0 .. cluster_bytes - 1
    BY <1>1, DivMod
  <2> QED
    BY <1>1, <2>1 DEF into_cluster
<1>3. cluster_bytes - into_cluster \in Int
  BY <1>1, <1>2
<1>4. /\ Taken \in {cluster_bytes - into_cluster, locals.length}
      /\ Taken <= cluster_bytes - into_cluster /\ Taken <= locals.length
  <2> DEFINE rest == cluster_bytes - into_cluster
             asked == locals.length
  <2>1. Taken = Min({rest, asked})
    BY DEF Taken
  <2>2. rest \in Int /\ asked \in Int
    BY <1>1, <1>3
  <2> HIDE DEF rest, asked
  <2>3. Taken \in {rest, asked} /\ Taken <= rest /\ Taken <= asked
    BY <2>1, <2>2, MinOfTwo
  <2> QED
    BY <2>3 DEF rest, asked
<1> QED
  BY <1>1, <1>2, <1>4

(* So the range read for it is in the cluster and in the partition.        *)
LEMMA TakeInPlace ==
  ASSUME IInv, NEW cluster \in Nat, cluster_in_range(cluster), UNCHANGED volume,
         access'.of = "data",
         access'.from = cluster_sector(cluster) * SectorBytes + into_cluster,
         access'.to = access'.from + Taken
  PROVE  ReadsStayInPlace'
<1> DEFINE sector == cluster_sector(cluster)
           s == volume.sectors_per_cluster
           start == sector * SectorBytes
           whole == (sector + s) * SectorBytes
           device == DeviceSectors * SectorBytes
<1>1. sector \in Nat /\ s \in Nat /\ sector + s <= DeviceSectors /\ SectorBytes \in Nat /\ DeviceSectors \in Nat
  BY ClusterFits, Sizes0 DEF IInv, VolumeInv
<1>2. start \in Nat /\ whole = start + cluster_bytes /\ cluster_bytes \in Nat /\ whole \in Nat
  <2>1. cluster_bytes = s * SectorBytes
    BY DEF cluster_bytes
  <2> HIDE DEF sector, s
  <2> QED
    BY <1>1, <2>1
<1>3. whole <= device /\ device \in Nat
  <2> HIDE DEF sector, s
  <2>1. sector + s \in Nat
    BY <1>1
  <2> QED
    BY <1>1, <2>1, ProductOrder
<1>4. start <= access'.from /\ access'.to <= whole /\ access'.to <= device
  <2>1. access'.from = start + into_cluster /\ access'.to = access'.from + Taken
    OBVIOUS
  <2> HIDE DEF start, whole, device
  <2> QED
    BY <1>2, <1>3, <2>1, TakenFits
<1>5. cluster \in ClustersFrom(volume'.cluster_count)
  BY DEF cluster_in_range
<1>6. cluster_sector(cluster)' = sector /\ volume'.sectors_per_cluster = s
  BY DEF cluster_sector
<1>7. \E c \in ClustersFrom(volume'.cluster_count) :
        /\ cluster_sector(c)' * SectorBytes <= access'.from
        /\ access'.to <= (cluster_sector(c)' + volume'.sectors_per_cluster) * SectorBytes
        /\ access'.to <= DeviceSectors * SectorBytes
  BY <1>4, <1>5, <1>6
<1>8. access'.of # "fat"
  OBVIOUS
<1> QED
  BY <1>7, <1>8, Zenon DEF ReadsStayInPlace

LEMMA TakeInv ==
  ASSUME IInv, take
  PROVE  IInv'
<1> DEFINE from == cluster_sector(locals.cluster) * SectorBytes + into_cluster
           bytes == [i \in 1 .. Taken |-> from + i - 1]
<1>1. /\ pc = "take" /\ cluster_in_range(locals.cluster)
      /\ access' = [of |-> "data", from |-> from, to |-> from + Taken]
      /\ data' = data \o bytes
      /\ UNCHANGED <<volume, fat, fat_sector, file, walk, request>>
  BY DEF take
<1>2. locals \in Locals /\ locals.cluster \in Nat /\ locals.length \in Nat
  BY DEF IInv, Typed, Locals
<1>3. ReadsStayInPlace'
  <2> HIDE DEF from
  <2>1. access'.of = "data" /\ access'.from = from /\ access'.to = access'.from + Taken
    BY <1>1
  <2> QED
    BY <1>1, <1>2, <2>1, TakeInPlace DEF from
<1>4. from \in Nat
  <2>1. cluster_sector(locals.cluster) \in Nat /\ SectorBytes \in Nat /\ into_cluster \in Nat
    BY <1>1, <1>2, ClusterFits, Sizes0, TakenFits DEF IInv, VolumeInv
  <2> QED
    BY <2>1
<1>5. Taken \in Nat /\ Taken <= cluster_bytes /\ cluster_bytes \in Nat /\ Taken <= locals.length
  BY TakenFits, Sizes0 DEF IInv, VolumeInv
<1>6. data' \in Seq(Int) /\ Len(data') = Len(data) + Taken
  <2> HIDE DEF from
  <2>1. bytes \in Seq(Int) /\ Len(bytes) = Taken
    BY <1>4, <1>5
  <2>2. data \in Seq(Int)
    BY DEF IInv, Typed
  <2>3. data' = data \o bytes
    BY <1>1
  <2> HIDE DEF bytes
  <2>4. data \o bytes \in Seq(Int) /\ Len(data \o bytes) = Len(data) + Len(bytes)
    BY <2>1, <2>2, Appended
  <2> QED
    BY <2>1, <2>3, <2>4
<1>7. Len(data') <= (locals.walked + 1) * cluster_bytes
  <2> DEFINE before == locals.walked * cluster_bytes
             after == (locals.walked + 1) * cluster_bytes
  <2>1. Len(data) <= before /\ locals.walked \in Nat /\ Len(data) \in Nat
    BY <1>1, Sizes0 DEF IInv, Counted, VolumeInv, Typed
  <2>2. after = before + cluster_bytes /\ before \in Nat
    BY <1>5, <2>1
  <2> HIDE DEF before
  <2>3. Len(data') <= before + cluster_bytes
    <3> HIDE DEF after
    <3> QED
      BY <1>5, <1>6, <2>1, <2>2
  <2> QED
    BY <2>2, <2>3
<1>8. LoopsEndTheRead'
  <2> DEFINE here == (locals.walked + 1) * cluster_bytes
             most == (volume.cluster_count + 1) * cluster_bytes
  <2>1. /\ locals.walked + 1 \in Nat /\ volume.cluster_count + 1 \in Nat
        /\ locals.walked + 1 <= volume.cluster_count + 1
    <3>1. locals.walked \in 0 .. volume.cluster_count
      BY <1>1 DEF IInv, Counted
    <3>2. volume.cluster_count \in Nat
      BY Sizes0 DEF IInv, VolumeInv
    <3> QED
      BY <3>1, <3>2
  <2>2. here <= most /\ here \in Nat /\ most \in Nat
    BY <1>5, <2>1, ProductOrder
  <2>3. Len(data') <= most
    <3>1. Len(data') <= here /\ Len(data') \in Nat
      BY <1>6, <1>7
    <3> HIDE DEF here, most
    <3> QED
      BY <2>2, <3>1
  <2>4. volume' = volume /\ cluster_bytes' = cluster_bytes
    BY <1>1, VolumeKept
  <2> QED
    BY <2>3, <2>4 DEF LoopsEndTheRead
<1>9. VolumeInv' /\ cluster_bytes' = cluster_bytes
  BY <1>1, VolumeKept
<1>10. \/ pc' = "idle" /\ locals' = NoLocals
       \/ pc' = "link" /\ locals' = [locals EXCEPT !.length = @ - Taken]
  BY DEF take
<1>11. /\ locals' \in Locals
       /\ pc' = "link" => locals'.walked = locals.walked
  <2>1. CASE pc' = "idle" /\ locals' = NoLocals
    BY <2>1 DEF NoLocals, Locals
  <2>2. CASE pc' = "link" /\ locals' = [locals EXCEPT !.length = @ - Taken]
    <3>1. locals.length - Taken \in Nat
      BY <1>2, <1>5
    <3> QED
      BY <1>2, <2>2, <3>1 DEF Locals
  <2> QED
    BY <1>10, <2>1, <2>2
<1>12. Typed' /\ Fresh'
  BY <1>1, <1>6, <1>10, <1>11 DEF IInv, Typed, Fresh
<1>13. Counted'
  <2>1. locals.walked \in 0 .. volume.cluster_count
    BY <1>1 DEF IInv, Counted
  <2> QED
    BY <1>1, <1>7, <1>8, <1>9, <1>10, <1>11, <2>1 DEF Counted
<1> QED
  BY <1>3, <1>9, <1>12, <1>13 DEF IInv

LEMMA NextInv ==
  ASSUME IInv, [Next]_vars
  PROVE  IInv'
<1>1. ASSUME NEW h \in Headers, fat_mount(h) PROVE IInv'
  BY <1>1, MountInv
<1>2. CASE UNCHANGED vars
  <2>1. VolumeInv' /\ cluster_bytes' = cluster_bytes /\ ReadsStayInPlace'
    BY <1>2, VolumeKept, AccessKept DEF vars
  <2>2. Typed' /\ Fresh'
    BY <1>2 DEF vars, IInv, Typed, Fresh
  <2>3. Counted'
    BY <1>2, <2>1 DEF vars, IInv, Counted, LoopsEndTheRead
  <2> QED
    BY <2>1, <2>2, <2>3 DEF IInv
<1>3. ASSUME NEW h \in Headers, fat_mount_refused(h) PROVE IInv'
  BY <1>2, <1>3 DEF fat_mount_refused
<1>4. ASSUME NEW first \in Firsts, NEW size \in Sizes, fat_open(first, size) PROVE IInv'
  BY <1>4, OpenInv
<1>5. ASSUME NEW offset \in Offsets, NEW length \in Lengths, fat_read(offset, length) PROVE IInv'
  BY <1>5, ReadInv
<1>6. ASSUME NEW offset \in Offsets, NEW length \in Lengths, fat_read_at_once(offset, length)
      PROVE  IInv'
  BY <1>6, AtOnceInv
<1>7. CASE not_followed
  <2>1. Failed /\ UNCHANGED <<volume, fat, file, walk, request, access>>
    BY <1>7 DEF not_followed
  <2> QED
    BY <2>1, AccessKept, FailedInv
<1>8. CASE device_failed
  <2>1. Failed /\ UNCHANGED <<volume, fat, file, walk, request, access>>
    BY <1>8 DEF device_failed
  <2> QED
    BY <2>1, AccessKept, FailedInv
<1> QED
  BY <1>1, <1>2, <1>3, <1>4, <1>5, <1>6, <1>7, <1>8, AdvanceInv, AdvancedInv, TakeInv, LinkInv
  DEF Next, Step

THEOREM Invariance == Spec => []IInv
<1>1. Init => IInv
  BY InitInv
<1>2. IInv /\ [Next]_vars => IInv'
  BY NextInv
<1> QED
  BY <1>1, <1>2, PTL DEF Spec

(* Whatever the volume's first sector, its table and its directory say, a  *)
(* read of the table is in its first copy and a read of data in a cluster  *)
(* of the volume and in the partition.                                     *)
THEOREM ReadsAreInPlace == Spec => []ReadsStayInPlace
<1>1. IInv => ReadsStayInPlace
  BY DEF IInv
<1> QED
  BY <1>1, Invariance, PTL

(* A chain that loops, and a file that claims to be longer than the        *)
(* volume, end the read after as many clusters as there are, and one.      *)
THEOREM LoopsAreEnded == Spec => []LoopsEndTheRead
<1>1. IInv => LoopsEndTheRead
  BY DEF IInv, Counted
<1> QED
  BY <1>1, Invariance, PTL

-----------------------------------------------------------------------------
(* The chain.                                                              *)

(* Induction over the numbers, for the set of those a fact holds of.       *)
LEMMA AllNumbers ==
  ASSUME NEW S, 0 \in S, \A n \in Nat : n \in S => n + 1 \in S
  PROVE  \A n \in Nat : n \in S
<1> DEFINE T == Nat \ S
<1> SUFFICES ASSUME T # {} PROVE FALSE
  OBVIOUS
<1>1. PICK x \in T : \A y \in T : ~ (<<y, x>> \in OpToRel(<, Nat))
  <2>1. T \subseteq Nat
    OBVIOUS
  <2> HIDE DEF T
  <2> QED
    BY <2>1, NatLessThanWellFounded, WFMin
<1>2. \A y \in T : ~ (y < x)
  BY <1>1 DEF OpToRel
<1>3. x # 0 /\ x - 1 \in Nat /\ x - 1 < x
  OBVIOUS
<1>4. x - 1 \in S
  BY <1>2, <1>3
<1> QED
  BY <1>3, <1>4

Follows(c, n) == c = [i \in 0 .. n |-> IF i = 0 THEN file.first ELSE AfterOnDisk(c[i - 1])]

LEMMA FollowsAt ==
  ASSUME NEW c, NEW n, Follows(c, n), NEW i \in 0 .. n
  PROVE  c[i] = IF i = 0 THEN file.first ELSE AfterOnDisk(c[i - 1])
<1> DEFINE d == [j \in 0 .. n |-> IF j = 0 THEN file.first ELSE AfterOnDisk(c[j - 1])]
<1>1. c = d
  BY DEF Follows
<1>2. d[i] = IF i = 0 THEN file.first ELSE AfterOnDisk(c[i - 1])
  OBVIOUS
<1> HIDE DEF d
<1> QED
  BY <1>1, <1>2

LEMMA ChainsExist == \A n \in Nat : \E c : Follows(c, n)
<1> DEFINE S == {n \in Nat : \E c : Follows(c, n)}
<1>1. 0 \in S
  <2> DEFINE c == [i \in 0 .. 0 |-> file.first]
  <2>1. c = [i \in 0 .. 0 |-> IF i = 0 THEN file.first ELSE AfterOnDisk(c[i - 1])]
    OBVIOUS
  <2> QED
    BY <2>1 DEF Follows
<1>2. ASSUME NEW n \in Nat, n \in S PROVE n + 1 \in S
  <2>1. PICK c : Follows(c, n)
    BY <1>2
  <2> DEFINE d == [i \in 0 .. n + 1 |-> IF i = 0 THEN file.first ELSE AfterOnDisk(c[i - 1])]
  <2>2. \A i \in 0 .. n : d[i] = c[i]
    <3> TAKE i \in 0 .. n
    <3>1. c[i] = IF i = 0 THEN file.first ELSE AfterOnDisk(c[i - 1])
      BY <2>1, FollowsAt
    <3> QED
      BY <3>1
  <2>3. d = [i \in 0 .. n + 1 |-> IF i = 0 THEN file.first ELSE AfterOnDisk(d[i - 1])]
    <3> DEFINE e == [i \in 0 .. n + 1 |-> IF i = 0 THEN file.first ELSE AfterOnDisk(d[i - 1])]
    <3>1. ASSUME NEW i \in 0 .. n + 1 PROVE d[i] = e[i]
      <4>1. CASE i = 0
        BY <4>1
      <4>2. CASE i # 0
        <5>1. i - 1 \in 0 .. n
          BY <4>2
        <5>2. d[i - 1] = c[i - 1]
          BY <2>2, <5>1
        <5>3. d[i] = AfterOnDisk(c[i - 1])
          BY <4>2
        <5>4. e[i] = AfterOnDisk(d[i - 1])
          <6> HIDE DEF d
          <6> QED
            BY <4>2
        <5> HIDE DEF d, e
        <5> QED
          BY <5>2, <5>3, <5>4
      <4> QED
        BY <4>1, <4>2
    <3>2. DOMAIN d = 0 .. n + 1 /\ DOMAIN e = 0 .. n + 1
      OBVIOUS
    <3>3. d = [i \in DOMAIN d |-> d[i]] /\ e = [i \in DOMAIN e |-> e[i]]
      OBVIOUS
    <3> HIDE DEF d, e
    <3>4. d = e
      BY <3>1, <3>2, <3>3
    <3> QED
      BY <3>4 DEF e
  <2>4. Follows(d, n + 1)
    <3> HIDE DEF d
    <3> QED
      BY <2>3 DEF Follows
  <2> QED
    BY <2>4
<1> HIDE DEF S
<1>3. \A n \in Nat : n \in S
  BY <1>1, <1>2, AllNumbers
<1> QED
  BY <1>3 DEF S

Last == (file.size \div cluster_bytes) + 1

LEMMA ChainFollows ==
  ASSUME Last \in Nat
  PROVE  Follows(Chain, Last)
<1>1. \E c : Follows(c, Last)
  BY ChainsExist
<1>2. Chain = CHOOSE c : Follows(c, Last)
  BY DEF Chain, Follows, Last
<1> QED
  BY <1>1, <1>2

LEMMA ChainKept ==
  ASSUME UNCHANGED <<volume, fat, file>>
  PROVE  Chain' = Chain
  BY DEF Chain, AfterOnDisk, entries_per_fat, cluster_bytes

(* What there is to read from, from the mount on.                          *)
Known ==
  /\ file.size \in Nat
  /\ pc # "unmounted" => DOMAIN fat = ClustersFrom(volume.cluster_count)
  /\ fat_sector.valid => fat_sector.holds = fat_sector.index
  /\ pc \in {"unmounted", "mounted"} => ~ walk.valid

(* Where a remembered walk stands.                                         *)
Remembered ==
  walk.valid => /\ walk.offset \in Nat
                /\ walk.offset * cluster_bytes < file.size
                /\ walk.cluster = Chain[walk.offset]

(* What a read that is under way still has to deliver.                     *)
Asked ==
  pc \in {"advance", "take", "link"} =>
    /\ request.length \in Nat /\ request.offset + request.length <= file.size
    /\ locals.length > 0 /\ Len(data) + locals.length = request.length
    /\ locals.index = request.offset \div cluster_bytes

(* Where on the chain it stands, before, at and after a cluster.           *)
OnChain ==
  /\ pc = "advance" => /\ locals.count \in 0 .. locals.index /\ locals.walked = 0
                       /\ locals.cluster = Chain[locals.index - locals.count]
  /\ pc \in {"take", "link"} => locals.cluster = Chain[locals.index + locals.walked]
  /\ pc = "take" =>
       IF data = <<>> THEN locals.walked = 0
       ELSE request.offset + Len(data) = (locals.index + locals.walked) * cluster_bytes
  /\ pc = "link" =>
       /\ data # <<>>
       /\ request.offset + Len(data) = (locals.index + locals.walked + 1) * cluster_bytes

AsTheFile == \A i \in 1 .. Len(data) : data[i] = ByteOfFile(request.offset + i - 1)

Delivered ==
  /\ pc \in {"take", "link"} => AsTheFile
  /\ pc = "idle" /\ outcome = "read" => AsTheFile
  /\ pc = "idle" /\ outcome = "read" => Len(data) = request.length

CInv == Known /\ Remembered /\ Asked /\ OnChain /\ Delivered

-----------------------------------------------------------------------------
LEMMA QuotientAtLeast ==
  ASSUME NEW x \in Nat, NEW a \in Nat, NEW b \in Nat \ {0}, x * b <= a
  PROVE  x <= a \div b
<1> SUFFICES ASSUME a \div b + 1 <= x PROVE FALSE
  BY DivMod
<1> DEFINE q == a \div b
<1>1. q \in Nat /\ a % b \in 0 .. b - 1 /\ a = q * b + (a % b)
  BY DivMod
<1>2. q + 1 \in Nat /\ (q + 1) * b <= x * b /\ (q + 1) * b = q * b + b
  <2> HIDE DEF q
  <2> QED
    BY <1>1, ProductOrder DEF q
<1> DEFINE p == q * b
           y == x * b
           z == (q + 1) * b
<1>3. p \in Nat /\ y \in Nat /\ z <= y /\ z = p + b /\ y <= a /\ a = p + (a % b)
  BY <1>1, <1>2
<1> HIDE DEF p, y, z, q
<1> QED
  BY <1>1, <1>3

LEMMA QuotientOf ==
  ASSUME NEW q \in Nat, NEW b \in Nat \ {0}, NEW r \in 0 .. b - 1
  PROVE  (q * b + r) \div b = q /\ (q * b + r) % b = r
  OBVIOUS

(* A read of one file leaves its chain and its bytes where they are.       *)
LEMMA PlacesKept ==
  ASSUME UNCHANGED <<volume, fat, file>>
  PROVE  /\ Chain' = Chain /\ cluster_bytes' = cluster_bytes
         /\ \A p : ByteOfFile(p)' = ByteOfFile(p)
<1>1. cluster_bytes' = cluster_bytes
  BY DEF cluster_bytes
<1>2. Chain' = Chain
  BY ChainKept
<1>3. \A c : cluster_sector(c)' = cluster_sector(c)
  BY DEF cluster_sector
<1> QED
  BY <1>1, <1>2, <1>3 DEF ByteOfFile

LEMMA ChainAt ==
  ASSUME IInv, file.size \in Nat
  PROVE  /\ Chain[0] = file.first
         /\ \A k \in Nat : k * cluster_bytes <= file.size => Chain[k + 1] = AfterOnDisk(Chain[k])
<1>1. cluster_bytes \in Nat \ {0}
  BY Sizes0 DEF IInv, VolumeInv
<1>2. file.size \div cluster_bytes \in Nat
  BY <1>1, DivMod
<1>3. Last \in Nat /\ 0 \in 0 .. Last
  BY <1>2 DEF Last
<1>4. Follows(Chain, Last)
  BY <1>3, ChainFollows
<1>5. Chain[0] = file.first
  <2>1. Chain[0] = IF 0 = 0 THEN file.first ELSE AfterOnDisk(Chain[0 - 1])
    BY <1>3, <1>4, FollowsAt
  <2> QED
    BY <2>1
<1>6. ASSUME NEW k \in Nat, k * cluster_bytes <= file.size
      PROVE  Chain[k + 1] = AfterOnDisk(Chain[k])
  <2>1. k <= file.size \div cluster_bytes
    BY <1>1, <1>6, QuotientAtLeast
  <2>2. k + 1 \in 0 .. Last
    BY <1>2, <2>1 DEF Last
  <2>3. Chain[k + 1] = IF k + 1 = 0 THEN file.first ELSE AfterOnDisk(Chain[(k + 1) - 1])
    BY <1>4, <2>2, FollowsAt
  <2>4. (k + 1) - 1 = k /\ k + 1 # 0
    OBVIOUS
  <2> QED
    BY <2>3, <2>4
<1> QED
  BY <1>5, <1>6

(* Whichever sector of the table is in memory, the link that is read from  *)
(* it is the one on the disk.                                              *)
LEMMA EntryFound ==
  ASSUME IInv, Known, pc # "unmounted", NEW cluster \in Nat, CanFollow(cluster), Fetch(cluster)
  PROVE  /\ EntryIn(fat_sector'.holds, cluster) = AfterOnDisk(cluster)
         /\ fat_sector'.valid => fat_sector'.holds = fat_sector'.index
<1>1. /\ fat_sector'.holds = SectorOf(cluster)
      /\ fat_sector'.valid => fat_sector'.holds = fat_sector'.index
  <2>1. CASE Cached(cluster)
    BY <2>1 DEF Known, Fetch, Cached
  <2>2. CASE ~ Cached(cluster)
    BY <2>2 DEF Fetch
  <2> QED
    BY <2>1, <2>2
<1> DEFINE q == cluster \div SectorBytes
           r == cluster % SectorBytes
<1>2. q \in Nat /\ r \in Nat /\ cluster = q * SectorBytes + r /\ volume.fat_start \in Nat
  <2>1. SectorBytes \in Nat \ {0} /\ volume.fat_start \in Nat
    BY Sizes0 DEF IInv, VolumeInv
  <2>2. q \in Nat /\ r \in 0 .. SectorBytes - 1 /\ cluster = q * SectorBytes + r
    BY <2>1, DivMod
  <2> HIDE DEF q, r
  <2>3. r \in Nat
    BY <2>1, <2>2
  <2> QED
    BY <2>1, <2>2, <2>3
<1>3. (SectorOf(cluster) - volume.fat_start) * SectorBytes + r = cluster
  <2>1. SectorOf(cluster) - volume.fat_start = q
    <3>1. SectorOf(cluster) = volume.fat_start + q
      BY DEF SectorOf
    <3> HIDE DEF q
    <3> QED
      BY <1>2, <3>1
  <2> QED
    BY <1>2, <2>1
<1>4. cluster \in DOMAIN fat /\ cluster < entries_per_fat
  BY DEF Known, CanFollow, cluster_in_range
<1>5. EntryIn(SectorOf(cluster), cluster) = fat[cluster]
  BY <1>3, <1>4 DEF EntryIn
<1> QED
  BY <1>1, <1>4, <1>5 DEF AfterOnDisk

-----------------------------------------------------------------------------
LEMMA InitChain == Init => CInv
  BY DEF Init, NoWalk, CInv, Known, Remembered, Asked, OnChain, Delivered, AsTheFile

(* Between reads there is nothing to say but of the walk.                  *)
LEMMA AtRest ==
  ASSUME pc' \in {"unmounted", "mounted"} \/ (pc' = "idle" /\ (outcome' = "read" => data' = <<>> /\ request'.length = 0))
  PROVE  Asked' /\ OnChain' /\ Delivered'
<1>1. Asked' /\ OnChain'
  BY DEF Asked, OnChain
<1>2. CASE pc' \in {"unmounted", "mounted"}
  BY <1>1, <1>2 DEF Delivered
<1>3. CASE pc' = "idle" /\ (outcome' = "read" => data' = <<>> /\ request'.length = 0)
  <2>1. data' = <<>> => Len(data') = 0 /\ AsTheFile'
    BY DEF AsTheFile
  <2> QED
    BY <1>1, <1>3, <2>1 DEF Delivered
<1> QED
  BY <1>1, <1>2, <1>3

LEMMA MountChain ==
  ASSUME CInv, NEW h \in Headers, fat_mount(h)
  PROVE  CInv'
<1>1. /\ pc = "unmounted" /\ pc' = "mounted" /\ volume' = Geometry(h)
      /\ UNCHANGED <<fat_sector, file, walk>>
      /\ DOMAIN fat' = ClustersFrom(Geometry(h).cluster_count)
  BY DEF fat_mount
<1>2. Known' /\ Remembered'
  BY <1>1 DEF CInv, Known, Remembered
<1> QED
  BY <1>1, <1>2, AtRest DEF CInv

LEMMA OpenChain ==
  ASSUME CInv, NEW first \in Firsts, NEW size \in Sizes, fat_open(first, size)
  PROVE  CInv'
<1>1. /\ file' = [first |-> first, size |-> size] /\ walk' = NoWalk /\ outcome' = "none"
      /\ pc' = "idle" /\ pc # "unmounted" /\ UNCHANGED <<volume, fat, fat_sector>>
  BY DEF fat_open, FreshWalk
<1>2. size \in Nat
  BY FatAssumption DEF FatAssumption
<1>3. Known' /\ Remembered'
  BY <1>1, <1>2 DEF CInv, Known, Remembered, NoWalk
<1> QED
  BY <1>1, <1>3, AtRest DEF CInv

(* What the steps that open nothing keep of the walk and the volume.       *)
LEMMA WalkKept ==
  ASSUME CInv, UNCHANGED <<volume, fat, file, walk>>, pc # "unmounted" \/ UNCHANGED pc, 
         pc' \in {"unmounted", "mounted"} => UNCHANGED pc,
         fat_sector'.valid => fat_sector'.holds = fat_sector'.index
  PROVE  Known' /\ Remembered'
<1>1. Known'
  BY DEF CInv, Known
<1>2. Remembered'
  BY PlacesKept DEF CInv, Remembered
<1> QED
  BY <1>1, <1>2

LEMMA AtOnceChain ==
  ASSUME CInv, NEW offset \in Offsets, NEW length \in Lengths, fat_read_at_once(offset, length)
  PROVE  CInv'
<1>1. /\ pc = "idle" /\ pc' = "idle" /\ data' = <<>> /\ request' = [offset |-> offset, length |-> length]
      /\ outcome' = (IF length = 0 THEN "read" ELSE "failed")
      /\ UNCHANGED <<volume, fat, fat_sector, file, walk>>
  BY DEF fat_read_at_once
<1>2. Known' /\ Remembered'
  BY <1>1, WalkKept DEF CInv, Known
<1>3. outcome' = "read" => data' = <<>> /\ request'.length = 0
  BY <1>1
<1> QED
  BY <1>1, <1>2, <1>3, AtRest DEF CInv

LEMMA FailedChain ==
  ASSUME CInv, Failed, UNCHANGED <<volume, fat, file, walk>>, pc \in {"advance", "take", "link"},
         fat_sector'.valid => fat_sector'.holds = fat_sector'.index
  PROVE  CInv'
<1>1. pc' = "idle" /\ outcome' = "failed"
  BY DEF Failed
<1>2. Known' /\ Remembered'
  BY <1>1, WalkKept
<1> QED
  BY <1>1, <1>2, AtRest DEF CInv

-----------------------------------------------------------------------------
(* The steps of a read.                                                    *)

LEMMA ReadChain ==
  ASSUME IInv, CInv, NEW offset \in Offsets, NEW length \in Lengths, fat_read(offset, length)
  PROVE  CInv'
<1> DEFINE target == offset \div cluster_bytes
           from == IF WalkUsable(target) THEN walk.cluster ELSE file.first
           links == target - (IF WalkUsable(target) THEN walk.offset ELSE 0)
<1>1. /\ request' = [offset |-> offset, length |-> length] /\ data' = <<>> /\ pc' = "advance"
      /\ locals' = [NoLocals EXCEPT !.cluster = from, !.count = links, !.index = target, !.length = length]
      /\ pc = "idle" /\ length # 0 /\ offset + length <= file.size
      /\ UNCHANGED <<volume, fat, fat_sector, file, walk>>
  BY DEF fat_read
<1>2. offset \in Nat /\ length \in Nat /\ file.size \in Nat
  BY FatAssumption DEF FatAssumption, CInv, Known
<1>3. target \in Nat
  BY <1>2, Sizes0, DivMod DEF IInv, VolumeInv
<1>4. locals' = [cluster |-> from, count |-> links, index |-> target, length |-> length,
                 steps |-> 0, walked |-> 0]
  <2> HIDE DEF target, from, links
  <2> QED
    BY <1>1 DEF NoLocals
<1>5. links \in 0 .. target /\ from = Chain[target - links]
  <2> HIDE DEF target
  <2>1. CASE WalkUsable(target)
    <3>1. walk.offset \in Nat /\ walk.offset <= target /\ walk.cluster = Chain[walk.offset]
      BY <2>1 DEF CInv, Remembered, WalkUsable
    <3>2. links = target - walk.offset /\ from = walk.cluster
      BY <2>1
    <3>3. target - links = walk.offset /\ links \in 0 .. target
      <4> HIDE DEF links
      <4> QED
        BY <1>3, <3>1, <3>2
    <3> QED
      BY <3>1, <3>2, <3>3
  <2>2. CASE ~ WalkUsable(target)
    <3>1. links = target /\ from = file.first
      BY <1>3, <2>2
    <3>2. target - links = 0 /\ links \in 0 .. target
      <4> HIDE DEF links
      <4> QED
        BY <1>3, <3>1
    <3> QED
      BY <1>2, <3>1, <3>2, ChainAt
  <2> QED
    BY <2>1, <2>2
<1>6. Known' /\ Remembered'
  BY <1>1, WalkKept DEF CInv, Known
<1>7. Chain' = Chain /\ cluster_bytes' = cluster_bytes
  BY <1>1, PlacesKept
<1> HIDE DEF from, links
<1>8. Asked'
  <2>1. Len(data') = 0 /\ locals'.length = length /\ locals'.index = target
    BY <1>1, <1>4
  <2>2. request'.length = length /\ request'.offset = offset /\ file' = file
    BY <1>1
  <2> HIDE DEF target
  <2>3. length > 0 /\ 0 + length = length
    BY <1>1, <1>2
  <2> QED
    BY <1>1, <1>2, <1>7, <2>1, <2>2, <2>3 DEF Asked, target
<1>9. OnChain'
  <2> HIDE DEF target
  <2>1. /\ locals'.cluster = from /\ locals'.count = links /\ locals'.index = target
        /\ locals'.walked = 0
    BY <1>4
  <2>2. pc' = "advance"
    BY <1>1
  <2> QED
    BY <1>5, <1>7, <2>1, <2>2 DEF OnChain
<1>10. Delivered'
  BY <1>1 DEF Delivered
<1> QED
  BY <1>6, <1>8, <1>9, <1>10 DEF CInv

(* The place a read has reached is no further than the file.               *)
LEMMA PlaceInFile ==
  ASSUME IInv, CInv, pc = "advance"
  PROVE  /\ locals.index \in Nat /\ locals.index * cluster_bytes <= request.offset
         /\ request.offset < file.size
         /\ \A k \in 0 .. locals.index : k * cluster_bytes <= file.size
<1>1. /\ cluster_bytes \in Nat \ {0} /\ request.offset \in Nat /\ file.size \in Nat
      /\ data = <<>> /\ locals.length \in Nat
  BY Sizes0 DEF IInv, VolumeInv, Typed, Fresh, Locals, CInv, Known
<1>2. /\ request.length \in Nat /\ request.offset + request.length <= file.size
      /\ locals.length > 0 /\ 0 + locals.length = request.length
      /\ locals.index = request.offset \div cluster_bytes
  <2>1. Len(data) = 0
    BY <1>1
  <2> QED
    BY <2>1 DEF CInv, Asked
<1>3. locals.index \in Nat /\ locals.index * cluster_bytes <= request.offset
  BY <1>1, <1>2, DivMod, DivDown
<1>4. request.offset < file.size
  BY <1>1, <1>2
<1>5. ASSUME NEW k \in 0 .. locals.index PROVE k * cluster_bytes <= file.size
  <2>1. /\ k * cluster_bytes <= locals.index * cluster_bytes
        /\ k * cluster_bytes \in Nat /\ locals.index * cluster_bytes \in Nat
    BY <1>1, <1>3, ProductOrder
  <2> DEFINE p == k * cluster_bytes
             q == locals.index * cluster_bytes
  <2>2. p <= q /\ p \in Nat /\ q \in Nat /\ q <= request.offset
    BY <1>3, <2>1
  <2> HIDE DEF p, q
  <2>3. p <= file.size
    BY <1>1, <1>4, <2>2
  <2> QED
    BY <2>3 DEF p
<1> QED
  BY <1>3, <1>4, <1>5

LEMMA AdvanceChain ==
  ASSUME IInv, CInv, advance
  PROVE  CInv'
<1> DEFINE next == EntryIn(fat_sector'.holds, locals.cluster)
<1>1. /\ pc = "advance" /\ locals.count > 0 /\ CanFollow(locals.cluster) /\ Fetch(locals.cluster)
      /\ UNCHANGED <<volume, fat, file, walk, request>>
  BY DEF advance
<1>2. locals \in Locals /\ locals.cluster \in Nat /\ locals.count \in Int /\ data = <<>>
  BY <1>1 DEF IInv, Typed, Fresh, Locals
<1>3. /\ next = AfterOnDisk(locals.cluster)
      /\ fat_sector'.valid => fat_sector'.holds = fat_sector'.index
  BY <1>1, <1>2, EntryFound DEF CInv
<1>4. \/ /\ locals' = [locals EXCEPT !.cluster = next, !.count = @ - 1, !.steps = @ + 1]
         /\ UNCHANGED <<pc, data>>
      \/ Failed
  BY DEF advance
<1>5. CASE Failed
  BY <1>1, <1>3, <1>5, FailedChain
<1>6. CASE /\ locals' = [locals EXCEPT !.cluster = next, !.count = @ - 1, !.steps = @ + 1]
           /\ UNCHANGED <<pc, data>>
  <2>1. /\ locals'.cluster = next /\ locals'.count = locals.count - 1 /\ locals'.index = locals.index
        /\ locals'.length = locals.length /\ locals'.walked = locals.walked
    <3> HIDE DEF next
    <3> QED
      BY <1>2, <1>6 DEF Locals
  <2>2. /\ locals.count \in 0 .. locals.index /\ locals.walked = 0
        /\ locals.cluster = Chain[locals.index - locals.count]
    BY <1>1 DEF CInv, OnChain
  <2>3. /\ locals.index \in Nat /\ locals.index - locals.count \in 0 .. locals.index
        /\ locals.index - (locals.count - 1) = (locals.index - locals.count) + 1
        /\ locals.count - 1 \in 0 .. locals.index
    <3>1. locals.index \in Nat
      BY <1>1, PlaceInFile
    <3> QED
      BY <1>1, <2>2, <3>1
  <2>4. next = Chain[locals.index - (locals.count - 1)]
    <3> DEFINE k == locals.index - locals.count
    <3>1. k \in Nat /\ k * cluster_bytes <= file.size
      BY <1>1, <2>3, PlaceInFile
    <3>2. Chain[k + 1] = AfterOnDisk(Chain[k])
      <4> HIDE DEF k
      <4> QED
        BY <3>1, ChainAt DEF CInv, Known
    <3> QED
      BY <1>3, <2>2, <2>3, <3>2
  <2>5. Known' /\ Remembered'
    BY <1>1, <1>3, <1>6, WalkKept
  <2>6. Chain' = Chain /\ cluster_bytes' = cluster_bytes
    BY <1>1, PlacesKept
  <2>7. Asked'
    BY <1>1, <1>6, <2>1, <2>6 DEF CInv, Asked
  <2>8. OnChain'
    BY <1>1, <1>6, <2>1, <2>2, <2>3, <2>4, <2>6 DEF OnChain
  <2>9. Delivered'
    BY <1>1, <1>6 DEF Delivered
  <2> QED
    BY <2>5, <2>7, <2>8, <2>9 DEF CInv
<1> QED
  BY <1>4, <1>5, <1>6

LEMMA AdvancedChain ==
  ASSUME IInv, CInv, advanced
  PROVE  CInv'
<1>1. /\ pc = "advance" /\ pc' = "take" /\ locals.count = 0
      /\ walk' = [valid |-> TRUE, cluster |-> locals.cluster, offset |-> locals.index]
      /\ UNCHANGED <<volume, fat, fat_sector, file, request, locals, data>>
  BY DEF advanced
<1>2. Chain' = Chain /\ cluster_bytes' = cluster_bytes
  BY <1>1, PlacesKept
<1>3. /\ locals.index \in Nat /\ locals.index * cluster_bytes <= request.offset
      /\ request.offset < file.size /\ data = <<>> /\ locals.walked = 0
      /\ locals.cluster = Chain[locals.index]
  <2>1. locals.index \in Nat /\ locals.index * cluster_bytes <= request.offset /\ request.offset < file.size
    BY <1>1, PlaceInFile
  <2>2. locals.walked = 0 /\ locals.cluster = Chain[locals.index - 0] /\ data = <<>>
    BY <1>1 DEF CInv, OnChain, IInv, Fresh
  <2>3. locals.index - 0 = locals.index
    BY <2>1
  <2> QED
    BY <2>1, <2>2, <2>3
<1>4. locals.index * cluster_bytes < file.size
  <2>1. cluster_bytes \in Nat
    BY Sizes0 DEF IInv, VolumeInv
  <2>2. request.offset \in Nat /\ file.size \in Nat
    BY DEF IInv, Typed, CInv, Known
  <2> DEFINE p == locals.index * cluster_bytes
  <2>3. p \in Nat /\ p <= request.offset
    BY <1>3, <2>1
  <2> HIDE DEF p
  <2>4. p < file.size
    BY <1>3, <2>2, <2>3
  <2> QED
    BY <2>4 DEF p
<1>5. Known' /\ Remembered'
  BY <1>1, <1>2, <1>3, <1>4 DEF CInv, Known, Remembered
<1>6. Asked'
  BY <1>1, <1>2 DEF CInv, Asked
<1>7. OnChain'
  <2>1. locals.index + locals.walked = locals.index
    BY <1>3
  <2> QED
    BY <1>1, <1>2, <1>3, <2>1 DEF OnChain
<1>8. Delivered'
  <2>1. Len(data') = 0
    BY <1>1, <1>3
  <2>2. AsTheFile'
    BY <2>1 DEF AsTheFile
  <2> QED
    BY <1>1, <2>2 DEF Delivered
<1> QED
  BY <1>5, <1>6, <1>7, <1>8 DEF CInv

LEMMA LinkChain ==
  ASSUME IInv, CInv, link
  PROVE  CInv'
<1> DEFINE next == EntryIn(fat_sector'.holds, locals.cluster)
<1>1. /\ pc = "link" /\ CanFollow(locals.cluster) /\ Fetch(locals.cluster)
      /\ UNCHANGED <<volume, fat, file, walk, request>>
  BY DEF link
<1>2. locals \in Locals /\ locals.cluster \in Nat /\ locals.length \in Nat /\ Len(data) \in Nat
  BY DEF IInv, Typed, Locals
<1>3. /\ next = AfterOnDisk(locals.cluster)
      /\ fat_sector'.valid => fat_sector'.holds = fat_sector'.index
  BY <1>1, <1>2, EntryFound DEF CInv
<1>4. \/ /\ locals' = [locals EXCEPT !.cluster = next, !.walked = @ + 1]
         /\ pc' = "take" /\ UNCHANGED data
      \/ Failed
  BY DEF link
<1>5. CASE Failed
  BY <1>1, <1>3, <1>5, FailedChain
<1>6. CASE /\ locals' = [locals EXCEPT !.cluster = next, !.walked = @ + 1]
           /\ pc' = "take" /\ UNCHANGED data
  <2>1. /\ locals'.cluster = next /\ locals'.index = locals.index
        /\ locals'.length = locals.length /\ locals'.walked = locals.walked + 1
    <3> HIDE DEF next
    <3> QED
      BY <1>2, <1>6 DEF Locals
  <2> DEFINE k == locals.index + locals.walked
             p == k * cluster_bytes
             q == (k + 1) * cluster_bytes
  <2>2. /\ data # <<>> /\ locals.cluster = Chain[k] /\ request.offset + Len(data) = q
    BY <1>1 DEF CInv, OnChain
  <2>3. locals.index \in Nat /\ locals.walked \in Nat /\ cluster_bytes \in Nat \ {0} /\ request.offset \in Nat
    <3>1. locals.walked \in Nat /\ cluster_bytes \in Nat \ {0} /\ request.offset \in Nat
      BY <1>1, Sizes0 DEF IInv, VolumeInv, Counted, Typed
    <3>2. locals.index = request.offset \div cluster_bytes
      BY <1>1 DEF CInv, Asked
    <3> QED
      BY <3>1, <3>2, DivMod
  <2>4. k \in Nat /\ locals.index + (locals.walked + 1) = k + 1
    BY <2>3
  <2>5. p <= q /\ p \in Nat /\ q \in Nat
    <3> HIDE DEF k
    <3>1. k + 1 \in Nat /\ k <= k + 1
      BY <2>4
    <3> QED
      BY <2>3, <2>4, <3>1, ProductOrder
  <2>6. q <= file.size
    <3>1. /\ request.length \in Nat /\ request.offset + request.length <= file.size
          /\ locals.length > 0 /\ Len(data) + locals.length = request.length
          /\ file.size \in Nat
      BY <1>1 DEF CInv, Asked, Known
    <3> HIDE DEF q
    <3> QED
      BY <1>2, <2>2, <2>3, <2>5, <3>1
  <2>7. p <= file.size
    <3>1. file.size \in Nat
      BY DEF CInv, Known
    <3> HIDE DEF p, q
    <3> QED
      BY <2>5, <2>6, <3>1
  <2>8. Chain[k + 1] = AfterOnDisk(Chain[k])
    <3>1. file.size \in Nat
      BY DEF CInv, Known
    <3>2. k * cluster_bytes <= file.size
      BY <2>7
    <3> HIDE DEF k, p, q
    <3> QED
      BY <2>4, <3>1, <3>2, ChainAt
  <2>9. Known' /\ Remembered'
    BY <1>1, <1>3, <1>6, WalkKept
  <2>10. /\ Chain' = Chain /\ cluster_bytes' = cluster_bytes
         /\ \A i : ByteOfFile(i)' = ByteOfFile(i)
    BY <1>1, PlacesKept
  <2>11. Asked'
    BY <1>1, <1>6, <2>1, <2>10 DEF CInv, Asked
  <2>12. OnChain'
    <3>1. locals'.index + locals'.walked = k + 1
      BY <2>1, <2>4
    <3>2. next = Chain[k + 1]
      BY <1>3, <2>2, <2>8
    <3>3. locals'.cluster = Chain[k + 1] /\ data' # <<>> /\ request'.offset + Len(data') = q
      BY <1>1, <1>6, <2>1, <2>2, <3>2
    <3> HIDE DEF k, next
    <3> QED
      BY <1>6, <2>10, <3>1, <3>3 DEF OnChain
  <2>13. Delivered'
    <3>1. AsTheFile
      BY <1>1 DEF CInv, Delivered
    <3>2. AsTheFile'
      BY <1>1, <1>6, <2>10, <3>1 DEF AsTheFile
    <3> QED
      BY <1>6, <3>2 DEF Delivered
  <2> QED
    BY <2>9, <2>11, <2>12, <2>13 DEF CInv
<1> QED
  BY <1>4, <1>5, <1>6

LEMMA Joined ==
  ASSUME NEW s \in Seq(Int), NEW t \in Seq(Int)
  PROVE  /\ Len(s \o t) = Len(s) + Len(t)
         /\ \A i \in 1 .. Len(s) : (s \o t)[i] = s[i]
         /\ \A i \in 1 .. Len(t) : (s \o t)[Len(s) + i] = t[i]
  OBVIOUS

LEMMA SectorIsNumber ==
  ASSUME IInv
  PROVE  cluster_sector(locals.cluster) \in Int /\ cluster_sector(locals.cluster) * SectorBytes \in Int
<1> DEFINE c == locals.cluster
           s == volume.sectors_per_cluster
           d == volume.data_start
<1>1. c \in Nat /\ s \in Nat /\ d \in Nat /\ SectorBytes \in Nat
  BY Sizes0 DEF IInv, VolumeInv, Typed, Locals
<1>2. cluster_sector(c) = d + (c - 2) * s
  BY DEF cluster_sector, FAT_FIRST_DATA_CLUSTER
<1> HIDE DEF c, s, d
<1>3. (c - 2) * s \in Int
  BY <1>1
<1>4. cluster_sector(c) \in Int
  BY <1>1, <1>2, <1>3
<1>5. cluster_sector(c) * SectorBytes \in Int
  BY <1>1, <1>4
<1> QED
  BY <1>4, <1>5 DEF c

(* The bytes of one cluster follow each other on the device.               *)
LEMMA TakenAsTheFile ==
  ASSUME IInv, CInv, pc = "take"
  PROVE  /\ request.offset + Len(data) = (locals.index + locals.walked) * cluster_bytes + into_cluster
         /\ \A i \in 1 .. Taken :
              ByteOfFile(request.offset + Len(data) + i - 1)
                = cluster_sector(locals.cluster) * SectorBytes + into_cluster + i - 1
<1> DEFINE k == locals.index + locals.walked
           p == k * cluster_bytes
           at == request.offset + Len(data)
           from == cluster_sector(locals.cluster) * SectorBytes + into_cluster
<1>1. /\ cluster_bytes \in Nat \ {0} /\ request.offset \in Nat /\ Len(data) \in Nat
      /\ locals.walked \in Nat /\ locals.length \in Nat
  BY Sizes0 DEF IInv, VolumeInv, Typed, Counted, Locals
<1>2. locals.index = request.offset \div cluster_bytes /\ locals.index \in Nat
  BY <1>1, DivMod DEF CInv, Asked
<1>3. k \in Nat /\ p \in Nat
  <2>1. k \in Nat
    BY <1>1, <1>2
  <2> HIDE DEF k
  <2> QED
    BY <1>1, <2>1
<1>4. locals.cluster = Chain[k]
  BY DEF CInv, OnChain
<1>5. into_cluster \in Nat /\ into_cluster < cluster_bytes /\ Taken \in Nat /\ into_cluster + Taken <= cluster_bytes
  BY TakenFits
<1>6. at = p + into_cluster
  <2>1. CASE data = <<>>
    <3>1. Len(data) = 0 /\ locals.walked = 0 /\ into_cluster = request.offset % cluster_bytes
      BY <2>1 DEF CInv, OnChain, into_cluster
    <3>2. k = request.offset \div cluster_bytes
      BY <1>2, <3>1
    <3>3. request.offset = p + (request.offset % cluster_bytes)
      BY <1>1, <3>2, DivMod
    <3> HIDE DEF p
    <3> QED
      BY <1>1, <3>1, <3>3
  <2>2. CASE data # <<>>
    <3>1. at = p /\ into_cluster = 0
      BY <2>2 DEF CInv, OnChain, into_cluster
    <3> HIDE DEF p, at
    <3> QED
      BY <1>3, <3>1
  <2> QED
    BY <2>1, <2>2
<1>7. ASSUME NEW i \in 1 .. Taken
      PROVE  ByteOfFile(at + i - 1) = from + i - 1
  <2> DEFINE r == into_cluster + i - 1
  <2>1. r \in 0 .. cluster_bytes - 1
    BY <1>1, <1>5
  <2>2. at + i - 1 = p + r
    <3> HIDE DEF p, at
    <3> QED
      BY <1>3, <1>5, <1>6
  <2>3. (p + r) \div cluster_bytes = k /\ (p + r) % cluster_bytes = r
    <3> HIDE DEF k, r
    <3> QED
      BY <1>1, <1>3, <2>1, QuotientOf
  <2>4. ByteOfFile(at + i - 1) = cluster_sector(Chain[k]) * SectorBytes + r
    <3> HIDE DEF k, r, p, at
    <3> QED
      BY <2>2, <2>3 DEF ByteOfFile
  <2>5. cluster_sector(locals.cluster) * SectorBytes \in Int
    BY SectorIsNumber
  <2> DEFINE start == cluster_sector(locals.cluster) * SectorBytes
  <2>6. start \in Int /\ ByteOfFile(at + i - 1) = start + r
    BY <1>4, <2>4, <2>5
  <2> HIDE DEF start
  <2>7. start + r = start + into_cluster + i - 1
    BY <1>5, <2>6
  <2> QED
    BY <2>6, <2>7 DEF start
<1> QED
  BY <1>6, <1>7

LEMMA TakeChain ==
  ASSUME IInv, CInv, take
  PROVE  CInv'
<1> DEFINE from == cluster_sector(locals.cluster) * SectorBytes + into_cluster
           bytes == [i \in 1 .. Taken |-> from + i - 1]
           k == locals.index + locals.walked
           p == k * cluster_bytes
<1>1. /\ pc = "take" /\ data' = data \o bytes
      /\ UNCHANGED <<volume, fat, fat_sector, file, walk, request>>
  BY DEF take
<1>2. \/ pc' = "idle" /\ outcome' = "read" /\ locals.length = Taken
      \/ /\ pc' = "link" /\ locals.length # Taken
         /\ locals' = [locals EXCEPT !.length = @ - Taken]
  BY DEF take
<1>3. /\ cluster_bytes \in Nat \ {0} /\ request.offset \in Nat /\ Len(data) \in Nat /\ data \in Seq(Int)
      /\ locals.walked \in Nat /\ locals.length \in Nat /\ locals \in Locals
  BY <1>1, Sizes0 DEF IInv, VolumeInv, Typed, Counted, Locals
<1>4. /\ into_cluster \in Nat /\ Taken \in Nat /\ Taken <= locals.length
      /\ Taken = locals.length \/ Taken = cluster_bytes - into_cluster
      /\ into_cluster < cluster_bytes
  BY TakenFits
<1>5. /\ locals.length > 0 /\ Len(data) + locals.length = request.length
      /\ request.length \in Nat /\ request.offset + request.length <= file.size
      /\ locals.index = request.offset \div cluster_bytes
  BY <1>1 DEF CInv, Asked
<1>6. k \in Nat /\ p \in Nat
  <2>1. locals.index \in Nat
    BY <1>3, <1>5, DivMod
  <2>2. k \in Nat
    BY <1>3, <2>1
  <2> HIDE DEF k
  <2> QED
    BY <1>3, <2>2
<1>7. /\ Len(data') = Len(data) + Taken
      /\ \A i \in 1 .. Len(data) : data'[i] = data[i]
      /\ \A i \in 1 .. Taken : data'[Len(data) + i] = from + i - 1
  <2>3. from \in Int
    BY <1>4, SectorIsNumber
  <2> HIDE DEF from
  <2>1. bytes \in Seq(Int) /\ Len(bytes) = Taken
    BY <1>4, <2>3
  <2>2. \A i \in 1 .. Taken : bytes[i] = from + i - 1
    OBVIOUS
  <2>4. data' = data \o bytes
    BY <1>1
  <2> HIDE DEF bytes
  <2> QED
    BY <1>3, <2>1, <2>2, <2>4, Joined
<1>8. Known' /\ Remembered'
  BY <1>1, <1>2, WalkKept DEF CInv, Known
<1>9. /\ Chain' = Chain /\ cluster_bytes' = cluster_bytes
      /\ \A i : ByteOfFile(i)' = ByteOfFile(i)
  BY <1>1, PlacesKept
<1>10. AsTheFile'
  <2>1. ASSUME NEW i \in 1 .. Len(data) + Taken
        PROVE  data'[i] = ByteOfFile(request.offset + i - 1)
    <3>1. CASE i <= Len(data)
      <4>1. i \in 1 .. Len(data)
        BY <1>3, <1>4, <3>1
      <4>2. AsTheFile
        BY <1>1 DEF CInv, Delivered
      <4> QED
        BY <1>7, <4>1, <4>2 DEF AsTheFile
    <3>2. CASE i > Len(data)
      <4> DEFINE j == i - Len(data)
      <4>1. j \in 1 .. Taken /\ Len(data) + j = i
        BY <1>3, <1>4, <3>2
      <4>2. request.offset + Len(data) + j - 1 = request.offset + i - 1
        BY <1>3, <4>1
      <4>3. data'[Len(data) + j] = from + j - 1
        BY <1>7, <4>1
      <4> HIDE DEF j
      <4>4. ByteOfFile(request.offset + Len(data) + j - 1) = from + j - 1
        BY <1>1, <4>1, TakenAsTheFile
      <4> QED
        BY <4>1, <4>2, <4>3, <4>4
    <3> QED
      BY <1>3, <1>4, <3>1, <3>2
  <2> QED
    BY <1>1, <1>7, <1>9, <2>1 DEF AsTheFile
<1>11. CASE pc' = "idle" /\ outcome' = "read" /\ locals.length = Taken
  <2>1. Len(data') = request'.length
    BY <1>1, <1>5, <1>7, <1>11
  <2>2. Delivered'
    BY <1>10, <1>11, <2>1 DEF Delivered
  <2>3. Asked' /\ OnChain'
    BY <1>11 DEF Asked, OnChain
  <2> QED
    BY <1>8, <2>2, <2>3 DEF CInv
<1>12. CASE /\ pc' = "link" /\ locals.length # Taken
            /\ locals' = [locals EXCEPT !.length = @ - Taken]
  <2>1. /\ locals'.cluster = locals.cluster /\ locals'.index = locals.index
        /\ locals'.walked = locals.walked /\ locals'.length = locals.length - Taken
    BY <1>3, <1>12 DEF Locals
  <2>2. Asked'
    <3> DEFINE m == Len(data)
               n == locals.length
    <3>1. locals'.length > 0 /\ Len(data') + locals'.length = request.length
      <4>1. m \in Nat /\ n \in Nat /\ n # Taken /\ Taken <= n /\ Taken \in Nat
        BY <1>3, <1>4, <1>12
      <4>2. m + n = request.length /\ Len(data') = m + Taken /\ locals'.length = n - Taken
        BY <1>5, <1>7, <2>1
      <4> HIDE DEF m, n
      <4>3. n - Taken > 0 /\ (m + Taken) + (n - Taken) = m + n
        BY <4>1
      <4> QED
        BY <4>2, <4>3
    <3> QED
      BY <1>1, <1>5, <1>9, <1>12, <2>1, <3>1 DEF Asked
  <2>3. request.offset + Len(data') = (k + 1) * cluster_bytes
    <3>1. request.offset + Len(data) = p + into_cluster
      BY <1>1, TakenAsTheFile
    <3>2. Taken = cluster_bytes - into_cluster
      BY <1>4, <1>12
    <3>3. (k + 1) * cluster_bytes = p + cluster_bytes
      <4> HIDE DEF k
      <4> QED
        BY <1>3, <1>6 DEF p
    <3>4. Len(data') = Len(data) + Taken
      BY <1>7
    <3> DEFINE q == (k + 1) * cluster_bytes
    <3>5. q = p + cluster_bytes
      BY <3>3
    <3> DEFINE o == request.offset
               m == Len(data)
               c == cluster_bytes
               into == into_cluster
    <3>6. o + (m + Taken) = q
      <4>1. /\ o \in Nat /\ m \in Nat /\ p \in Nat /\ c \in Nat /\ into \in Nat
            /\ q = p + c /\ o + m = p + into /\ Taken = c - into
        BY <1>3, <1>4, <1>6, <3>1, <3>2, <3>5
      <4> HIDE DEF p, k, q, o, m, c, into
      <4> QED
        BY <4>1
    <3> QED
      BY <3>4, <3>6
  <2>4. data' # <<>>
    <3>1. Taken # 0
      BY <1>3, <1>4, <1>12
    <3>2. Len(data') # 0
      BY <1>3, <1>4, <1>7, <3>1
    <3> QED
      BY <3>2
  <2>5. locals.cluster = Chain[k]
    BY <1>1 DEF CInv, OnChain
  <2>6. OnChain'
    BY <1>1, <1>9, <1>12, <2>1, <2>3, <2>4, <2>5 DEF OnChain
  <2>7. Delivered'
    BY <1>10, <1>12 DEF Delivered
  <2> QED
    BY <1>8, <2>2, <2>6, <2>7 DEF CInv
<1> QED
  BY <1>2, <1>11, <1>12

LEMMA NextChain ==
  ASSUME IInv, CInv, [Next]_vars
  PROVE  CInv'
<1>1. CASE UNCHANGED vars
  <2>1. /\ UNCHANGED <<pc, volume, fat, fat_sector, file, walk, request, locals, data, outcome>>
        /\ Chain' = Chain /\ cluster_bytes' = cluster_bytes
        /\ \A i : ByteOfFile(i)' = ByteOfFile(i)
    BY <1>1, PlacesKept DEF vars
  <2>2. Known' /\ Remembered' /\ Asked' /\ OnChain'
    BY <2>1 DEF CInv, Known, Remembered, Asked, OnChain
  <2>3. Delivered'
    BY <2>1 DEF CInv, Delivered, AsTheFile
  <2> QED
    BY <2>2, <2>3 DEF CInv
<1>2. ASSUME NEW h \in Headers, fat_mount(h) PROVE CInv'
  BY <1>2, MountChain
<1>3. ASSUME NEW h \in Headers, fat_mount_refused(h) PROVE CInv'
  BY <1>1, <1>3 DEF fat_mount_refused
<1>4. ASSUME NEW first \in Firsts, NEW size \in Sizes, fat_open(first, size) PROVE CInv'
  BY <1>4, OpenChain
<1>5. ASSUME NEW offset \in Offsets, NEW length \in Lengths, fat_read(offset, length) PROVE CInv'
  BY <1>5, ReadChain
<1>6. ASSUME NEW offset \in Offsets, NEW length \in Lengths, fat_read_at_once(offset, length)
      PROVE  CInv'
  BY <1>6, AtOnceChain
<1>7. CASE not_followed \/ device_failed
  <2>1. /\ Failed /\ UNCHANGED <<volume, fat, fat_sector, file, walk>>
        /\ pc \in {"advance", "take", "link"}
    BY <1>7 DEF not_followed, device_failed
  <2> QED
    BY <2>1, FailedChain DEF CInv, Known
<1> QED
  BY <1>1, <1>2, <1>3, <1>4, <1>5, <1>6, <1>7, AdvanceChain, AdvancedChain, TakeChain, LinkChain
  DEF Next, Step

LEMMA ChainInvariance == Spec => [](IInv /\ CInv)
<1>1. Init => IInv /\ CInv
  BY InitInv, InitChain
<1>2. IInv /\ CInv /\ [Next]_vars => (IInv /\ CInv)'
  BY NextInv, NextChain
<1> QED
  BY <1>1, <1>2, PTL DEF Spec

(* A read that succeeds has delivered the file's bytes, whatever was read  *)
(* before it, whichever sector of the table is in memory, wherever the     *)
(* last walk stopped and however the last read failed.                     *)
THEOREM BytesAreAlwaysTheFiles == Spec => []BytesAreTheFiles
<1>1. IInv /\ CInv => BytesAreTheFiles
  <2> SUFFICES ASSUME IInv, CInv, pc = "idle", outcome = "read"
               PROVE  /\ Len(data) = request.length
                      /\ \A i \in DOMAIN data : data[i] = ByteOfFile(request.offset + i - 1)
    BY DEF BytesAreTheFiles
  <2>1. DOMAIN data = 1 .. Len(data)
    BY DEF IInv, Typed
  <2> QED
    BY <2>1 DEF CInv, Delivered, AsTheFile
<1> QED
  BY <1>1, ChainInvariance, PTL

(* And the walk that is remembered is a place on this file's chain.        *)
THEOREM WalksAreOnTheChain == Spec => []WalkIsOnTheChain
<1>1. CInv => WalkIsOnTheChain
  BY DEF CInv, Remembered, WalkIsOnTheChain
<1> QED
  BY <1>1, ChainInvariance, PTL
=============================================================================
