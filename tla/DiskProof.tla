------------------------------ MODULE DiskProof ------------------------------
(***************************************************************************)
(* Disk proved for sectors, words, drives, tables and ranges of any size:  *)
(* PartitionsOnDevice, AccessConfined and BytesAsAsked.                    *)
(*                                                                         *)
(* The invariant of a read says where it has got to: what is in the buffer *)
(* are the first bytes asked for, the place it goes on from is the byte    *)
(* after them, and what it still needs is the rest.                        *)
(***************************************************************************)
EXTENDS Disk, TLAPS

(* Tables are read, and a partition chosen, before any range is.           *)
Choosing == pc \in {"mbr", "header", "entries", "table", "failed"}

Typed ==
  /\ sector_count \in {0, DeviceSectors}
  /\ table \in Seq(Partition) /\ view \in Partition
  /\ request \in [offset : Nat, length : Nat]
  /\ walk \in [lba : Nat, into : 0 .. SectorBytes - 1, length : Nat]
  /\ buffer \in Seq(Int)
  /\ Choosing => buffer = <<>> /\ outcome = "none"

(* Where a read that is in progress has got to.                            *)
Progress ==
  pc = "reading" =>
    /\ walk.length > 0
    /\ walk.length + Len(buffer) = request.length
    /\ walk.lba * SectorBytes + walk.into = request.offset + Len(buffer)
    /\ buffer = Bytes(view.start, request.offset, Len(buffer))

IInv == Typed /\ PartitionsOnDevice /\ Progress /\ AccessConfined /\ BytesAsAsked

-----------------------------------------------------------------------------
(* Arithmetic.                                                             *)

LEMMA DivMod ==
  ASSUME NEW a \in Nat, NEW b \in Nat \ {0}
  PROVE  /\ a \div b \in Nat /\ a % b \in 0 .. b - 1
         /\ a = (a \div b) * b + (a % b)
  OBVIOUS

LEMMA ModInWord ==
  ASSUME NEW a \in Int, NEW b \in Nat \ {0}
  PROVE  a % b \in 0 .. b - 1
  OBVIOUS

LEMMA DivAtLeast ==
  ASSUME NEW a \in Nat, NEW b \in Nat \ {0}, a >= b
  PROVE  a \div b >= 1
  BY DivMod

LEMMA ProductOrder ==
  ASSUME NEW a \in Nat, NEW b \in Nat, NEW c \in Nat, a <= b
  PROVE  a * c <= b * c
  OBVIOUS

LEMMA MinOfTwo ==
  ASSUME NEW a \in Int, NEW b \in Int
  PROVE  /\ Min({a, b}) \in {a, b}
         /\ Min({a, b}) <= a /\ Min({a, b}) <= b
<1>1. \E x \in {a, b} : \A y \in {a, b} : x =< y
  OBVIOUS
<1> QED
  BY <1>1 DEF Min

LEMMA EmptyBytes ==
  ASSUME NEW s, NEW from
  PROVE  Bytes(s, from, 0) = << >>
  BY DEF Bytes

LEMMA BytesTyped ==
  ASSUME NEW s \in Int, NEW from \in Int, NEW n \in Nat, SectorBytes \in Nat
  PROVE  /\ Bytes(s, from, n) \in Seq(Int)
         /\ Len(Bytes(s, from, n)) = n
         /\ \A i \in 1 .. n : Bytes(s, from, n)[i] = s * SectorBytes + from + i - 1
  BY DEF Bytes

(* Lists of the same length with the same elements are the same.           *)
LEMMA SeqEqual ==
  ASSUME NEW a \in Seq(Int), NEW b \in Seq(Int), Len(a) = Len(b),
         \A i \in 1 .. Len(a) : a[i] = b[i]
  PROVE  a = b
  OBVIOUS

LEMMA SeqJoin ==
  ASSUME NEW a \in Seq(Int), NEW b \in Seq(Int)
  PROVE  /\ a \o b \in Seq(Int) /\ Len(a \o b) = Len(a) + Len(b)
         /\ \A i \in 1 .. Len(a) + Len(b) : (a \o b)[i] = IF i <= Len(a) THEN a[i] ELSE b[i - Len(a)]
  OBVIOUS

(* Two ranges of which the second begins where the first ends are one.     *)
Joined(s, from, m, u, into, n, k) == Bytes(s, from, m) \o Bytes(u, into, n) = Bytes(s, from, k)

LEMMA BytesJoin ==
  ASSUME NEW s \in Nat, NEW from \in Nat, NEW m \in Nat,
         NEW t \in Nat, NEW into \in Nat, NEW n \in Nat, SectorBytes \in Nat,
         t * SectorBytes + into = from + m,
         NEW u, u = s + t, NEW k, k = m + n
  PROVE  Joined(s, from, m, u, into, n, k)
<1> DEFINE A == Bytes(s, from, m)
           B == Bytes(s + t, into, n)
           C == Bytes(s, from, m + n)
           base == s * SectorBytes
<1>1. /\ A \in Seq(Int) /\ Len(A) = m
      /\ \A i \in 1 .. m : A[i] = base + from + i - 1
  BY BytesTyped
<1>2. /\ B \in Seq(Int) /\ Len(B) = n
      /\ \A i \in 1 .. n : B[i] = (s + t) * SectorBytes + into + i - 1
  BY BytesTyped
<1>3. /\ C \in Seq(Int) /\ Len(C) = m + n
      /\ \A i \in 1 .. m + n : C[i] = base + from + i - 1
  <2>1. m + n \in Nat
    OBVIOUS
  <2> QED
    BY <2>1, BytesTyped
<1>4. (s + t) * SectorBytes + into = base + (from + m) /\ base \in Nat
  <2>1. (s + t) * SectorBytes = base + t * SectorBytes
    OBVIOUS
  <2>2. base \in Nat /\ t * SectorBytes \in Nat
    OBVIOUS
  <2> HIDE DEF A, B, C, base
  <2> QED
    BY <2>1, <2>2
<1>5. /\ A \o B \in Seq(Int) /\ Len(A \o B) = m + n
      /\ \A i \in 1 .. m + n : (A \o B)[i] = IF i <= m THEN A[i] ELSE B[i - m]
  <2> HIDE DEF A, B, C
  <2>1. /\ A \o B \in Seq(Int) /\ Len(A \o B) = Len(A) + Len(B)
        /\ \A i \in 1 .. Len(A) + Len(B) : (A \o B)[i] = IF i <= Len(A) THEN A[i] ELSE B[i - Len(A)]
    BY <1>1, <1>2, SeqJoin
  <2> QED
    BY <1>1, <1>2, <2>1
<1>6. ASSUME NEW i \in 1 .. m + n PROVE (A \o B)[i] = C[i]
  <2>1. CASE i <= m
    <3> HIDE DEF A, B, C, base
    <3> QED
      BY <1>1, <1>3, <1>5, <2>1
  <2>2. CASE i > m
    <3>1. i - m \in 1 .. n
      BY <2>2
    <3> HIDE DEF A, B, C, base
    <3>2. (A \o B)[i] = B[i - m]
      BY <1>5, <2>2
    <3>3. B[i - m] = (base + (from + m)) + (i - m) - 1
      BY <1>2, <1>4, <3>1
    <3>4. C[i] = base + from + i - 1
      BY <1>3
    <3> QED
      BY <1>4, <3>2, <3>3, <3>4
  <2>3. i <= m \/ i > m
    OBVIOUS
  <2> HIDE DEF A, B, C
  <2> QED
    BY <2>1, <2>2, <2>3, Zenon
<1>7. A \o B = C
  <2> DEFINE D == A \o B
  <2> HIDE DEF A, B, C
  <2>1. D \in Seq(Int) /\ C \in Seq(Int) /\ Len(D) = Len(C)
    BY <1>3, <1>5
  <2>2. Len(D) = m + n
    BY <1>5
  <2>3. \A i \in 1 .. Len(D) : D[i] = C[i]
    BY <1>6, <2>2
  <2> HIDE DEF D
  <2>4. D = C
    BY <2>1, <2>3, SeqEqual
  <2> QED
    BY <2>4 DEF D
<1> QED
  BY <1>7 DEF Joined

-----------------------------------------------------------------------------
LEMMA InitInv == Init => IInv
<1> SUFFICES ASSUME Init PROVE IInv
  OBVIOUS
<1> USE DiskAssumption DEF DiskAssumption
<1>1. Typed
  <2>1. view \in Partition /\ table = <<>> /\ buffer = <<>>
    BY DEF Init, Partition
  <2>2. walk \in [lba : Nat, into : 0 .. SectorBytes - 1, length : Nat]
    BY DEF Init
  <2> QED
    BY <2>1, <2>2 DEF Init, Typed
<1>2. PartitionsOnDevice
  BY DEF Init, PartitionsOnDevice
<1>3. Progress /\ AccessConfined /\ BytesAsAsked
  BY DEF Init, Progress, AccessConfined, BytesAsAsked
<1> QED
  BY <1>1, <1>2, <1>3 DEF IInv

-----------------------------------------------------------------------------
(* The tables.                                                             *)

(* An entry that is kept is on the device; the rest stay as they are.      *)
LEMMA EntryKept ==
  ASSUME Typed, PartitionsOnDevice,
         NEW start \in 0 .. WordSize - 1, NEW sectors \in 0 .. WordSize - 1,
         UNCHANGED sector_count,
         table' = table \/ table' = WithEntry(start, sectors)
  PROVE  table' \in Seq(Partition) /\ PartitionsOnDevice'
<1> USE DiskAssumption DEF DiskAssumption
<1>1. table \in Seq(Partition) /\ sector_count \in {0, DeviceSectors}
  BY DEF Typed
<1>2. CASE table' = table
  BY <1>1, <1>2 DEF PartitionsOnDevice
<1>3. CASE table' # table
  <2> DEFINE e == [start |-> start, sectors |-> sectors]
  <2>1. table' = Append(table, e) /\ Inside(start, sectors)
    BY <1>3 DEF WithEntry
  <2>2. e \in Partition /\ e.start = start /\ e.sectors = sectors
    BY DEF Partition
  <2>3. e.start + e.sectors <= IF sector_count = 0 THEN WordSize - 1 ELSE sector_count
    BY <1>1, <2>1, <2>2 DEF Inside, Reaches
  <2> HIDE DEF e
  <2>4. /\ table' \in Seq(Partition)
        /\ DOMAIN table' = DOMAIN table \cup {Len(table) + 1}
        /\ table'[Len(table) + 1] = e
        /\ \A i \in DOMAIN table : table'[i] = table[i]
    BY <1>1, <2>1, <2>2
  <2> QED
    BY <2>3, <2>4 DEF PartitionsOnDevice
<1> QED
  BY <1>2, <1>3

(* While a partition is being chosen nothing of a read changes.            *)
LEMMA ChoosingInv ==
  ASSUME IInv, Choosing, Choosing', UNCHANGED reader,
         table' \in Seq(Partition), PartitionsOnDevice'
  PROVE  IInv'
<1>1. UNCHANGED <<sector_count, view, request, walk, buffer, access, outcome>>
  BY DEF reader
<1>2. buffer' = <<>> /\ outcome' = "none"
  BY <1>1 DEF IInv, Typed
<1>3. Typed'
  BY <1>1, <1>2 DEF IInv, Typed
<1>4. Progress' /\ AccessConfined' /\ BytesAsAsked'
  BY <1>2 DEF Choosing, Progress, AccessConfined, BytesAsAsked
<1> QED
  BY <1>3, <1>4 DEF IInv

LEMMA TableInv ==
  ASSUME IInv,
         \/ \E start \in Starts, sectors \in Counts : mbr_entry(start, sectors)
         \/ mbr_empty \/ mbr_protective \/ mbr_end \/ not_a_table
         \/ \E lba \in Starts, count \in Counts : parse_gpt(lba, count)
         \/ \E first, last \in Starts : gpt_entry(first, last)
         \/ gpt_unused \/ gpt_end
  PROVE  IInv'
<1> USE DiskAssumption DEF DiskAssumption
<1>1. table \in Seq(Partition) /\ Typed /\ PartitionsOnDevice
  BY DEF IInv, Typed
<1>2. ASSUME Choosing, Choosing', UNCHANGED reader, UNCHANGED table PROVE IInv'
  <2>1. PartitionsOnDevice'
    BY <1>1, <1>2 DEF PartitionsOnDevice, reader
  <2> QED
    BY <1>1, <1>2, <2>1, ChoosingInv
<1>3. ASSUME NEW start \in Starts, NEW sectors \in Counts, mbr_entry(start, sectors) PROVE IInv'
  <2>1. /\ Choosing /\ Choosing' /\ UNCHANGED reader
        /\ table' = WithEntry(start, sectors)
    BY <1>3 DEF mbr_entry, Choosing
  <2>2. start \in 0 .. WordSize - 1 /\ sectors \in 0 .. WordSize - 1
    OBVIOUS
  <2>3. UNCHANGED sector_count
    BY <2>1 DEF reader
  <2>4. table' \in Seq(Partition) /\ PartitionsOnDevice'
    BY <1>1, <2>1, <2>2, <2>3, EntryKept
  <2> QED
    BY <2>1, <2>4, ChoosingInv
<1>4. CASE mbr_empty
  BY <1>2, <1>4 DEF mbr_empty, Choosing
<1>5. CASE mbr_protective
  <2>1. Choosing /\ Choosing' /\ UNCHANGED reader /\ table' = <<>>
    BY <1>5 DEF mbr_protective, Choosing
  <2>2. table' \in Seq(Partition) /\ PartitionsOnDevice'
    BY <2>1 DEF PartitionsOnDevice
  <2> QED
    BY <2>1, <2>2, ChoosingInv
<1>6. ASSUME Found, Choosing PROVE IInv'
  <2>1. Choosing'
    BY <1>6 DEF Found, Choosing
  <2> QED
    BY <1>2, <1>6, <2>1 DEF Found
<1>7. CASE mbr_end
  BY <1>6, <1>7 DEF mbr_end, Choosing
<1>8. CASE not_a_table
  BY <1>2, <1>8 DEF not_a_table, Choosing
<1>9. ASSUME NEW lba \in Starts, NEW count \in Counts, parse_gpt(lba, count) PROVE IInv'
  BY <1>2, <1>9 DEF parse_gpt, Choosing
<1>10. ASSUME NEW first \in Starts, NEW last \in Starts, gpt_entry(first, last) PROVE IInv'
  <2>1. /\ Choosing /\ Choosing' /\ UNCHANGED reader
        /\ table' = table \/ table' = WithEntry(first, (last - first + 1) % WordSize)
    BY <1>10 DEF gpt_entry, Choosing
  <2>2. first \in 0 .. WordSize - 1 /\ last - first + 1 \in Int /\ WordSize \in Nat \ {0}
    OBVIOUS
  <2>3. (last - first + 1) % WordSize \in 0 .. WordSize - 1
    BY <2>2, ModInWord
  <2>4. UNCHANGED sector_count
    BY <2>1 DEF reader
  <2>5. table' \in Seq(Partition) /\ PartitionsOnDevice'
    BY <1>1, <2>1, <2>2, <2>3, <2>4, EntryKept
  <2> QED
    BY <2>1, <2>5, ChoosingInv
<1>11. CASE gpt_unused
  BY <1>2, <1>11 DEF gpt_unused, Choosing
<1>12. CASE gpt_end
  BY <1>6, <1>12 DEF gpt_end, Choosing
<1> QED
  BY <1>3, <1>4, <1>5, <1>7, <1>8, <1>9, <1>10, <1>11, <1>12

(* One entry of the table is what is read of from here on.                 *)
LEMMA OpenInv ==
  ASSUME IInv, NEW i \in DOMAIN table, partition_open(i)
  PROVE  IInv'
<1>1. /\ view' = table[i] /\ table' = <<>> /\ pc' = "open" /\ pc = "table"
      /\ UNCHANGED <<sector_count, request, walk, buffer, access, outcome>>
  BY DEF partition_open
<1>2. buffer = <<>> /\ outcome = "none"
  BY <1>1 DEF IInv, Typed, Choosing
<1>3. view' \in Partition
  BY <1>1 DEF IInv, Typed
<1>4. Typed'
  BY <1>1, <1>2, <1>3 DEF IInv, Typed
<1>5. PartitionsOnDevice'
  BY <1>1 DEF PartitionsOnDevice
<1>6. Progress' /\ AccessConfined' /\ BytesAsAsked'
  BY <1>1, <1>2 DEF Progress, AccessConfined, BytesAsAsked
<1> QED
  BY <1>4, <1>5, <1>6 DEF IInv

-----------------------------------------------------------------------------
(* A range of the partition that was opened.                               *)

LEMMA BeginInv ==
  ASSUME IInv, NEW offset \in Offsets, NEW length \in Lengths, block_read_bytes(offset, length)
  PROVE  IInv'
<1> USE DiskAssumption DEF DiskAssumption
<1>1. offset \in Nat /\ length \in Nat /\ length > 0 /\ SectorBytes \in Nat \ {0}
  BY DEF block_read_bytes
<1>2. /\ request' = [offset |-> offset, length |-> length]
      /\ walk' = [lba |-> offset \div SectorBytes, into |-> offset % SectorBytes, length |-> length]
      /\ buffer' = <<>> /\ outcome' = "none" /\ pc' = "reading"
      /\ UNCHANGED <<sector_count, table, view>>
  BY DEF block_read_bytes, tables
<1>3. /\ offset \div SectorBytes \in Nat /\ offset % SectorBytes \in 0 .. SectorBytes - 1
      /\ offset = (offset \div SectorBytes) * SectorBytes + (offset % SectorBytes)
  BY <1>1, DivMod
<1>4. Typed'
  BY <1>1, <1>2, <1>3 DEF IInv, Typed, Choosing
<1>5. PartitionsOnDevice'
  BY <1>2 DEF IInv, PartitionsOnDevice
<1>6. Progress'
  <2>1. view'.start \in Int /\ request'.offset \in Int
    BY <1>1, <1>2 DEF IInv, Typed, Partition
  <2>2. buffer' = Bytes(view'.start, request'.offset, 0) /\ Len(buffer') = 0
    BY <1>2, EmptyBytes
  <2>3. walk'.lba * SectorBytes + walk'.into = request'.offset
    BY <1>2, <1>3
  <2> QED
    BY <1>1, <1>2, <2>2, <2>3 DEF Progress
<1>7. AccessConfined' /\ BytesAsAsked'
  BY <1>2 DEF AccessConfined, BytesAsAsked
<1> QED
  BY <1>4, <1>5, <1>6, <1>7 DEF IInv

LEMMA AtOnceInv ==
  ASSUME IInv, NEW offset \in Offsets, NEW length \in Lengths, block_read_bytes_at_once(offset, length)
  PROVE  IInv'
<1> USE DiskAssumption DEF DiskAssumption
<1>1. /\ request' = [offset |-> offset, length |-> length]
      /\ buffer' = <<>> /\ outcome' = (IF length = 0 THEN "read" ELSE "failed")
      /\ pc' = "open"
      /\ UNCHANGED <<sector_count, table, view, walk>>
  BY DEF block_read_bytes_at_once, tables
<1>2. offset \in Nat /\ length \in Nat
  OBVIOUS
<1>3. Typed'
  BY <1>1, <1>2 DEF IInv, Typed, Choosing
<1>4. PartitionsOnDevice'
  BY <1>1 DEF IInv, PartitionsOnDevice
<1>5. Progress' /\ AccessConfined'
  BY <1>1 DEF Progress, AccessConfined
<1>6. BytesAsAsked'
  <2> SUFFICES ASSUME outcome' = "read" PROVE buffer' = Bytes(view'.start, request'.offset, request'.length)
    BY DEF BytesAsAsked
  <2>1. length = 0
    BY <1>1
  <2> QED
    BY <1>1, <2>1, EmptyBytes
<1> QED
  BY <1>3, <1>4, <1>5, <1>6 DEF IInv

(* One request: it is no more than is needed, and fills the sectors it     *)
(* asks for unless it is the last.                                         *)
LEMMA TransferInv ==
  ASSUME IInv, NEW count \in 1 .. MaxPerRead, NEW n \in Nat, n > 0, n <= walk.length,
         walk.into + n = count * SectorBytes \/ n = walk.length,
         Transfer(count, n)
  PROVE  IInv'
<1>1. /\ pc = "reading" /\ walk.lba + count <= view.sectors
      /\ access' = [lba |-> view.start + walk.lba, count |-> count]
      /\ buffer' = buffer \o Bytes(view.start + walk.lba, walk.into, n)
      /\ walk' = [lba |-> walk.lba + count, into |-> 0, length |-> walk.length - n]
      /\ pc' = (IF walk.length = n THEN "open" ELSE "reading")
      /\ outcome' = (IF walk.length = n THEN "read" ELSE outcome)
      /\ UNCHANGED <<sector_count, table, view, request>>
  BY DEF Transfer, Confined, Absolute, tables
<1>2. /\ walk.lba \in Nat /\ walk.into \in Nat /\ walk.length \in Nat
      /\ view.start \in Nat /\ view.sectors \in Nat
      /\ request.offset \in Nat /\ request.length \in Nat
      /\ buffer \in Seq(Int) /\ Len(buffer) \in Nat
      /\ count \in Nat /\ SectorBytes \in Nat \ {0}
  <2>1. walk \in [lba : Nat, into : 0 .. SectorBytes - 1, length : Nat]
    BY DEF IInv, Typed
  <2>2. view \in Partition /\ request \in [offset : Nat, length : Nat] /\ buffer \in Seq(Int)
    BY DEF IInv, Typed
  <2>3. view.start \in Nat /\ view.sectors \in Nat
    BY <2>2 DEF Partition
  <2>4. SectorBytes \in Nat \ {0} /\ MaxPerRead \in Nat \ {0}
    BY DiskAssumption DEF DiskAssumption
  <2> QED
    BY <2>1, <2>2, <2>3, <2>4
<1>3. /\ walk.length + Len(buffer) = request.length
      /\ walk.lba * SectorBytes + walk.into = request.offset + Len(buffer)
      /\ buffer = Bytes(view.start, request.offset, Len(buffer))
  BY <1>1 DEF IInv, Progress
<1>4. buffer' = Bytes(view.start, request.offset, Len(buffer) + n)
  <2>1. Bytes(view.start, request.offset, Len(buffer)) \o Bytes(view.start + walk.lba, walk.into, n)
          = Bytes(view.start, request.offset, Len(buffer) + n)
    <3> DEFINE s == view.start
               from == request.offset
               m == Len(buffer)
               t == walk.lba
               into == walk.into
    <3>1. /\ s \in Nat /\ from \in Nat /\ m \in Nat
          /\ t \in Nat /\ into \in Nat /\ SectorBytes \in Nat
      BY <1>2
    <3>2. t * SectorBytes + into = from + m
      BY <1>3
    <3> DEFINE u == s + t
               k == m + n
    <3>4. u = s + t /\ k = m + n
      OBVIOUS
    <3> HIDE DEF s, from, m, t, into, u, k
    <3>3. Joined(s, from, m, u, into, n, k)
      BY <3>1, <3>2, <3>4, BytesJoin
    <3> QED
      BY <3>3, Zenon DEF Joined, s, from, m, t, into, u, k
  <2> QED
    BY <1>1, <1>3, <2>1, Zenon
<1>5. buffer' \in Seq(Int) /\ Len(buffer') = Len(buffer) + n
  <2>1. view.start \in Int /\ request.offset \in Int /\ Len(buffer) + n \in Nat /\ SectorBytes \in Nat
    BY <1>2
  <2> QED
    BY <1>4, <2>1, BytesTyped, Zenon
<1>6. Typed'
  <2>1. walk' \in [lba : Nat, into : 0 .. SectorBytes - 1, length : Nat]
    BY <1>1, <1>2
  <2>2. ~ Choosing'
    BY <1>1 DEF Choosing
  <2> QED
    BY <1>1, <1>5, <2>1, <2>2 DEF IInv, Typed
<1>7. PartitionsOnDevice'
  BY <1>1 DEF IInv, PartitionsOnDevice
<1>8. Progress'
  <2> SUFFICES ASSUME pc' = "reading" PROVE Progress'
    BY DEF Progress
  <2>1. n # walk.length /\ walk.into + n = count * SectorBytes
    BY <1>1
  <2>2. walk'.length = walk.length - n /\ walk'.lba = walk.lba + count /\ walk'.into = 0
    BY <1>1
  <2>3. walk'.length > 0 /\ walk'.length + Len(buffer') = request'.length
    <3>1. request' = request /\ Len(buffer') = Len(buffer) + n
      BY <1>1, <1>5
    <3>2. n # walk.length
      BY <2>1
    <3>3. walk.length + Len(buffer) = request.length
      BY <1>3
    <3>4. walk.length \in Nat /\ Len(buffer) \in Nat /\ n <= walk.length
      BY <1>2
    <3> QED
      BY <2>2, <3>1, <3>2, <3>3, <3>4
  <2>4. walk'.lba * SectorBytes + walk'.into = request'.offset + Len(buffer')
    <3>1. (walk.lba + count) * SectorBytes = walk.lba * SectorBytes + count * SectorBytes
      BY <1>2
    <3>2. walk.lba * SectorBytes \in Nat /\ count * SectorBytes \in Nat
      BY <1>2
    <3>3. request' = request /\ Len(buffer') = Len(buffer) + n
      BY <1>1, <1>5
    <3> DEFINE so_far == walk.lba * SectorBytes
               added == count * SectorBytes
               next == walk'.lba * SectorBytes
    <3>4. /\ so_far \in Nat /\ added \in Nat
          /\ next = so_far + added
          /\ walk.into + n = added
          /\ so_far + walk.into = request.offset + Len(buffer)
      BY <1>3, <2>1, <2>2, <3>1, <3>2
    <3>5. walk.into \in Nat /\ request.offset \in Nat /\ Len(buffer) \in Nat
      BY <1>2
    <3> DEFINE into == walk.into
               offset == request.offset
               m == Len(buffer)
    <3>7. next = offset + (m + n)
      <4>1. /\ into \in Nat /\ offset \in Nat /\ m \in Nat /\ so_far \in Nat /\ added \in Nat
            /\ next = so_far + added /\ into + n = added /\ so_far + into = offset + m
        BY <3>4, <3>5
      <4> HIDE DEF so_far, added, next, into, offset, m
      <4>2. n = added - into
        BY <4>1
      <4> QED
        BY <4>1, <4>2
    <3> HIDE DEF so_far, added, next
    <3>8. next \in Nat
      BY <3>4
    <3>6. next + walk'.into = request'.offset + Len(buffer')
      BY <2>2, <3>3, <3>7, <3>8
    <3> QED
      BY <3>6 DEF next
  <2>5. buffer' = Bytes(view'.start, request'.offset, Len(buffer'))
    BY <1>1, <1>4, <1>5
  <2> QED
    BY <2>3, <2>4, <2>5 DEF Progress
<1>9. AccessConfined'
  <2>1. access'.lba = view.start + walk.lba /\ access'.count = count /\ view' = view
    BY <1>1
  <2> DEFINE lba == walk.lba
             start == view.start
             sectors == view.sectors
  <2>2. lba \in Nat /\ start \in Nat /\ sectors \in Nat /\ lba + count <= sectors
    BY <1>1, <1>2
  <2>3. start <= start + lba /\ (start + lba) + count <= start + sectors
    <3> HIDE DEF lba, start, sectors
    <3> QED
      BY <1>2, <2>2
  <2> QED
    BY <2>1, <2>3 DEF AccessConfined
<1>10. BytesAsAsked'
  <2> SUFFICES ASSUME pc' = "open" PROVE buffer' = Bytes(view'.start, request'.offset, request'.length)
    BY DEF BytesAsAsked
  <2>1. n = walk.length /\ view' = view /\ request' = request
    BY <1>1
  <2>2. Len(buffer) + n = request.length
    BY <1>2, <1>3, <2>1
  <2> QED
    BY <1>4, <2>1, <2>2, Zenon
<1> QED
  BY <1>6, <1>7, <1>8, <1>9, <1>10 DEF IInv

LEMMA ReadInv ==
  ASSUME IInv, read_head \/ read_whole \/ read_tail
  PROVE  IInv'
<1>1. pc = "reading"
  BY DEF read_head, read_whole, read_tail, Transfer
<1>2. /\ walk.length \in Nat /\ walk.length > 0
      /\ walk.into \in 0 .. SectorBytes - 1 /\ SectorBytes \in Nat \ {0}
      /\ MaxPerRead \in Nat \ {0}
  BY <1>1, DiskAssumption DEF IInv, Typed, Progress, DiskAssumption
<1>3. CASE read_head
  <2> DEFINE n == Min({SectorBytes - walk.into, walk.length})
  <2>0. SectorBytes - walk.into \in Int /\ walk.length \in Int
    BY <1>2
  <2>1. n \in {SectorBytes - walk.into, walk.length} /\ n <= walk.length
    BY <2>0, MinOfTwo
  <2>2. Transfer(1, n)
    BY <1>3 DEF read_head
  <2> HIDE DEF n
  <2>3. n \in Nat /\ n > 0 /\ 1 \in 1 .. MaxPerRead
    BY <1>2, <2>1
  <2>4. walk.into + n = 1 * SectorBytes \/ n = walk.length
    BY <1>2, <2>1
  <2> QED
    BY <2>1, <2>2, <2>3, <2>4, TransferInv
<1>4. CASE read_whole
  <2>1. walk.into = 0 /\ walk.length >= SectorBytes /\ Transfer(Chunk, Chunk * SectorBytes)
    BY <1>4 DEF read_whole
  <2>2. /\ walk.length \div SectorBytes \in Nat /\ walk.length \div SectorBytes >= 1
        /\ (walk.length \div SectorBytes) * SectorBytes <= walk.length
    <3>1. /\ walk.length \div SectorBytes \in Nat /\ walk.length % SectorBytes \in 0 .. SectorBytes - 1
          /\ walk.length = (walk.length \div SectorBytes) * SectorBytes + (walk.length % SectorBytes)
      BY <1>2, DivMod
    <3>2. (walk.length \div SectorBytes) * SectorBytes \in Nat
      BY <1>2, <3>1
    <3>3. walk.length \div SectorBytes >= 1
      BY <1>2, <2>1, DivAtLeast
    <3> DEFINE product == (walk.length \div SectorBytes) * SectorBytes
    <3>4. product <= walk.length
      <4>1. walk.length = product + (walk.length % SectorBytes) /\ product \in Nat
        BY <3>1, <3>2
      <4>2. walk.length % SectorBytes \in Nat
        BY <1>2, <3>1
      <4> HIDE DEF product
      <4> QED
        BY <1>2, <4>1, <4>2
    <3> QED
      BY <3>1, <3>3, <3>4
  <2>3. /\ Chunk \in {walk.length \div SectorBytes, MaxPerRead}
        /\ Chunk <= walk.length \div SectorBytes /\ Chunk <= MaxPerRead
    <3>1. walk.length \div SectorBytes \in Int /\ MaxPerRead \in Int
      BY <1>2, <2>2
    <3> QED
      BY <3>1, MinOfTwo DEF Chunk
  <2>4. Chunk \in 1 .. MaxPerRead
    BY <1>2, <2>2, <2>3
  <2>5. Chunk * SectorBytes <= walk.length
    <3>1. Chunk * SectorBytes <= (walk.length \div SectorBytes) * SectorBytes
      BY <1>2, <2>2, <2>3, <2>4, ProductOrder
    <3>2. Chunk * SectorBytes \in Nat /\ (walk.length \div SectorBytes) * SectorBytes \in Nat
      BY <1>2, <2>2, <2>4
    <3> QED
      BY <1>2, <2>2, <3>1, <3>2
  <2>6. Chunk * SectorBytes \in Nat /\ Chunk * SectorBytes > 0
    BY <1>2, <2>4
  <2>7. walk.into + Chunk * SectorBytes = Chunk * SectorBytes
    BY <2>1, <2>6
  <2> QED
    BY <2>1, <2>4, <2>5, <2>6, <2>7, TransferInv
<1>5. CASE read_tail
  <2>1. Transfer(1, walk.length) /\ 1 \in 1 .. MaxPerRead
    BY <1>2, <1>5 DEF read_tail
  <2> QED
    BY <1>2, <2>1, TransferInv
<1> QED
  BY <1>3, <1>4, <1>5

LEMMA FailedInv ==
  ASSUME IInv, read_failed
  PROVE  IInv'
<1>1. /\ pc' = "open" /\ outcome' = "failed"
      /\ UNCHANGED <<sector_count, table, view, request, walk, buffer, access>>
  BY DEF read_failed, tables
<1>2. Typed'
  BY <1>1 DEF IInv, Typed, Choosing
<1>3. PartitionsOnDevice' /\ AccessConfined'
  BY <1>1 DEF IInv, PartitionsOnDevice, AccessConfined
<1>4. Progress' /\ BytesAsAsked'
  BY <1>1 DEF Progress, BytesAsAsked
<1> QED
  BY <1>2, <1>3, <1>4 DEF IInv

LEMMA NextInv == IInv /\ [Next]_vars => IInv'
<1> SUFFICES ASSUME IInv, [Next]_vars PROVE IInv'
  OBVIOUS
<1>1. CASE UNCHANGED vars
  <2>1. /\ UNCHANGED <<sector_count, pc, table, view, request, walk>>
        /\ UNCHANGED <<buffer, access, outcome>>
    BY <1>1 DEF vars
  <2> QED
    BY <2>1 DEF IInv, Typed, Choosing, PartitionsOnDevice, Progress, AccessConfined, BytesAsAsked, Bytes
<1> QED
  BY <1>1, TableInv, OpenInv, BeginInv, AtOnceInv, ReadInv, FailedInv DEF Next

-----------------------------------------------------------------------------
(* No entry of a table, of either kind and whatever it says, ends past the *)
(* end of the drive, nor wraps on one that will not say where that is.     *)
THEOREM PartitionsAreOnDevice == Spec => []PartitionsOnDevice
<1>1. IInv => PartitionsOnDevice
  BY DEF IInv
<1> QED
  BY InitInv, NextInv, <1>1, PTL DEF Spec

(* No request of the drive is outside the partition, empty or too long,    *)
(* whatever ranges are asked for.                                          *)
THEOREM AccessIsConfined == Spec => []AccessConfined
<1>1. IInv => AccessConfined
  BY DEF IInv
<1> QED
  BY InitInv, NextInv, <1>1, PTL DEF Spec

(* A range that reads is exactly the bytes that were asked for, for any    *)
(* sector size, offset, length and limit on a request.                     *)
THEOREM ReadsAreAsAsked == Spec => []BytesAsAsked
<1>1. IInv => BytesAsAsked
  BY DEF IInv
<1> QED
  BY InitInv, NextInv, <1>1, PTL DEF Spec
=============================================================================
