------------------------------- MODULE AtaProof -------------------------------
(***************************************************************************)
(* Proofs about Ata, for registers of any width, drives of any size and    *)
(* either command set, slow, failing or silent.                            *)
(*                                                                         *)
(* As long as no read was abandoned, driver and drive agree about what is  *)
(* under way: while the driver waits, the drive stands on the sector after *)
(* those copied and owes as many as are missing; otherwise it serves no    *)
(* command.                                                                *)
(***************************************************************************)
EXTENDS Ata, TLAPS

Read(n) == [i \in 1 .. n |-> asked.lba + i - 1]

Asked ==
  /\ asked.count # 0 /\ asked.lba + asked.count <= drive.size
  /\ Addressable(asked.lba, asked.count)
  /\ outcome = "none"

(* What the drive still owes while the driver waits for it.                *)
Serving ==
  /\ Len(buffer) < asked.count /\ buffer = Read(Len(buffer))
  /\ drive.phase \in {"busy", "data"} =>
       drive.next = asked.lba + Len(buffer) /\ drive.left = asked.count - Len(buffer)

Agreed ==
  /\ pc # "wait" => drive.phase \in {"idle", "error"}
  /\ pc = "wait" => Serving
  /\ outcome = "read" => buffer = Read(asked.count)

IInv ==
  /\ TypeOK
  /\ drive.size <= Digit * Digit /\ drive.next \in Nat
  /\ drive.phase \in {"busy", "data"} => drive.left > 0
  /\ pc \in {"probe", "none"} => drive.phase = "idle" /\ outcome = "none"
  /\ pc = "issue" => Asked /\ buffer = <<>>
  /\ pc = "wait" => Asked /\ Len(buffer) < asked.count
  /\ ~ abandoned => Agreed

-----------------------------------------------------------------------------
LEMMA DivMod ==
  ASSUME NEW a \in Nat, NEW b \in Nat \ {0}
  PROVE  /\ a \div b \in Nat /\ a % b \in 0 .. b - 1
         /\ a = (a \div b) * b + (a % b)
  OBVIOUS

LEMMA ProductOrder ==
  ASSUME NEW a \in Nat, NEW b \in Nat, NEW c \in Nat, a <= b
  PROVE  a * c <= b * c
  OBVIOUS

LEMMA BelowItself ==
  ASSUME NEW x \in Nat, NEW d \in Nat \ {0}, x < d
  PROVE  x % d = x
  OBVIOUS

(* Two digits hold any number below their product.                         *)
LEMMA Digits ==
  ASSUME NEW x \in Nat, NEW d \in Nat \ {0}, NEW n \in Nat \ {0}, x < n * d
  PROVE  ((x \div d) % n) * d + (x % d) = x
<1> DEFINE q == x \div d
           r == x % d
<1>1. q \in Nat /\ r \in 0 .. d - 1 /\ x = q * d + r
  BY DivMod
<1> HIDE DEF q, r
<1>2. q < n
  <2> SUFFICES ASSUME q >= n PROVE FALSE
    BY <1>1
  <2>1. n * d <= q * d
    BY <1>1, ProductOrder
  <2>2. n * d \in Nat /\ q * d \in Nat
    BY <1>1
  <2> QED
    BY <1>1, <2>1, <2>2
<1>3. q % n = q
  BY <1>1, <1>2, BelowItself
<1>4. (q % n) * d + r = x
  BY <1>1, <1>3
<1> QED
  BY <1>4 DEF q, r

(* A count that is the product of its digits is written as none at all.    *)
LEMMA ProductDigits ==
  ASSUME NEW d \in Nat \ {0}
  PROVE  ((((d * d) \div d) % d) * d) + ((d * d) % d) = 0
<1>1. (d * d) \div d = d
  OBVIOUS
<1>2. (d * d) % d = 0 /\ d % d = 0
  OBVIOUS
<1> QED
  BY <1>1, <1>2

LEMMA QueueOfDigits ==
  ASSUME NEW value \in Nat
  PROVE  Queued(Queue(value)) = ((value \div Digit) % Digit) * Digit + (value % Digit)
<1> DEFINE high == (value \div Digit) % Digit
           low == value % Digit
<1>1. Queue(value) = <<high, low>>
  BY DEF Queue
<1> HIDE DEF high, low
<1>2. Queued(<<high, low>>) = high * Digit + low
  BY DEF Queued
<1> QED
  BY <1>1, <1>2 DEF high, low

(* The registers say what was asked, at every limit of either command.     *)
LEMMA CommandedAsAsked ==
  ASSUME AtaAssumption, IInv, pc = "issue"
  PROVE  Commanded = [next |-> asked.lba, left |-> asked.count]
<1>1. /\ Digit \in Nat \ {0} /\ Nibble \in Nat \ {0} /\ Nibble <= Digit
      /\ asked.lba \in Nat /\ asked.count \in Nat /\ asked.count # 0
      /\ asked.lba + asked.count <= Digit * Digit
      /\ Addressable(asked.lba, asked.count)
  BY DEF AtaAssumption, IInv, TypeOK, Asked, Drive
<1>2. CASE lba48
  <2>1. Queued(Queue(asked.lba)) = asked.lba
    <3>1. asked.lba < Digit * Digit
      BY <1>1
    <3> QED
      BY <1>1, <3>1, Digits, QueueOfDigits
  <2>2. asked.count <= Digit * Digit
    BY <1>1
  <2>3. CountOf(Queued(Queue(asked.count)), ATA_LBA48_MAX_SECTORS) = asked.count
    <3>1. CASE asked.count = Digit * Digit
      <4>1. Queued(Queue(Digit * Digit)) = 0
        <5>1. Digit * Digit \in Nat
          BY <1>1
        <5> QED
          BY <1>1, <5>1, ProductDigits, QueueOfDigits
      <4> QED
        BY <3>1, <4>1 DEF CountOf, ATA_LBA48_MAX_SECTORS
    <3>2. CASE asked.count < Digit * Digit
      <4>1. Queued(Queue(asked.count)) = asked.count
        BY <1>1, <3>2, Digits, QueueOfDigits
      <4> QED
        BY <1>1, <4>1 DEF CountOf
    <3> QED
      BY <1>1, <2>2, <3>1, <3>2
  <2> QED
    BY <1>2, <2>1, <2>3 DEF Commanded
<1>3. CASE ~ lba48
  <2>1. asked.lba + asked.count <= Nibble * Digit /\ asked.count <= Digit
    BY <1>1, <1>3 DEF Addressable, ATA_LBA28_SECTOR_LIMIT, ATA_LBA28_MAX_SECTORS
  <2>2. HighBits(asked.lba) * Digit + (asked.lba % Digit) = asked.lba
    <3>1. asked.lba < Nibble * Digit
      BY <1>1, <2>1
    <3> QED
      BY <1>1, <3>1, Digits DEF HighBits
  <2>3. CountOf(IF asked.count = ATA_LBA28_MAX_SECTORS THEN 0 ELSE asked.count,
                ATA_LBA28_MAX_SECTORS) = asked.count
    BY <1>1 DEF CountOf, ATA_LBA28_MAX_SECTORS
  <2> QED
    BY <1>3, <2>2, <2>3 DEF Commanded
<1> QED
  BY <1>2, <1>3

LEMMA InitInv == AtaAssumption /\ Init => IInv
<1> SUFFICES ASSUME AtaAssumption, Init PROVE IInv
  OBVIOUS
<1>1. /\ drive \in [size : Sizes, lba : BOOLEAN, lba48 : BOOLEAN,
                    phase : {"idle"}, next : {0}, left : {0}]
      /\ Sizes \subseteq 0 .. Digit * Digit /\ Digit * Digit \in Nat
  BY DEF AtaAssumption, Init
<1>4. drive \in Drive /\ drive.size <= Digit * Digit /\ drive.phase = "idle" /\ drive.next = 0
  <2>1. drive.size \in 0 .. Digit * Digit /\ drive.phase = "idle" /\ drive.next = 0
    BY <1>1
  <2>2. drive.size \in Nat /\ drive.size <= Digit * Digit
    BY <1>1, <2>1
  <2> QED
    BY <1>1, <2>1, <2>2 DEF Drive
<1>2. TypeOK
  <2>1. asked \in [lba : Nat, count : Nat] /\ Len(buffer) <= asked.count /\ buffer \in Seq(Nat)
    BY DEF Init
  <2>2. Attempts \in Nat /\ MaxReads \in Nat
    BY DEF AtaAssumption
  <2>3. attempt \in 0 .. Attempts /\ reads \in 0 .. MaxReads
    BY <2>2 DEF Init
  <2> QED
    BY <1>4, <2>1, <2>3 DEF Init, TypeOK
<1>3. Agreed
  BY <1>4 DEF Init, Agreed
<1> QED
  BY <1>2, <1>3, <1>4 DEF Init, IInv

-----------------------------------------------------------------------------
(* A driver at rest, and the drive it found.                               *)
LEMMA AtRest ==
  ASSUME IInv, UNCHANGED <<drive, asked, attempt, buffer, outcome, abandoned, reads>>,
         lba48' \in BOOLEAN, pc = "probe", pc' \in {"none", "ready"}
  PROVE  IInv'
<1>1. TypeOK'
  BY DEF IInv, TypeOK
<1>2. drive.phase = "idle" /\ outcome = "none"
  BY DEF IInv
<1>3. Agreed'
  BY <1>2 DEF Agreed
<1> QED
  BY <1>1, <1>2, <1>3 DEF IInv

LEMMA ReadBegins ==
  ASSUME AtaAssumption, IInv, NEW lba \in Nat, NEW count \in Nat, ata_read_sectors(lba, count)
  PROVE  IInv'
<1>1. /\ pc = "ready" /\ pc' = "issue" /\ reads < MaxReads /\ reads' = reads + 1
      /\ count # 0 /\ lba + count <= drive.size /\ Addressable(lba, count)
      /\ asked' = [lba |-> lba, count |-> count] /\ buffer' = <<>> /\ outcome' = "none"
      /\ UNCHANGED <<drive, lba48, attempt, abandoned>>
  BY DEF ata_read_sectors
<1>2. TypeOK'
  <2>1. reads' \in 0 .. MaxReads
    BY <1>1 DEF AtaAssumption, IInv, TypeOK
  <2>2. asked' \in [lba : Nat, count : Nat] /\ buffer' \in Seq(Nat) /\ Len(buffer') <= asked'.count
    BY <1>1
  <2> QED
    BY <1>1, <2>1, <2>2 DEF IInv, TypeOK
<1>3. Asked'
  BY <1>1 DEF Asked, Addressable
<1>4. ~ abandoned => Agreed'
  BY <1>1 DEF IInv, Agreed
<1> QED
  BY <1>1, <1>2, <1>3, <1>4 DEF IInv

LEMMA CommandWritten ==
  ASSUME AtaAssumption, IInv, NEW accepted \in BOOLEAN, issue(accepted)
  PROVE  IInv'
<1>1. /\ pc = "issue" /\ pc' = "wait" /\ attempt' = 0
      /\ accepted \/ drive.phase \in {"busy", "data"}
      /\ drive' = IF accepted
                    THEN [drive EXCEPT !.phase = "busy", !.next = Commanded.next,
                                       !.left = Commanded.left]
                    ELSE drive
      /\ UNCHANGED <<lba48, asked, buffer, outcome, abandoned, reads>>
  BY DEF issue
<1>2. /\ Asked /\ buffer = <<>> /\ Len(buffer) = 0
      /\ asked.lba \in Nat /\ asked.count \in Nat /\ drive \in Drive
  BY <1>1 DEF IInv, TypeOK
<1>3. accepted => drive' = [size |-> drive.size, lba |-> drive.lba, lba48 |-> drive.lba48,
                            phase |-> "busy", next |-> asked.lba, left |-> asked.count]
  <2>1. Commanded.next = asked.lba /\ Commanded.left = asked.count
    BY <1>1, CommandedAsAsked
  <2>2. accepted => drive' = [drive EXCEPT !.phase = "busy", !.next = asked.lba, !.left = asked.count]
    BY <1>1, <2>1
  <2> QED
    BY <1>2, <2>2 DEF Drive
<1>4. /\ drive' \in Drive /\ drive'.size = drive.size /\ drive'.next \in Nat
      /\ drive'.phase \in {"busy", "data"} => drive'.left > 0
  <2>1. CASE accepted
    BY <1>2, <1>3, <2>1 DEF Drive, Asked
  <2>2. CASE ~ accepted
    BY <1>1, <2>2 DEF IInv, TypeOK
  <2> QED
    BY <2>1, <2>2
<1>5. TypeOK'
  BY <1>1, <1>4 DEF AtaAssumption, IInv, TypeOK
<1>6. Asked' /\ Len(buffer') < asked'.count
  BY <1>1, <1>2, <1>4 DEF Asked, Addressable
<1>7. ASSUME ~ abandoned PROVE Agreed'
  <2>1. accepted
    BY <1>1, <1>7 DEF IInv, Agreed
  <2>2. drive'.next = asked.lba /\ drive'.left = asked.count
    BY <1>3, <2>1
  <2>3. Read(0) = <<>>
    BY DEF Read
  <2>4. Serving'
    BY <1>1, <1>2, <1>6, <2>2, <2>3 DEF Serving, Read
  <2> QED
    BY <1>1, <1>2, <2>4 DEF Agreed, Asked
<1> QED
  BY <1>1, <1>4, <1>5, <1>6, <1>7 DEF IInv

(* The driver asks again, or gives up; the drive does not notice.          *)
LEMMA Polled ==
  ASSUME IInv, pc = "wait", UNCHANGED <<drive, lba48, asked, buffer, reads>>,
         attempt' \in 0 .. Attempts, abandoned' \in BOOLEAN,
         \/ pc' = "wait" /\ UNCHANGED <<outcome, abandoned>>
         \/ pc' = "ready" /\ outcome' = "failed" /\ abandoned' = TRUE
         \/ /\ pc' = "ready" /\ outcome' = "failed" /\ abandoned' = abandoned
            /\ drive.phase \in {"error", "idle"}
  PROVE  IInv'
<1>1. TypeOK'
  BY DEF IInv, TypeOK
<1>2. pc' = "wait" => Asked' /\ Len(buffer') < asked'.count
  BY DEF IInv, Asked, Addressable
<1>3. ~ abandoned' => Agreed'
  BY DEF IInv, Agreed, Serving, Read
<1> QED
  BY <1>1, <1>2, <1>3 DEF IInv

LEMMA SectorCopied ==
  ASSUME AtaAssumption, IInv, read_sector_words
  PROVE  IInv'
<1>1. /\ pc = "wait" /\ drive.phase = "data" /\ attempt' = 0
      /\ buffer' = Append(buffer, drive.next)
      /\ drive' = [drive EXCEPT !.next = @ + 1, !.left = @ - 1,
                                !.phase = IF drive.left = 1 THEN "idle" ELSE "busy"]
      /\ IF LastSector THEN pc' = "ready" /\ outcome' = "read" ELSE UNCHANGED <<pc, outcome>>
      /\ UNCHANGED <<lba48, asked, abandoned, reads>>
  BY DEF read_sector_words, Return
<1>2. /\ drive \in Drive /\ drive.next \in Nat /\ drive.left \in Nat /\ drive.left > 0
      /\ buffer \in Seq(Nat) /\ asked.lba \in Nat /\ asked.count \in Nat
      /\ Asked /\ Len(buffer) < asked.count
  BY <1>1 DEF IInv, TypeOK, Drive
<1>3. drive' = [size |-> drive.size, lba |-> drive.lba, lba48 |-> drive.lba48,
                phase |-> IF drive.left = 1 THEN "idle" ELSE "busy",
                next |-> drive.next + 1, left |-> drive.left - 1]
  BY <1>1, <1>2 DEF Drive
<1>4. /\ drive' \in Drive /\ drive'.size = drive.size /\ drive'.next \in Nat
      /\ drive'.phase \in {"busy", "data"} => drive'.left > 0
  BY <1>2, <1>3 DEF Drive
<1>5. /\ buffer' \in Seq(Nat) /\ Len(buffer') = Len(buffer) + 1 /\ Len(buffer') <= asked.count
      /\ buffer'[Len(buffer) + 1] = drive.next
      /\ \A i \in 1 .. Len(buffer) : buffer'[i] = buffer[i]
  BY <1>1, <1>2
<1>6. LastSector <=> Len(buffer') = asked.count
  BY <1>5 DEF LastSector
<1>7. TypeOK'
  BY <1>1, <1>4, <1>5 DEF AtaAssumption, IInv, TypeOK
<1>8. pc' = "wait" => Asked' /\ Len(buffer') < asked'.count
  BY <1>1, <1>2, <1>4, <1>5, <1>6 DEF Asked, Addressable
<1>9. ASSUME ~ abandoned PROVE Agreed'
  <2>1. /\ buffer = Read(Len(buffer))
        /\ drive.next = asked.lba + Len(buffer) /\ drive.left = asked.count - Len(buffer)
    BY <1>1, <1>9 DEF IInv, Agreed, Serving
  <2>2. buffer' = Read(Len(buffer'))
    <3>1. \A i \in 1 .. Len(buffer) : buffer[i] = asked.lba + i - 1
      <4>1. \A i \in 1 .. Len(buffer) : Read(Len(buffer))[i] = asked.lba + i - 1
        BY DEF Read
      <4> QED
        BY <2>1, <4>1
    <3>2. \A i \in 1 .. Len(buffer') : buffer'[i] = asked.lba + i - 1
      <4> SUFFICES ASSUME NEW i \in 1 .. Len(buffer') PROVE buffer'[i] = asked.lba + i - 1
        OBVIOUS
      <4>1. CASE i \in 1 .. Len(buffer)
        BY <1>5, <3>1, <4>1
      <4>2. CASE i = Len(buffer) + 1
        BY <1>2, <1>5, <2>1, <4>2
      <4> QED
        BY <1>2, <1>5, <4>1, <4>2
    <3>3. buffer' = [i \in 1 .. Len(buffer') |-> buffer'[i]]
      BY <1>5
    <3> QED
      BY <3>2, <3>3 DEF Read
  <2>3. drive'.next = asked.lba + Len(buffer') /\ drive'.left = asked.count - Len(buffer')
    <3>1. drive.next = asked.lba + Len(buffer) /\ drive.left = asked.count - Len(buffer)
      BY <2>1
    <3>2. Len(buffer) \in Nat /\ Len(buffer') = Len(buffer) + 1
      BY <1>2, <1>5
    <3>3. drive'.next = drive.next + 1 /\ drive'.left = drive.left - 1
      BY <1>3
    <3>4. drive'.next = (asked.lba + Len(buffer)) + 1 /\ drive'.left = (asked.count - Len(buffer)) - 1
      BY <3>1, <3>3
    <3>5. asked.lba \in Int /\ asked.count \in Int
      BY <1>2
    <3> DEFINE m == Len(buffer)
               a == asked.lba
               c == asked.count
    <3>6. m \in Nat /\ a \in Int /\ c \in Int
      BY <3>2, <3>5
    <3>7. (a + m) + 1 = a + (m + 1) /\ (c - m) - 1 = c - (m + 1)
      <4> HIDE DEF m, a, c
      <4> QED
        BY <3>6
    <3> QED
      BY <3>2, <3>4, <3>7, Zenon
  <2>4. \A n : Read(n)' = Read(n)
    BY <1>1 DEF Read
  <2>5. CASE LastSector
    <3>1. drive'.phase = "idle"
      BY <1>2, <1>3, <1>5, <1>6, <2>1, <2>5
    <3> QED
      BY <1>1, <1>6, <2>2, <2>4, <2>5, <3>1 DEF Agreed
  <2>6. CASE ~ LastSector
    <3>1. Serving'
      BY <1>1, <1>8, <2>2, <2>3, <2>4, <2>6 DEF Serving
    <3> QED
      BY <1>1, <1>2, <2>6, <3>1 DEF Agreed, Asked
  <2> QED
    BY <2>5, <2>6
<1>10. pc' \notin {"probe", "none", "issue"}
  BY <1>1
<1> QED
  BY <1>1, <1>4, <1>7, <1>8, <1>9, <1>10 DEF IInv

(* What the drive does on its own.                                         *)
LEMMA DriveMoves ==
  ASSUME IInv, drive.phase = "busy",
         \/ drive' = [drive EXCEPT !.phase = "data"]
         \/ drive' = [drive EXCEPT !.phase = "error", !.left = 0],
         UNCHANGED <<lba48, pc, asked, attempt, buffer, outcome, abandoned, reads>>
  PROVE  IInv'
<1>1. drive \in Drive /\ drive.next \in Nat /\ drive.left > 0 /\ drive.size <= Digit * Digit
  BY DEF IInv, TypeOK
<1>2. /\ drive' \in Drive /\ drive'.size = drive.size /\ drive'.next = drive.next
      /\ drive'.phase \in {"data", "error"}
      /\ drive'.phase = "data" => drive'.left = drive.left
  <2>1. CASE drive' = [drive EXCEPT !.phase = "data"]
    BY <1>1, <2>1 DEF Drive
  <2>2. CASE drive' = [drive EXCEPT !.phase = "error", !.left = 0]
    BY <1>1, <2>2 DEF Drive
  <2> QED
    BY <2>1, <2>2
<1>3. TypeOK'
  BY <1>2 DEF IInv, TypeOK
<1>4. pc' \in {"issue", "wait"} => Asked'
  BY <1>2 DEF IInv, Asked, Addressable
<1>5. ~ abandoned => pc = "wait"
  BY DEF IInv, Agreed
<1>6. ~ abandoned' => Agreed'
  BY <1>2, <1>5 DEF IInv, Agreed, Serving, Read
<1> QED
  BY <1>1, <1>2, <1>3, <1>4, <1>6 DEF IInv

LEMMA NextInv == AtaAssumption /\ IInv /\ [Next]_vars => IInv'
<1> SUFFICES ASSUME AtaAssumption, IInv, [Next]_vars PROVE IInv'
  OBVIOUS
<1>t. /\ Attempts \in Nat /\ Digit \in Nat /\ drive.size \in Nat
      /\ attempt \in 0 .. Attempts /\ abandoned \in BOOLEAN /\ drive.lba48 \in BOOLEAN
  BY DEF AtaAssumption, IInv, TypeOK, Drive
<1>1. CASE ata_probe \/ ata_probe_refused
  BY <1>1, <1>t, AtRest DEF ata_probe, ata_probe_refused, IInv, TypeOK
<1>2. ASSUME NEW lba \in 0 .. drive.size, NEW count \in 0 .. ATA_LBA48_MAX_SECTORS + 1,
             ata_read_sectors(lba, count)
      PROVE  IInv'
  BY <1>2, <1>t, ReadBegins DEF ATA_LBA48_MAX_SECTORS
<1>3. ASSUME NEW accepted \in BOOLEAN, issue(accepted) PROVE IInv'
  BY <1>3, CommandWritten
<1>4. CASE poll_busy
  BY <1>4, <1>t, Polled DEF poll_busy, NextAttempt
<1>5. CASE poll_exhausted
  BY <1>5, <1>t, Polled DEF poll_exhausted, Return
<1>6. CASE poll_failed
  BY <1>6, <1>t, Polled DEF poll_failed, Return
<1>7. CASE read_sector_words
  BY <1>7, SectorCopied
<1>8. CASE DriveReady \/ DriveFails
  BY <1>8, DriveMoves DEF DriveReady, DriveFails
<1>9. CASE UNCHANGED vars
  BY <1>9 DEF vars, IInv, TypeOK, Asked, Addressable, Agreed, Serving, Read
<1> QED
  BY <1>1, <1>2, <1>3, <1>4, <1>5, <1>6, <1>7, <1>8, <1>9 DEF Next, Driver, ata_read_sectors_refused

(* A read that reports success has the sectors asked for, in order, from   *)
(* either set of registers and at every limit of both, unless an earlier   *)
(* read was abandoned on a busy drive.                                     *)
THEOREM WhatWasAskedIsDelivered == Spec => []DeliversWhatWasAsked
<1>1. IInv => DeliversWhatWasAsked
  BY DEF IInv, Agreed, Read, DeliversWhatWasAsked
<1> QED
  BY <1>1, InitInv, NextInv, AtaAssumption, PTL DEF Spec

(* No command is written to a drive that is serving one, unless an earlier *)
(* read was abandoned: what a read leaves behind cannot meet the next.     *)
THEOREM CommandsFindIdleDrives == Spec => []CommandsOnlyIdleDrive
<1>1. IInv => CommandsOnlyIdleDrive
  BY DEF IInv, Agreed, CommandsOnlyIdleDrive
<1> QED
  BY <1>1, InitInv, NextInv, AtaAssumption, PTL DEF Spec
=============================================================================
