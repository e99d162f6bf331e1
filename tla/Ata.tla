--------------------------------- MODULE Ata ----------------------------------
(***************************************************************************)
(* src/block/ata.c and the drive at the other end of the cable.            *)
(*                                                                         *)
(* Addresses go to the drive one register at a time and come out of it as  *)
(* whatever the registers add up to.  A register of a 48-bit command is a  *)
(* queue of two; a register of a 28-bit command is its last write, and the *)
(* top of the address rides in the drive register.  A byte of address or   *)
(* count is a digit below Digit.                                           *)
(*                                                                         *)
(* The drive is a process of its own: it becomes ready, or reports an      *)
(* error, or never does.  It is external, and what it does when a command  *)
(* is written while it is still serving another is undefined: it may drop  *)
(* the new one or the old.                                                 *)
(***************************************************************************)
EXTENDS Integers, Sequences

CONSTANTS
  Digit,         \* values of one register
  Nibble,        \* values of the address bits in the drive register
  Sizes,         \* sectors the drives have
  Attempts,      \* ATA_POLL_ATTEMPTS
  MaxReads       \* bound: reads issued

ASSUME AtaAssumption ==
  /\ {Digit, Nibble, Attempts} \subseteq Nat \ {0}
  /\ Nibble <= Digit
  /\ MaxReads \in Nat
  (* No drive has sectors that a 48-bit address, here two digits, misses.  *)
  /\ Sizes \subseteq 0 .. Digit * Digit

ATA_LBA28_MAX_SECTORS == Digit
ATA_LBA48_MAX_SECTORS == Digit * Digit
ATA_LBA28_SECTOR_LIMIT == Nibble * Digit

VARIABLES
  drive,     \* [size, lba, lba48, phase, next, left]: the hardware
  lba48,     \* channel->lba48
  pc,        \* "probe", "none", "ready", "issue", "wait"
  asked,     \* the arguments of ata_read_sectors
  attempt,   \* of wait_while_busy
  buffer,    \* the sectors copied out so far
  outcome,   \* what the last read returned
  abandoned, \* a read has timed out with the drive still busy
  reads

vars == <<drive, lba48, pc, asked, attempt, buffer, outcome, abandoned, reads>>

Drive == [size : Nat, lba : BOOLEAN, lba48 : BOOLEAN,
          phase : {"idle", "busy", "data", "error"}, next : Int, left : Nat]

Init ==
  /\ drive \in [size : Sizes, lba : BOOLEAN, lba48 : BOOLEAN,
                phase : {"idle"}, next : {0}, left : {0}]
  /\ lba48 = FALSE
  /\ pc = "probe"
  /\ asked = [lba |-> 0, count |-> 0]
  /\ attempt = 0
  /\ buffer = <<>>
  /\ outcome = "none"
  /\ abandoned = FALSE
  /\ reads = 0

(* A drive that answers IDENTIFY, takes block addresses and has a size.    *)
ata_probe ==
  /\ pc = "probe"
  /\ drive.lba /\ drive.size > 0
  /\ lba48' = drive.lba48
  /\ pc' = "ready"
  /\ UNCHANGED <<drive, asked, attempt, buffer, outcome, abandoned, reads>>

ata_probe_refused ==
  /\ pc = "probe"
  /\ ~ drive.lba \/ drive.size = 0
  /\ pc' = "none"
  /\ UNCHANGED <<drive, lba48, asked, attempt, buffer, outcome, abandoned, reads>>

-----------------------------------------------------------------------------
Addressable(lba, count) ==
  IF lba48 THEN count <= ATA_LBA48_MAX_SECTORS
  ELSE /\ lba + count <= ATA_LBA28_SECTOR_LIMIT
       /\ count <= ATA_LBA28_MAX_SECTORS

(* The block layer asks only for sectors the drive said it has.            *)
ata_read_sectors(lba, count) ==
  /\ pc = "ready" /\ reads < MaxReads
  /\ count # 0 /\ lba + count <= drive.size
  /\ Addressable(lba, count)
  /\ asked' = [lba |-> lba, count |-> count]
  /\ buffer' = <<>>
  /\ outcome' = "none"
  /\ reads' = reads + 1
  /\ pc' = "issue"
  /\ UNCHANGED <<drive, lba48, attempt, abandoned>>

ata_read_sectors_refused(lba, count) ==
  /\ pc = "ready"
  /\ count = 0 \/ ~ Addressable(lba, count)
  /\ UNCHANGED vars

(* What a drive makes of registers that add up to zero.                    *)
CountOf(registers, most) == IF registers = 0 THEN most ELSE registers

(* Slip: the low half is written first.                                    *)
QueueLowFirst(value) == <<value % Digit, (value \div Digit) % Digit>>

(* Two writes to one register, the high half first: the second pushes the  *)
(* first back.                                                             *)
Queue(value) == <<(value \div Digit) % Digit, value % Digit>>
Queued(queue) == queue[1] * Digit + queue[2]

HighBits(lba) == (lba \div Digit) % Nibble

(* What the registers say to the drive when the command is written.        *)
Commanded ==
  IF lba48
    THEN [next |-> Queued(Queue(asked.lba)),
          left |-> CountOf(Queued(Queue(asked.count)), ATA_LBA48_MAX_SECTORS)]
    ELSE [next |-> HighBits(asked.lba) * Digit + (asked.lba % Digit),
          left |-> CountOf(IF asked.count = ATA_LBA28_MAX_SECTORS THEN 0 ELSE asked.count,
                           ATA_LBA28_MAX_SECTORS)]

(* issue_lba28 or issue_lba48 and settle: a drive that was idle is busy by *)
(* the time its status is read.                                            *)
issue(accepted) ==
  /\ pc = "issue"
  /\ accepted \/ drive.phase \in {"busy", "data"}
  /\ drive' = IF accepted
                THEN [drive EXCEPT !.phase = "busy", !.next = Commanded.next,
                                   !.left = Commanded.left]
                ELSE drive
  /\ attempt' = 0
  /\ pc' = "wait"
  /\ UNCHANGED <<lba48, asked, buffer, outcome, abandoned, reads>>

(* Slip: the polls are not counted.                                        *)
NextAttemptNone == attempt
NextAttempt == attempt + 1

(* One status read of wait_while_busy.                                     *)
poll_busy ==
  /\ pc = "wait" /\ drive.phase = "busy"
  /\ attempt < Attempts
  /\ attempt' = NextAttempt
  /\ UNCHANGED <<drive, lba48, pc, asked, buffer, outcome, abandoned, reads>>

Return(result) == pc' = "ready" /\ outcome' = result

poll_exhausted ==
  /\ pc = "wait" /\ attempt = Attempts
  /\ Return("failed")
  /\ abandoned' = TRUE
  /\ UNCHANGED <<drive, lba48, asked, attempt, buffer, reads>>

(* Not busy and no data: an error, or a drive that has nothing to say.     *)
poll_failed ==
  /\ pc = "wait" /\ attempt < Attempts
  /\ drive.phase \in {"error", "idle"}
  /\ Return("failed")
  /\ UNCHANGED <<drive, lba48, asked, attempt, buffer, abandoned, reads>>

(* Slip: the loop over the sectors ends one early.                         *)
LastSectorEarly == Len(buffer) + 1 >= asked.count - 1
LastSector == Len(buffer) + 1 = asked.count

(* read_sector_words; the drive turns to the next sector or is done.       *)
read_sector_words ==
  /\ pc = "wait" /\ attempt < Attempts
  /\ drive.phase = "data"
  /\ buffer' = Append(buffer, drive.next)
  /\ drive' = [drive EXCEPT !.next = @ + 1, !.left = @ - 1,
                            !.phase = IF drive.left = 1 THEN "idle" ELSE "busy"]
  /\ attempt' = 0
  /\ IF LastSector THEN Return("read") ELSE UNCHANGED <<pc, outcome>>
  /\ UNCHANGED <<lba48, asked, abandoned, reads>>

Driver == issue(TRUE) \/ poll_busy \/ poll_exhausted \/ poll_failed \/ read_sector_words

(* External: the drive finds the sector, or does not.                      *)
DriveReady ==
  /\ drive.phase = "busy" /\ drive.next < drive.size
  /\ drive' = [drive EXCEPT !.phase = "data"]
  /\ UNCHANGED <<lba48, pc, asked, attempt, buffer, outcome, abandoned, reads>>

DriveFails ==
  /\ drive.phase = "busy"
  /\ drive' = [drive EXCEPT !.phase = "error", !.left = 0]
  /\ UNCHANGED <<lba48, pc, asked, attempt, buffer, outcome, abandoned, reads>>

Next ==
  \/ ata_probe
  \/ ata_probe_refused
  \/ \E lba \in 0 .. drive.size, count \in 0 .. ATA_LBA48_MAX_SECTORS + 1 :
       ata_read_sectors(lba, count)
  \/ \E lba \in 0 .. drive.size, count \in 0 .. ATA_LBA48_MAX_SECTORS + 1 :
       ata_read_sectors_refused(lba, count)
  \/ Driver
  \/ issue(FALSE)
  \/ DriveReady
  \/ DriveFails

(* The driver polls in a loop of its own and is never held up; the drive   *)
(* may stay busy for ever.                                                 *)
Spec == Init /\ [][Next]_vars /\ WF_vars(Driver)

-----------------------------------------------------------------------------
TypeOK ==
  /\ drive \in Drive
  /\ lba48 \in BOOLEAN
  /\ pc \in {"probe", "none", "ready", "issue", "wait"}
  /\ asked \in [lba : Nat, count : Nat]
  /\ attempt \in 0 .. Attempts
  /\ buffer \in Seq(Nat)
  /\ Len(buffer) <= asked.count
  /\ outcome \in {"none", "read", "failed"}
  /\ abandoned \in BOOLEAN
  /\ reads \in 0 .. MaxReads

(* A read that reports success has the sectors that were asked for, all of *)
(* them, in order - through either set of registers, at every limit of     *)
(* both - as long as no earlier read was abandoned on a busy drive, after  *)
(* which the driver has no way to tell whose data it is given.             *)
DeliversWhatWasAsked ==
  outcome = "read" /\ ~ abandoned =>
    buffer = [i \in 1 .. asked.count |-> asked.lba + i - 1]

(* The rule of the bus: a command is written only to a drive that is not   *)
(* serving one.  A read that returned, successfully or with an error the   *)
(* drive reported, has left nothing behind for the next one to collide     *)
(* with.                                                                   *)
CommandsOnlyIdleDrive ==
  pc \in {"ready", "issue"} /\ ~ abandoned => drive.phase \in {"idle", "error"}

(* Every read returns, also from a drive that never becomes ready: ata.h,  *)
(* "a bootloader that hangs tells the user nothing".                       *)
ReadsReturn == pc \in {"issue", "wait"} ~> pc = "ready"
=============================================================================
