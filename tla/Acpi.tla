--------------------------------- MODULE Acpi ---------------------------------
(***************************************************************************)
(* src/acpi/acpi.c: the search for the root pointer, the tables the root   *)
(* lists, and the processors the MADT among them lists.  What is found in  *)
(* memory is anything; it is chosen when it is read.                       *)
(***************************************************************************)
EXTENDS Integers, Sequences, SequencesExt, FiniteSetsExt

CONSTANTS
  Slots,                  \* places in the region an RSDP may be at
  RootEntries,            \* bound on what a root table lists
  ACPI_RSDP_REVISION_1_BYTES, ACPI_RSDP_MAX_BYTES,
  ACPI_MAX_TABLES, ACPI_MAX_PROCESSORS,
  ACPI_MADT_ENTRIES_OFFSET, ACPI_MADT_ENTRY_MIN_BYTES,
  LocalApicBytes, X2ApicBytes,   \* up to the end of the flags of a record
  RsdpLengths, MadtLengths, RecordLengths   \* bounds on lengths found

AcpiAssumption ==
  /\ {Slots, RootEntries, ACPI_MAX_TABLES, ACPI_MAX_PROCESSORS, ACPI_MADT_ENTRIES_OFFSET,
      ACPI_MADT_ENTRY_MIN_BYTES, LocalApicBytes, X2ApicBytes} \subseteq Nat \ {0}
  /\ RsdpLengths \cup MadtLengths \cup RecordLengths \subseteq Nat

VARIABLES
  stage,        \* "search", "root", "tables", "madt", "done"
  slot,         \* of the search
  left,         \* entries of the root still to look at
  tables,       \* those kept: whether each is a MADT
  length,       \* of the MADT
  offset,       \* of the walk over it
  record,       \* the record looked at last: where, how long, how much read
  processors,   \* the offsets of the records of those reported
  truncated     \* of the tables, and of the processors

vars == <<stage, slot, left, tables, length, offset, record, processors, truncated>>

NoRecord == [at |-> 0, bytes |-> 0, read |-> 0]

Init ==
  /\ stage = "search" /\ slot = 0
  /\ left = 0 /\ tables = <<>>
  /\ length = 0 /\ offset = 0 /\ record = NoRecord /\ processors = <<>>
  /\ truncated = [tables |-> FALSE, processors |-> FALSE]

walk == <<length, offset, record, processors>>

-----------------------------------------------------------------------------
(* acpi_rsdp_valid, of what has the signature and whose sums are zero.     *)
acpi_rsdp_valid(revision, bytes) ==
  revision >= 2 => bytes \in ACPI_RSDP_REVISION_1_BYTES .. ACPI_RSDP_MAX_BYTES

acpi_find_rsdp(revision, bytes) ==
  /\ stage = "search" /\ slot < Slots
  /\ acpi_rsdp_valid(revision, bytes)
  /\ stage' = "root"
  /\ UNCHANGED <<slot, left, tables, walk, truncated>>

(* Not a signature, a sum that is not zero, or a length not to be believed. *)
not_rsdp ==
  /\ stage = "search" /\ slot < Slots
  /\ slot' = slot + 1
  /\ UNCHANGED <<stage, left, tables, walk, truncated>>

(* Nowhere, or a root that is missing or unusable: an unusable XSDT is not *)
(* made up for by an RSDT.                                                 *)
acpi_collect_failed ==
  /\ (stage = "search" /\ slot = Slots) \/ stage = "root"
  /\ stage' = "done"
  /\ UNCHANGED <<slot, left, tables, walk, truncated>>

(* table_usable holds of the root; it has room for so many entries.        *)
acpi_collect(entries) ==
  /\ stage = "root"
  /\ left' = entries
  /\ stage' = "tables"
  /\ UNCHANGED <<slot, tables, walk, truncated>>

(* No table, or one whose length or checksum is not to be believed.        *)
not_kept ==
  /\ stage = "tables" /\ left > 0
  /\ left' = left - 1
  /\ UNCHANGED <<stage, slot, tables, walk, truncated>>

keep(madt) ==
  /\ stage = "tables" /\ left > 0
  /\ left' = left - 1
  /\ IF Len(tables) = ACPI_MAX_TABLES
       THEN truncated' = [truncated EXCEPT !.tables = TRUE] /\ UNCHANGED tables
       ELSE tables' = Append(tables, madt) /\ UNCHANGED truncated
  /\ UNCHANGED <<stage, slot, walk>>

-----------------------------------------------------------------------------
(* acpi_find_table: the first of them, if it holds its own fixed part.     *)
acpi_processors(bytes) ==
  /\ stage = "tables" /\ left = 0
  /\ Contains(tables, TRUE)
  /\ bytes >= ACPI_MADT_ENTRIES_OFFSET
  /\ length' = bytes /\ offset' = ACPI_MADT_ENTRIES_OFFSET
  /\ stage' = "madt"
  /\ UNCHANGED <<slot, left, tables, record, processors, truncated>>

acpi_processors_failed ==
  /\ stage = "tables" /\ left = 0
  /\ stage' = "done"
  /\ UNCHANGED <<slot, left, tables, walk, truncated>>

(* Slip: a record may be as long as it says.                               *)
RecordFitsAlways(bytes) == bytes >= ACPI_MADT_ENTRY_MIN_BYTES

(* It advances, and does not run off the end.                              *)
RecordFits(bytes) == bytes >= ACPI_MADT_ENTRY_MIN_BYTES /\ offset + bytes <= length

More == stage = "madt" /\ offset + ACPI_MADT_ENTRY_MIN_BYTES <= length

Read(bytes, needs) ==
  /\ record' = [at |-> offset, bytes |-> bytes, read |-> needs]
  /\ offset' = offset + bytes
  /\ UNCHANGED <<stage, slot, left, tables, length>>

(* A record of a processor that is long enough to say what it should; its  *)
(* inner reader refuses the rest.                                          *)
add_processor(bytes, needs) ==
  /\ More /\ RecordFits(bytes)
  /\ bytes >= needs
  /\ Read(bytes, needs)
  /\ IF Len(processors) = ACPI_MAX_PROCESSORS
       THEN truncated' = [truncated EXCEPT !.processors = TRUE] /\ UNCHANGED processors
       ELSE processors' = Append(processors, offset) /\ UNCHANGED truncated

(* Of another kind, or too short.                                          *)
skip_record(bytes) ==
  /\ More /\ RecordFits(bytes)
  /\ Read(bytes, ACPI_MADT_ENTRY_MIN_BYTES)
  /\ UNCHANGED <<processors, truncated>>

(* The end, or a record that is not to be believed.                        *)
last_record ==
  /\ stage = "madt"
  /\ ~ More \/ \E bytes \in RecordLengths : ~ RecordFits(bytes)
  /\ stage' = "done"
  /\ UNCHANGED <<slot, left, tables, walk, truncated>>

Next ==
  \/ \E revision \in {0, 2}, bytes \in RsdpLengths : acpi_find_rsdp(revision, bytes)
  \/ not_rsdp
  \/ acpi_collect_failed
  \/ \E entries \in 0 .. RootEntries : acpi_collect(entries)
  \/ not_kept
  \/ \E madt \in BOOLEAN : keep(madt)
  \/ \E bytes \in MadtLengths : acpi_processors(bytes)
  \/ acpi_processors_failed
  \/ \E bytes \in RecordLengths, needs \in {LocalApicBytes, X2ApicBytes} : add_processor(bytes, needs)
  \/ \E bytes \in RecordLengths : skip_record(bytes)
  \/ last_record

Spec == Init /\ [][Next]_vars /\ WF_vars(Next)

-----------------------------------------------------------------------------
TypeOK ==
  /\ stage \in {"search", "root", "tables", "madt", "done"}
  /\ {slot, left, length, offset, record.at, record.bytes, record.read} \subseteq Nat
  /\ tables \in Seq(BOOLEAN) /\ processors \in Seq(Nat)

(* "A record that does not advance is a list that never ends, and one      *)
(* longer than the table runs off the end of it" (acpi.c): nothing is read *)
(* outside the record that holds it, no record lies outside the bytes the  *)
(* checksum was over, and no processor is reported twice.                  *)
RecordsInTable ==
  /\ record.read <= record.bytes
  /\ record.at + record.bytes <= length
  /\ IsInjective(processors)
  /\ truncated.processors => Len(processors) = ACPI_MAX_PROCESSORS
  /\ truncated.tables => Len(tables) = ACPI_MAX_TABLES

Ended == stage = "done"
=============================================================================
