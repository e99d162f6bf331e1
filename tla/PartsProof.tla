------------------------------ MODULE PartsProof ------------------------------
(***************************************************************************)
(* What is proved of FirmwareMap, Acpi, ElfFile, Protocol, Pci,            *)
(* FatDirectory, Ext2 and Config as the parts of the loader they are.  A   *)
(* part keeps its own state and nobody else touches it: a step of Parts is *)
(* a step of that part or leaves all its variables alone, so each          *)
(* invariant is one of the part alone and is proved over its actions, F!,  *)
(* A!, E!, R!, P!, D!, X! and C!.                                          *)
(***************************************************************************)
EXTENDS Parts, FiniteSetTheorems, WellFoundedInduction, TLAPS

-----------------------------------------------------------------------------
(* FirmwareMap: what the key is for.  While the firmware runs, a map with  *)
(* the key that is current is the current map, for every change moves the  *)
(* key on; so the map in hand when an exit is accepted is memory as it is, *)
(* and nobody changes that any more.                                       *)
FwOuts == [kinds : [F!Page -> {"unlisted", "usable", "reserved", "bootloader_reclaimable"}],
ok : BOOLEAN]

FwCalls == [of : {"none", "snapshot", "exit"}, at : {"none", "probe", "fetch", "leave"},
attempt : Int]

(* The key and the map go together; nothing is under way after the exit.   *)
FwKeyInv ==
  /\ memory \in [F!Page -> F!Type] /\ map \in [F!Page -> F!Type]
  /\ key \in Nat /\ map_key \in Int /\ map_key <= key
  /\ map_key = key => map = memory
  /\ services \in BOOLEAN /\ exited \in BOOLEAN /\ stride_ok \in BOOLEAN
  /\ out \in FwOuts
  /\ call \in FwCalls
  /\ exited => call = F!Idle

FwInv == FwKeyInv /\ F!MapIsCurrent

(* What a type is taken for: only free memory is free while the firmware   *)
(* runs, whichever phase the map is read in it is a map.                   *)
LEMMA FwKindOfType ==
  ASSUME NEW type \in F!Type, NEW after \in BOOLEAN
  PROVE  /\ F!uefi_memory_kind(type, after) \in {"usable", "reserved", "bootloader_reclaimable"}
         /\ ~ after /\ F!uefi_memory_kind(type, after) = "usable" => type = "conventional"
  BY DEF F!uefi_memory_kind, F!Type

LEMMA FwParsedOuts ==
  ASSUME NEW m \in [F!Page -> F!Type], NEW after \in BOOLEAN, stride_ok \in BOOLEAN
  PROVE  F!Parsed(m, after) \in FwOuts
<1>1. \A page \in F!Page : m[page] \in F!Type
  OBVIOUS
<1>2. F!Kinds(m, after) \in [F!Page -> {"unlisted", "usable", "reserved", "bootloader_reclaimable"}]
  BY <1>1, FwKindOfType DEF F!Kinds
<1>3. (\E page \in F!Page : F!Kinds(m, after)[page] = "usable") \in BOOLEAN
  OBVIOUS
<1> QED
  BY <1>2, <1>3 DEF F!Parsed, FwOuts, F!Nothing

LEMMA FwInitInv == F!Init => FwInv
<1> SUFFICES ASSUME F!Init PROVE FwInv
  OBVIOUS
<1>1. F!Nothing \in FwOuts /\ ~ F!Nothing.ok /\ F!Idle \in FwCalls
  BY DEF F!Nothing, FwOuts, F!Idle, FwCalls
<1>2. FwKeyInv
  <2>1. memory \in [F!Page -> F!Type] /\ map = memory /\ key = 0 /\ map_key = -1
    BY DEF F!Init
  <2>2. services \in BOOLEAN /\ exited \in BOOLEAN /\ stride_ok \in BOOLEAN
    BY DEF F!Init
  <2>4. key \in Nat /\ map_key \in Int /\ map_key <= key /\ map_key # key
    BY <2>1
  <2>3. out \in FwOuts /\ call \in FwCalls /\ call = F!Idle
    BY <1>1 DEF F!Init
  <2> QED
    BY <2>1, <2>2, <2>3, <2>4 DEF FwKeyInv
<1>3. F!MapIsCurrent
  <2>1. exited = FALSE /\ services = TRUE /\ ~ out.ok
    BY <1>1 DEF F!Init
  <2> QED
    BY <2>1 DEF F!MapIsCurrent
<1> QED
  BY <1>2, <1>3 DEF FwInv

(* What holds of a step that leaves the books, the exit and the map alone. *)
LEMMA FwAtRestInv ==
  ASSUME FwInv, UNCHANGED <<F!firmware, F!self>>, ~ exited,
         out' \in FwOuts, call' \in FwCalls,
         out' = out \/ ~ out'.ok,
         call' # F!Idle \/ ~ out'.ok
  PROVE  FwInv'
<1>1. UNCHANGED <<memory, key, services, stride_ok, map, map_key, exited>>
  BY DEF F!firmware, F!self
<1>2. FwKeyInv'
  BY <1>1 DEF FwInv, FwKeyInv
<1>3. F!MapIsCurrent'
  BY <1>1 DEF FwInv, FwKeyInv, F!MapIsCurrent
<1> QED
  BY <1>2, <1>3 DEF FwInv

LEMMA FwNextInv == FwInv /\ [F!Next]_(F!vars) => FwInv'
<1> SUFFICES ASSUME FwInv, [F!Next]_(F!vars) PROVE FwInv'
  OBVIOUS
<1>t. out \in FwOuts /\ call \in FwCalls /\ (exited => call = F!Idle)
  BY DEF FwInv, FwKeyInv
<1>1. CASE F!firmware_changes
  <2>1. UNCHANGED <<services, stride_ok, map, map_key, exited, call, out>> /\ key' = key + 1
    BY <1>1 DEF F!firmware_changes, F!self
  <2>2. services /\ ~ exited
    BY <1>1 DEF F!firmware_changes, FwInv, FwKeyInv, F!MapIsCurrent
  <2>3. memory' \in [F!Page -> F!Type]
    <3>1. memory \in [F!Page -> F!Type]
      BY DEF FwInv, FwKeyInv
    <3> QED
      BY <1>1, <3>1 DEF F!firmware_changes, F!Type
  <2>4. FwKeyInv'
    BY <2>1, <2>2, <2>3 DEF FwInv, FwKeyInv
  <2>5. F!MapIsCurrent'
    BY <2>1, <2>2 DEF FwInv, F!MapIsCurrent
  <2> QED
    BY <2>4, <2>5 DEF FwInv
<1>2. CASE F!uefi_mem_snapshot
  <2>1. F!Nothing \in FwOuts /\ ~ F!Nothing.ok
    BY DEF F!Nothing, FwOuts
  <2>2. call' \in FwCalls
    BY <1>2 DEF F!uefi_mem_snapshot, FwCalls
  <2> QED
    BY <1>2, <2>1, <2>2, FwAtRestInv DEF F!uefi_mem_snapshot
<1>3. CASE F!uefi_exit_boot_services
  <2>1. call' # F!Idle /\ call' \in FwCalls
    BY <1>3 DEF F!uefi_exit_boot_services, F!Idle, FwCalls
  <2> QED
    BY <1>3, <1>t, <2>1, FwAtRestInv DEF F!uefi_exit_boot_services
<1>4. ASSUME F!Failed, UNCHANGED <<F!firmware, F!self>>, ~ exited PROVE FwInv'
  <2>1. call' \in FwCalls
    BY <1>4 DEF F!Failed, F!Idle, FwCalls
  <2>2. out' \in FwOuts
    BY <1>4, <1>t DEF F!Failed, FwOuts
  <2>3. ~ out'.ok
    BY <1>4, <1>t DEF F!Failed, FwOuts
  <2> QED
    BY <1>4, <2>1, <2>2, <2>3, FwAtRestInv
<1>5. ASSUME UNCHANGED <<F!firmware, F!self>>, ~ exited, UNCHANGED out,
             call' \in FwCalls, call'.at # "none"
      PROVE  FwInv'
  <2>1. call' # F!Idle
    BY <1>5 DEF F!Idle
  <2> QED
    BY <1>5, <1>t, <2>1, FwAtRestInv
<1>6. CASE F!probe
  <2>1. ~ exited
    BY <1>6, <1>t DEF F!probe, F!Idle
  <2> QED
    BY <1>4, <1>5, <1>6, <1>t, <2>1 DEF F!probe, FwCalls
<1>7. CASE F!fetch_too_large
  <2>1. ~ exited
    BY <1>7, <1>t DEF F!fetch_too_large, F!Idle
  <2> QED
    BY <1>4, <1>7, <2>1 DEF F!fetch_too_large
<1>8. CASE F!fetch
  <2>1. ~ exited
    BY <1>8, <1>t DEF F!fetch, F!Idle
  <2>2. UNCHANGED <<memory, key, services, stride_ok, exited>> /\ map' = memory /\ map_key' = key
    BY <1>8 DEF F!fetch, F!firmware
  <2>3. out' \in FwOuts
    <3>1. memory \in [F!Page -> F!Type] /\ stride_ok \in BOOLEAN /\ exited \in BOOLEAN
      BY DEF FwInv, FwKeyInv
    <3>2. out' = out \/ out' = F!Parsed(memory, exited)
      BY <1>8 DEF F!fetch
    <3> QED
      BY <3>1, <3>2, <1>t, FwParsedOuts
  <2>7. call' \in FwCalls
    BY <1>8, <1>t DEF F!fetch, FwCalls, F!Idle
  <2>4. FwKeyInv'
    BY <2>1, <2>2, <2>3, <2>7 DEF FwInv, FwKeyInv
  <2>5. ASSUME call' = F!Idle, out'.ok, NEW page \in F!Page, out'.kinds[page] = "usable"
        PROVE  memory[page] = "conventional"
    <3>1. call.of = "snapshot"
      BY <1>8, <1>t, <2>5 DEF F!fetch, FwCalls, F!Idle
    <3>2. out' = F!Parsed(memory, FALSE)
      BY <1>8, <2>1, <3>1 DEF F!fetch, FwInv, FwKeyInv
    <3>3. memory[page] \in F!Type
      BY DEF FwInv, FwKeyInv
    <3>4. out'.kinds[page] = F!uefi_memory_kind(memory[page], FALSE)
      BY <2>5, <3>2 DEF F!Parsed, F!Kinds, F!Nothing
    <3> QED
      BY <2>5, <3>3, <3>4, FwKindOfType
  <2>6. F!MapIsCurrent'
    BY <2>1, <2>2, <2>5 DEF FwInv, F!MapIsCurrent
  <2> QED
    BY <2>4, <2>6 DEF FwInv
<1>9. CASE F!exit_accepted
  <2>1. map = memory /\ UNCHANGED <<memory, key, stride_ok, map, map_key>>
    BY <1>9 DEF F!exit_accepted, FwInv, FwKeyInv
  <2>2. exited' = TRUE /\ services' = FALSE /\ call' = F!Idle /\ out' = F!Parsed(map, TRUE)
    BY <1>9 DEF F!exit_accepted, F!AfterExit
  <2>3. out' \in FwOuts
    BY <2>2, FwParsedOuts DEF FwInv, FwKeyInv
  <2>8. call' \in FwCalls
    BY <2>2 DEF F!Idle, FwCalls
  <2>4. FwKeyInv'
    BY <2>1, <2>2, <2>3, <2>8 DEF FwInv, FwKeyInv
  <2>5. stride_ok => out'.kinds = F!Kinds(memory, TRUE)
    BY <2>1, <2>2 DEF F!Parsed
  <2>6. F!Kinds(memory, TRUE)' = F!Kinds(memory, TRUE)
    BY <2>1 DEF F!Kinds
  <2>7. F!MapIsCurrent'
    BY <2>1, <2>2, <2>5, <2>6 DEF F!MapIsCurrent
  <2> QED
    BY <2>4, <2>7 DEF FwInv
<1>10. CASE F!exit_refused
  <2>1. ~ exited
    BY <1>10, <1>t DEF F!exit_refused, F!Idle
  <2>2. CASE F!MayRetry
    <3>2. call' = [call EXCEPT !.at = "probe", !.attempt = @ + 1]
      BY <1>10, <2>2 DEF F!exit_refused
    <3>3. call.attempt \in Int /\ call.of \in {"none", "snapshot", "exit"}
      BY <1>t DEF FwCalls
    <3>4. call' = [of |-> call.of, at |-> "probe", attempt |-> call.attempt + 1]
      BY <1>t, <3>2 DEF FwCalls
    <3>1. call'.at = "probe" /\ call' \in FwCalls
      BY <3>3, <3>4 DEF FwCalls
    <3> QED
      BY <1>5, <1>10, <2>1, <2>2, <3>1 DEF F!exit_refused
  <2>3. CASE ~ F!MayRetry
    BY <1>4, <1>10, <2>1, <2>3 DEF F!exit_refused
  <2> QED
    BY <2>2, <2>3
<1>11. CASE UNCHANGED F!vars
  <2>1. UNCHANGED <<memory, key, services, stride_ok, map, map_key, exited, call, out>>
    BY <1>11 DEF F!vars
  <2>2. FwKeyInv'
    BY <2>1 DEF FwInv, FwKeyInv
  <2>3. F!MapIsCurrent'
    BY <2>1 DEF FwInv, F!MapIsCurrent, F!Kinds
  <2> QED
    BY <2>2, <2>3 DEF FwInv
<1> QED
  BY <1>1, <1>2, <1>3, <1>6, <1>7, <1>8, <1>9, <1>10, <1>11 DEF F!Next

(* The invariant is enough.                                                *)
LEMMA FwEnough == FwInv => F!MapIsCurrent
  BY DEF FwInv

(* The map the kernel is handed is that of memory as the firmware left it, *)
(* for any memory and however often it changes: fw_uefi.c as it is called. *)
THEOREM MapIsAlwaysCurrent == Spec => []MapIsCurrent
<1>1. Init => FwInv
  BY FwInitInv DEF Init
<1>2. FwInv /\ [Next]_vars => FwInv'
  <2> SUFFICES ASSUME FwInv, [Next]_vars PROVE FwInv'
    OBVIOUS
  <2>1. [F!Next]_(F!vars)
    BY DEF Next, vars, firmware_vars, F!vars
  <2> QED
    BY <2>1, FwNextInv
<1>3. FwInv => MapIsCurrent
  BY FwEnough DEF MapIsCurrent
<1> QED
  BY <1>1, <1>2, <1>3, PTL DEF Spec

-----------------------------------------------------------------------------
(* Acpi: the walk over the MADT, and what it reports.                      *)
(* Before the walk there is nothing of it.                                 *)
MadtBeginning == stage \in {"search", "root", "tables"}

MadtTyped ==
  /\ length \in Nat /\ offset \in Nat
  /\ record \in [at : Nat, bytes : Nat, read : Nat]
  /\ processors \in Seq(Nat) /\ tables \in Seq(BOOLEAN)
  /\ truncated \in [tables : BOOLEAN, processors : BOOLEAN]
  /\ MadtBeginning => record = A!NoRecord /\ processors = <<>>

(* The last record lies in the table and what was read of it in it.        *)
MadtRecordInside ==
  /\ record.read <= record.bytes
  /\ record.at + record.bytes <= length

(* The walk is past all that was reported, so nothing is reported twice.   *)
MadtWalkPast ==
  /\ \A i \in DOMAIN processors : processors[i] < offset
  /\ A!IsInjective(processors)

(* The flags are raised by a list that is full, and it stays full.         *)
MadtFlagged ==
  /\ truncated.processors => Len(processors) = ACPI_MAX_PROCESSORS
  /\ truncated.tables => Len(tables) = ACPI_MAX_TABLES

MadtInv == MadtTyped /\ MadtRecordInside /\ MadtWalkPast /\ MadtFlagged

LEMMA MadtInitInv == A!Init => MadtInv
<1> SUFFICES ASSUME A!Init PROVE MadtInv
  OBVIOUS
<1>1. /\ length = 0 /\ offset = 0 /\ record = [at |-> 0, bytes |-> 0, read |-> 0]
      /\ processors = <<>> /\ tables = <<>>
      /\ ~ truncated.tables /\ ~ truncated.processors
      /\ truncated \in [tables : BOOLEAN, processors : BOOLEAN]
  BY DEF A!Init, A!NoRecord
<1>2. MadtTyped
  BY <1>1 DEF MadtTyped, A!NoRecord
<1>3. MadtRecordInside /\ MadtWalkPast /\ MadtFlagged
  BY <1>1 DEF MadtRecordInside, MadtWalkPast, MadtFlagged, A!IsInjective
<1> QED
  BY <1>2, <1>3 DEF MadtInv

(* Before the walk, and when it has ended, nothing of it changes.          *)
LEMMA MadtWalkKept ==
  ASSUME MadtInv, UNCHANGED <<A!walk, tables, truncated>>, MadtBeginning' => MadtBeginning
  PROVE  MadtInv'
<1>1. UNCHANGED <<length, offset, record, processors, tables, truncated>>
  BY DEF A!walk
<1> QED
  BY <1>1 DEF MadtInv, MadtTyped, MadtRecordInside, MadtWalkPast, MadtFlagged, A!IsInjective,
    A!NoRecord

LEMMA MadtKeepInv ==
  ASSUME MadtInv, NEW madt \in BOOLEAN, A!keep(madt)
  PROVE  MadtInv'
<1>1. UNCHANGED <<length, offset, record, processors>> /\ stage' = "tables" /\ stage = "tables"
  BY DEF A!keep, A!walk
<1>2. CASE Len(tables) = ACPI_MAX_TABLES
  <2>1. tables' = tables /\ truncated' = [truncated EXCEPT !.tables = TRUE]
    BY <1>2 DEF A!keep
  <2>2. truncated' \in [tables : BOOLEAN, processors : BOOLEAN]
    BY <2>1 DEF MadtInv, MadtTyped
  <2>3. truncated'.processors = truncated.processors
    BY <2>1 DEF MadtInv, MadtTyped
  <2>4. MadtFlagged'
    BY <1>1, <1>2, <2>1, <2>3 DEF MadtInv, MadtFlagged
  <2> QED
    BY <1>1, <2>1, <2>2, <2>4 DEF MadtInv, MadtTyped, MadtRecordInside, MadtWalkPast,
      A!IsInjective, MadtBeginning, A!NoRecord
<1>3. CASE Len(tables) # ACPI_MAX_TABLES
  <2>1. tables' = Append(tables, madt) /\ truncated' = truncated
    BY <1>3 DEF A!keep
  <2>2. tables' \in Seq(BOOLEAN)
    BY <2>1 DEF MadtInv, MadtTyped
  <2>3. MadtFlagged'
    BY <1>1, <1>3, <2>1 DEF MadtInv, MadtFlagged
  <2> QED
    BY <1>1, <2>1, <2>2, <2>3 DEF MadtInv, MadtTyped, MadtRecordInside, MadtWalkPast,
      A!IsInjective, MadtBeginning, A!NoRecord
<1> QED
  BY <1>2, <1>3

(* The walk begins, before any record.                                     *)
LEMMA MadtBeginInv ==
  ASSUME A!AcpiAssumption, MadtInv, NEW bytes \in MadtLengths, A!acpi_processors(bytes)
  PROVE  MadtInv'
<1>1. /\ UNCHANGED <<tables, record, processors, truncated>>
      /\ length' = bytes /\ offset' = ACPI_MADT_ENTRIES_OFFSET /\ stage' = "madt"
  BY DEF A!acpi_processors
<1>2. record = [at |-> 0, bytes |-> 0, read |-> 0] /\ processors = <<>>
  BY DEF A!acpi_processors, MadtInv, MadtTyped, MadtBeginning, A!NoRecord
<1>3. bytes \in Nat /\ ACPI_MADT_ENTRIES_OFFSET \in Nat
  BY DEF A!AcpiAssumption
<1>4. MadtTyped'
  BY <1>1, <1>3 DEF MadtInv, MadtTyped, MadtBeginning
<1>5. MadtRecordInside'
  BY <1>1, <1>2, <1>3 DEF MadtRecordInside
<1>6. MadtWalkPast'
  BY <1>1, <1>2 DEF MadtWalkPast, A!IsInjective
<1>7. MadtFlagged'
  BY <1>1 DEF MadtInv, MadtFlagged
<1> QED
  BY <1>4, <1>5, <1>6, <1>7 DEF MadtInv

(* A record that was looked at, whatever becomes of it.                    *)
LEMMA MadtReadInv ==
  ASSUME A!AcpiAssumption, MadtInv, NEW bytes \in RecordLengths, NEW needs \in Nat, needs <= bytes,
         A!More, A!RecordFits(bytes), A!Read(bytes, needs)
  PROVE  /\ (length \in Nat /\ offset \in Nat /\ record \in [at : Nat, bytes : Nat, read : Nat])'
         /\ MadtRecordInside' /\ offset < offset' /\ ~ MadtBeginning' /\ tables' = tables
<1>1. /\ record' = [at |-> offset, bytes |-> bytes, read |-> needs] /\ offset' = offset + bytes
      /\ length' = length /\ stage' = "madt" /\ tables' = tables
  BY DEF A!Read, A!More
<1>2. bytes \in Nat /\ ACPI_MADT_ENTRY_MIN_BYTES \in Nat /\ ACPI_MADT_ENTRY_MIN_BYTES > 0
  BY DEF A!AcpiAssumption
<1>3. length \in Nat /\ offset \in Nat
  BY DEF MadtInv, MadtTyped
<1>4. bytes > 0 /\ offset + bytes <= length
  BY <1>2, <1>3 DEF A!RecordFits
<1> QED
  BY <1>1, <1>2, <1>3, <1>4 DEF MadtRecordInside, MadtBeginning

LEMMA MadtSkipInv ==
  ASSUME A!AcpiAssumption, MadtInv, NEW bytes \in RecordLengths, A!skip_record(bytes)
  PROVE  MadtInv'
<1>1. A!More /\ A!RecordFits(bytes) /\ A!Read(bytes, ACPI_MADT_ENTRY_MIN_BYTES)
  BY DEF A!skip_record
<1>2. ACPI_MADT_ENTRY_MIN_BYTES \in Nat /\ ACPI_MADT_ENTRY_MIN_BYTES <= bytes
  BY <1>1 DEF A!AcpiAssumption, A!RecordFits
<1>3. UNCHANGED <<processors, truncated>>
  BY DEF A!skip_record
<1>4. /\ (length \in Nat /\ offset \in Nat /\ record \in [at : Nat, bytes : Nat, read : Nat])'
      /\ MadtRecordInside' /\ offset < offset' /\ ~ MadtBeginning' /\ tables' = tables
  BY <1>1, <1>2, MadtReadInv
<1>5. MadtTyped'
  BY <1>3, <1>4 DEF MadtInv, MadtTyped
<1>6. MadtWalkPast'
  <2>1. \A i \in DOMAIN processors : processors[i] \in Nat
    BY DEF MadtInv, MadtTyped
  <2> QED
    BY <1>3, <1>4, <2>1 DEF MadtInv, MadtTyped, MadtWalkPast, A!IsInjective
<1>7. MadtFlagged'
  BY <1>3, <1>4 DEF MadtInv, MadtFlagged
<1> QED
  BY <1>4, <1>5, <1>6, <1>7 DEF MadtInv

LEMMA MadtAddInv ==
  ASSUME A!AcpiAssumption, MadtInv, NEW bytes \in RecordLengths,
         NEW needs \in {LocalApicBytes, X2ApicBytes}, A!add_processor(bytes, needs)
  PROVE  MadtInv'
<1>1. A!More /\ A!RecordFits(bytes) /\ bytes >= needs /\ A!Read(bytes, needs)
  BY DEF A!add_processor
<1>2. needs \in Nat /\ bytes \in Nat /\ needs <= bytes
  BY <1>1 DEF A!AcpiAssumption
<1>3. /\ (length \in Nat /\ offset \in Nat /\ record \in [at : Nat, bytes : Nat, read : Nat])'
      /\ MadtRecordInside' /\ offset < offset' /\ ~ MadtBeginning' /\ tables' = tables
  BY <1>1, <1>2, MadtReadInv
<1>4. offset \in Nat /\ processors \in Seq(Nat) /\ \A i \in DOMAIN processors : processors[i] \in Nat
  BY DEF MadtInv, MadtTyped
<1>5. CASE Len(processors) = ACPI_MAX_PROCESSORS
  <2>1. processors' = processors /\ truncated' = [truncated EXCEPT !.processors = TRUE]
    BY <1>5 DEF A!add_processor
  <2>2. truncated' \in [tables : BOOLEAN,
  processors : BOOLEAN] /\ truncated'.tables = truncated.tables
    BY <2>1 DEF MadtInv, MadtTyped
  <2>3. MadtTyped'
    BY <1>3, <2>1, <2>2 DEF MadtInv, MadtTyped
  <2>4. MadtWalkPast'
    BY <1>3, <1>4, <2>1 DEF MadtInv, MadtWalkPast, A!IsInjective
  <2>5. MadtFlagged'
    BY <1>3, <1>5, <2>1, <2>2 DEF MadtInv, MadtFlagged
  <2> QED
    BY <1>3, <2>3, <2>4, <2>5 DEF MadtInv
<1>6. CASE Len(processors) # ACPI_MAX_PROCESSORS
  <2>1. processors' = Append(processors, offset) /\ truncated' = truncated
    BY <1>6 DEF A!add_processor
  <2>2. /\ processors' \in Seq(Nat)
        /\ DOMAIN processors' = DOMAIN processors \cup {Len(processors) + 1}
        /\ processors'[Len(processors) + 1] = offset
        /\ \A i \in DOMAIN processors : processors'[i] = processors[i]
    BY <1>4, <2>1
  <2>3. MadtTyped'
    BY <1>3, <2>1, <2>2 DEF MadtInv, MadtTyped
  <2>4. \A i \in DOMAIN processors' : processors'[i] < offset'
    BY <1>3, <1>4, <2>2 DEF MadtInv, MadtWalkPast
  <2>5. A!IsInjective(processors')
    <3>1. \A i \in DOMAIN processors : processors'[i] # offset
      BY <1>4, <2>2 DEF MadtInv, MadtWalkPast
    <3> QED
      BY <2>2, <3>1 DEF MadtInv, MadtWalkPast, A!IsInjective
  <2>6. MadtFlagged'
    BY <1>3, <1>6, <2>1 DEF MadtInv, MadtFlagged
  <2> QED
    BY <1>3, <2>3, <2>4, <2>5, <2>6 DEF MadtInv, MadtWalkPast
<1> QED
  BY <1>5, <1>6

LEMMA MadtNextInv == A!AcpiAssumption /\ MadtInv /\ [A!Next]_(A!vars) => MadtInv'
<1> SUFFICES ASSUME A!AcpiAssumption, MadtInv, [A!Next]_(A!vars) PROVE MadtInv'
  OBVIOUS
<1>1. ASSUME NEW revision \in {0, 2}, NEW bytes \in RsdpLengths, A!acpi_find_rsdp(revision,
bytes) PROVE MadtInv'
  BY <1>1, MadtWalkKept DEF A!acpi_find_rsdp, MadtBeginning
<1>2. CASE A!not_rsdp
  BY <1>2, MadtWalkKept DEF A!not_rsdp, MadtBeginning
<1>3. CASE A!acpi_collect_failed
  BY <1>3, MadtWalkKept DEF A!acpi_collect_failed, MadtBeginning
<1>4. ASSUME NEW count \in 0 .. RootEntries, A!acpi_collect(count) PROVE MadtInv'
  BY <1>4, MadtWalkKept DEF A!acpi_collect, MadtBeginning
<1>5. CASE A!not_kept
  BY <1>5, MadtWalkKept DEF A!not_kept, MadtBeginning
<1>6. ASSUME NEW madt \in BOOLEAN, A!keep(madt) PROVE MadtInv'
  BY <1>6, MadtKeepInv
<1>7. ASSUME NEW bytes \in MadtLengths, A!acpi_processors(bytes) PROVE MadtInv'
  BY <1>7, MadtBeginInv
<1>8. CASE A!acpi_processors_failed
  BY <1>8, MadtWalkKept DEF A!acpi_processors_failed, MadtBeginning
<1>9. ASSUME NEW bytes \in RecordLengths, NEW needs \in {LocalApicBytes, X2ApicBytes},
A!add_processor(bytes, needs)
      PROVE  MadtInv'
  BY <1>9, MadtAddInv
<1>10. ASSUME NEW bytes \in RecordLengths, A!skip_record(bytes) PROVE MadtInv'
  BY <1>10, MadtSkipInv
<1>11. CASE A!last_record
  BY <1>11, MadtWalkKept DEF A!last_record, MadtBeginning
<1>12. CASE UNCHANGED A!vars
  BY <1>12, MadtWalkKept DEF A!vars, A!walk, MadtBeginning
<1> QED
  BY <1>1, <1>2, <1>3, <1>4, <1>5, <1>6, <1>7, <1>8, <1>9, <1>10, <1>11, <1>12 DEF A!Next

(* The invariant is enough.                                                *)
LEMMA MadtEnough == MadtInv => A!RecordsInTable
  BY DEF MadtInv, MadtRecordInside, MadtWalkPast, MadtFlagged, A!RecordsInTable

(* Nothing is read outside the record and the table that hold it, and no   *)
(* processor reported twice, whatever lengths a MADT claims: acpi.c.       *)
THEOREM RecordsAlwaysInTable == Spec => []RecordsInTable
<1>1. Init => MadtInv
  BY MadtInitInv, PartsAssumption DEF Init, PartsAssumption
<1>2. MadtInv /\ [Next]_vars => MadtInv'
  <2> SUFFICES ASSUME MadtInv, [Next]_vars PROVE MadtInv'
    OBVIOUS
  <2>1. [A!Next]_(A!vars)
    BY DEF Next, vars, acpi_vars, A!vars
  <2> QED
    BY <2>1, MadtNextInv, PartsAssumption DEF PartsAssumption
<1>3. MadtInv => RecordsInTable
  BY MadtEnough DEF RecordsInTable
<1> QED
  BY <1>1, <1>2, <1>3, PTL DEF Spec

-----------------------------------------------------------------------------
(* ElfFile: elf_parse and the window check before elf_load.                *)
(* What has been accepted so far, whatever is still to come.               *)
ElfAcceptable ==
  \A i \in DOMAIN image :
    /\ image[i].file <= image[i].memory
    /\ image[i].offset + image[i].file < WordSize
    /\ image[i].v + image[i].memory < WordSize
    /\ image[i].p + image[i].memory < WordSize

(* The span grows with the list and holds all of it.                       *)
ElfSpanned ==
  /\ lowest \in E!Word /\ highest \in E!Word
  /\ \A i \in DOMAIN image : lowest <= image[i].p /\ image[i].p + image[i].memory <= highest

ElfApart ==
  \A i, j \in DOMAIN image :
    i # j => \/ image[i].p + image[i].memory <= image[j].p
             \/ image[j].p + image[j].memory <= image[i].p

(* What the check before the first byte leaves true.                       *)
ElfPlaced ==
  parsing = "loaded" =>
    \A i \in DOMAIN image :
      /\ placement.low <= image[i].p + placement.bias
      /\ image[i].p + placement.bias + image[i].memory <= placement.high

ElfTyped ==
  /\ image \in Seq(E!Segment)
  /\ parsing \in {"parsed", "loaded"} => image # <<>>

ElfInv == ElfTyped /\ ElfAcceptable /\ ElfSpanned /\ ElfApart /\ ElfPlaced

LEMMA ElfSegmentNumbers ==
  ASSUME NEW s \in E!Segment
  PROVE  s.p \in Int /\ s.v \in Int /\ s.memory \in Int /\ s.offset \in Int /\ s.file \in Int
  BY DEF E!Segment, E!Word

LEMMA ElfInitInv == E!ElfFileAssumption /\ E!Init => ElfInv
<1> SUFFICES ASSUME E!ElfFileAssumption, E!Init PROVE ElfInv
  OBVIOUS
<1>1. image = <<>> /\ DOMAIN image = {} /\ parsing = "header"
  BY DEF E!Init
<1>2. lowest \in E!Word /\ highest \in E!Word
  BY DEF E!Init, E!ElfFileAssumption, E!Word
<1> QED
  BY <1>1, <1>2 DEF ElfInv, ElfTyped, ElfAcceptable, ElfSpanned, ElfApart, ElfPlaced

(* A step that leaves the list alone and is not the one that places it.    *)
LEMMA ElfListKept ==
  ASSUME ElfInv, UNCHANGED <<image, lowest, highest>>, parsing' # "loaded",
         parsing' = "parsed" => image # <<>>
  PROVE  ElfInv'
  BY DEF ElfInv, ElfTyped, ElfAcceptable, ElfSpanned, ElfApart, ElfPlaced, E!Word

LEMMA ElfLoadInv ==
  ASSUME E!ElfFileAssumption, ElfInv, NEW s \in E!Segment, E!program_header_load(s)
  PROVE  ElfInv'
<1>1. image' = Append(image, s) /\ image \in Seq(E!Segment) /\ parsing' = "segments"
  BY DEF E!program_header_load, E!AtHeader, ElfInv, ElfTyped
<1>2. /\ image' \in Seq(E!Segment) /\ image' # <<>>
      /\ DOMAIN image' = DOMAIN image \cup {Len(image) + 1}
      /\ Len(image) + 1 \notin DOMAIN image
      /\ image'[Len(image) + 1] = s
      /\ \A i \in DOMAIN image : image'[i] = image[i]
  BY <1>1
<1>3. /\ s.file <= s.memory
      /\ s.offset + s.file < WordSize /\ s.v + s.memory < WordSize /\ s.p + s.memory < WordSize
  BY DEF E!program_header_load, E!Loadable, E!Fits
<1>4. /\ s.p \in Int /\ s.memory \in Int
      /\ \A i \in DOMAIN image : image[i].p \in Int /\ image[i].memory \in Int
  BY <1>1, ElfSegmentNumbers
<1>5. ElfAcceptable'
  BY <1>2, <1>3 DEF ElfInv, ElfAcceptable
<1>6. ElfSpanned'
  <2>1. lowest' \in E!Word /\ lowest' <= lowest /\ lowest' <= s.p
    BY <1>4 DEF E!program_header_load, ElfInv, ElfSpanned, E!Word, E!ElfFileAssumption, E!Segment
  <2>2. highest' \in E!Word /\ highest <= highest' /\ s.p + s.memory <= highest'
    <3>1. highest' = IF s.p + s.memory > highest THEN s.p + s.memory ELSE highest
      BY DEF E!program_header_load
    <3>2. highest \in 0 .. WordSize - 1 /\ WordSize \in Nat
      BY DEF ElfInv, ElfSpanned, E!Word, E!ElfFileAssumption
    <3>3. s.p \in 0 .. WordSize - 1 /\ s.memory \in 0 .. WordSize - 1
      BY DEF E!Segment, E!Word
    <3>4. CASE s.p + s.memory > highest
      BY <1>3, <3>1, <3>2, <3>3, <3>4 DEF E!Word
    <3>5. CASE ~ (s.p + s.memory > highest)
      BY <3>1, <3>2, <3>3, <3>5 DEF E!Word
    <3> QED
      BY <3>4, <3>5
  <2>3. {lowest, highest, lowest', highest'} \subseteq Int
    BY <2>1, <2>2 DEF ElfInv, ElfSpanned, E!Word, E!ElfFileAssumption
  <2>4. ASSUME NEW i \in DOMAIN image' PROVE lowest' <= image'[i].p /\ image'[i].p + image'[i].memory <= highest'
    <3>1. CASE i \in DOMAIN image
      BY <1>2, <1>4, <2>1, <2>2, <2>3, <3>1 DEF ElfInv, ElfSpanned
    <3>2. CASE i = Len(image) + 1
      BY <1>2, <2>1, <2>2, <3>2
    <3> QED
      BY <1>2, <3>1, <3>2
  <2> QED
    BY <2>1, <2>2, <2>4 DEF ElfSpanned
<1>7. ElfApart'
  <2>1. \A i \in DOMAIN image : image[i].p + image[i].memory <= s.p \/ s.p + s.memory <= image[i].p
    BY <1>4 DEF E!program_header_load, E!segments_overlap
  <2> QED
    BY <1>2, <2>1 DEF ElfInv, ElfApart
<1> QED
  BY <1>1, <1>2, <1>5, <1>6, <1>7 DEF ElfInv, ElfTyped, ElfPlaced

LEMMA ElfPlaceInv ==
  ASSUME E!ElfFileAssumption, ElfInv, NEW to \in Placements, E!elf_load(to)
  PROVE  ElfInv'
<1>1. parsing = "parsed" /\ placement' = to /\ UNCHANGED <<image, lowest, highest>>
  BY DEF E!elf_load
<1>2. parsing' \in {"loaded", "refused"}
  BY DEF E!elf_load
<1>3. parsing' = "loaded" => \A i \in DOMAIN image : E!segment_within(image[i], to)
  BY DEF E!elf_load
<1>4. to \in [bias : Int, low : E!Word, high : E!Word]
  BY DEF E!ElfFileAssumption, E!Word
<1>5. ElfPlaced'
  <2> SUFFICES ASSUME parsing' = "loaded", NEW i \in DOMAIN image
               PROVE  /\ to.low <= image[i].p + to.bias
                      /\ image[i].p + to.bias + image[i].memory <= to.high
    BY <1>1 DEF ElfPlaced
  <2>1. image[i].p \in Int /\ to.bias \in Int
    BY <1>4, ElfSegmentNumbers DEF ElfInv, ElfTyped
  <2> QED
    BY <1>3, <2>1 DEF E!segment_within
<1>6. (ElfAcceptable /\ ElfSpanned /\ ElfApart)'
  BY <1>1 DEF ElfInv, ElfAcceptable, ElfSpanned, ElfApart
<1>7. ElfTyped'
  BY <1>1 DEF ElfInv, ElfTyped
<1> QED
  BY <1>5, <1>6, <1>7 DEF ElfInv

LEMMA ElfNextInv == E!ElfFileAssumption /\ ElfInv /\ [E!Next]_(E!vars) => ElfInv'
<1> SUFFICES ASSUME E!ElfFileAssumption, ElfInv, [E!Next]_(E!vars) PROVE ElfInv'
  OBVIOUS
<1>1. ASSUME NEW o \in Offsets, NEW count \in 0 .. ELF_MAX_PROGRAM_HEADERS + 1, E!parse_header(o,
count)
      PROVE  ElfInv'
  BY <1>1, ElfListKept DEF E!parse_header
<1>2. CASE E!elf_parse_refused
  BY <1>2, ElfListKept DEF E!elf_parse_refused
<1>3. ASSUME NEW o \in Offsets, NEW v \in Offsets, NEW p \in Starts, NEW f \in Sizes,
NEW m \in Sizes,
             E!program_header_load([offset |-> o, v |-> v, p |-> p, file |-> f, memory |-> m])
      PROVE  ElfInv'
  <2>1. [offset |-> o, v |-> v, p |-> p, file |-> f, memory |-> m] \in E!Segment
    BY DEF E!ElfFileAssumption, E!Segment, E!Word
  <2> QED
    BY <1>3, <2>1, ElfLoadInv
<1>4. CASE E!program_header_other
  BY <1>4, ElfListKept DEF E!program_header_other, E!AtHeader
<1>5. CASE E!elf_parse_end
  BY <1>5, ElfListKept DEF E!elf_parse_end
<1>6. ASSUME NEW to \in Placements, E!elf_load(to) PROVE ElfInv'
  BY <1>6, ElfPlaceInv
<1>7. CASE UNCHANGED E!vars
  BY <1>7 DEF E!vars, ElfInv, ElfTyped, ElfAcceptable, ElfSpanned, ElfApart, ElfPlaced, E!Word
<1> QED
  BY <1>1, <1>2, <1>3, <1>4, <1>5, <1>6, <1>7 DEF E!Next

(* The invariant is enough.                                                *)
LEMMA ElfEnough == ElfInv => E!ParsedImageSound
  BY DEF ElfInv, ElfTyped, ElfAcceptable, ElfSpanned, ElfApart, ElfPlaced, E!ParsedImageSound

(* What is accepted of a file can be placed as it says, whatever it says:  *)
(* elf.c, for words of any size and any limits.                            *)
THEOREM ParsedImageAlwaysSound == Spec => []ParsedImageSound
<1>1. Init => ElfInv
  BY ElfInitInv, PartsAssumption DEF Init, PartsAssumption
<1>2. ElfInv /\ [Next]_vars => ElfInv'
  <2> SUFFICES ASSUME ElfInv, [Next]_vars PROVE ElfInv'
    OBVIOUS
  <2>1. [E!Next]_(E!vars)
    BY DEF Next, vars, elf_vars, E!vars
  <2> QED
    BY <2>1, ElfNextInv, PartsAssumption DEF PartsAssumption
<1>3. ElfInv => ParsedImageSound
  BY ElfEnough DEF ParsedImageSound
<1> QED
  BY <1>1, <1>2, <1>3, PTL DEF Spec

-----------------------------------------------------------------------------
(* Protocol: the scan is past all it has answered, has no block of the     *)
(* arena left that an answer holds, and has passed nothing over that it    *)
(* could have answered.                                                    *)
Answered ==
  \A o \in DOMAIN replies :
    /\ o \in R!Candidates
    /\ o + R!RequestWords <= at
    /\ replies[o].to = R!Id(o)
    /\ replies[o].revision <= BOOT_PROTOCOL_REVISION /\ replies[o].revision <= R!Word(o + 3)
    /\ replies[o].block \in Nat /\ replies[o].block > room

Separate ==
  \A o, other \in DOMAIN replies :
    o # other => ~ R!Overlap(o, other) /\ replies[o].block # replies[other].block

(* What became of a place where a request may begin.                       *)
Settled(o) ==
  \/ o \in DOMAIN replies
  \/ ~ R!Answerable(o)
  \/ \E other \in R!Candidates : other < o /\ R!Overlap(o, other)

Scanned == \A o \in R!Candidates : o < at => Settled(o)

ScanInv ==
  /\ words \in Seq(Nat) /\ at \in Nat /\ room \in Nat
  /\ Answered /\ Separate /\ Scanned
  /\ result = "answered" => at + R!RequestWords > Len(words)

ScanAssumption == BOOT_PROTOCOL_REVISION \in Nat /\ Images \subseteq Seq(Nat) /\ Rooms \subseteq Nat

LEMMA ScanAssumed == ScanAssumption
  BY PartsAssumption DEF PartsAssumption, R!ProtocolAssumption, ScanAssumption

(* A place where a request may begin has all its words in the image.       *)
LEMMA CandidateWords ==
  ASSUME ScanInv, NEW o \in R!Candidates
  PROVE  o \in Nat /\ o + R!RequestWords <= Len(words) /\ R!Word(o + 3) \in Nat
<1>1. o \in 0 .. Len(words) - R!RequestWords /\ words \in Seq(Nat)
  BY DEF R!Candidates, ScanInv
<1>2. o \in Nat /\ o + 5 <= Len(words) /\ o + 4 \in 1 .. Len(words)
  BY <1>1 DEF R!RequestWords
<1>3. words[o + 4] \in Nat
  BY <1>1, <1>2
<1>4. (o + 3) + 1 = o + 4
  BY <1>2
<1> QED
  BY <1>2, <1>3, <1>4 DEF R!Word, R!RequestWords

LEMMA ScanBegins == ASSUME Init PROVE ScanInv
<1>1. R!Init
  BY DEF Init
<1>2. words \in Seq(Nat) /\ room \in Nat /\ at = 0 /\ replies = <<>> /\ result = "scanning"
  BY <1>1, ScanAssumed DEF R!Init, ScanAssumption
<1>3. DOMAIN replies = {}
  BY <1>2
<1>4. \A o \in R!Candidates : ~ (o < at)
  BY <1>2 DEF R!Candidates, R!RequestWords
<1> QED
  BY <1>2, <1>3, <1>4 DEF ScanInv, Answered, Separate, Scanned

(* The image and what there is to tell stay as they are.                   *)
LEMMA SameImage ==
  ASSUME UNCHANGED <<words, facts>>
  PROVE  /\ R!Candidates' = R!Candidates
         /\ \A o : R!Id(o)' = R!Id(o) /\ (R!Answerable(o)' <=> R!Answerable(o)) /\ R!Word(o)' = R!Word(o)
  BY DEF R!Candidates, R!MagicAt, R!Word, R!Id, R!Answerable

(* Going on keeps what was answered, whatever it goes on to.               *)
LEMMA GoingOn ==
  ASSUME ScanInv, UNCHANGED <<words, facts, room, replies>>, at' \in Nat, at' >= at,
         \A o \in R!Candidates : at <= o /\ o < at' => Settled(o),
         result' = "answered" => at' + R!RequestWords > Len(words)
  PROVE  ScanInv'
<1>1. Answered'
  <2> SUFFICES ASSUME NEW o \in DOMAIN replies
               PROVE  /\ o \in R!Candidates' /\ o + R!RequestWords <= at'
                      /\ replies'[o].to = R!Id(o)'
                      /\ replies'[o].revision <= BOOT_PROTOCOL_REVISION
                      /\ replies'[o].revision <= R!Word(o + 3)'
                      /\ replies'[o].block \in Nat /\ replies'[o].block > room'
    BY DEF Answered
  <2>1. o \in R!Candidates /\ o + R!RequestWords <= at
    BY DEF ScanInv, Answered
  <2>2. o + R!RequestWords <= at'
    BY <2>1, CandidateWords DEF ScanInv, R!RequestWords
  <2> QED
    BY <2>1, <2>2, SameImage DEF ScanInv, Answered
<1>2. Separate'
  BY DEF ScanInv, Separate, R!Overlap, R!RequestWords
<1>3. Scanned'
  <2> SUFFICES ASSUME NEW o \in R!Candidates, o < at' PROVE Settled(o)'
    BY SameImage DEF Scanned
  <2>1. Settled(o)
    BY CandidateWords DEF ScanInv, Scanned
  <2> QED
    BY <2>1, SameImage DEF Settled, R!Overlap, R!RequestWords
<1> QED
  BY <1>1, <1>2, <1>3 DEF ScanInv

(* All that begin inside a request are stepped over with it.               *)
LEMMA SteppedOver ==
  ASSUME ScanInv, R!Scanning, R!MagicAt(at), NEW o \in R!Candidates, at < o, o < at + R!RequestWords
  PROVE  at \in R!Candidates /\ R!Overlap(o, at)
<1>1. at \in 0 .. Len(words) - R!RequestWords
  BY DEF R!Scanning, R!Inside, ScanInv, R!RequestWords
<1>2. at \in R!Candidates
  BY <1>1 DEF R!Candidates
<1>3. o \in Nat
  BY CandidateWords
<1> QED
  BY <1>2, <1>3 DEF R!Overlap, R!RequestWords, ScanInv

LEMMA AnswerKeeps ==
  ASSUME ScanInv, R!answer
  PROVE  ScanInv'
<1> DEFINE reply == [to |-> R!Id(at), revision |-> R!agreed_revision(at), block |-> room]
<1>1. /\ R!Scanning /\ R!MagicAt(at) /\ R!Cost(at) <= room
      /\ room' = room - R!Cost(at)
      /\ replies' = [o \in DOMAIN replies \cup {at} |-> IF o = at THEN reply ELSE replies[o]]
      /\ UNCHANGED <<words, facts, result>>
  BY DEF R!answer
<1>2. at' = at + R!RequestWords /\ at' \in Nat
  BY DEF R!answer, R!Past, ScanInv, R!RequestWords
<1>3. at \in R!Candidates
  BY <1>1 DEF R!Scanning, R!Inside, ScanInv, R!RequestWords, R!Candidates
<1>4. room' \in Nat /\ room' < room /\ room \in Nat
  BY <1>1 DEF R!Cost, ScanInv
<1>5. DOMAIN replies' = DOMAIN replies \cup {at} /\ at \notin DOMAIN replies
  <2>1. \A o \in DOMAIN replies : o \in Nat /\ o + R!RequestWords <= at
    BY CandidateWords DEF ScanInv, Answered
  <2> QED
    BY <1>1, <2>1 DEF R!RequestWords, ScanInv
<1>6. replies'[at] = reply /\ \A o \in DOMAIN replies : replies'[o] = replies[o]
  <2> HIDE DEF reply
  <2> QED
    BY <1>1, <1>5
<1>7. Answered'
  <2> SUFFICES ASSUME NEW o \in DOMAIN replies'
               PROVE  /\ o \in R!Candidates /\ o + R!RequestWords <= at'
                      /\ replies'[o].to = R!Id(o)
                      /\ replies'[o].revision <= BOOT_PROTOCOL_REVISION
                      /\ replies'[o].revision <= R!Word(o + 3)
                      /\ replies'[o].block \in Nat /\ replies'[o].block > room'
    BY <1>1, SameImage DEF Answered
  <2>1. CASE o = at
    <3>1. /\ R!agreed_revision(at) <= BOOT_PROTOCOL_REVISION
          /\ R!agreed_revision(at) <= R!Word(at + 3)
      BY <1>3, CandidateWords, ScanAssumed DEF ScanAssumption, R!agreed_revision
    <3>2. replies'[at].to = R!Id(at) /\ replies'[at].revision = R!agreed_revision(at) /\ replies'[at].block = room
      BY <1>6
    <3> QED
      BY <1>2, <1>3, <1>4, <2>1, <3>1, <3>2 DEF R!RequestWords, ScanInv
  <2>2. CASE o \in DOMAIN replies
    <3>1. /\ o \in R!Candidates /\ o + R!RequestWords <= at /\ replies[o].to = R!Id(o)
          /\ replies[o].revision <= BOOT_PROTOCOL_REVISION /\ replies[o].revision <= R!Word(o + 3)
          /\ replies[o].block \in Nat /\ replies[o].block > room
      BY <2>2 DEF ScanInv, Answered
    <3>2. o \in Nat /\ at \in Nat
      BY <3>1, CandidateWords DEF ScanInv
    <3>3. replies'[o] = replies[o]
      BY <1>6, <2>2
    <3>4. o + R!RequestWords <= at' /\ replies[o].block > room'
      BY <1>2, <1>4, <3>1, <3>2 DEF R!RequestWords
    <3> QED
      BY <3>1, <3>3, <3>4
  <2> QED
    BY <1>5, <2>1, <2>2
<1>8. Separate'
  <2>1. ASSUME NEW o \in DOMAIN replies
        PROVE  /\ ~ R!Overlap(o, at) /\ ~ R!Overlap(at, o)
               /\ replies'[o].block # replies'[at].block
    <3>1. o + R!RequestWords <= at /\ o \in Nat /\ at \in Nat
      BY CandidateWords DEF ScanInv, Answered
    <3>2. replies'[o].block = replies[o].block /\ replies'[at].block = room
      BY <1>6
    <3>3. replies[o].block \in Nat /\ replies[o].block > room
      BY DEF ScanInv, Answered
    <3> QED
      BY <1>4, <3>1, <3>2, <3>3 DEF R!Overlap, R!RequestWords
  <2>2. ASSUME NEW o \in DOMAIN replies, NEW other \in DOMAIN replies, o # other
        PROVE  ~ R!Overlap(o, other) /\ replies'[o].block # replies'[other].block
    BY <1>6, <2>2 DEF ScanInv, Separate
  <2>3. \A o, other : R!Overlap(o, other)' <=> R!Overlap(o, other)
    BY DEF R!Overlap, R!RequestWords
  <2> QED
    BY <1>5, <2>1, <2>2, <2>3 DEF Separate
<1>9. Scanned'
  <2> SUFFICES ASSUME NEW o \in R!Candidates, o < at' PROVE Settled(o)'
    BY <1>1, SameImage DEF Scanned
  <2>1. o \in Nat /\ at \in Nat
    BY CandidateWords DEF ScanInv
  <2>2. Settled(o) \/ o = at
    <3>1. CASE o < at
      BY <3>1 DEF ScanInv, Scanned
    <3>2. CASE o = at
      BY <3>2
    <3>3. CASE at < o
      BY <1>1, <1>2, <3>3, SteppedOver DEF Settled
    <3> QED
      BY <2>1, <3>1, <3>2, <3>3
  <2> QED
    BY <1>1, <1>5, <2>2, SameImage DEF Settled, R!Overlap, R!RequestWords
<1>10. result' # "answered"
  BY <1>1 DEF R!Scanning
<1> QED
  BY <1>1, <1>2, <1>4, <1>7, <1>8, <1>9, <1>10 DEF ScanInv

LEMMA ScanKeeps ==
  ASSUME ScanInv, R!Next
  PROVE  ScanInv'
<1>1. CASE R!scan_on
  <2>1. /\ R!Scanning /\ ~ R!MagicAt(at) /\ at' = at + 1
        /\ UNCHANGED <<words, facts, room, replies, result>>
    BY <1>1 DEF R!scan_on
  <2>2. \A o \in R!Candidates : at <= o /\ o < at' => Settled(o)
    BY <2>1, CandidateWords DEF R!Candidates, ScanInv
  <2>3. result' # "answered" /\ at' \in Nat /\ at' >= at
    BY <2>1 DEF R!Scanning, ScanInv
  <2> QED
    BY <2>1, <2>2, <2>3, GoingOn
<1>2. CASE R!answer_nothing
  <2>1. /\ R!Scanning /\ R!MagicAt(at) /\ ~ R!Answerable(at)
        /\ UNCHANGED <<words, facts, room, replies, result>>
    BY <1>2 DEF R!answer_nothing
  <2>2. at' = at + R!RequestWords /\ at' \in Nat /\ at' >= at /\ at \in Nat
    BY <1>2 DEF R!answer_nothing, R!Past, ScanInv, R!RequestWords
  <2>3. ASSUME NEW o \in R!Candidates, at <= o, o < at' PROVE Settled(o)
    <3>1. o \in Nat
      BY CandidateWords
    <3>2. CASE o = at
      BY <2>1, <3>2 DEF Settled
    <3>3. CASE at < o
      BY <2>1, <2>2, <2>3, <3>3, SteppedOver DEF Settled
    <3> QED
      BY <2>2, <2>3, <3>1, <3>2, <3>3
  <2>4. result' # "answered"
    BY <2>1 DEF R!Scanning
  <2> QED
    BY <2>1, <2>2, <2>3, <2>4, GoingOn
<1>3. CASE R!answer_failed
  <2>1. UNCHANGED <<words, facts, room, at, replies>> /\ result' = "failed"
    BY <1>3 DEF R!answer_failed
  <2> QED
    BY <2>1, GoingOn, CandidateWords DEF ScanInv
<1>4. CASE R!scan_end
  <2>1. UNCHANGED <<words, facts, room, at, replies>> /\ ~ R!Inside(at)
    BY <1>4 DEF R!scan_end
  <2>2. at + R!RequestWords > Len(words)
    BY <2>1 DEF R!Inside, ScanInv, R!RequestWords
  <2> QED
    BY <2>1, <2>2, GoingOn, CandidateWords DEF ScanInv
<1> QED
  BY <1>1, <1>2, <1>3, <1>4, AnswerKeeps DEF R!Next

LEMMA ScanEnough == ASSUME ScanInv PROVE R!AnswersExact
<1>1. result = "answered" => \A o \in R!Candidates : Settled(o)
  <2> SUFFICES ASSUME result = "answered", NEW o \in R!Candidates PROVE o < at
    BY DEF ScanInv, Scanned
  <2> QED
    BY CandidateWords DEF ScanInv, R!RequestWords
<1> QED
  BY <1>1 DEF ScanInv, Answered, Separate, Settled, R!AnswersExact

(* No half request and none inside another is answered, no two answers     *)
(* share memory, and none that could be answered is passed over: whatever  *)
(* the image and the limits are, protocol.c.                               *)
THEOREM AnswersAlwaysExact == Spec => []AnswersExact
<1>1. Init => ScanInv
  BY ScanBegins
<1>2. ScanInv /\ [Next]_vars => ScanInv'
  <2> SUFFICES ASSUME ScanInv, [Next]_vars PROVE ScanInv'
    OBVIOUS
  <2>1. CASE R!Next
    BY <2>1, ScanKeeps
  <2>2. CASE UNCHANGED protocol_vars
    BY <2>2, GoingOn, CandidateWords DEF protocol_vars, ScanInv
  <2> QED
    BY <2>1, <2>2 DEF Next, vars
<1>3. ScanInv => AnswersExact
  BY ScanEnough DEF AnswersExact
<1> QED
  BY <1>1, <1>2, <1>3, PTL DEF Spec

-----------------------------------------------------------------------------
(* Pci.  A place lies behind the walk when its bus has been entered and the*)
(* cursor has gone past it.                                                *)
Before(p, q) == p[2] < q[2] \/ (p[2] = q[2] /\ p[3] < q[3])

Behind(p) == p[1] \in seen /\ (cursor # <<>> /\ p[1] = cursor[1] => Before(p, cursor))

(* A function that answers as one of its own.                              *)
Answers(p) ==
  /\ P!KindAt(p) # "none" /\ P!KindAt(<<p[1], p[2], 0>>) # "none"
  /\ p[3] # 0 => machine.multi[<<p[1], p[2]>>]

Recorded(p) == \E i \in DOMAIN entries : entries[i] = p

(* All that a walk over closed sets of buses must come to.                 *)
LeadsTo(buses) ==
  \A all \in SUBSET P!Bus : 0 \in all /\ P!Closed(all) => buses \subseteq all

BusTyped ==
  /\ machine \in P!Machine
  /\ pending \subseteq P!Bus /\ seen \subseteq P!Bus
  /\ cursor = <<>> \/ cursor \in P!Place
  /\ entries \in Seq(P!Place) /\ Len(entries) <= PCI_MAX_DEVICES
  /\ more \in BOOLEAN

BusesKnown ==
  /\ 0 \in seen \cup pending
  /\ seen \cap pending = {}
  /\ LeadsTo(seen \cup pending)

CursorStands ==
  /\ cursor # <<>> => cursor[1] \in seen /\ (cursor[3] = 0 \/ P!HasMore(cursor))
  /\ done => pending = {} /\ cursor = <<>>

EntriesTrue ==
  /\ \A i, j \in DOMAIN entries : entries[i] = entries[j] => i = j
  /\ \A p \in P!Place : Recorded(p) =>
       /\ Answers(p) /\ Behind(p)
       /\ P!KindAt(p) = "bridge" => machine.behind[p] \in seen \cup pending

EntriesWhole ==
  IF more
    THEN /\ Len(entries) = PCI_MAX_DEVICES
         /\ \E p \in P!Place : Answers(p) /\ p[1] \in seen /\ ~ Recorded(p)
    ELSE \A p \in P!Place : Answers(p) /\ Behind(p) => Recorded(p)

BusInv == BusTyped /\ BusesKnown /\ CursorStands /\ EntriesTrue /\ EntriesWhole

BusInvTop == part = "pci" => BusInv

LEMMA PciNumbers ==
  /\ Buses \in Nat \ {0} /\ Devices \in Nat \ {0} /\ Functions \in Nat \ {0}
  /\ PCI_MAX_DEVICES \in Nat \ {0}
  /\ Machines \subseteq P!Machine
BY PartsAssumption DEF P!PciAssumption

LEMMA PlaceParts ==
  ASSUME NEW p \in P!Place
  PROVE  /\ p = <<p[1], p[2], p[3]>>
         /\ p[1] \in P!Bus /\ p[1] \in Nat
         /\ p[2] \in 0 .. Devices - 1 /\ p[2] \in Nat /\ p[2] < Devices
         /\ p[3] \in 0 .. Functions - 1 /\ p[3] \in Nat /\ p[3] < Functions
         /\ p # <<>>
<1>1. p \in P!Bus \X (0 .. Devices - 1) \X (0 .. Functions - 1)
  BY DEF P!Place
<1>2. /\ p = <<p[1], p[2], p[3]>>
      /\ p[1] \in P!Bus /\ p[2] \in 0 .. Devices - 1 /\ p[3] \in 0 .. Functions - 1
  BY <1>1
<1>3. p # <<>>
  <2>1. \A a, b, c : <<a, b, c>> # <<>>
    OBVIOUS
  <2> QED
    BY ONLY <1>2, <2>1
<1>4. p[1] \in Nat
  BY <1>2, PciNumbers DEF P!Bus
<1>5. p[2] \in Nat /\ p[2] < Devices /\ p[3] \in Nat /\ p[3] < Functions
  BY <1>2, PciNumbers
<1> QED
  BY <1>2, <1>3, <1>4, <1>5

LEMMA PlaceMade ==
  ASSUME NEW a \in P!Bus, NEW b \in 0 .. Devices - 1, NEW c \in 0 .. Functions - 1
  PROVE  <<a, b, c>> \in P!Place
BY DEF P!Place

(* Answering, place by place.                                              *)
LEMMA AnsweringPlaces ==
  ASSUME NEW bus \in P!Bus
  PROVE  /\ P!Answering(bus) \subseteq P!Place
         /\ \A p \in P!Place : p \in P!Answering(bus) <=> p[1] = bus /\ Answers(p)
<1>1. P!Answering(bus) \subseteq {bus} \X (0 .. Devices - 1) \X (0 .. Functions - 1)
  BY DEF P!Answering
<1>2. {bus} \X (0 .. Devices - 1) \X (0 .. Functions - 1) \subseteq P!Place
  BY DEF P!Place
<1>3. ASSUME NEW p \in P!Place
      PROVE  p \in {bus} \X (0 .. Devices - 1) \X (0 .. Functions - 1) <=> p[1] = bus
  BY PlaceParts
<1>4. ASSUME NEW p
      PROVE  p \in P!Answering(bus) <=>
               /\ p \in {bus} \X (0 .. Devices - 1) \X (0 .. Functions - 1)
               /\ Answers(p)
  BY DEF P!Answering, Answers
<1> QED
  BY <1>1, <1>2, <1>3, <1>4

(* The walk moves past the place it stands on, and past no other that      *)
(* answers.                                                                *)
LEMMA WalkMoves ==
  ASSUME BusTyped, CursorStands, P!Visit
  PROVE  /\ cursor \in P!Place /\ cursor[1] \in seen
         /\ ~ Behind(cursor)
         /\ cursor' = <<>> \/ cursor' \in P!Place
         /\ cursor' # <<>> => /\ cursor'[1] = cursor[1]
                              /\ cursor'[3] = 0 \/ P!HasMore(cursor')
         /\ \A p \in P!Place : Answers(p) => (Behind(p)' <=> Behind(p) \/ p = cursor)
<1>1. /\ cursor \in P!Place /\ cursor[1] \in seen /\ cursor # <<>>
      /\ cursor[3] = 0 \/ P!HasMore(cursor)
  BY DEF P!Visit, BusTyped, CursorStands
<1>2. cursor' = P!After(cursor) /\ UNCHANGED <<machine, seen>>
  BY DEF P!Visit
<1> DEFINE b == cursor[1]
           d == cursor[2]
           f == cursor[3]
<1>3. /\ cursor = <<b, d, f>>
      /\ b \in P!Bus /\ b \in Nat
      /\ d \in 0 .. Devices - 1 /\ d \in Nat /\ d < Devices
      /\ f \in 0 .. Functions - 1 /\ f \in Nat /\ f < Functions
  BY <1>1, PlaceParts
<1>4. ~ Behind(cursor)
  BY <1>1, <1>3 DEF Behind, Before
<1>5. ASSUME NEW p \in P!Place
      PROVE  Behind(p) <=> /\ p[1] \in seen
                           /\ p[1] = b => p[2] < d \/ (p[2] = d /\ p[3] < f)
  BY <1>1 DEF Behind, Before
<1>6. ASSUME NEW p \in P!Place
      PROVE  p = cursor <=> p[1] = b /\ p[2] = d /\ p[3] = f
  BY <1>3, PlaceParts
<1>7. P!HasMore(cursor) <=> P!KindAt(<<b, d, 0>>) # "none" /\ machine.multi[<<b, d>>]
  BY DEF P!HasMore
<1>8. ASSUME NEW p \in P!Place, Answers(p), p[1] = b, p[2] = d, p[3] # 0
      PROVE  P!HasMore(cursor)
  BY <1>7, <1>8 DEF Answers
<1>9. CASE f + 1 < Functions /\ P!HasMore(cursor)
  <2>1. cursor' = <<b, d, f + 1>>
    BY <1>2, <1>9 DEF P!After
  <2>2. cursor' \in P!Place /\ cursor' # <<>>
    BY <1>3, <1>9, <2>1, PlaceMade, PciNumbers
  <2>3. P!HasMore(cursor')
    BY <1>7, <1>9, <2>1 DEF P!HasMore
  <2>4. ASSUME NEW p \in P!Place
        PROVE  Behind(p)' <=> /\ p[1] \in seen
                              /\ p[1] = b => p[2] < d \/ (p[2] = d /\ p[3] < f + 1)
    BY <1>2, <2>1, <2>2 DEF Behind, Before
  <2>5. ASSUME NEW p \in P!Place PROVE Behind(p)' <=> Behind(p) \/ p = cursor
    BY <1>1, <1>3, <1>5, <1>6, <2>4, PlaceParts
  <2> QED
    BY <1>1, <1>4, <2>1, <2>2, <2>3, <2>5
<1>10. CASE ~ (f + 1 < Functions /\ P!HasMore(cursor))
  <2>0. ASSUME NEW p \in P!Place, Answers(p), p[1] = b, p[2] = d PROVE p[3] <= f
    <3>1. CASE p[3] = 0
      BY <1>3, <3>1
    <3>2. CASE p[3] # 0
      <4>1. ~ (f + 1 < Functions)
        BY <1>8, <1>10, <2>0, <3>2
      <4> QED
        BY <1>3, <4>1, PlaceParts, PciNumbers
    <3> QED
      BY <3>1, <3>2
  <2>1. CASE d + 1 < Devices
    <3>1. cursor' = <<b, d + 1, 0>>
      BY <1>2, <1>10, <2>1 DEF P!After
    <3>2. cursor' \in P!Place /\ cursor' # <<>>
      BY <1>3, <2>1, <3>1, PlaceMade, PciNumbers
    <3>3. ASSUME NEW p \in P!Place
          PROVE  Behind(p)' <=> /\ p[1] \in seen
                                /\ p[1] = b => p[2] < d + 1 \/ (p[2] = d + 1 /\ p[3] < 0)
      BY <1>2, <3>1, <3>2 DEF Behind, Before
    <3>4. ASSUME NEW p \in P!Place, Answers(p) PROVE Behind(p)' <=> Behind(p) \/ p = cursor
      <4>1. p[1] = b /\ p[2] = d => p[3] <= f
        BY <2>0, <3>4
      <4> QED
        BY <1>1, <1>3, <1>5, <1>6, <3>3, <4>1, PlaceParts
    <3> QED
      BY <1>1, <1>4, <3>1, <3>2, <3>4
  <2>2. CASE ~ (d + 1 < Devices)
    <3>1. cursor' = <<>>
      BY <1>2, <1>10, <2>2 DEF P!After
    <3>2. ASSUME NEW p \in P!Place PROVE Behind(p)' <=> p[1] \in seen
      BY <1>2, <3>1 DEF Behind
    <3>3. ASSUME NEW p \in P!Place, Answers(p) PROVE Behind(p)' <=> Behind(p) \/ p = cursor
      <4>1. p[1] = b /\ p[2] = d => p[3] <= f
        BY <2>0, <3>3
      <4>2. p[2] <= d
        BY <1>3, <2>2, PlaceParts, PciNumbers
      <4> QED
        BY <1>1, <1>3, <1>5, <1>6, <3>2, <4>1, <4>2, PlaceParts
    <3> QED
      BY <1>1, <1>4, <3>1, <3>3
  <2> QED
    BY <2>1, <2>2
<1> QED
  BY <1>9, <1>10

LEMMA BusesBegin == ASSUME P!Init PROVE BusInv
<1>1. /\ machine \in P!Machine /\ pending = {0} /\ seen = {} /\ cursor = <<>>
      /\ entries = <<>> /\ more = FALSE /\ done = FALSE
  BY PciNumbers DEF P!Init
<1>2. 0 \in P!Bus
  BY PciNumbers DEF P!Bus
<1>3. \A p : ~ Recorded(p)
  BY <1>1 DEF Recorded
<1>4. BusTyped
  <2>1. entries \in Seq(P!Place) /\ Len(entries) <= PCI_MAX_DEVICES
    BY <1>1, PciNumbers
  <2>2. pending \subseteq P!Bus /\ seen \subseteq P!Bus
    BY <1>1, <1>2
  <2> QED
    BY <1>1, <2>1, <2>2 DEF BusTyped
<1>5. BusesKnown
  BY <1>1 DEF BusesKnown, LeadsTo
<1>6. CursorStands
  BY <1>1 DEF CursorStands
<1>7. EntriesTrue
  BY <1>1, <1>3 DEF EntriesTrue
<1>8. EntriesWhole
  BY <1>1 DEF EntriesWhole, Behind
<1> QED
  BY <1>4, <1>5, <1>6, <1>7, <1>8 DEF BusInv

LEMMA SameBuses ==
  ASSUME UNCHANGED machine
  PROVE  \A all \in SUBSET P!Bus : P!Closed(all)' <=> P!Closed(all)
BY DEF P!Closed, P!Answering, P!KindAt

(* A bus is entered once, so no place of it is behind the walk yet.        *)
LEMMA BusEntered == ASSUME BusInv, P!next_bus PROVE BusInv'
<1> DEFINE bus == P!Min(pending)
<1>1. /\ cursor = <<>> /\ pending # {} /\ ~ done
      /\ pending' = pending \ {bus} /\ seen' = seen \cup {bus} /\ cursor' = <<bus, 0, 0>>
      /\ UNCHANGED <<machine, entries, more, done>>
  BY DEF P!next_bus, P!PendingAfter
<1>2. pending \in SUBSET Nat
  BY DEF BusInv, BusTyped, P!Bus
<1>3. bus \in pending
  <2>1. PICK x \in pending : \A y \in pending : ~ (<<y, x>> \in OpToRel(<, Nat))
    BY <1>1, <1>2, NatLessThanWellFounded, WFMin
  <2>2. \A y \in pending : ~ (y < x)
    BY <1>2, <2>1 DEF OpToRel
  <2>3. \A y \in pending : x <= y
    BY <1>2, <2>2
  <2> QED
    BY <2>3 DEF P!Min
<1> HIDE DEF bus
<1>4. bus \in P!Bus /\ bus \notin seen
  BY <1>3 DEF BusInv, BusTyped, BusesKnown
<1>5. <<bus, 0, 0>> \in P!Place
  BY <1>4, PlaceMade, PciNumbers
<1>6. seen' \cup pending' = seen \cup pending
  BY <1>1, <1>3
<1>7. ASSUME NEW p \in P!Place PROVE Behind(p)' <=> Behind(p)
  <2>1. Behind(p) <=> p[1] \in seen
    BY <1>1 DEF Behind
  <2>2. Behind(p)' <=> p[1] \in seen \cup {bus} /\ p[1] # bus
    <3>1. p[2] \in Nat /\ p[3] \in Nat
      BY PlaceParts
    <3>2. cursor'[1] = bus /\ cursor'[2] = 0 /\ cursor'[3] = 0 /\ cursor' # <<>>
      BY <1>1
    <3>3. ~ Before(p, cursor')
      BY <3>1, <3>2 DEF Before
    <3> QED
      BY <1>1, <3>2, <3>3 DEF Behind
  <2> QED
    BY <1>4, <2>1, <2>2
<1>8. \A p \in P!Place : (Recorded(p)' <=> Recorded(p)) /\ (Answers(p)' <=> Answers(p))
                         /\ P!KindAt(p)' = P!KindAt(p)
  BY <1>1 DEF Recorded, Answers, P!KindAt
<1>9. BusTyped'
  BY <1>1, <1>4, <1>5 DEF BusInv, BusTyped
<1>10. BusesKnown'
  <2>1. LeadsTo(seen \cup pending)'
    <3>1. LeadsTo(seen \cup pending)
      BY DEF BusInv, BusesKnown
    <3> QED
      BY <1>1, <1>6, <3>1, SameBuses DEF LeadsTo
  <2> QED
    BY <1>1, <1>3, <1>6, <2>1 DEF BusInv, BusesKnown
<1>11. CursorStands'
  BY <1>1 DEF CursorStands
<1>12. EntriesTrue'
  BY <1>1, <1>6, <1>7, <1>8 DEF BusInv, EntriesTrue
<1>13. EntriesWhole'
  BY <1>1, <1>7, <1>8 DEF BusInv, EntriesWhole
<1> QED
  BY <1>9, <1>10, <1>11, <1>12, <1>13 DEF BusInv

LEMMA WalkFinished == ASSUME BusInv, P!finish PROVE BusInv'
<1>1. /\ cursor = <<>> /\ pending = {} /\ done' = TRUE
      /\ UNCHANGED <<machine, pending, seen, cursor, entries, more>>
  BY DEF P!finish
<1>2. BusTyped' /\ BusesKnown'
  BY <1>1 DEF BusInv, BusTyped, BusesKnown, LeadsTo, P!Closed, P!Answering, P!KindAt
<1>3. CursorStands'
  BY <1>1 DEF BusInv, CursorStands
<1>4. \A p \in P!Place : /\ (Recorded(p)' <=> Recorded(p)) /\ (Answers(p)' <=> Answers(p))
                         /\ (Behind(p)' <=> Behind(p)) /\ P!KindAt(p)' = P!KindAt(p)
  <2> SUFFICES ASSUME NEW p \in P!Place
               PROVE  /\ (Recorded(p)' <=> Recorded(p)) /\ (Answers(p)' <=> Answers(p))
                      /\ (Behind(p)' <=> Behind(p)) /\ P!KindAt(p)' = P!KindAt(p)
    OBVIOUS
  <2>1. Recorded(p)' <=> Recorded(p)
    BY <1>1 DEF Recorded
  <2>2. (Answers(p)' <=> Answers(p)) /\ P!KindAt(p)' = P!KindAt(p)
    BY <1>1 DEF Answers, P!KindAt
  <2>3. Behind(p)' <=> Behind(p)
    BY <1>1 DEF Behind, Before
  <2> QED
    BY <2>1, <2>2, <2>3
<1>5. EntriesTrue'
  BY <1>1, <1>4 DEF BusInv, EntriesTrue
<1>6. EntriesWhole'
  BY <1>1, <1>4 DEF BusInv, EntriesWhole
<1> QED
  BY <1>2, <1>3, <1>5, <1>6 DEF BusInv

(* What stays of the invariant whatever a visit does to the place.         *)
LEMMA VisitKeeps ==
  ASSUME BusInv, P!Visit
  PROVE  /\ cursor' = <<>> \/ cursor' \in P!Place
         /\ CursorStands'
         /\ \A p \in P!Place : (Answers(p)' <=> Answers(p)) /\ P!KindAt(p)' = P!KindAt(p)
<1>1. UNCHANGED <<machine, seen, done>> /\ ~ done
  BY DEF P!Visit
<1>2. /\ cursor[1] \in seen
      /\ cursor' = <<>> \/ cursor' \in P!Place
      /\ cursor' # <<>> => /\ cursor'[1] = cursor[1]
                           /\ cursor'[3] = 0 \/ P!HasMore(cursor')
  BY WalkMoves DEF BusInv
<1>3. P!HasMore(cursor)' <=> P!HasMore(cursor')
  BY <1>1 DEF P!HasMore, P!KindAt
<1> QED
  BY <1>1, <1>2, <1>3, WalkMoves DEF BusInv, CursorStands, Answers, P!KindAt

LEMMA StandsOnAnswer ==
  ASSUME BusInv, P!Visit, P!KindAt(cursor) # "none"
  PROVE  Answers(cursor)
<1>1. /\ cursor \in P!Place
      /\ cursor[3] = 0 \/ P!HasMore(cursor)
  BY DEF P!Visit, BusInv, BusTyped, CursorStands
<1>2. cursor = <<cursor[1], cursor[2], cursor[3]>>
  BY <1>1, PlaceParts
<1>3. CASE cursor[3] = 0
  BY <1>2, <1>3 DEF Answers
<1>4. CASE cursor[3] # 0
  BY <1>1, <1>4 DEF Answers, P!HasMore
<1> QED
  BY <1>3, <1>4

LEMMA NothingVisited == ASSUME BusInv, P!visit_nothing PROVE BusInv'
<1>1. /\ P!Visit /\ P!KindAt(cursor) = "none"
      /\ UNCHANGED <<machine, seen, done, pending, entries, more>>
  BY DEF P!visit_nothing, P!Visit
<1>2. \A p \in P!Place : Recorded(p)' <=> Recorded(p)
  BY <1>1 DEF Recorded
<1>3. ~ Answers(cursor)
  BY <1>1 DEF Answers
<1>4. \A p \in P!Place : Answers(p) => (Behind(p)' <=> Behind(p))
  BY <1>1, <1>3, WalkMoves DEF BusInv
<1>5. BusTyped'
  BY <1>1, VisitKeeps DEF BusInv, BusTyped
<1>6. BusesKnown'
  BY <1>1, SameBuses DEF BusInv, BusesKnown, LeadsTo
<1>7. EntriesTrue'
  BY <1>1, <1>2, <1>4, VisitKeeps DEF BusInv, EntriesTrue
<1>8. EntriesWhole'
  BY <1>1, <1>2, <1>4, VisitKeeps DEF BusInv, EntriesWhole
<1> QED
  BY <1>1, <1>5, <1>6, <1>7, <1>8, VisitKeeps DEF BusInv

LEMMA NoRoomLeft == ASSUME BusInv, P!visit_full PROVE BusInv'
<1>1. /\ P!Visit /\ P!KindAt(cursor) # "none" /\ Len(entries) = PCI_MAX_DEVICES
      /\ more' = TRUE
      /\ UNCHANGED <<machine, seen, done, pending, entries>>
  BY DEF P!visit_full, P!Visit
<1>2. \A p \in P!Place : Recorded(p)' <=> Recorded(p)
  BY <1>1 DEF Recorded
<1>3. Answers(cursor) /\ cursor \in P!Place /\ cursor[1] \in seen /\ ~ Behind(cursor)
  BY <1>1, StandsOnAnswer, WalkMoves DEF BusInv
<1>4. ~ Recorded(cursor)
  BY <1>3 DEF BusInv, EntriesTrue
<1>5. \E p \in P!Place : Answers(p)' /\ p[1] \in seen' /\ ~ Recorded(p)'
  BY <1>1, <1>2, <1>3, <1>4, VisitKeeps
<1>6. BusTyped'
  BY <1>1, VisitKeeps DEF BusInv, BusTyped
<1>7. BusesKnown'
  BY <1>1, SameBuses DEF BusInv, BusesKnown, LeadsTo
<1>8. EntriesTrue'
  <2>1. \A p \in P!Place : Answers(p) /\ Behind(p) => Behind(p)'
    BY <1>1, WalkMoves DEF BusInv
  <2> QED
    BY <1>1, <1>2, <2>1, VisitKeeps DEF BusInv, EntriesTrue
<1>9. EntriesWhole'
  BY <1>1, <1>5 DEF EntriesWhole
<1> QED
  BY <1>1, <1>6, <1>7, <1>8, <1>9, VisitKeeps DEF BusInv

LEMMA FunctionVisited == ASSUME BusInv, P!visit_function PROVE BusInv'
<1>1. /\ P!Visit /\ P!KindAt(cursor) # "none" /\ Len(entries) < PCI_MAX_DEVICES
      /\ entries' = Append(entries, cursor)
      /\ pending' = pending \cup P!Behind(cursor)
      /\ UNCHANGED <<machine, seen, done, more>>
  BY DEF P!visit_function, P!Visit
<1>2. Answers(cursor) /\ cursor \in P!Place /\ cursor[1] \in seen /\ ~ Behind(cursor)
  BY <1>1, StandsOnAnswer, WalkMoves DEF BusInv
<1>3. ~ Recorded(cursor)
  BY <1>2 DEF BusInv, EntriesTrue
<1>4. entries \in Seq(P!Place) /\ Len(entries) \in Nat /\ DOMAIN entries = 1 .. Len(entries)
  BY DEF BusInv, BusTyped
<1> DEFINE n == Len(entries)
<1>5. /\ entries' \in Seq(P!Place) /\ Len(entries') = n + 1 /\ DOMAIN entries' = 1 .. n + 1
      /\ entries'[n + 1] = cursor
      /\ \A i \in 1 .. n : entries'[i] = entries[i]
  BY <1>1, <1>2, <1>4
<1> HIDE DEF n
<1>6. n \in Nat /\ DOMAIN entries = 1 .. n /\ 1 .. n + 1 = (1 .. n) \cup {n + 1}
  BY <1>4 DEF n
<1>7. \A p : Recorded(p)' <=> Recorded(p) \/ p = cursor
  BY <1>5, <1>6 DEF Recorded
<1>8. ~ more
  <2>1. more => Len(entries) = PCI_MAX_DEVICES
    BY DEF BusInv, EntriesWhole
  <2>2. Len(entries) < PCI_MAX_DEVICES
    BY <1>1
  <2>3. Len(entries) \in Nat /\ PCI_MAX_DEVICES \in Nat
    BY <1>4, PciNumbers
  <2>4. Len(entries) # PCI_MAX_DEVICES
    BY ONLY <2>2, <2>3
  <2> QED
    BY <2>1, <2>4
<1>9. P!KindAt(cursor) = "bridge" => machine.behind[cursor] \in P!Bus
  BY <1>2 DEF BusInv, BusTyped, P!Machine
<1>10. /\ pending' \subseteq P!Bus
       /\ pending \subseteq pending'
       /\ seen \cap pending' = {}
       /\ P!KindAt(cursor) = "bridge" => machine.behind[cursor] \in seen \cup pending'
  BY <1>1, <1>9 DEF BusInv, BusTyped, BusesKnown, P!Behind
<1>11. BusTyped'
  BY <1>1, <1>5, <1>6, <1>10, VisitKeeps, PciNumbers DEF BusInv, BusTyped, n
<1>12. BusesKnown'
  <2>1. ASSUME NEW all \in SUBSET P!Bus, 0 \in all, P!Closed(all)
        PROVE  seen \cup pending' \subseteq all
    <3>1. seen \cup pending \subseteq all
      BY <2>1 DEF BusInv, BusesKnown, LeadsTo
    <3>2. cursor[1] \in all /\ cursor[1] \in P!Bus
      BY <1>2, <3>1, PlaceParts
    <3>3. cursor \in P!Answering(cursor[1])
      BY <1>2, <3>2, AnsweringPlaces
    <3>4. P!KindAt(cursor) = "bridge" => machine.behind[cursor] \in all
      BY <2>1, <3>2, <3>3 DEF P!Closed
    <3> QED
      BY <1>1, <3>1, <3>4 DEF P!Behind
  <2>2. LeadsTo(seen \cup pending)'
    BY <1>1, <2>1, SameBuses DEF LeadsTo
  <2> QED
    BY <1>1, <1>10, <2>2 DEF BusInv, BusesKnown
<1>13. EntriesTrue'
  <2>1. \A i, j \in DOMAIN entries' : entries'[i] = entries'[j] => i = j
    <3>1. \A i \in 1 .. n : entries[i] # cursor
      BY <1>3, <1>6 DEF Recorded
    <3>2. \A i, j \in 1 .. n : entries[i] = entries[j] => i = j
      BY <1>6 DEF BusInv, EntriesTrue
    <3> QED
      BY <1>5, <1>6, <3>1, <3>2
  <2>2. ASSUME NEW p \in P!Place, Recorded(p)'
        PROVE  /\ Answers(p)' /\ Behind(p)'
               /\ P!KindAt(p)' = "bridge" => machine'.behind[p] \in seen' \cup pending'
    <3>1. CASE p = cursor
      BY <1>1, <1>2, <1>10, <3>1, WalkMoves, VisitKeeps DEF BusInv
    <3>2. CASE p # cursor
      <4>1. Recorded(p)
        BY <1>7, <2>2, <3>2
      <4>2. /\ Answers(p) /\ Behind(p)
            /\ P!KindAt(p) = "bridge" => machine.behind[p] \in seen \cup pending
        BY <4>1 DEF BusInv, EntriesTrue
      <4> QED
        BY <1>1, <1>10, <4>2, WalkMoves, VisitKeeps DEF BusInv
    <3> QED
      BY <3>1, <3>2
  <2> QED
    BY <2>1, <2>2 DEF EntriesTrue
<1>14. EntriesWhole'
  <2>1. ASSUME NEW p \in P!Place, Answers(p)', Behind(p)' PROVE Recorded(p)'
    <3>1. Answers(p) /\ (Behind(p) \/ p = cursor)
      BY <1>1, <2>1, WalkMoves, VisitKeeps DEF BusInv
    <3> QED
      BY <1>7, <1>8, <3>1 DEF BusInv, EntriesWhole
  <2> QED
    BY <1>1, <1>8, <2>1 DEF EntriesWhole
<1> QED
  BY <1>1, <1>11, <1>12, <1>13, <1>14, VisitKeeps DEF BusInv

LEMMA BusNextInv == ASSUME BusInv, P!Next PROVE BusInv'
BY BusEntered, WalkFinished, NothingVisited, NoRoomLeft, FunctionVisited DEF P!Next

(* What nothing of the walk touches.                                       *)
LEMMA BusesAtRest == ASSUME BusInv, UNCHANGED pci_vars PROVE BusInv'
<1>1. UNCHANGED <<machine, pending, seen, cursor, entries, more, done>>
  BY DEF pci_vars
<1>2. BusTyped' /\ CursorStands'
  BY <1>1 DEF BusInv, BusTyped, CursorStands, P!HasMore, P!KindAt
<1>3. BusesKnown'
  BY <1>1, SameBuses DEF BusInv, BusesKnown, LeadsTo
<1>4. \A p \in P!Place : /\ (Recorded(p)' <=> Recorded(p)) /\ (Answers(p)' <=> Answers(p))
                         /\ (Behind(p)' <=> Behind(p)) /\ P!KindAt(p)' = P!KindAt(p)
  <2> SUFFICES ASSUME NEW p \in P!Place
               PROVE  /\ (Recorded(p)' <=> Recorded(p)) /\ (Answers(p)' <=> Answers(p))
                      /\ (Behind(p)' <=> Behind(p)) /\ P!KindAt(p)' = P!KindAt(p)
    OBVIOUS
  <2>1. Recorded(p)' <=> Recorded(p)
    BY <1>1 DEF Recorded
  <2>2. (Answers(p)' <=> Answers(p)) /\ P!KindAt(p)' = P!KindAt(p)
    BY <1>1 DEF Answers, P!KindAt
  <2>3. Behind(p)' <=> Behind(p)
    BY <1>1 DEF Behind, Before
  <2> QED
    BY <2>1, <2>2, <2>3
<1>5. EntriesTrue'
  BY <1>1, <1>4 DEF BusInv, EntriesTrue
<1>6. EntriesWhole'
  BY <1>1, <1>4 DEF BusInv, EntriesWhole
<1> QED
  BY <1>2, <1>3, <1>5, <1>6 DEF BusInv

(* When the walk is over the buses it has seen are closed, unless it ran   *)
(* out of room, and they are then all that can be reached.                 *)
LEMMA WalkIsExact == ASSUME BusInv PROVE P!DevicesExact
<1>1. P!IsInjective(entries)
  BY DEF BusInv, EntriesTrue, P!IsInjective
<1>2. /\ P!ToSet(entries) \subseteq P!Place
      /\ \A p \in P!Place : p \in P!ToSet(entries) <=> Recorded(p)
  BY DEF BusInv, BusTyped, P!ToSet, Recorded
<1> SUFFICES ASSUME done
             PROVE  /\ P!ToSet(entries) \subseteq P!Plugged
                    /\ more <=> P!ToSet(entries) # P!Plugged
                    /\ more => Len(entries) = PCI_MAX_DEVICES
  BY <1>1 DEF P!DevicesExact
<1>3. pending = {} /\ cursor = <<>> /\ seen \subseteq P!Bus /\ 0 \in seen
  BY DEF BusInv, CursorStands, BusTyped, BusesKnown
<1>4. \A p : Behind(p) <=> p[1] \in seen
  BY <1>3 DEF Behind
<1>5. seen \subseteq P!Reached
  BY <1>3 DEF BusInv, BusesKnown, LeadsTo, P!Reached
<1>6. P!Reached \subseteq P!Bus
  BY DEF P!Reached
<1>7. ASSUME NEW p \in P!Place, Answers(p), p[1] \in seen PROVE p \in P!Plugged
  BY <1>3, <1>5, <1>7, AnsweringPlaces DEF P!Plugged
<1>8. P!ToSet(entries) \subseteq P!Plugged
  <2> SUFFICES ASSUME NEW p \in P!Place, Recorded(p) PROVE p \in P!Plugged
    BY <1>2
  <2>1. Answers(p) /\ p[1] \in seen
    BY <1>4 DEF BusInv, EntriesTrue
  <2> QED
    BY <1>7, <2>1
<1>9. CASE more
  <2>1. Len(entries) = PCI_MAX_DEVICES
    BY <1>9 DEF BusInv, EntriesWhole
  <2>2. PICK p \in P!Place : Answers(p) /\ p[1] \in seen /\ ~ Recorded(p)
    BY <1>9 DEF BusInv, EntriesWhole
  <2>3. p \in P!Plugged /\ p \notin P!ToSet(entries)
    BY <1>2, <1>7, <2>2
  <2> QED
    BY <1>8, <1>9, <2>1, <2>3
<1>10. CASE ~ more
  <2>1. \A p \in P!Place : Answers(p) /\ p[1] \in seen => Recorded(p)
    BY <1>4, <1>10 DEF BusInv, EntriesWhole
  <2>2. P!Closed(seen)
    <3> SUFFICES ASSUME NEW bus \in seen, NEW p \in P!Answering(bus), P!KindAt(p) = "bridge"
                 PROVE  machine.behind[p] \in seen
      BY DEF P!Closed
    <3>1. bus \in P!Bus
      BY <1>3
    <3>2. p \in P!Place /\ Answers(p) /\ p[1] \in seen
      BY <3>1, AnsweringPlaces
    <3>3. Recorded(p)
      BY <2>1, <3>2
    <3> QED
      BY <1>3, <3>2, <3>3 DEF BusInv, EntriesTrue
  <2>3. P!Reached \subseteq seen
    BY <1>3, <2>2 DEF P!Reached
  <2>4. P!Plugged \subseteq P!ToSet(entries)
    <3> SUFFICES ASSUME NEW bus \in P!Reached, NEW p \in P!Answering(bus)
                 PROVE  p \in P!ToSet(entries)
      BY DEF P!Plugged
    <3>1. p \in P!Place /\ Answers(p) /\ p[1] \in seen
      BY <1>6, <2>3, AnsweringPlaces
    <3> QED
      BY <1>2, <2>1, <3>1
  <2> QED
    BY <1>8, <1>10, <2>4
<1> QED
  BY <1>8, <1>9, <1>10 DEF BusInv, BusTyped

(* The kernel is handed every function that can be reached, once, or told  *)
(* that there is more, however the bridges point: pci_enumerate.           *)
THEOREM DevicesAreExact == Spec => []DevicesExact
<1>1. Init => BusInv
  BY BusesBegin DEF Init
<1>2. BusInv /\ [Next]_vars => BusInv'
  <2> SUFFICES ASSUME BusInv, [Next]_vars PROVE BusInv'
    OBVIOUS
  <2>1. CASE P!Next
    BY <2>1, BusNextInv
  <2>2. CASE UNCHANGED pci_vars
    BY <2>2, BusesAtRest
  <2> QED
    BY <2>1, <2>2 DEF Next, vars
<1>3. BusInv => DevicesExact
  BY WalkIsExact DEF DevicesExact
<1> QED
  BY <1>1, <1>2, <1>3, PTL DEF Spec

-----------------------------------------------------------------------------
(* FatDirectory: what the long name under way says of the fragments that   *)
(* were read, from the latest mark of the last one on.                     *)
LongName == [text : [D!Positions -> Letters], length : 0 .. FAT_LONG_MAX_SEQUENCE,
             checksum : Checksums \cup {0}, valid : BOOLEAN]

LongTyped == fragments \in Seq(D!Fragment) /\ long_name \in LongName

(* A name that is valid has no letter against the fragments that stand.    *)
LongStands ==
  long_name.valid =>
    /\ D!Marks(fragments) # {}
    /\ \A i \in D!Since(fragments) : fragments[i].checksum = long_name.checksum
    /\ \A i \in D!Standing(fragments) :
         fragments[i].sequence \in 1 .. long_name.length =>
           fragments[i].unit = long_name.text[fragments[i].sequence]

(* The fragment the file system writes in a place of the name.             *)
Written(i, checksum) ==
  [sequence |-> Len(Name) + 1 - i, last |-> i = 1, checksum |-> checksum,
   unit |-> Name[Len(Name) + 1 - i]]

(* The last k fragments are the first k of the name.                       *)
Ends(fs, k, checksum) ==
  /\ k <= Len(fs)
  /\ \A i \in 1 .. k : fs[Len(fs) - k + i] = Written(i, checksum)

(* And then it has the letters of these.                                   *)
LongFollows ==
  Len(Name) \in D!Positions =>
    \A k \in 1 .. Len(Name), checksum \in Checksums :
      Ends(fragments, k, checksum) =>
        /\ long_name.valid /\ long_name.length = Len(Name)
        /\ long_name.checksum = checksum
        /\ \A j \in Len(Name) + 1 - k .. Len(Name) : long_name.text[j] = Name[j]

NameInv == LongTyped /\ LongStands /\ LongFollows /\ D!SearchFindsTheName
NameInvTop == part = "directory" => NameInv

LEMMA NameNumbers ==
  /\ Name \in Seq(Letters) /\ Name # <<>> /\ Len(Name) \in Nat \ {0}
  /\ DOMAIN Name = 1 .. Len(Name)
  /\ \A i \in 1 .. Len(Name) : Name[i] \in Letters
  /\ FAT_LONG_MAX_SEQUENCE \in Nat \ {0}
  /\ "end" \notin Letters /\ "other" \notin Letters
  /\ Fragments \subseteq D!Fragment
<1>1. /\ Name \in Seq(Letters) /\ Name # <<>> /\ FAT_LONG_MAX_SEQUENCE \in Nat \ {0}
      /\ "end" \notin Letters /\ "other" \notin Letters /\ Fragments \subseteq D!Fragment
  BY PartsAssumption DEF D!FatDirectoryAssumption
<1>2. Len(Name) \in Nat \ {0} /\ DOMAIN Name = 1 .. Len(Name)
  BY <1>1
<1> QED
  BY <1>1, <1>2

LEMMA ResetName ==
  ASSUME NEW p \in LongName
  PROVE  D!long_name_reset(p) \in LongName /\ ~ D!long_name_reset(p).valid
<1> DEFINE r == [p EXCEPT !.length = 0, !.valid = FALSE]
<1>1. D!long_name_reset(p) = r
  BY DEF D!long_name_reset
<1>2. p.text \in [D!Positions -> Letters] /\ p.checksum \in Checksums \cup {0}
  BY DEF LongName
<1>3. 0 \in 0 .. FAT_LONG_MAX_SEQUENCE
  BY NameNumbers
<1>4. ~ r.valid
  BY DEF LongName
<1>5. r \in LongName
  BY <1>2, <1>3 DEF LongName
<1> QED
  BY <1>1, <1>4, <1>5

(* What a fragment makes of the name under way: long_name_accumulate.      *)
LEMMA Accumulated ==
  ASSUME NEW p \in LongName, NEW f \in D!Fragment,
         NEW q, q = D!long_name_accumulate(p, f)
  PROVE  /\ q \in LongName
         /\ q.valid =>
              /\ f.sequence \in D!Positions /\ f.checksum = q.checksum
              /\ f.unit = "end" => q.text = p.text /\ q.length < f.sequence
              /\ f.unit # "end" => q.text = [p.text EXCEPT ![f.sequence] = f.unit]
              /\ ~ f.last => p.valid /\ q.checksum = p.checksum /\ q.length <= p.length
         /\ f.sequence \in D!Positions /\ f.unit \in Letters
              /\ (f.last \/ (p.valid /\ f.checksum = p.checksum)) =>
                   /\ q.valid
                   /\ q.length = IF f.last THEN f.sequence ELSE p.length
<1>1. /\ f.sequence \in 0 .. FAT_LONG_MAX_SEQUENCE + 1 /\ f.last \in BOOLEAN
      /\ f.checksum \in Checksums /\ f.unit \in Letters \cup {"end", "other"}
  BY DEF D!Fragment, D!Unit
<1>2. FAT_LONG_MAX_SEQUENCE \in Nat \ {0} /\ "end" \notin Letters /\ "other" \notin Letters
  BY NameNumbers
<1>3. CASE f.sequence \notin D!Positions
  BY <1>3, ResetName DEF D!long_name_accumulate
<1>4. CASE f.sequence \in D!Positions
  <2> DEFINE b == D!Begun(p, f)
  <2>1. q = D!Taken(b, f)
    BY <1>4 DEF D!long_name_accumulate
  <2>2. f.sequence \in 1 .. FAT_LONG_MAX_SEQUENCE
    BY <1>4 DEF D!Positions
  <2>3. /\ b \in LongName /\ b.text = p.text
        /\ f.last => b.length = f.sequence /\ b.checksum = f.checksum /\ b.valid
        /\ ~ f.last => b = p
    <3>1. CASE f.last
      <4>1. b = [text |-> p.text, length |-> f.sequence, checksum |-> f.checksum, valid |-> TRUE]
        BY <3>1 DEF D!Begun, LongName
      <4>2. p.text \in [D!Positions -> Letters] /\ f.sequence \in 0 .. FAT_LONG_MAX_SEQUENCE
        BY <1>2, <2>2 DEF LongName
      <4> QED
        BY <1>1, <3>1, <4>1, <4>2 DEF LongName
    <3>2. CASE ~ f.last
      BY <3>2 DEF D!Begun
    <3> QED
      BY <3>1, <3>2
  <2> HIDE DEF b
  <2>4. CASE ~ b.valid
    <3>1. q = b
      BY <2>1, <2>4 DEF D!Taken
    <3> QED
      BY <1>1, <2>3, <2>4, <3>1
  <2>5. CASE b.valid /\ (f.checksum # b.checksum \/ f.unit = "other")
    <3>1. q = D!long_name_reset(b)
      BY <2>1, <2>5 DEF D!Taken, D!Belongs
    <3>2. q \in LongName /\ ~ q.valid
      BY <2>3, <3>1, ResetName
    <3> QED
      BY <1>1, <1>2, <2>3, <2>5, <3>2
  <2>6. CASE b.valid /\ f.checksum = b.checksum /\ f.unit = "end"
    <3>1. q = [b EXCEPT !.length = D!Min({b.length, f.sequence - 1})]
      BY <1>2, <2>1, <2>6 DEF D!Taken, D!Belongs
    <3>2. b.length \in 0 .. FAT_LONG_MAX_SEQUENCE
      BY <2>3 DEF LongName
    <3>3. /\ D!Min({b.length, f.sequence - 1}) \in {b.length, f.sequence - 1}
          /\ D!Min({b.length, f.sequence - 1}) <= b.length
          /\ D!Min({b.length, f.sequence - 1}) <= f.sequence - 1
      <4>1. \E x \in {b.length, f.sequence - 1} : \A y \in {b.length, f.sequence - 1} : x <= y
        BY <1>2, <2>2, <3>2
      <4> QED
        BY <4>1 DEF D!Min
    <3> DEFINE m == D!Min({b.length, f.sequence - 1})
    <3>4. m \in 0 .. FAT_LONG_MAX_SEQUENCE /\ m <= b.length /\ m < f.sequence
      BY <1>2, <2>2, <3>2, <3>3
    <3> HIDE DEF m
    <3>5. /\ q \in LongName /\ q.valid = b.valid /\ q.checksum = b.checksum
          /\ q.text = b.text /\ q.length = m
      BY <2>3, <3>1, <3>4 DEF LongName, m
    <3> QED
      BY <1>1, <1>2, <1>4, <2>3, <2>6, <3>4, <3>5
  <2>7. CASE b.valid /\ f.checksum = b.checksum /\ f.unit \in Letters
    <3>1. q = [b EXCEPT !.text[f.sequence] = f.unit]
      BY <1>2, <2>1, <2>7 DEF D!Taken, D!Belongs
    <3>2. /\ q \in LongName /\ q.valid = b.valid /\ q.checksum = b.checksum
          /\ q.text = [b.text EXCEPT ![f.sequence] = f.unit] /\ q.length = b.length
      <4> DEFINE t == [b.text EXCEPT ![f.sequence] = f.unit]
      <4>1. t \in [D!Positions -> Letters]
        BY <1>4, <2>3, <2>7 DEF LongName
      <4>2. q = [b EXCEPT !.text = t]
        BY <3>1
      <4> HIDE DEF t
      <4>3. q \in LongName /\ q.valid = b.valid /\ q.checksum = b.checksum
            /\ q.text = t /\ q.length = b.length
        BY <2>3, <4>1, <4>2 DEF LongName
      <4> QED
        BY <4>3 DEF t
    <3>3. b.length <= b.length
      BY <2>3 DEF LongName
    <3> QED
      BY <1>1, <1>2, <1>4, <2>3, <2>7, <3>2, <3>3
  <2> QED
    BY <1>1, <2>4, <2>5, <2>6, <2>7
<1> QED
  BY <1>3, <1>4

(* The marks of a list that a fragment is added to, and what stands.       *)
Appended(fs, f, gs) ==
  LET n == Len(fs) + 1 IN
    /\ gs \in Seq(D!Fragment) /\ Len(gs) = n /\ n \in Nat /\ DOMAIN gs = 1 .. n
    /\ gs[n] = f
    /\ \A i \in 1 .. Len(fs) : gs[i] = fs[i]
    /\ f.last /\ f.sequence \in D!Positions =>
         /\ D!Marks(gs) # {}
         /\ D!Since(gs) = {n} /\ D!Standing(gs) = {n}
    /\ ~ (f.last /\ f.sequence \in D!Positions) =>
         /\ D!Marks(gs) = D!Marks(fs)
         /\ D!Since(gs) = D!Since(fs) \cup {n}
         /\ \A i \in D!Standing(gs) :
              i = n \/ (i \in D!Standing(fs) /\ fs[i].sequence # f.sequence)

LEMMA StandsAppended ==
  ASSUME NEW fs \in Seq(D!Fragment), NEW f \in D!Fragment, NEW gs, gs = Append(fs, f)
  PROVE  Appended(fs, f, gs)
<1> DEFINE n == Len(fs) + 1
<1>1. Len(fs) \in Nat /\ DOMAIN fs = 1 .. Len(fs)
  OBVIOUS
<1>2. /\ gs \in Seq(D!Fragment) /\ Len(gs) = n /\ n \in Nat /\ DOMAIN gs = 1 .. n
      /\ gs[n] = f
      /\ \A i \in 1 .. Len(fs) : gs[i] = fs[i]
  BY <1>1
<1>3. \A i : i \in DOMAIN gs <=> i \in DOMAIN fs \/ i = n
  BY <1>1, <1>2
<1>4. /\ n \notin DOMAIN fs
      /\ \A i \in DOMAIN fs : i \in Nat /\ i <= n /\ ~ (n <= i)
  BY <1>1
<1>5. n <= n
  BY <1>1
<1>6. \A i \in DOMAIN fs : gs[i] = fs[i]
  BY <1>1, <1>2
<1> HIDE DEF n, Appended
<1>7. D!Marks(gs) = D!Marks(fs) \cup (IF f.last /\ f.sequence \in D!Positions THEN {n} ELSE {})
  BY <1>2, <1>3, <1>4, <1>6 DEF D!Marks
<1>8. D!Marks(fs) \subseteq DOMAIN fs
  BY DEF D!Marks
<1>9. CASE f.last /\ f.sequence \in D!Positions
  <2>1. n \in D!Marks(gs) /\ \A m \in D!Marks(gs) : m <= n
    BY <1>4, <1>5, <1>7, <1>8, <1>9
  <2>2. D!Since(gs) = {n}
    BY <1>3, <1>4, <2>1 DEF D!Since
  <2>3. D!Standing(gs) = {n}
    BY <1>5, <2>2 DEF D!Standing
  <2> QED
    BY <1>2, <1>9, <2>1, <2>2, <2>3 DEF n, Appended
<1>10. CASE ~ (f.last /\ f.sequence \in D!Positions)
  <2>1. D!Marks(gs) = D!Marks(fs)
    BY <1>7, <1>10
  <2>2. D!Since(gs) = D!Since(fs) \cup {n}
    BY <1>3, <1>4, <1>8, <2>1 DEF D!Since
  <2>3. D!Since(fs) \subseteq DOMAIN fs
    BY DEF D!Since
  <2>4. ASSUME NEW i \in D!Standing(gs), i # n
        PROVE  i \in D!Standing(fs) /\ fs[i].sequence # f.sequence
    <3>1. i \in D!Since(fs) /\ i \in DOMAIN fs
      BY <2>2, <2>3, <2>4 DEF D!Standing
    <3>2. \A j \in D!Since(gs) : gs[j].sequence = gs[i].sequence => j <= i
      BY <2>4 DEF D!Standing
    <3>3. gs[n].sequence # gs[i].sequence
      BY <1>4, <2>2, <3>1, <3>2
    <3>4. \A j \in D!Since(fs) : fs[j].sequence = fs[i].sequence => j <= i
      BY <1>6, <2>2, <2>3, <3>1, <3>2
    <3> QED
      BY <1>2, <1>6, <3>1, <3>3, <3>4 DEF D!Standing
  <2> QED
    BY <1>2, <1>10, <2>1, <2>2, <2>4 DEF n, Appended
<1> QED
  BY <1>9, <1>10

LEMMA NothingRead ==
  ASSUME fragments = <<>>, ~ long_name.valid, long_name \in LongName
  PROVE  LongTyped /\ LongStands /\ LongFollows
<1>1. LongTyped
  BY DEF LongTyped
<1>2. \A k \in 1 .. Len(Name), checksum \in Checksums : ~ Ends(fragments, k, checksum)
  BY NameNumbers DEF Ends
<1> QED
  BY <1>1, <1>2 DEF LongStands, LongFollows

LEMMA ForgottenKeeps ==
  ASSUME LongTyped, D!Forgotten
  PROVE  LongTyped' /\ LongStands' /\ LongFollows'
<1>1. fragments' = <<>> /\ long_name' = D!long_name_reset(long_name)
  BY DEF D!Forgotten
<1>2. long_name' \in LongName /\ ~ long_name'.valid
  BY <1>1, ResetName DEF LongTyped
<1>3. LongTyped'
  BY <1>1, <1>2 DEF LongTyped
<1>4. \A k \in 1 .. Len(Name), checksum \in Checksums : ~ Ends(fragments', k, checksum)
  BY <1>1, NameNumbers DEF Ends
<1> QED
  BY <1>2, <1>3, <1>4 DEF LongStands, LongFollows

LEMMA NameBegins == ASSUME D!Init PROVE NameInv
<1>1. /\ fragments = <<>> /\ ~ long_name.valid /\ judged.as = "none"
  BY DEF D!Init, D!NoEntry
<1>2. long_name \in LongName
  <2>1. PICK c \in Letters :
          long_name = [text |-> [i \in D!Positions |-> c], length |-> 0, checksum |-> 0, valid |-> FALSE]
    BY DEF D!Init
  <2>2. 0 \in 0 .. FAT_LONG_MAX_SEQUENCE
    BY NameNumbers
  <2> QED
    BY <2>1, <2>2 DEF LongName
<1> QED
  BY <1>1, <1>2, NothingRead DEF NameInv, D!SearchFindsTheName

(* A fragment that is taken keeps what is known of those that stand.       *)
LEMMA FragmentStands ==
  ASSUME NameInv, NEW f \in Fragments, D!fragment(f)
  PROVE  LongTyped' /\ LongStands'
<1> DEFINE fs == fragments
           gs == fragments'
           p == long_name
           q == long_name'
           n == Len(fs) + 1
<1>1. /\ gs = Append(fs, f) /\ q = D!long_name_accumulate(p, f)
      /\ fs \in Seq(D!Fragment) /\ p \in LongName /\ f \in D!Fragment
  BY NameNumbers DEF D!fragment, NameInv, LongTyped
<1> HIDE DEF fs, gs, p, q
<1>2. /\ q \in LongName
      /\ q.valid =>
           /\ f.sequence \in D!Positions /\ f.checksum = q.checksum
           /\ f.unit = "end" => q.text = p.text /\ q.length < f.sequence
           /\ f.unit # "end" => q.text = [p.text EXCEPT ![f.sequence] = f.unit]
           /\ ~ f.last => p.valid /\ q.checksum = p.checksum /\ q.length <= p.length
  BY <1>1, Accumulated
<1>3. /\ gs \in Seq(D!Fragment) /\ n \in Nat /\ DOMAIN gs = 1 .. n /\ gs[n] = f
      /\ \A i \in 1 .. Len(fs) : gs[i] = fs[i]
      /\ f.last /\ f.sequence \in D!Positions =>
           /\ D!Marks(gs) # {}
           /\ D!Since(gs) = {n} /\ D!Standing(gs) = {n}
      /\ ~ (f.last /\ f.sequence \in D!Positions) =>
           /\ D!Marks(gs) = D!Marks(fs)
           /\ D!Since(gs) = D!Since(fs) \cup {n}
           /\ \A i \in D!Standing(gs) :
                i = n \/ (i \in D!Standing(fs) /\ fs[i].sequence # f.sequence)
  <2>1. Appended(fs, f, gs)
    BY <1>1, StandsAppended
  <2> QED
    BY <2>1 DEF Appended
<1>4. LongTyped'
  BY <1>2, <1>3 DEF LongTyped, gs, q
<1> SUFFICES ASSUME q.valid PROVE LongStands'
  BY <1>4 DEF LongStands, q
<1>5. /\ f.sequence \in D!Positions /\ f.checksum = q.checksum
      /\ f.sequence \in Nat /\ q.length \in Nat /\ p.length \in Nat
      /\ p.text \in [D!Positions -> Letters]
  BY <1>1, <1>2, NameNumbers DEF D!Positions, LongName
<1>6. f.sequence \in 1 .. q.length => f.unit = q.text[f.sequence]
  BY <1>2, <1>5
<1>7. CASE f.last
  <2>1. /\ D!Marks(gs) # {}
        /\ D!Since(gs) = {n} /\ D!Standing(gs) = {n}
    BY <1>3, <1>5, <1>7
  <2> QED
    BY <1>3, <1>5, <1>6, <2>1 DEF LongStands, gs, q
<1>8. CASE ~ f.last
  <2>1. p.valid /\ q.checksum = p.checksum /\ q.length <= p.length
    BY <1>2, <1>8
  <2>2. /\ D!Marks(fs) # {}
        /\ \A i \in D!Since(fs) : fs[i].checksum = p.checksum
        /\ \A i \in D!Standing(fs) :
             fs[i].sequence \in 1 .. p.length => fs[i].unit = p.text[fs[i].sequence]
    BY <2>1 DEF NameInv, LongStands, fs, p
  <2>3. D!Since(fs) \subseteq 1 .. Len(fs) /\ D!Standing(fs) \subseteq 1 .. Len(fs)
    BY <1>1 DEF D!Since, D!Standing
  <2>4. /\ D!Marks(gs) = D!Marks(fs)
        /\ D!Since(gs) = D!Since(fs) \cup {n}
        /\ \A i \in D!Standing(gs) :
             i = n \/ (i \in D!Standing(fs) /\ fs[i].sequence # f.sequence)
    BY <1>3, <1>8
  <2>5. ASSUME NEW i \in D!Since(gs) PROVE gs[i].checksum = q.checksum
    BY <1>3, <1>5, <2>1, <2>2, <2>3, <2>4
  <2>6. ASSUME NEW i \in D!Standing(gs), gs[i].sequence \in 1 .. q.length
        PROVE  gs[i].unit = q.text[gs[i].sequence]
    <3>1. CASE i = n
      BY <1>3, <1>6, <2>6, <3>1
    <3>2. CASE i # n
      <4>1. /\ i \in D!Standing(fs) /\ fs[i].sequence # f.sequence /\ gs[i] = fs[i]
        BY <1>3, <2>3, <2>4, <2>6, <3>2
      <4>2. /\ fs[i].sequence \in 1 .. p.length
            /\ p.length <= FAT_LONG_MAX_SEQUENCE
        BY <1>1, <1>5, <2>1, <2>6, <4>1 DEF LongName
      <4>3. fs[i].sequence \in D!Positions
        BY <1>5, <4>2, NameNumbers DEF D!Positions
      <4>4. q.text[fs[i].sequence] = p.text[fs[i].sequence]
        BY <1>2, <1>5, <4>1, <4>3
      <4> QED
        BY <2>2, <4>1, <4>2, <4>4
    <3> QED
      BY <3>1, <3>2
  <2> QED
    BY <2>2, <2>4, <2>5, <2>6 DEF LongStands, gs, q
<1> QED
  BY <1>7, <1>8

(* And the letters of a name that is being spelled out.                    *)
LEMMA FragmentFollows ==
  ASSUME NameInv, NEW f \in Fragments, D!fragment(f)
  PROVE  LongFollows'
<1> DEFINE fs == fragments
           gs == fragments'
           p == long_name
           q == long_name'
           N == Len(Name)
<1>1. /\ gs = Append(fs, f) /\ q = D!long_name_accumulate(p, f)
      /\ fs \in Seq(D!Fragment) /\ p \in LongName /\ f \in D!Fragment
  BY NameNumbers DEF D!fragment, NameInv, LongTyped
<1> SUFFICES ASSUME N \in D!Positions, NEW k \in 1 .. N, NEW checksum \in Checksums,
                    Ends(gs, k, checksum)
             PROVE  /\ q.valid /\ q.length = N /\ q.checksum = checksum
                    /\ \A j \in N + 1 - k .. N : q.text[j] = Name[j]
  BY DEF LongFollows
<1>2. N \in Nat /\ k \in Nat /\ 1 <= k /\ k <= N /\ Len(fs) \in Nat
  BY <1>1, NameNumbers
<1>3. /\ Len(gs) = Len(fs) + 1 /\ gs[Len(fs) + 1] = f
      /\ \A i \in 1 .. Len(fs) : gs[i] = fs[i]
  <2>1. Appended(fs, f, gs)
    BY <1>1, StandsAppended
  <2> QED
    BY <2>1 DEF Appended
<1> DEFINE s == N + 1 - k
<1>4. f = Written(k, checksum)
  <2>1. gs[Len(gs) - k + k] = Written(k, checksum)
    BY <1>2 DEF Ends
  <2>2. Len(gs) - k + k = Len(fs) + 1
    BY <1>2, <1>3
  <2> QED
    BY <1>3, <2>1, <2>2
<1>5. s \in 1 .. N /\ s \in D!Positions /\ Name[s] \in Letters
  BY <1>2, NameNumbers DEF D!Positions
<1>6. /\ f.sequence = s /\ f.last = (k = 1) /\ f.checksum = checksum /\ f.unit = Name[s]
      /\ f.unit \in Letters /\ f.unit # "end" /\ f.sequence \in D!Positions
  BY <1>4, <1>5, NameNumbers DEF Written
<1> HIDE DEF s, N, p, q, fs, gs
<1>7. /\ q.valid =>
           /\ f.checksum = q.checksum
           /\ q.text = [p.text EXCEPT ![f.sequence] = f.unit]
      /\ (f.last \/ (p.valid /\ f.checksum = p.checksum)) =>
           /\ q.valid
           /\ q.length = IF f.last THEN f.sequence ELSE p.length
  BY <1>1, <1>6, Accumulated
<1>8. p.text \in [D!Positions -> Letters]
  BY <1>1 DEF LongName
<1>9. CASE k = 1
  <2>1. s = N
    BY <1>2, <1>9 DEF s
  <2>2. /\ q.valid /\ q.length = N /\ q.checksum = checksum
        /\ q.text = [p.text EXCEPT ![s] = Name[s]]
    BY <1>6, <1>7, <1>9, <2>1
  <2>3. \A j \in N + 1 - k .. N : j = s
    BY <1>2, <1>9, <2>1
  <2> QED
    BY <1>5, <1>8, <2>2, <2>3
<1>10. CASE k # 1
  <2>1. k - 1 \in 1 .. N /\ k - 1 \in Nat
    BY <1>2, <1>10
  <2>2. Ends(fs, k - 1, checksum)
    <3>1. k - 1 <= Len(fs)
      BY <1>2, <1>3 DEF Ends
    <3>2. ASSUME NEW i \in 1 .. k - 1
          PROVE  fs[Len(fs) - (k - 1) + i] = Written(i, checksum)
      <4>1. i \in 1 .. k /\ Len(gs) - k + i = Len(fs) - (k - 1) + i
        BY <1>2, <1>3
      <4>2. Len(fs) - (k - 1) + i \in 1 .. Len(fs)
        BY <1>2, <3>1
      <4> QED
        BY <1>3, <4>1, <4>2 DEF Ends
    <3> QED
      BY <3>1, <3>2 DEF Ends
  <2>3. /\ p.valid /\ p.length = N /\ p.checksum = checksum
        /\ \A j \in N + 1 - (k - 1) .. N : p.text[j] = Name[j]
    BY <2>1, <2>2 DEF NameInv, LongFollows, N, p, fs
  <2>4. /\ q.valid /\ q.length = N /\ q.checksum = checksum
        /\ q.text = [p.text EXCEPT ![s] = Name[s]]
    BY <1>6, <1>7, <1>10, <2>3
  <2>5. ASSUME NEW j \in N + 1 - k .. N PROVE q.text[j] = Name[j]
    <3>1. j \in D!Positions
      BY <1>2, <1>5, NameNumbers DEF D!Positions, s
    <3>2. CASE j = s
      BY <1>5, <1>8, <2>4, <3>2
    <3>3. CASE j # s
      <4>1. j \in N + 1 - (k - 1) .. N
        BY <1>2, <3>3 DEF s
      <4> QED
        BY <1>8, <2>3, <2>4, <3>1, <3>3, <4>1
    <3> QED
      BY <3>2, <3>3
  <2> QED
    BY <2>4, <2>5
<1> QED
  BY <1>9, <1>10

LEMMA ShortEntryIs ==
  ASSUME NEW e \in D!ShortEntry, NEW as
  PROVE  LET j == [e EXCEPT !.fragments = fragments, !.as = as]
         IN  /\ j.short = e.short /\ j.checksum = e.checksum /\ j.label = e.label
             /\ j.fragments = fragments /\ j.as = as
             /\ e.checksum \in Checksums
BY DEF D!ShortEntry

LEMMA MatchesWholeName ==
  ASSUME LongTyped
  PROVE  D!long_name_matches(long_name) <=>
           /\ long_name.valid /\ long_name.length = Len(Name)
           /\ \A j \in 1 .. Len(Name) : long_name.text[j] = Name[j]
<1> DEFINE t == long_name.text
           N == Len(Name)
<1>1. t \in [1 .. FAT_LONG_MAX_SEQUENCE -> Letters] /\ long_name.length \in 0 .. FAT_LONG_MAX_SEQUENCE
  BY DEF LongTyped, LongName, D!Positions
<1> SUFFICES ASSUME long_name.length = N
             PROVE  SubSeq(t, 1, N) = Name <=> \A j \in 1 .. N : t[j] = Name[j]
  BY DEF D!long_name_matches
<1>2. t \in Seq(Letters) /\ Len(t) = FAT_LONG_MAX_SEQUENCE /\ N \in 1 .. Len(t)
  BY <1>1, NameNumbers
<1> HIDE DEF t, N
<1> DEFINE u == SubSeq(t, 1, N)
<1>3. /\ u \in Seq(Letters) /\ Len(u) = N
      /\ \A j \in 1 .. N : u[j] = t[j]
  BY <1>2
<1>4. Name \in Seq(Letters) /\ Len(Name) = N
  BY NameNumbers DEF N
<1> HIDE DEF u
<1>5. (\A j \in 1 .. N : u[j] = Name[j]) => u = Name
  BY <1>3, <1>4
<1> QED
  BY <1>3, <1>5 DEF u

(* What is found is what the fragments that stand spell.                   *)
LEMMA FoundBears ==
  ASSUME NameInv, NEW e \in D!ShortEntry, D!Found(e)
  PROVE  D!SearchFindsTheName'
<1>1. D!Matched(e) /\ judged' = [e EXCEPT !.fragments = fragments, !.as = "found"]
  BY DEF D!Found
<1>2. /\ judged'.short = e.short /\ judged'.checksum = e.checksum
      /\ judged'.fragments = fragments /\ judged'.as = "found"
  BY <1>1, ShortEntryIs
<1>3. ASSUME ~ e.short
      PROVE  /\ long_name.valid /\ long_name.checksum = e.checksum
             /\ long_name.length = Len(Name)
             /\ \A j \in 1 .. Len(Name) : long_name.text[j] = Name[j]
  <2>1. D!LongBelongs(e.checksum) /\ D!long_name_matches(long_name)
    BY <1>1, <1>3 DEF D!Matched
  <2> QED
    BY <2>1, MatchesWholeName DEF D!LongBelongs, NameInv
<1>4. ASSUME ~ e.short
      PROVE  /\ D!Marks(fragments) # {}
             /\ \A i \in D!Since(fragments) : fragments[i].checksum = e.checksum
             /\ \A i \in D!Standing(fragments) :
                  fragments[i].sequence \in DOMAIN Name =>
                    fragments[i].unit = Name[fragments[i].sequence]
  BY <1>3, <1>4, NameNumbers DEF NameInv, LongStands
<1> QED
  BY <1>2, <1>4 DEF D!SearchFindsTheName

(* And what is spelled out is found.                                       *)
LEMMA PassedOverRightly ==
  ASSUME NameInv, NEW e \in D!ShortEntry, D!other_entry(e)
  PROVE  D!SearchFindsTheName'
<1>1. /\ ~ D!Matched(e) \/ e.label
      /\ judged' = [e EXCEPT !.fragments = fragments, !.as = "passed over"]
  BY DEF D!other_entry
<1>2. /\ judged'.short = e.short /\ judged'.checksum = e.checksum /\ judged'.label = e.label
      /\ judged'.fragments = fragments /\ judged'.as = "passed over" /\ e.checksum \in Checksums
  BY <1>1, ShortEntryIs
<1> SUFFICES ASSUME ~ e.label PROVE ~ e.short /\ ~ D!Spelled(judged')
  BY <1>2 DEF D!SearchFindsTheName
<1>3. ~ e.short /\ ~ (D!LongBelongs(e.checksum) /\ D!long_name_matches(long_name))
  BY <1>1 DEF D!Matched
<1> SUFFICES ASSUME D!Spelled(judged') PROVE FALSE
  BY <1>3
<1> DEFINE N == Len(Name)
           before == Len(fragments) - N
<1>4. /\ N \in D!Positions /\ before >= 0
      /\ \A i \in DOMAIN Name : fragments[before + i] = Written(i, e.checksum)
  BY <1>2 DEF D!Spelled, Written
<1>5. N \in Nat /\ N \in 1 .. N /\ DOMAIN Name = 1 .. N /\ Len(fragments) \in Nat
  BY NameNumbers DEF NameInv, LongTyped
<1>6. Ends(fragments, N, e.checksum)
  BY <1>4, <1>5 DEF Ends
<1>7. /\ long_name.valid /\ long_name.length = N /\ long_name.checksum = e.checksum
      /\ \A j \in N + 1 - N .. N : long_name.text[j] = Name[j]
  BY <1>2, <1>4, <1>5, <1>6 DEF NameInv, LongFollows
<1>8. N + 1 - N = 1
  BY <1>5
<1>9. D!long_name_matches(long_name)
  BY <1>7, <1>8, MatchesWholeName DEF NameInv
<1> QED
  BY <1>3, <1>7, <1>9 DEF D!LongBelongs

LEMMA NameKept ==
  ASSUME NameInv, D!Next
  PROVE  NameInv'
<1>1. ASSUME NEW f \in Fragments, D!fragment(f) PROVE NameInv'
  <2>1. judged'.as = "none"
    BY <1>1 DEF D!fragment, D!NoEntry
  <2> QED
    BY <1>1, <2>1, FragmentStands, FragmentFollows DEF NameInv, D!SearchFindsTheName
<1>2. ASSUME D!Forgotten, judged' = D!NoEntry PROVE NameInv'
  <2>1. judged'.as = "none"
    BY <1>2 DEF D!NoEntry
  <2> QED
    BY <1>2, <2>1, ForgottenKeeps DEF NameInv, D!SearchFindsTheName
<1>3. ASSUME NEW e \in D!ShortEntry, D!other_entry(e) PROVE NameInv'
  <2>1. D!Forgotten
    BY <1>3 DEF D!other_entry
  <2> QED
    BY <1>3, <2>1, ForgottenKeeps, PassedOverRightly DEF NameInv
<1>4. ASSUME NEW e \in D!ShortEntry, D!Found(e) PROVE NameInv'
  <2>1. D!Forgotten
    BY <1>4 DEF D!Found
  <2> QED
    BY <1>4, <2>1, ForgottenKeeps, FoundBears DEF NameInv
<1>5. CASE D!deleted
  BY <1>2, <1>5 DEF D!deleted
<1>6. CASE D!not_found
  BY <1>2, <1>6 DEF D!not_found
<1> QED
  BY <1>1, <1>3, <1>4, <1>5, <1>6 DEF D!Next, D!opened, D!next_directory, D!not_a_directory

LEMMA NameAtRest ==
  ASSUME NameInv, UNCHANGED directory_vars
  PROVE  NameInv'
<1>1. UNCHANGED <<long_name, fragments, judged>>
  BY DEF directory_vars
<1>2. LongTyped' /\ LongFollows'
  BY <1>1 DEF NameInv, LongTyped, LongFollows
<1>3. LongStands'
  BY <1>1 DEF NameInv, LongStands
<1>4. D!SearchFindsTheName'
  BY <1>1 DEF NameInv, D!SearchFindsTheName, D!Spelled
<1> QED
  BY <1>2, <1>3, <1>4 DEF NameInv

(* Whatever fragments a directory holds, in whatever order, a path leads   *)
(* to an entry that bears the name, and one whose name is spelled as the   *)
(* file system spells it is not passed over: find_in_directory, fat.c.     *)
THEOREM SearchesFindTheName == Spec => []SearchFindsTheName
<1>1. Init => NameInv
  BY NameBegins DEF Init
<1>2. NameInv /\ [Next]_vars => NameInv'
  <2> SUFFICES ASSUME NameInv, [Next]_vars PROVE NameInv'
    OBVIOUS
  <2>1. CASE D!Next
    BY <2>1, NameKept
  <2>2. CASE UNCHANGED directory_vars
    BY <2>2, NameAtRest
  <2> QED
    BY <2>1, <2>2 DEF Next, vars
<1>3. NameInv => SearchFindsTheName
  BY DEF NameInv, SearchFindsTheName
<1> QED
  BY <1>1, <1>2, <1>3, PTL DEF Spec

-----------------------------------------------------------------------------
(* Ext2: powers of two, which are a function by recursion.  Induction is   *)
(* on the least number that is not in a set.                               *)
LEMMA EveryNumber ==
  ASSUME NEW S, 0 \in S, \A n \in Nat : n \in S => n + 1 \in S
  PROVE  \A n \in Nat : n \in S
<1> DEFINE T == Nat \ S
<1> SUFFICES ASSUME T # {} PROVE FALSE
  OBVIOUS
<1>1. PICK x \in T : \A y \in T : ~ (<<y, x>> \in OpToRel(<, Nat))
  <2>1. T \subseteq Nat
    OBVIOUS
  <2> HIDE DEF T
  <2> QED
    BY <2>1, NatLessThanWellFounded, WFMin
<1>2. \A y \in T : ~ (y < x)
  BY <1>1 DEF OpToRel
<1>3. x # 0 /\ x - 1 \in Nat /\ x - 1 < x
  OBVIOUS
<1>4. x - 1 \in S
  BY <1>2, <1>3
<1> QED
  BY <1>3, <1>4

(* The doubling up to a number, on its own, and any further one agrees.    *)
Doubles(c, n) ==
  /\ c[0] = 1
  /\ \A i \in 0 .. n - 1 : c[i + 1] = 2 * c[i]

LEMMA DoublingExists == \A n \in Nat : \E c : Doubles(c, n)
<1> DEFINE S == {n \in Nat : \E c : Doubles(c, n)}
<1>1. 0 \in S
  <2> DEFINE c == [i \in {0} |-> 1]
  <2>1. c[0] = 1
    OBVIOUS
  <2> HIDE DEF c
  <2>2. Doubles(c, 0)
    BY <2>1 DEF Doubles
  <2> QED
    BY <2>2
<1>2. ASSUME NEW n \in Nat, n \in S PROVE n + 1 \in S
  <2>1. PICK c : Doubles(c, n)
    BY <1>2
  <2> DEFINE d == [i \in 0 .. n + 1 |-> IF i = n + 1 THEN 2 * c[n] ELSE c[i]]
  <2>2. /\ d[n + 1] = 2 * c[n]
        /\ \A i \in 0 .. n : d[i] = c[i]
    OBVIOUS
  <2> HIDE DEF d
  <2>3. d[0] = 1
    BY <2>1, <2>2 DEF Doubles
  <2>4. ASSUME NEW i \in 0 .. n PROVE d[i + 1] = 2 * d[i]
    <3>1. CASE i = n
      BY <2>2, <3>1
    <3>2. CASE i # n
      <4>1. i \in 0 .. n - 1 /\ i + 1 \in 0 .. n
        BY <3>2
      <4> QED
        BY <2>1, <2>2, <4>1 DEF Doubles
    <3> QED
      BY <3>1, <3>2
  <2>5. Doubles(d, n + 1)
    BY <2>3, <2>4 DEF Doubles
  <2> QED
    BY <2>5
<1> HIDE DEF S
<1>3. \A n \in Nat : n \in S
  BY <1>1, <1>2, EveryNumber
<1> QED
  BY <1>3 DEF S

LEMMA DoublingAgrees ==
  ASSUME NEW n \in Nat, NEW c, NEW d, Doubles(c, n), Doubles(d, n + 1)
  PROVE  c[n] = d[n]
<1> DEFINE S == {i \in Nat : i <= n => c[i] = d[i]}
<1>1. 0 \in S
  BY DEF Doubles
<1>2. ASSUME NEW i \in Nat, i \in S PROVE i + 1 \in S
  <2> SUFFICES ASSUME i + 1 <= n PROVE c[i + 1] = d[i + 1]
    OBVIOUS
  <2>1. c[i] = d[i] /\ i \in 0 .. n - 1 /\ i \in 0 .. n + 1 - 1
    BY <1>2
  <2> QED
    BY <2>1 DEF Doubles
<1> HIDE DEF S
<1>3. n \in S
  BY <1>1, <1>2, EveryNumber
<1> QED
  BY <1>3 DEF S

LEMMA TwoToUnfolds ==
  X!TwoTo = [k \in Nat |-> IF k = 0 THEN 1 ELSE 2 * X!TwoTo[k - 1]]
<1> DEFINE c(n) == CHOOSE c : Doubles(c, n)
           H == [n \in Nat |-> c(n)[n]]
           G == [n \in Nat |-> IF n = 0 THEN 1 ELSE 2 * H[n - 1]]
<1>1. \A n \in Nat : Doubles(c(n), n)
  BY DoublingExists
<1>2. ASSUME NEW n \in Nat PROVE H[n] = G[n]
  <2> HIDE DEF c
  <2>1. H[n] = c(n)[n]
    OBVIOUS
  <2>2. CASE n = 0
    BY <1>1, <2>1, <2>2 DEF Doubles
  <2>3. CASE n # 0
    <3>1. n - 1 \in Nat /\ (n - 1) + 1 = n /\ n - 1 \in 0 .. n - 1
      BY <2>3
    <3>2. c(n)[n] = 2 * c(n)[n - 1]
      BY <1>1, <3>1 DEF Doubles
    <3>3. c(n - 1)[n - 1] = c(n)[n - 1]
      BY <1>1, <3>1, DoublingAgrees
    <3>4. H[n - 1] = c(n - 1)[n - 1]
      BY <3>1
    <3>5. G[n] = 2 * H[n - 1]
      <4> HIDE DEF H
      <4> QED
        BY <2>3
    <3> HIDE DEF H, G
    <3> QED
      BY <2>1, <3>2, <3>3, <3>4, <3>5
  <2> QED
    BY <2>2, <2>3
<1>3. H = [n \in Nat |-> H[n]] /\ G = [n \in Nat |-> G[n]]
  OBVIOUS
<1>4. H = [k \in Nat |-> IF k = 0 THEN 1 ELSE 2 * H[k - 1]]
  <2>1. H = G
    <3> HIDE DEF H, G
    <3> QED
      BY <1>2, <1>3
  <2> HIDE DEF H
  <2> QED
    BY <2>1
<1>5. X!TwoTo = CHOOSE f : f = [k \in Nat |-> IF k = 0 THEN 1 ELSE 2 * f[k - 1]]
  BY DEF X!TwoTo
<1> HIDE DEF H
<1> QED
  BY <1>4, <1>5

LEMMA TwoToIs ==
  /\ X!TwoTo[0] = 1
  /\ \A n \in Nat : X!TwoTo[n] \in Nat \ {0} /\ X!TwoTo[n + 1] = 2 * X!TwoTo[n]
<1> DEFINE Pow == X!TwoTo
           Q == [k \in Nat |-> IF k = 0 THEN 1 ELSE 2 * Pow[k - 1]]
<1>0. Pow = Q
  BY TwoToUnfolds
<1> HIDE DEF Pow
<1>1. Q[0] = 1 /\ \A n \in Nat : Q[n + 1] = 2 * Pow[n]
  OBVIOUS
<1> HIDE DEF Q
<1>2. Pow[0] = 1 /\ \A n \in Nat : Pow[n + 1] = 2 * Pow[n]
  BY <1>0, <1>1
<1> DEFINE S == {n \in Nat : Pow[n] \in Nat \ {0}}
<1>3. 0 \in S
  BY <1>2
<1>4. ASSUME NEW n \in Nat, n \in S PROVE n + 1 \in S
  <2>1. Pow[n] \in Nat \ {0} /\ Pow[n + 1] = 2 * Pow[n]
    BY <1>2, <1>4
  <2> QED
    BY <2>1
<1> HIDE DEF S
<1>5. \A n \in Nat : n \in S
  BY <1>3, <1>4, EveryNumber
<1> QED
  BY <1>2, <1>5 DEF Pow, S

LEMMA TwoToSums ==
  \A m, d \in Nat : X!TwoTo[m + d] = X!TwoTo[m] * X!TwoTo[d]
<1> DEFINE Pow == X!TwoTo
<1>1. Pow[0] = 1 /\ \A n \in Nat : Pow[n] \in Nat \ {0} /\ Pow[n + 1] = 2 * Pow[n]
  BY TwoToIs
<1> HIDE DEF Pow
<1>2. \A m \in Nat : \A d \in Nat : Pow[m + d] = Pow[m] * Pow[d]
  <2> TAKE m \in Nat
  <2> DEFINE S == {d \in Nat : Pow[m + d] = Pow[m] * Pow[d]}
  <2>1. 0 \in S
    BY <1>1
  <2>2. ASSUME NEW d \in Nat, d \in S PROVE d + 1 \in S
    <3>1. Pow[m + d] = Pow[m] * Pow[d]
      BY <2>2
    <3>2. Pow[m + (d + 1)] = 2 * Pow[m + d] /\ Pow[d + 1] = 2 * Pow[d]
      <4>1. m + d \in Nat /\ m + (d + 1) = (m + d) + 1
        OBVIOUS
      <4> QED
        BY <1>1, <4>1
    <3>3. Pow[m] \in Nat /\ Pow[d] \in Nat
      BY <1>1
    <3>4. 2 * (Pow[m] * Pow[d]) = Pow[m] * (2 * Pow[d])
      BY <3>3
    <3> QED
      BY <3>1, <3>2, <3>4
  <2> HIDE DEF S
  <2>3. \A d \in Nat : d \in S
    BY <2>1, <2>2, EveryNumber
  <2> QED
    BY <2>3 DEF S
<1> QED
  BY <1>2 DEF Pow

(* A power of two is a multiple of any that is not larger.                 *)
LEMMA TwoToDivides ==
  ASSUME NEW j \in Nat, NEW k \in Nat, X!TwoTo[j] <= X!TwoTo[k]
  PROVE  \E q \in Nat \ {0} : X!TwoTo[k] = X!TwoTo[j] * q
<1> DEFINE Pow == X!TwoTo
<1>1. Pow[0] = 1 /\ \A n \in Nat : Pow[n] \in Nat \ {0} /\ Pow[n + 1] = 2 * Pow[n]
  BY TwoToIs
<1> HIDE DEF Pow
<1>2. \A m, d \in Nat : Pow[m + d] = Pow[m] * Pow[d]
  BY TwoToSums DEF Pow
<1>3. CASE j <= k
  <2>1. k - j \in Nat /\ j + (k - j) = k
    BY <1>3
  <2>2. Pow[k - j] \in Nat \ {0}
    BY <1>1, <2>1
  <2>3. Pow[j + (k - j)] = Pow[j] * Pow[k - j]
    BY ONLY <1>2, <2>1, j \in Nat
  <2> QED
    BY <2>1, <2>2, <2>3 DEF Pow
<1>4. CASE k < j
  <2> DEFINE d == j - k - 1
  <2>1. d \in Nat /\ k + (d + 1) = j
    BY <1>4
  <2> HIDE DEF d
  <2>2. Pow[j] = Pow[k] * (2 * Pow[d]) /\ Pow[d] \in Nat \ {0} /\ Pow[k] \in Nat \ {0}
    <3>1. d + 1 \in Nat
      BY <2>1
    <3>2. Pow[k + (d + 1)] = Pow[k] * Pow[d + 1]
      BY <1>2, <3>1
    <3> QED
      BY <1>1, <2>1, <3>2
  <2>3. Pow[k] < Pow[k] * (2 * Pow[d])
    <3> DEFINE a == Pow[k]
               b == Pow[d]
    <3>1. a \in Nat /\ b \in Nat /\ 1 <= a /\ 1 <= b
      BY <2>2
    <3> HIDE DEF a, b
    <3>2. a * b \in Nat /\ a <= a * b /\ a * (2 * b) = 2 * (a * b)
      BY <3>1
    <3>3. a < 2 * (a * b)
      BY <3>1, <3>2
    <3> QED
      BY <3>2, <3>3 DEF a, b
  <2> QED
    BY <2>2, <2>3 DEF Pow
<1> QED
  BY <1>3, <1>4

(* A row of pieces of one size, in blocks of a whole number of them: none  *)
(* lies in two blocks.                                                     *)
LEMMA PieceInOneBlock ==
  ASSUME NEW t \in Nat, NEW r \in Nat, NEW piece \in Nat \ {0}, NEW q \in Nat \ {0},
         NEW block, block = piece * q
  PROVE  ((t * block + r * piece) % block) + piece <= block
<1> DEFINE m == r \div q
           s == r % q
<1>1. m \in Nat /\ s \in 0 .. q - 1 /\ r = q * m + s
  OBVIOUS
<1> HIDE DEF m, s
<1>2. r * piece = m * block + s * piece
  <2>1. r * piece = (q * m) * piece + s * piece
    BY <1>1
  <2>2. (q * m) * piece = m * (piece * q)
    BY <1>1
  <2> QED
    BY <2>1, <2>2
<1>3. s * piece + piece <= block /\ s * piece \in Nat /\ block \in Nat \ {0}
  <2>1. s \in Nat /\ s + 1 <= q
    BY <1>1
  <2>2. (s + 1) * piece <= q * piece
    BY <2>1
  <2>3. (s + 1) * piece = s * piece + piece /\ q * piece = piece * q
    BY <2>1
  <2>4. s * piece \in Nat
    BY <2>1
  <2>5. block \in Nat
    OBVIOUS
  <2> QED
    BY <2>2, <2>3, <2>4, <2>5
<1> DEFINE x == s * piece
           n == t + m
<1>4. t * block + r * piece = n * block + x
  <2>1. t * block + m * block = n * block
    BY <1>1, <1>3
  <2>2. t * block \in Nat /\ m * block \in Nat
    BY <1>1, <1>3
  <2> HIDE DEF x, n
  <2> QED
    BY <1>2, <1>3, <2>1, <2>2 DEF x
<1>5. n \in Nat /\ x \in 0 .. block - 1
  BY <1>1, <1>3
<1> HIDE DEF x, n
<1>6. (n * block + x) % block = x
  BY <1>3, <1>5
<1> QED
  BY <1>3, <1>4, <1>6 DEF x

(* A mounted volume has passed the checks of ext2_mount.                   *)
MountedInv ==
  /\ volume \in Superblocks
  /\ step \notin {"mounting", "refused"} => X!Mountable
  /\ X!InodeInOneBlock

LEMMA Ext2Numbers ==
  /\ \A v \in Superblocks : /\ v.log_block_size \in Nat /\ v.inodes_per_group \in Nat
                            /\ v.inode_bytes \in Nat
  /\ Pointers \subseteq Nat
  /\ EXT2_ORIGINAL_INODE_BYTES \in Nat \ {0}
  /\ EXT2_MIN_BLOCK_BYTES \in Nat \ {0}
  /\ X!PowerOfTwo(EXT2_MIN_BLOCK_BYTES)
BY PartsAssumption DEF X!Ext2Assumption

(* Blocks are of a power of two, so whole inodes of one fit in each.       *)
LEMMA BlockOfInodes ==
  ASSUME volume \in Superblocks, X!Mountable
  PROVE  /\ X!InodeBytes \in Nat \ {0} /\ EXT2_ORIGINAL_INODE_BYTES <= X!InodeBytes
         /\ \E q \in Nat \ {0} : X!BlockBytes = X!InodeBytes * q
<1> DEFINE Pow == X!TwoTo
           l == volume.log_block_size
           m == EXT2_MIN_BLOCK_BYTES
           b == X!BlockBytes
           i == X!InodeBytes
<1>1. l \in Nat /\ m \in Nat \ {0}
  BY Ext2Numbers
<1>2. \A n \in Nat : Pow[n] \in Nat \ {0}
  BY TwoToIs
<1>3. b = m * Pow[l]
  BY DEF X!BlockBytes
<1>4. i \in EXT2_ORIGINAL_INODE_BYTES .. b /\ X!PowerOfTwo(i)
  BY DEF X!Mountable
<1>5. PICK j \in 0 .. m : m = Pow[j]
  BY Ext2Numbers DEF X!PowerOfTwo
<1> HIDE DEF Pow, l, b, i
<1>6. Pow[l] \in Nat \ {0} /\ b \in Nat
  BY <1>1, <1>2, <1>3
<1>7. i \in Nat \ {0} /\ EXT2_ORIGINAL_INODE_BYTES <= i /\ i <= b
  BY <1>4, <1>6, Ext2Numbers
<1>8. PICK k \in 0 .. i : i = Pow[k]
  BY <1>4 DEF X!PowerOfTwo, Pow
<1>9. j \in Nat /\ k \in Nat
  BY <1>1, <1>7
<1>10. b = Pow[j + l]
  BY <1>1, <1>3, <1>5, <1>9, TwoToSums DEF Pow
<1>11. j + l \in Nat /\ Pow[k] <= Pow[j + l]
  BY <1>1, <1>7, <1>8, <1>9, <1>10
<1>12. \E q \in Nat \ {0} : Pow[j + l] = Pow[k] * q
  BY <1>9, <1>11, TwoToDivides DEF Pow
<1> QED
  BY <1>7, <1>8, <1>10, <1>12 DEF b, i

LEMMA InodeRead ==
  ASSUME MountedInv, NEW t \in Pointers, NEW directory, NEW size, X!read_inode(t, directory, size)
  PROVE  MountedInv'
<1>1. /\ step = "inode" /\ volume' = volume
      /\ sought \in 1 .. volume.inode_count
      /\ step' \notin {"mounting", "refused"}
      /\ inode_at' = t * X!BlockBytes + ((sought - 1) % volume.inodes_per_group) * X!InodeBytes
  BY DEF X!read_inode
<1>2. volume \in Superblocks /\ X!Mountable
  BY <1>1 DEF MountedInv
<1>3. X!Mountable' /\ X!BlockBytes' = X!BlockBytes
  BY <1>1, <1>2 DEF X!Mountable, X!BlockBytes, X!InodeBytes
<1> DEFINE r == (sought - 1) % volume.inodes_per_group
           b == X!BlockBytes
           i == X!InodeBytes
<1>4. r \in Nat
  <2>1. volume.inodes_per_group \in Nat \ {0}
    BY <1>2, Ext2Numbers DEF X!Mountable
  <2>2. sought - 1 \in Nat
    BY <1>1
  <2> QED
    BY <2>1, <2>2
<1>5. /\ i \in Nat \ {0} /\ EXT2_ORIGINAL_INODE_BYTES <= i
      /\ \E q \in Nat \ {0} : b = i * q
  BY <1>2, BlockOfInodes
<1>6. inode_at' = t * b + r * i /\ t \in Nat
  BY <1>1, Ext2Numbers
<1> HIDE DEF r, b, i
<1>7. (inode_at' % b) + i <= b
  BY <1>4, <1>5, <1>6, PieceInOneBlock
<1>8. b \in Nat \ {0} /\ inode_at' \in Nat
  <2>1. PICK q \in Nat \ {0} : b = i * q
    BY <1>5
  <2>2. i * q \in Nat \ {0}
    BY <1>5, <2>1
  <2>3. b \in Nat
    BY <2>1, <2>2
  <2>4. t * b \in Nat
    BY <1>6, <2>3
  <2>5. r * i \in Nat
    BY <1>4, <1>5
  <2> QED
    BY <1>6, <2>1, <2>2, <2>4, <2>5
<1>9. inode_at' % b \in Nat
  <2>1. \A m \in Nat, n \in Nat \ {0} : m % n \in Nat
    OBVIOUS
  <2> QED
    BY ONLY <1>8, <2>1
<1>10. (inode_at' % b) + EXT2_ORIGINAL_INODE_BYTES <= b
  BY <1>5, <1>7, <1>8, <1>9, Ext2Numbers
<1>11. X!InodeInOneBlock'
  BY <1>3, <1>10 DEF X!InodeInOneBlock, b
<1> QED
  BY <1>1, <1>2, <1>3, <1>11 DEF MountedInv

LEMMA VolumeStays ==
  ASSUME MountedInv, volume' = volume,
         inode_at' \in {inode_at, X!Nowhere},
         step' \in {"refused"} \/ (step \notin {"mounting", "refused"}) \/ X!Mountable
  PROVE  MountedInv'
<1>1. X!Mountable' = X!Mountable /\ X!BlockBytes' = X!BlockBytes
  BY DEF X!Mountable, X!BlockBytes, X!InodeBytes
<1>2. X!InodeInOneBlock'
  BY <1>1 DEF MountedInv, X!InodeInOneBlock
<1> QED
  BY <1>1, <1>2 DEF MountedInv

LEMMA MountedNext == ASSUME MountedInv, X!Next PROVE MountedInv'
<1>1. CASE X!ext2_mount
  BY <1>1, VolumeStays DEF X!ext2_mount
<1>2. ASSUME NEW t \in Pointers, NEW directory \in BOOLEAN, NEW size \in FileSizes,
             X!read_inode(t, directory, size)
      PROVE  MountedInv'
  BY <1>2, InodeRead
<1>3. ASSUME X!Refuse PROVE MountedInv'
  BY <1>3, VolumeStays DEF X!Refuse
<1>4. ASSUME NEW r \in Records, X!next_record(r) \/ X!name_found(r) PROVE MountedInv'
  BY <1>4, VolumeStays DEF X!next_record, X!name_found, X!Entry
<1>5. ASSUME NEW a \in Asks, X!ext2_read(a) PROVE MountedInv'
  BY <1>5, VolumeStays DEF X!ext2_read
<1>6. ASSUME NEW pointer \in Pointers,
             \/ X!resolve_direct(pointer)
             \/ \E depth \in 1 .. 3 : X!resolve_indirect(depth, pointer)
             \/ X!descend(pointer)
      PROVE  MountedInv'
  <2>1. step = "reading" /\ step' = step /\ volume' = volume /\ inode_at' = inode_at
    BY <1>6 DEF X!resolve_direct, X!resolve_indirect, X!descend, X!Resolving
  <2> QED
    BY <2>1, VolumeStays
<1>7. CASE X!hole \/ X!read_block
  <2>1. /\ step = "reading" /\ volume' = volume /\ inode_at' = inode_at
    BY <1>7 DEF X!hole, X!read_block, X!Deliver
  <2> QED
    BY <2>1, VolumeStays
<1> QED
  BY <1>1, <1>2, <1>3, <1>4, <1>5, <1>6, <1>7
     DEF X!Next, X!read_inode_refused, X!not_found, X!read_refused

(* What mounting checks is enough for every inode, of any volume, to be    *)
(* read in one piece: "an inode never straddles a block boundary", ext2.c. *)
THEOREM InodesAreInOneBlock == Spec => []InodeInOneBlock
<1>1. Init => MountedInv
  BY DEF Init, X!Init, MountedInv, X!InodeInOneBlock
<1>2. MountedInv /\ [Next]_vars => MountedInv'
  <2> SUFFICES ASSUME MountedInv, [Next]_vars PROVE MountedInv'
    OBVIOUS
  <2>1. CASE X!Next
    BY <2>1, MountedNext
  <2>2. CASE UNCHANGED ext2_vars
    <3>1. UNCHANGED <<step, volume, inode_at>>
      BY <2>2 DEF ext2_vars
    <3> QED
      BY <3>1 DEF MountedInv, X!Mountable, X!InodeInOneBlock, X!BlockBytes, X!InodeBytes
  <2> QED
    BY <2>1, <2>2 DEF Next, vars
<1>3. MountedInv => InodeInOneBlock
  BY DEF MountedInv, InodeInOneBlock
<1> QED
  BY <1>1, <1>2, <1>3, PTL DEF Spec

-----------------------------------------------------------------------------
(* Config: the reference, said of any lines, so that a line more is a step *)
(* from one sequence to the next.                                          *)
HeadsIn(s) == {i \in DOMAIN s : s[i].kind = "entry"}
EntryIn(s, i) == Cardinality({j \in HeadsIn(s) : j <= i})
SettingsIn(s, n, name) ==
  {i \in DOMAIN s : s[i].kind = "setting" /\ EntryIn(s, i) = n /\ s[i].key = name}
LastIn(s, n, name, none) ==
  IF SettingsIn(s, n, name) = {} THEN none ELSE s[C!Max(SettingsIn(s, n, name))].value
MeantIn(s, i) ==
  IF EntryIn(s, i) = 0
  THEN \/ s[i].key = "default"
       \/ s[i].key = "timeout" /\ s[i].value <= CONFIG_MAX_TIMEOUT_SECONDS
  ELSE s[i].key \in {"kernel", "cmdline", "module"} /\ s[i].value # ""
RankIn(s, n, j) == Cardinality({k \in SettingsIn(s, n, "module") : k <= j})
WrittenIn(s, entry, i) ==
  LET n == EntryIn(s, i) IN
  /\ entry.name = s[i].name
  /\ entry.kernel = LastIn(s, n, "kernel", "") /\ entry.cmdline = LastIn(s, n, "cmdline", "")
  /\ Len(entry.modules) = Cardinality(SettingsIn(s, n, "module"))
  /\ \A j \in SettingsIn(s, n, "module") : entry.modules[RankIn(s, n, j)] = s[j].value

LEMMA SameCount == \A S : C!Cardinality(S) = Cardinality(S)
  BY DEF C!Cardinality, Cardinality

LEMMA SaidOfLines ==
  /\ C!Heads = HeadsIn(lines)
  /\ \A i : C!EntryOf(i) = EntryIn(lines, i)
  /\ \A n, name : C!Settings(n, name) = SettingsIn(lines, n, name)
  /\ \A n, name, none : C!LastOr(n, name, none) = LastIn(lines, n, name, none)
  /\ \A i : C!Meant(i) <=> MeantIn(lines, i)
  /\ \A entry, i : C!Written(entry, i) <=> WrittenIn(lines, entry, i)
<1>1. C!Heads = HeadsIn(lines)
  BY DEF C!Heads, HeadsIn
<1>2. \A i : C!EntryOf(i) = EntryIn(lines, i)
  BY <1>1, SameCount DEF C!EntryOf, EntryIn
<1>3. \A n, name : C!Settings(n, name) = SettingsIn(lines, n, name)
  BY <1>2 DEF C!Settings, SettingsIn
<1>4. \A n, name, none : C!LastOr(n, name, none) = LastIn(lines, n, name, none)
  BY <1>3 DEF C!LastOr, LastIn
<1>5. \A i : C!Meant(i) <=> MeantIn(lines, i)
  BY <1>2 DEF C!Meant, MeantIn
<1>6. \A entry, i : C!Written(entry, i) <=> WrittenIn(lines, entry, i)
  BY <1>2, <1>3, <1>4, SameCount DEF C!Written, WrittenIn, RankIn
<1> QED
  BY <1>1, <1>2, <1>3, <1>4, <1>5, <1>6

LEMMA CountsAre ==
  ASSUME NEW n \in Nat, NEW S \in SUBSET (1 .. n)
  PROVE  /\ IsFiniteSet(S) /\ Cardinality(S) \in Nat
         /\ Cardinality(S \cup {n + 1}) = Cardinality(S) + 1
         /\ Cardinality(S) = 0 <=> S = {}
<1>1. IsFiniteSet(1 .. n)
  BY FS_Interval
<1>2. IsFiniteSet(S)
  BY <1>1, FS_Subset
<1>3. n + 1 \notin S
  OBVIOUS
<1>4. Cardinality(S \cup {n + 1}) = Cardinality(S) + 1
  BY <1>2, <1>3, FS_AddElement
<1>5. Cardinality(S) = 0 <=> S = {}
  BY <1>2, FS_EmptySet
<1> QED
  BY <1>2, <1>4, <1>5, FS_CardinalityType

LEMMA LatestIs ==
  ASSUME NEW n \in Nat, NEW S \in SUBSET (1 .. n)
  PROVE  C!Max(S \cup {n + 1}) = n + 1
<1>1. \A y \in S \cup {n + 1} : n + 1 >= y
  OBVIOUS
<1>2. ASSUME NEW x \in S \cup {n + 1}, \A y \in S \cup {n + 1} : x >= y PROVE x = n + 1
  <2>1. x >= n + 1 /\ x \in 1 .. n + 1
    BY <1>2
  <2> QED
    BY <2>1
<1> QED
  BY <1>1, <1>2 DEF C!Max

LEMMA LatestIsOne ==
  ASSUME NEW n \in Nat, NEW S \in SUBSET (1 .. n), S # {}
  PROVE  C!Max(S) \in S
<1> DEFINE T == {n - y : y \in S}
<1>1. T \in SUBSET Nat
  OBVIOUS
<1>2. T # {}
  OBVIOUS
<1> HIDE DEF T
<1>3. PICK l \in T : \A y \in T : ~ (<<y, l>> \in OpToRel(<, Nat))
  BY <1>1, <1>2, NatLessThanWellFounded, WFMin
<1>4. \A y \in T : ~ (y < l)
  BY <1>1, <1>3 DEF OpToRel
<1>5. \A y \in T : l <= y
  BY <1>1, <1>4
<1>6. PICK m \in S : l = n - m
  BY DEF T
<1>7. \A y \in S : n - m <= n - y
  BY <1>5, <1>6 DEF T
<1>8. \A y \in S : m >= y
  BY <1>7
<1> QED
  BY <1>8 DEF C!Max

(* A line more.                                                            *)
LEMMA OneLineMore ==
  ASSUME NEW s \in Seq(Lines), NEW line \in Lines
  PROVE  /\ Append(s, line) \in Seq(Lines) /\ Len(s) \in Nat
         /\ DOMAIN s = 1 .. Len(s) /\ DOMAIN Append(s, line) = 1 .. Len(s) + 1
         /\ Len(Append(s, line)) = Len(s) + 1
         /\ \A i \in 1 .. Len(s) : Append(s, line)[i] = s[i]
         /\ Append(s, line)[Len(s) + 1] = line
  OBVIOUS

LEMMA HeadsGrow ==
  ASSUME NEW s \in Seq(Lines), NEW line \in Lines
  PROVE  /\ HeadsIn(s) \in SUBSET (1 .. Len(s))
         /\ HeadsIn(Append(s, line)) = IF line.kind = "entry" THEN HeadsIn(s) \cup {Len(s) + 1} ELSE HeadsIn(s)
         /\ Cardinality(HeadsIn(s)) \in Nat
         /\ Cardinality(HeadsIn(Append(s, line))) = IF line.kind = "entry" THEN Cardinality(HeadsIn(s)) + 1
                                                             ELSE Cardinality(HeadsIn(s))
         /\ \A i \in 1 .. Len(s) : EntryIn(Append(s, line), i) = EntryIn(s, i)
         /\ EntryIn(Append(s, line), Len(s) + 1) = Cardinality(HeadsIn(Append(s, line)))
<1> DEFINE n == Len(s)
           t == Append(s, line)
<1>1. /\ t \in Seq(Lines) /\ n \in Nat
      /\ DOMAIN s = 1 .. n /\ DOMAIN t = 1 .. n + 1
      /\ \A i \in 1 .. n : t[i] = s[i]
      /\ t[n + 1] = line
  BY OneLineMore
<1> HIDE DEF n, t
<1>2. HeadsIn(s) \in SUBSET (1 .. n)
  BY <1>1 DEF HeadsIn
<1>3. HeadsIn(t) = IF line.kind = "entry" THEN HeadsIn(s) \cup {n + 1} ELSE HeadsIn(s)
  <2>1. \A i : i \in 1 .. n + 1 <=> (i \in 1 .. n \/ i = n + 1)
    BY <1>1
  <2>2. n + 1 \notin 1 .. n
    BY <1>1
  <2>3. \A i : i \in HeadsIn(t) <=> (i \in HeadsIn(s) \/ (i = n + 1 /\ line.kind = "entry"))
    BY <1>1, <2>1, <2>2 DEF HeadsIn
  <2> QED
    BY <2>3
<1>4. /\ Cardinality(HeadsIn(s)) \in Nat
      /\ Cardinality(HeadsIn(s) \cup {n + 1}) = Cardinality(HeadsIn(s)) + 1
  BY <1>1, <1>2, CountsAre
<1>5. ASSUME NEW i \in 1 .. n PROVE EntryIn(t, i) = EntryIn(s, i)
  <2>1. ~ (n + 1 <= i)
    BY <1>1
  <2>2. {j \in HeadsIn(t) : j <= i} = {j \in HeadsIn(s) : j <= i}
    BY <1>3, <2>1
  <2> QED
    BY <2>2 DEF EntryIn
<1>6. EntryIn(t, n + 1) = Cardinality(HeadsIn(t))
  <2>1. \A j \in HeadsIn(t) : j <= n + 1
    BY <1>1 DEF HeadsIn
  <2>2. {j \in HeadsIn(t) : j <= n + 1} = HeadsIn(t)
    BY <2>1
  <2> QED
    BY <2>2 DEF EntryIn
<1> QED
  BY <1>2, <1>3, <1>4, <1>5, <1>6 DEF n, t

Sets(s, line, m, name) == line.kind = "setting" /\ line.key = name /\ m = Cardinality(HeadsIn(s))

LEMMA SettingsGrow ==
  ASSUME NEW s \in Seq(Lines), NEW line \in Lines, NEW m, NEW name
  PROVE  /\ SettingsIn(s, m, name) \in SUBSET (1 .. Len(s))
         /\ Sets(s, line, m, name) => SettingsIn(Append(s, line), m, name) = SettingsIn(s, m, name) \cup {Len(s) + 1}
         /\ ~ Sets(s, line, m, name) => SettingsIn(Append(s, line), m, name) = SettingsIn(s, m, name)
<1> DEFINE n == Len(s)
           t == Append(s, line)
           sets == Sets(s, line, m, name)
<1>1. /\ t \in Seq(Lines) /\ n \in Nat
      /\ DOMAIN s = 1 .. n /\ DOMAIN t = 1 .. n + 1
      /\ \A i \in 1 .. n : t[i] = s[i]
      /\ t[n + 1] = line
  BY OneLineMore
<1>2. /\ \A i \in 1 .. n : EntryIn(t, i) = EntryIn(s, i)
      /\ line.kind # "entry" => EntryIn(t, n + 1) = Cardinality(HeadsIn(s))
  BY HeadsGrow
<1> HIDE DEF n, t
<1>3. SettingsIn(s, m, name) \in SUBSET (1 .. n)
  BY <1>1 DEF SettingsIn
<1>4. \A i : i \in 1 .. n + 1 <=> (i \in 1 .. n \/ i = n + 1)
  BY <1>1
<1>5. n + 1 \notin 1 .. n
  BY <1>1
<1>6. \A i : i \in SettingsIn(t, m, name) <=> (i \in SettingsIn(s, m, name) \/ (i = n + 1 /\ sets))
  <2>1. line.kind = "setting" => line.kind # "entry"
    OBVIOUS
  <2> QED
    BY <1>1, <1>2, <1>4, <1>5, <2>1 DEF SettingsIn, Sets
<1>7. /\ sets => SettingsIn(t, m, name) = SettingsIn(s, m, name) \cup {n + 1}
      /\ ~ sets => SettingsIn(t, m, name) = SettingsIn(s, m, name)
  <2> HIDE DEF sets
  <2> QED
    BY <1>6
<1> QED
  BY <1>3, <1>7 DEF n, t

LEMMA LastGrows ==
  ASSUME NEW s \in Seq(Lines), NEW line \in Lines, NEW m, NEW name, NEW none
  PROVE  LastIn(Append(s, line), m, name, none) =
           IF Sets(s, line, m, name) THEN line.value ELSE LastIn(s, m, name, none)
<1> DEFINE n == Len(s)
           t == Append(s, line)
           sets == Sets(s, line, m, name)
           S == SettingsIn(s, m, name)
<1>1. n \in Nat /\ (\A i \in 1 .. n : t[i] = s[i]) /\ t[n + 1] = line
  BY OneLineMore
<1>2. /\ S \in SUBSET (1 .. n)
      /\ sets => SettingsIn(t, m, name) = S \cup {n + 1}
      /\ ~ sets => SettingsIn(t, m, name) = S
  BY SettingsGrow
<1> HIDE DEF n, t, sets, S
<1>3. CASE sets
  <2>1. C!Max(S \cup {n + 1}) = n + 1
    BY <1>1, <1>2, LatestIs
  <2> QED
    BY <1>1, <1>2, <1>3, <2>1 DEF LastIn, sets, t
<1>4. CASE ~ sets
  <2>1. CASE S = {}
    BY <1>2, <1>4, <2>1 DEF LastIn, sets, S, t
  <2>2. CASE S # {}
    <3>1. C!Max(S) \in S
      BY <1>1, <1>2, <2>2, LatestIsOne
    <3>2. t[C!Max(S)] = s[C!Max(S)]
      BY <1>1, <1>2, <3>1
    <3> QED
      BY <1>2, <1>4, <2>2, <3>2 DEF LastIn, sets, S, t
  <2> QED
    BY <2>1, <2>2
<1> QED
  BY <1>3, <1>4

LEMMA MeantStays ==
  ASSUME NEW s \in Seq(Lines), NEW line \in Lines, NEW i \in 1 .. Len(s)
  PROVE  /\ Append(s, line)[i] = s[i]
         /\ MeantIn(Append(s, line), i) <=> MeantIn(s, i)
<1>1. Append(s, line)[i] = s[i]
  BY OneLineMore
<1>2. EntryIn(Append(s, line), i) = EntryIn(s, i)
  BY HeadsGrow
<1> QED
  BY <1>1, <1>2 DEF MeantIn

(* What is written in an entry, with a line more: a line of its own may    *)
(* change it, and no other.                                                *)
LEMMA WrittenStays ==
  ASSUME NEW s \in Seq(Lines), NEW line \in Lines, NEW i \in HeadsIn(s), NEW entry,
         WrittenIn(s, entry, i),
         ~ (line.kind = "setting" /\ EntryIn(s, i) = Cardinality(HeadsIn(s)))
  PROVE  WrittenIn(Append(s, line), entry, i)
<1> DEFINE m == EntryIn(s, i)
           t == Append(s, line)
<1>1. i \in 1 .. Len(s)
  BY HeadsGrow
<1>2. t[i] = s[i] /\ EntryIn(t, i) = m
  <2>1. EntryIn(t, i) = m
    BY <1>1, HeadsGrow
  <2>2. t[i] = s[i]
    BY <1>1, OneLineMore
  <2> QED
    BY <2>1, <2>2
<1>3. /\ entry.name = s[i].name
      /\ entry.kernel = LastIn(s, m, "kernel", "") /\ entry.cmdline = LastIn(s, m, "cmdline", "")
      /\ Len(entry.modules) = Cardinality(SettingsIn(s, m, "module"))
      /\ \A j \in SettingsIn(s, m, "module") : entry.modules[RankIn(s, m, j)] = s[j].value
  BY DEF WrittenIn
<1>4. ~ Sets(s, line, m, "kernel") /\ ~ Sets(s, line, m, "cmdline") /\ ~ Sets(s, line, m, "module")
  BY DEF Sets
<1> HIDE DEF m
<1>5. /\ LastIn(t, m, "kernel", "") = LastIn(s, m, "kernel", "")
      /\ LastIn(t, m, "cmdline", "") = LastIn(s, m, "cmdline", "")
  <2>1. \A name, none : ~ Sets(s, line, m, name) => LastIn(t, m, name, none) = LastIn(s, m, name, none)
    BY LastGrows
  <2> QED
    BY <1>4, <2>1
<1>6. /\ SettingsIn(t, m, "module") = SettingsIn(s, m, "module")
      /\ SettingsIn(s, m, "module") \in SUBSET (1 .. Len(s))
  BY <1>4, SettingsGrow
<1>7. \A j : RankIn(t, m, j) = RankIn(s, m, j)
  BY <1>6 DEF RankIn
<1>8. \A j \in SettingsIn(s, m, "module") : t[j] = s[j]
  BY <1>6, OneLineMore
<1> HIDE DEF t
<1>9. WrittenIn(t, entry, i)
  BY <1>2, <1>3, <1>5, <1>6, <1>7, <1>8 DEF WrittenIn
<1> QED
  BY <1>9 DEF t

(* A module more has the next place.                                       *)
LEMMA RanksGrow ==
  ASSUME NEW s \in Seq(Lines), NEW line \in Lines, NEW m, Sets(s, line, m, "module")
  PROVE  LET places == Cardinality(SettingsIn(s, m, "module")) IN
         /\ places \in Nat
         /\ SettingsIn(Append(s, line), m, "module") = SettingsIn(s, m, "module") \cup {Len(s) + 1}
         /\ Cardinality(SettingsIn(Append(s, line), m, "module")) = places + 1
         /\ \A j \in SettingsIn(s, m, "module") :
              /\ RankIn(Append(s, line), m, j) = RankIn(s, m, j)
              /\ RankIn(s, m, j) \in 1 .. places
         /\ RankIn(Append(s, line), m, Len(s) + 1) = places + 1
<1> DEFINE n == Len(s)
           t == Append(s, line)
           S == SettingsIn(s, m, "module")
<1>1. n \in Nat
  BY OneLineMore
<1>2. S \in SUBSET (1 .. n) /\ SettingsIn(t, m, "module") = S \cup {n + 1}
  BY SettingsGrow
<1>3. \A j : RankIn(s, m, j) = Cardinality({k \in S : k <= j})
  BY DEF RankIn
<1> HIDE DEF n, S, t
<1>4. \A j : RankIn(t, m, j) = Cardinality({k \in S \cup {n + 1} : k <= j})
  BY <1>2 DEF RankIn
<1>5. Cardinality(S) \in Nat /\ Cardinality(S \cup {n + 1}) = Cardinality(S) + 1 /\ IsFiniteSet(S)
  BY <1>1, <1>2, CountsAre
<1>6. ASSUME NEW j \in S
      PROVE  /\ Cardinality({k \in S \cup {n + 1} : k <= j}) = Cardinality({k \in S : k <= j})
             /\ Cardinality({k \in S : k <= j}) \in 1 .. Cardinality(S)
  <2>1. ~ (n + 1 <= j)
    BY <1>1, <1>2
  <2>2. {k \in S \cup {n + 1} : k <= j} = {k \in S : k <= j}
    BY <2>1
  <2> DEFINE below == {k \in S : k <= j}
  <2>3. below \in SUBSET S /\ j \in below
    BY <1>1, <1>2
  <2> HIDE DEF below
  <2>4. below \in SUBSET (1 .. n)
    BY <1>2, <2>3
  <2>5. Cardinality(below) \in Nat /\ (Cardinality(below) = 0 <=> below = {})
    BY <1>1, <2>4, CountsAre
  <2>6. Cardinality(below) <= Cardinality(S)
    BY <1>5, <2>3, FS_Subset
  <2>7. Cardinality(below) # 0
    BY <2>3, <2>5
  <2>8. Cardinality(below) \in 1 .. Cardinality(S)
    BY <1>5, <2>5, <2>6, <2>7
  <2> QED
    BY <2>2, <2>8 DEF below
<1>7. {k \in S \cup {n + 1} : k <= n + 1} = S \cup {n + 1}
  <2>1. \A k \in S \cup {n + 1} : k <= n + 1
    BY <1>1, <1>2
  <2> QED
    BY <2>1
<1> QED
  BY <1>2, <1>3, <1>4, <1>5, <1>6, <1>7 DEF n, S, t

-----------------------------------------------------------------------------
(* The invariant: as long as nothing is refused, every line had a meaning  *)
(* and what is held is what the lines so far say.                          *)
Values == {line.value : line \in Lines} \cup {""}
Names == {line.name : line \in Lines} \cup {""}
EntryRecord == [name : Names, kernel : Values, cmdline : Values, modules : Seq(Values)]

HeadsStand(s) ==
  /\ Cardinality(HeadsIn(s)) \in Nat
  /\ \A i \in 1 .. Len(s) : EntryIn(s, i) \in 0 .. Cardinality(HeadsIn(s))
  /\ \A i \in HeadsIn(s) : i \in 1 .. Len(s) /\ EntryIn(s, i) # 0
  /\ \A i, j \in HeadsIn(s) : EntryIn(s, i) = EntryIn(s, j) => i = j
  /\ \A n \in 1 .. Cardinality(HeadsIn(s)) : \E i \in HeadsIn(s) : EntryIn(s, i) = n

Passable(s) ==
  /\ \A i \in 1 .. Len(s) : s[i].kind = "entry" \/ (s[i].kind = "setting" /\ MeantIn(s, i))
  /\ Cardinality(HeadsIn(s)) <= CONFIG_MAX_ENTRIES
  /\ \A i, j \in HeadsIn(s) : s[i].name # "" /\ (s[i].name = s[j].name => i = j)
  /\ \A i \in HeadsIn(s) : Cardinality(SettingsIn(s, EntryIn(s, i), "module")) <= CONFIG_MAX_MODULES

Kernels(s) == \A i \in HeadsIn(s) : SettingsIn(s, EntryIn(s, i), "kernel") # {}

EntriesRead(s, es) ==
  /\ Len(es) = Cardinality(HeadsIn(s))
  /\ \A i \in HeadsIn(s) : WrittenIn(s, es[EntryIn(s, i)], i)

GlobalsRead(s, seconds, default) ==
  /\ seconds = LastIn(s, 0, "timeout", CONFIG_DEFAULT_TIMEOUT_SECONDS)
  /\ default = LastIn(s, 0, "default", "")

ConfigInv ==
  /\ lines \in Seq(Lines) /\ sections \in Seq(EntryRecord)
  /\ status \in {"parsing", "parsed", "refused"}
  /\ HeadsStand(lines)
  /\ status # "refused" => Passable(lines) /\ EntriesRead(lines, sections) /\ GlobalsRead(lines, timeout, default_entry)
  /\ status = "parsed" => C!Fits /\ Kernels(lines)
  /\ status = "refused" => ~ (C!Fits /\ Passable(lines) /\ Kernels(lines))

LEMMA SaidOfFiles ==
  ASSUME lines \in Seq(Lines)
  PROVE  C!WellFormed <=> Passable(lines) /\ Kernels(lines)
<1>1. DOMAIN lines = 1 .. Len(lines)
  OBVIOUS
<1> QED
  BY <1>1, SaidOfLines, SameCount DEF C!WellFormed, Passable, Kernels

LEMMA HeadsStandStays ==
  ASSUME NEW s \in Seq(Lines), NEW line \in Lines, HeadsStand(s)
  PROVE  HeadsStand(Append(s, line))
<1> DEFINE n == Len(s)
           t == Append(s, line)
           H == HeadsIn(s)
           c == Cardinality(H)
           entry == line.kind = "entry"
<1>1. n \in Nat /\ Len(t) = n + 1
  OBVIOUS
<1>2. /\ c \in Nat
      /\ \A i \in 1 .. n : EntryIn(s, i) \in 0 .. c
      /\ \A i \in H : i \in 1 .. n /\ EntryIn(s, i) # 0
      /\ \A i, j \in H : EntryIn(s, i) = EntryIn(s, j) => i = j
      /\ \A k \in 1 .. c : \E i \in H : EntryIn(s, i) = k
  BY DEF HeadsStand
<1>3. /\ HeadsIn(t) = IF entry THEN H \cup {n + 1} ELSE H
      /\ Cardinality(HeadsIn(t)) = IF entry THEN c + 1 ELSE c
      /\ \A i \in 1 .. n : EntryIn(t, i) = EntryIn(s, i)
      /\ EntryIn(t, n + 1) = Cardinality(HeadsIn(t))
  BY HeadsGrow
<1> HIDE DEF n, t, H, c, entry
<1>4. \A i : i \in 1 .. n + 1 <=> i \in 1 .. n \/ i = n + 1
  BY <1>1
<1>5. \A i \in H : EntryIn(t, i) = EntryIn(s, i) /\ EntryIn(s, i) \in 1 .. c
  BY <1>2, <1>3
<1>6. CASE entry
  <2>1. HeadsIn(t) = H \cup {n + 1} /\ Cardinality(HeadsIn(t)) = c + 1 /\ EntryIn(t, n + 1) = c + 1
    BY <1>3, <1>6
  <2>2. c + 1 \in Nat /\ c + 1 # 0 /\ (\A k \in 0 .. c : k \in 0 .. c + 1 /\ k # c + 1)
    BY <1>2
  <2>3. \A i \in 1 .. Len(t) : EntryIn(t, i) \in 0 .. c + 1
    <3> TAKE i \in 1 .. Len(t)
    <3>1. i \in 1 .. n \/ i = n + 1
      BY <1>1, <1>4
    <3>2. CASE i \in 1 .. n
      BY <1>2, <1>3, <2>2, <3>2
    <3>3. CASE i = n + 1
      BY <1>2, <2>1, <3>3
    <3> QED
      BY <3>1, <3>2, <3>3
  <2>4. \A i \in HeadsIn(t) : i \in 1 .. Len(t) /\ EntryIn(t, i) # 0
    BY <1>1, <1>2, <1>4, <1>5, <2>1, <2>2
  <2>5. \A i, j \in HeadsIn(t) : EntryIn(t, i) = EntryIn(t, j) => i = j
    BY <1>2, <1>5, <2>1, <2>2
  <2>6. \A k \in 1 .. c + 1 : \E i \in HeadsIn(t) : EntryIn(t, i) = k
    <3> TAKE k \in 1 .. c + 1
    <3>1. k \in 1 .. c \/ k = c + 1
      BY <1>2
    <3> QED
      BY <1>2, <1>5, <2>1, <3>1
  <2> QED
    BY <2>1, <2>2, <2>3, <2>4, <2>5, <2>6 DEF HeadsStand, t
<1>7. CASE ~ entry
  <2>1. HeadsIn(t) = H /\ Cardinality(HeadsIn(t)) = c /\ EntryIn(t, n + 1) = c /\ c \in 0 .. c
    BY <1>2, <1>3, <1>7
  <2>2. \A i \in 1 .. Len(t) : EntryIn(t, i) \in 0 .. c
    BY <1>1, <1>2, <1>3, <1>4, <2>1
  <2>3. \A i \in HeadsIn(t) : i \in 1 .. Len(t) /\ EntryIn(t, i) # 0
    BY <1>1, <1>2, <1>4, <1>5, <2>1
  <2> QED
    BY <1>2, <1>5, <2>1, <2>2, <2>3 DEF HeadsStand, t
<1> QED
  BY <1>6, <1>7

LEMMA FindIs ==
  ASSUME sections \in Seq(EntryRecord), NEW name
  PROVE  /\ C!config_find(name) = 0 <=> \A n \in 1 .. Len(sections) : sections[n].name # name
         /\ C!config_find(name) # 0 => /\ C!config_find(name) \in 1 .. Len(sections)
                                       /\ sections[C!config_find(name)].name = name
<1> DEFINE N == {n \in DOMAIN sections : sections[n].name = name}
<1>1. DOMAIN sections = 1 .. Len(sections) /\ N \in SUBSET Nat /\ 0 \notin N
  OBVIOUS
<1>2. \A n : n \in N <=> n \in 1 .. Len(sections) /\ sections[n].name = name
  BY <1>1
<1>3. C!config_find(name) = IF N = {} THEN 0 ELSE C!Min(N)
  BY DEF C!config_find
<1> HIDE DEF N
<1>4. CASE N = {}
  BY <1>2, <1>3, <1>4
<1>5. CASE N # {}
  <2>1. PICK x \in N : \A y \in N : ~ (<<y, x>> \in OpToRel(<, Nat))
    BY <1>1, <1>5, NatLessThanWellFounded, WFMin
  <2>2. \A y \in N : ~ (y < x)
    BY <1>1, <2>1 DEF OpToRel
  <2>3. \A y \in N : x <= y
    BY <1>1, <2>2
  <2>4. C!Min(N) \in N
    BY <2>3 DEF C!Min
  <2> QED
    BY <1>1, <1>2, <1>3, <1>5, <2>4
<1> QED
  BY <1>4, <1>5

(* An entry by its heading, and a heading by its entry.                    *)
LEMMA EntriesAreHeads ==
  ASSUME ConfigInv, status # "refused"
  PROVE  /\ \A i \in HeadsIn(lines) :
              /\ i \in 1 .. Len(lines)
              /\ EntryIn(lines, i) \in 1 .. Len(sections)
              /\ sections[EntryIn(lines, i)].name = lines[i].name
         /\ \A n \in 1 .. Len(sections) : \E i \in HeadsIn(lines) : EntryIn(lines, i) = n
         /\ Len(sections) = Cardinality(HeadsIn(lines)) /\ Len(sections) \in Nat
         /\ Len(lines) \in Nat
<1>1. /\ lines \in Seq(Lines) /\ sections \in Seq(EntryRecord)
      /\ HeadsStand(lines) /\ EntriesRead(lines, sections)
  BY DEF ConfigInv
<1>2. Len(sections) = Cardinality(HeadsIn(lines)) /\ Len(sections) \in Nat /\ Len(lines) \in Nat
  BY <1>1 DEF EntriesRead
<1>3. ASSUME NEW i \in HeadsIn(lines)
      PROVE  i \in 1 .. Len(lines) /\ EntryIn(lines, i) \in 1 .. Len(sections)
  BY <1>1, <1>2 DEF HeadsStand
<1>4. \A i \in HeadsIn(lines) : sections[EntryIn(lines, i)].name = lines[i].name
  BY <1>1 DEF EntriesRead, WrittenIn
<1>5. \A n \in 1 .. Len(sections) : \E i \in HeadsIn(lines) : EntryIn(lines, i) = n
  BY <1>1, <1>2 DEF HeadsStand
<1> QED
  BY <1>2, <1>3, <1>4, <1>5

(* A line that begins an entry.                                            *)
LEMMA EntryBegun ==
  ASSUME ConfigInv, NEW line \in Lines, C!new_entry(line)
  PROVE  ConfigInv'
<1> DEFINE t == Append(lines, line)
           l == Len(lines)
           c == Cardinality(HeadsIn(lines))
           fresh == C!clear_entry(line.name)
<1>1. /\ lines \in Seq(Lines) /\ sections \in Seq(EntryRecord)
      /\ HeadsStand(lines) /\ Passable(lines) /\ EntriesRead(lines, sections) /\ GlobalsRead(lines, timeout, default_entry)
      /\ status = "parsing" /\ status' = "parsing"
      /\ lines' = t /\ sections' = Append(sections, fresh)
      /\ timeout' = timeout /\ default_entry' = default_entry
      /\ line.kind = "entry" /\ line.name # "" /\ Len(sections) < CONFIG_MAX_ENTRIES
      /\ C!config_find(line.name) = 0
  BY DEF ConfigInv, C!new_entry, C!Read, C!NewEntry
<1>2. /\ fresh.name = line.name /\ fresh.kernel = "" /\ fresh.cmdline = "" /\ fresh.modules = <<>>
      /\ fresh \in EntryRecord
  <2>1. line.name \in Names /\ "" \in Values
    BY DEF Names, Values
  <2>2. <<>> \in Seq(Values)
    OBVIOUS
  <2> QED
    BY <2>1, <2>2 DEF C!clear_entry, EntryRecord
<1>3. /\ \A i \in HeadsIn(lines) :
           /\ i \in 1 .. l /\ EntryIn(lines, i) \in 1 .. Len(sections)
           /\ sections[EntryIn(lines, i)].name = lines[i].name
      /\ Len(sections) = c /\ c \in Nat /\ l \in Nat
  BY <1>1, EntriesAreHeads
<1>4. /\ HeadsIn(t) = HeadsIn(lines) \cup {l + 1} /\ Cardinality(HeadsIn(t)) = c + 1
      /\ \A i \in 1 .. l : EntryIn(t, i) = EntryIn(lines, i)
      /\ EntryIn(t, l + 1) = c + 1
  BY <1>1, HeadsGrow
<1>0. lines \in Seq(Lines) /\ sections \in Seq(EntryRecord)
  BY <1>1
<1>5. t \in Seq(Lines) /\ Len(t) = l + 1 /\ t[l + 1] = line /\ \A i \in 1 .. l : t[i] = lines[i]
  BY <1>0, OneLineMore
<1>6. \A i : i \in 1 .. l + 1 <=> i \in 1 .. l \/ i = l + 1
  BY <1>3
<1>7. sections' \in Seq(EntryRecord) /\ Len(sections') = c + 1 /\ sections'[c + 1] = fresh
      /\ \A n \in 1 .. c : sections'[n] = sections[n]
  <2>1. Len(sections) = c /\ fresh \in EntryRecord /\ sections' = Append(sections, fresh)
    BY <1>1, <1>2, <1>3
  <2> HIDE DEF fresh, c
  <2> QED
    BY <1>0, <2>1
<1>8. \A m, name : ~ Sets(lines, line, m, name)
  BY <1>1 DEF Sets
<1>9. \A m, name : SettingsIn(t, m, name) = SettingsIn(lines, m, name)
  <2> TAKE m, name
  <2> QED
    BY <1>0, <1>8, SettingsGrow
<1>10. \A m, name, none : LastIn(t, m, name, none) = LastIn(lines, m, name, none)
  <2> TAKE m, name, none
  <2> QED
    BY <1>0, <1>8, LastGrows
<1>11. \A name : SettingsIn(t, c + 1, name) = {}
  <2>1. \A i \in 1 .. l : EntryIn(lines, i) # c + 1
    <3>1. \A i \in 1 .. l : EntryIn(lines, i) \in 0 .. c
      BY <1>1 DEF HeadsStand
    <3> HIDE DEF c, l
    <3> QED
      BY <1>3, <3>1
  <2>2. DOMAIN lines = 1 .. l
    BY <1>0
  <2>3. \A name : SettingsIn(lines, c + 1, name) = {}
    BY <2>1, <2>2 DEF SettingsIn
  <2> QED
    BY <1>9, <2>3
<1>12. HeadsStand(t)
  BY <1>1, HeadsStandStays
<1>13. \A i \in 1 .. l : MeantIn(t, i) <=> MeantIn(lines, i)
  BY <1>1, MeantStays
<1>14. \A i \in HeadsIn(lines) : lines[i].name # line.name
  <2>1. \A n \in 1 .. Len(sections) : sections[n].name # line.name
    BY <1>1, FindIs
  <2> QED
    BY <1>3, <2>1
<1>15. ASSUME NEW i \in HeadsIn(lines) PROVE WrittenIn(t, sections[EntryIn(lines, i)], i)
  BY <1>1, <1>15, WrittenStays DEF EntriesRead
<1>16. WrittenIn(t, fresh, l + 1)
  <2>1. \A name, none : LastIn(t, c + 1, name, none) = none
    BY <1>11 DEF LastIn
  <2>2. Len(fresh.modules) = 0 /\ Cardinality({}) = 0
    BY <1>2, FS_EmptySet
  <2> HIDE DEF fresh, t, c, l
  <2>3. /\ fresh.name = t[l + 1].name
        /\ fresh.kernel = LastIn(t, c + 1, "kernel", "") /\ fresh.cmdline = LastIn(t, c + 1, "cmdline", "")
    BY <1>2, <1>5, <2>1
  <2> QED
    BY <1>4, <1>11, <2>2, <2>3 DEF WrittenIn
<1> HIDE DEF t, l, c, fresh
<1>17. Passable(t)
  <2>1. \A i \in 1 .. Len(t) : t[i].kind = "entry" \/ (t[i].kind = "setting" /\ MeantIn(t, i))
    BY <1>1, <1>5, <1>6, <1>13 DEF Passable, l
  <2>2. Cardinality(HeadsIn(t)) <= CONFIG_MAX_ENTRIES
    <3>1. CONFIG_MAX_ENTRIES \in Nat
      BY PartsAssumption DEF C!ConfigAssumption
    <3>2. c < CONFIG_MAX_ENTRIES /\ c \in Nat /\ Cardinality(HeadsIn(t)) = c + 1
      BY <1>1, <1>3, <1>4
    <3> QED
      BY <3>1, <3>2
  <2>3. \A i, j \in HeadsIn(t) : t[i].name # "" /\ (t[i].name = t[j].name => i = j)
    <3>1. \A i, j \in HeadsIn(lines) : lines[i].name # "" /\ (lines[i].name = lines[j].name => i = j)
      BY <1>1 DEF Passable
    <3>2. t[l + 1].name = line.name /\ line.name # ""
      BY <1>1, <1>5
    <3>3. \A i \in HeadsIn(lines) : t[i] = lines[i]
      BY <1>3, <1>5
    <3> QED
      BY <1>4, <1>14, <3>1, <3>2, <3>3
  <2>4. \A i \in HeadsIn(t) : Cardinality(SettingsIn(t, EntryIn(t, i), "module")) <= CONFIG_MAX_MODULES
    <3>1. \A i \in HeadsIn(lines) : Cardinality(SettingsIn(t, EntryIn(t, i), "module")) <= CONFIG_MAX_MODULES
      <4> TAKE i \in HeadsIn(lines)
      <4>1. Cardinality(SettingsIn(lines, EntryIn(lines, i), "module")) <= CONFIG_MAX_MODULES
        BY <1>1 DEF Passable
      <4>2. EntryIn(t, i) = EntryIn(lines, i)
        BY <1>3, <1>4
      <4> QED
        BY <1>9, <4>1, <4>2
    <3>2. Cardinality(SettingsIn(t, c + 1, "module")) = 0
      BY <1>11, FS_EmptySet
    <3>3. CONFIG_MAX_MODULES \in Nat
      BY PartsAssumption DEF C!ConfigAssumption
    <3>4. Cardinality(SettingsIn(t, EntryIn(t, l + 1), "module")) <= CONFIG_MAX_MODULES
      BY <1>4, <3>2, <3>3
    <3> QED
      BY <1>4, <3>1, <3>4
  <2> QED
    BY <2>1, <2>2, <2>3, <2>4 DEF Passable
<1>18. EntriesRead(t, sections')
  <2>1. \A i \in HeadsIn(lines) : WrittenIn(t, sections'[EntryIn(t, i)], i)
    BY <1>3, <1>4, <1>7, <1>15
  <2>2. WrittenIn(t, sections'[EntryIn(t, l + 1)], l + 1)
    BY <1>4, <1>7, <1>16
  <2> QED
    BY <1>4, <1>7, <2>1, <2>2 DEF EntriesRead
<1>19. GlobalsRead(t, timeout', default_entry')
  BY <1>1, <1>10 DEF GlobalsRead
<1> QED
  BY <1>1, <1>5, <1>7, <1>12, <1>17, <1>18, <1>19 DEF ConfigInv

(* A setting.                                                              *)
LEMMA SettingTaken ==
  ASSUME ConfigInv, status # "refused", NEW line \in Lines, line.kind = "setting"
  PROVE  LET t == Append(lines, line) IN
         /\ t \in Seq(Lines) /\ HeadsStand(t)
         /\ HeadsIn(t) = HeadsIn(lines)
         /\ Cardinality(HeadsIn(t)) = Len(sections)
         /\ \A i \in HeadsIn(lines) : /\ EntryIn(t, i) = EntryIn(lines, i) /\ t[i] = lines[i]
                                      /\ EntryIn(lines, i) \in 1 .. Len(sections)
         /\ EntryIn(t, Len(lines) + 1) = Len(sections)
         /\ MeantIn(t, Len(lines) + 1) =>
              \A i \in 1 .. Len(t) : t[i].kind = "entry" \/ (t[i].kind = "setting" /\ MeantIn(t, i))
         /\ \A i, j \in HeadsIn(t) : t[i].name # "" /\ (t[i].name = t[j].name => i = j)
<1> DEFINE t == Append(lines, line)
           l == Len(lines)
<1>1. lines \in Seq(Lines) /\ HeadsStand(lines) /\ Passable(lines)
  BY DEF ConfigInv
<1>2. /\ \A i \in HeadsIn(lines) : i \in 1 .. l /\ EntryIn(lines, i) \in 1 .. Len(sections)
      /\ Len(sections) = Cardinality(HeadsIn(lines)) /\ l \in Nat
  BY EntriesAreHeads
<1>3. /\ t \in Seq(Lines) /\ Len(t) = l + 1 /\ t[l + 1] = line /\ \A i \in 1 .. l : t[i] = lines[i]
  BY <1>1, OneLineMore
<1>4. /\ HeadsIn(t) = HeadsIn(lines) /\ Cardinality(HeadsIn(t)) = Cardinality(HeadsIn(lines))
      /\ \A i \in 1 .. l : EntryIn(t, i) = EntryIn(lines, i)
      /\ EntryIn(t, l + 1) = Cardinality(HeadsIn(t))
  BY <1>1, HeadsGrow
<1>5. HeadsStand(t)
  BY <1>1, HeadsStandStays
<1>6. \A i \in 1 .. l : MeantIn(t, i) <=> MeantIn(lines, i)
  BY <1>1, MeantStays
<1>7. \A i \in 1 .. l : lines[i].kind = "entry" \/ (lines[i].kind = "setting" /\ MeantIn(lines, i))
  BY <1>1 DEF Passable
<1>8. \A i, j \in HeadsIn(lines) : lines[i].name # "" /\ (lines[i].name = lines[j].name => i = j)
  BY <1>1 DEF Passable
<1> HIDE DEF t, l
<1>9. \A i : i \in 1 .. l + 1 <=> i \in 1 .. l \/ i = l + 1
  BY <1>2
<1>10. ASSUME MeantIn(t, l + 1)
       PROVE  \A i \in 1 .. Len(t) : t[i].kind = "entry" \/ (t[i].kind = "setting" /\ MeantIn(t, i))
  BY <1>3, <1>6, <1>7, <1>9, <1>10
<1>11. \A i, j \in HeadsIn(t) : t[i].name # "" /\ (t[i].name = t[j].name => i = j)
  BY <1>2, <1>3, <1>4, <1>8
<1> QED
  BY <1>2, <1>3, <1>4, <1>5, <1>10, <1>11 DEF t, l

(* Before the first entry.                                                 *)
LEMMA GlobalTaken ==
  ASSUME ConfigInv, NEW line \in Lines, C!apply_global(line)
  PROVE  ConfigInv'
<1> DEFINE t == Append(lines, line)
           l == Len(lines)
<1>1. /\ lines \in Seq(Lines) /\ sections \in Seq(EntryRecord)
      /\ Passable(lines) /\ EntriesRead(lines, sections) /\ GlobalsRead(lines, timeout, default_entry)
      /\ status = "parsing" /\ status' = "parsing"
      /\ lines' = t /\ sections' = sections /\ sections = <<>>
      /\ timeout' = IF line.key = "timeout" THEN line.value ELSE timeout
      /\ default_entry' = IF line.key = "default" THEN line.value ELSE default_entry
      /\ line.kind = "setting"
      /\ \/ line.key = "timeout" /\ line.value <= CONFIG_MAX_TIMEOUT_SECONDS
         \/ line.key = "default"
  BY DEF ConfigInv, C!apply_global, C!Read, C!GlobalSetting
<1>0. lines \in Seq(Lines)
  BY <1>1
<1>2. Len(sections) = 0 /\ 1 .. Len(sections) = {}
  BY <1>1
<1>3. /\ t \in Seq(Lines) /\ HeadsStand(t)
      /\ HeadsIn(t) = HeadsIn(lines) /\ Cardinality(HeadsIn(t)) = Len(sections)
      /\ \A i \in HeadsIn(lines) : EntryIn(lines, i) \in 1 .. Len(sections)
      /\ EntryIn(t, l + 1) = Len(sections)
      /\ MeantIn(t, l + 1) =>
           \A i \in 1 .. Len(t) : t[i].kind = "entry" \/ (t[i].kind = "setting" /\ MeantIn(t, i))
      /\ \A i, j \in HeadsIn(t) : t[i].name # "" /\ (t[i].name = t[j].name => i = j)
  BY <1>1, SettingTaken
<1>4. HeadsIn(t) = {}
  BY <1>2, <1>3
<1>5. Cardinality(HeadsIn(lines)) = 0
  BY <1>2, <1>3
<1>6. t[l + 1] = line
  BY <1>0, OneLineMore
<1>7. MeantIn(t, l + 1)
  BY <1>1, <1>2, <1>3, <1>6 DEF MeantIn
<1>8. Passable(t)
  <2>1. Cardinality(HeadsIn(t)) <= CONFIG_MAX_ENTRIES
    <3>1. CONFIG_MAX_ENTRIES \in Nat
      BY PartsAssumption DEF C!ConfigAssumption
    <3>2. Cardinality(HeadsIn(t)) = 0
      BY <1>2, <1>3
    <3> QED
      BY <3>1, <3>2
  <2> QED
    BY <1>3, <1>4, <1>7, <2>1 DEF Passable
<1>9. EntriesRead(t, sections')
  BY <1>1, <1>3, <1>4 DEF EntriesRead
<1>10. GlobalsRead(t, timeout', default_entry')
  <2>1. \A name : Sets(lines, line, 0, name) <=> line.key = name
    BY <1>1, <1>5 DEF Sets
  <2>2. \A name, none : LastIn(t, 0, name, none) =
                          IF Sets(lines, line, 0, name) THEN line.value ELSE LastIn(lines, 0, name, none)
    <3> TAKE name, none
    <3> QED
      BY <1>0, LastGrows
  <2>3. /\ timeout = LastIn(lines, 0, "timeout", CONFIG_DEFAULT_TIMEOUT_SECONDS)
        /\ default_entry = LastIn(lines, 0, "default", "")
    BY <1>1 DEF GlobalsRead
  <2> HIDE DEF t
  <2>4. /\ LastIn(t, 0, "timeout", CONFIG_DEFAULT_TIMEOUT_SECONDS) = timeout'
    <3>1. CASE line.key = "timeout"
      BY <1>1, <2>1, <2>2, <3>1
    <3>2. CASE line.key # "timeout"
      BY <1>1, <2>1, <2>2, <2>3, <3>2
    <3> QED
      BY <3>1, <3>2
  <2>5. /\ LastIn(t, 0, "default", "") = default_entry'
    <3>1. CASE line.key = "default"
      BY <1>1, <2>1, <2>2, <3>1
    <3>2. CASE line.key # "default"
      BY <1>1, <2>1, <2>2, <2>3, <3>2
    <3> QED
      BY <3>1, <3>2
  <2> QED
    BY <2>4, <2>5 DEF GlobalsRead
<1> HIDE DEF t
<1> QED
  BY <1>1, <1>3, <1>8, <1>9, <1>10 DEF ConfigInv

(* In an entry, the last one begun.                                        *)
LEMMA ValueTaken ==
  ASSUME ConfigInv, NEW line \in Lines, C!apply_entry(line)
  PROVE  ConfigInv'
<1> DEFINE t == Append(lines, line)
           l == Len(lines)
           c == Len(sections)
           old == sections[c]
           new == IF line.key = "kernel" THEN [old EXCEPT !.kernel = line.value]
                  ELSE IF line.key = "cmdline" THEN [old EXCEPT !.cmdline = line.value]
                  ELSE [old EXCEPT !.modules = Append(old.modules, line.value)]
<1>1. /\ lines \in Seq(Lines) /\ sections \in Seq(EntryRecord)
      /\ Passable(lines) /\ EntriesRead(lines, sections) /\ GlobalsRead(lines, timeout, default_entry)
      /\ status = "parsing" /\ status' = "parsing"
      /\ lines' = t /\ sections # <<>>
      /\ sections' = [sections EXCEPT ![c] = new]
      /\ timeout' = timeout /\ default_entry' = default_entry
      /\ line.kind = "setting" /\ line.value # ""
      /\ \/ line.key \in {"kernel", "cmdline"}
         \/ line.key = "module" /\ Len(C!Last(sections).modules) < CONFIG_MAX_MODULES
  <2>1. /\ status = "parsing" /\ status' = "parsing"
        /\ lines' = t /\ sections # <<>>
        /\ timeout' = timeout /\ default_entry' = default_entry
        /\ line.kind = "setting" /\ line.value # ""
        /\ \/ line.key \in {"kernel", "cmdline"}
           \/ line.key = "module" /\ Len(C!Last(sections).modules) < CONFIG_MAX_MODULES
    <3>1. C!Read(line) /\ C!EntrySetting(line) /\ UNCHANGED <<timeout, default_entry, status>>
      BY DEF C!apply_entry
    <3>2. status = "parsing" /\ lines' = t
      BY <3>1 DEF C!Read
    <3>3. UNCHANGED <<timeout, default_entry>> /\ status' = status
      BY <3>1
    <3> HIDE DEF t, c, old, new
    <3>4. /\ sections # <<>> /\ line.kind = "setting" /\ line.value # ""
          /\ \/ line.key \in {"kernel", "cmdline"}
             \/ line.key = "module" /\ Len(C!Last(sections).modules) < CONFIG_MAX_MODULES
      BY <3>1 DEF C!EntrySetting
    <3> QED
      BY <3>2, <3>3, <3>4
  <2>2. sections' = [sections EXCEPT ![c] = new]
    <3>1. sections' = [sections EXCEPT ![c] = C!Given(C!Last(sections), line)]
      BY DEF C!apply_entry
    <3>2. C!Last(sections) = old
      BY DEF C!Last
    <3>3. C!Given(old, line) = new
      BY DEF C!Given
    <3> HIDE DEF c, old, new
    <3> QED
      BY <3>1, <3>2, <3>3
  <2>3. /\ lines \in Seq(Lines) /\ sections \in Seq(EntryRecord)
        /\ Passable(lines) /\ EntriesRead(lines, sections) /\ GlobalsRead(lines, timeout, default_entry)
    BY <2>1 DEF ConfigInv
  <2> HIDE DEF t, c, old, new
  <2> QED
    BY <2>1, <2>2, <2>3
<1>0. lines \in Seq(Lines) /\ sections \in Seq(EntryRecord) /\ sections # <<>>
  BY <1>1
<1>2. c \in Nat \ {0} /\ c \in 1 .. c /\ old \in EntryRecord /\ DOMAIN sections = 1 .. c
  BY <1>0
<1>3. /\ t \in Seq(Lines) /\ HeadsStand(t)
      /\ HeadsIn(t) = HeadsIn(lines) /\ Cardinality(HeadsIn(t)) = c
      /\ \A i \in HeadsIn(lines) : /\ EntryIn(t, i) = EntryIn(lines, i) /\ t[i] = lines[i]
                                   /\ EntryIn(lines, i) \in 1 .. c
      /\ EntryIn(t, l + 1) = c
      /\ MeantIn(t, l + 1) =>
           \A i \in 1 .. Len(t) : t[i].kind = "entry" \/ (t[i].kind = "setting" /\ MeantIn(t, i))
      /\ \A i, j \in HeadsIn(t) : t[i].name # "" /\ (t[i].name = t[j].name => i = j)
  BY <1>1, SettingTaken
<1>4. C!Last(sections) = old
  BY DEF C!Last
<1>5. l \in Nat /\ t[l + 1] = line /\ \A i \in 1 .. l : t[i] = lines[i]
  BY <1>0, OneLineMore
<1>6. MeantIn(t, l + 1)
  BY <1>1, <1>2, <1>3, <1>5 DEF MeantIn
<1>7. old.name \in Names /\ old.kernel \in Values /\ old.cmdline \in Values /\ old.modules \in Seq(Values)
  BY <1>2 DEF EntryRecord
<1>8. line.value \in Values
  BY DEF Values
<1>9. new \in EntryRecord /\ new.name = old.name
  <2>1. Append(old.modules, line.value) \in Seq(Values)
    BY <1>7, <1>8
  <2> HIDE DEF old
  <2>2. CASE line.key = "kernel"
    BY <1>2, <1>8, <2>2 DEF EntryRecord
  <2>3. CASE line.key = "cmdline"
    BY <1>2, <1>8, <2>3 DEF EntryRecord
  <2>4. CASE ~ (line.key = "kernel") /\ ~ (line.key = "cmdline")
    BY <1>2, <2>1, <2>4 DEF EntryRecord
  <2> QED
    BY <2>2, <2>3, <2>4
<1>10. /\ sections' \in Seq(EntryRecord) /\ Len(sections') = c
       /\ sections'[c] = new
       /\ \A n \in 1 .. c : n # c => sections'[n] = sections[n]
  <2>1. sections' = [sections EXCEPT ![c] = new]
    BY <1>1
  <2> HIDE DEF new, c
  <2>2. sections \in [1 .. c -> EntryRecord] /\ sections' \in [1 .. c -> EntryRecord]
    BY <1>0, <1>2, <1>9, <2>1 DEF c
  <2>3. sections' \in Seq(EntryRecord) /\ Len(sections') = c
    BY <1>2, <2>2
  <2> QED
    BY <1>2, <2>1, <2>2, <2>3
<1>11. PICK h \in HeadsIn(lines) : EntryIn(lines, h) = c
  BY <1>1, <1>2, EntriesAreHeads
<1>12. \A i \in HeadsIn(lines) : EntryIn(lines, i) = c => i = h
  BY <1>1, <1>11 DEF ConfigInv, HeadsStand
<1>13. c = Cardinality(HeadsIn(lines))
  BY <1>3
<1>14. WrittenIn(lines, old, h)
  BY <1>1, <1>11 DEF EntriesRead
<1>15. \A name : Sets(lines, line, c, name) <=> line.key = name
  BY <1>1, <1>13 DEF Sets
<1>16. \A name, none : LastIn(t, c, name, none) =
                         IF line.key = name THEN line.value ELSE LastIn(lines, c, name, none)
  <2> TAKE name, none
  <2>1. LastIn(t, c, name, none) = IF Sets(lines, line, c, name) THEN line.value ELSE LastIn(lines, c, name, none)
    BY <1>0, LastGrows
  <2> QED
    BY <1>15, <2>1
<1>17. WrittenIn(t, new, h) /\ Cardinality(SettingsIn(t, c, "module")) <= CONFIG_MAX_MODULES
  <2>1. /\ old.name = lines[h].name
        /\ old.kernel = LastIn(lines, c, "kernel", "") /\ old.cmdline = LastIn(lines, c, "cmdline", "")
        /\ Len(old.modules) = Cardinality(SettingsIn(lines, c, "module"))
        /\ \A j \in SettingsIn(lines, c, "module") : old.modules[RankIn(lines, c, j)] = lines[j].value
    BY <1>11, <1>14 DEF WrittenIn
  <2>2. t[h] = lines[h] /\ EntryIn(t, h) = c
    BY <1>3, <1>11
  <2>3. Cardinality(SettingsIn(lines, c, "module")) <= CONFIG_MAX_MODULES
    BY <1>1, <1>11 DEF Passable
  <2>4. new.kernel = LastIn(t, c, "kernel", "") /\ new.cmdline = LastIn(t, c, "cmdline", "")
    <3> HIDE DEF t, c, old
    <3>1. CASE line.key = "kernel"
      BY <1>2, <1>16, <2>1, <3>1 DEF EntryRecord
    <3>2. CASE line.key = "cmdline"
      BY <1>2, <1>16, <2>1, <3>2 DEF EntryRecord
    <3>3. CASE line.key = "module"
      BY <1>2, <1>16, <2>1, <3>3 DEF EntryRecord
    <3> QED
      BY <1>1, <3>1, <3>2, <3>3
  <2>5. SettingsIn(lines, c, "module") \in SUBSET (1 .. l)
    BY <1>0, SettingsGrow
  <2>6. CASE line.key # "module"
    <3>1. new.modules = old.modules
      BY <1>1, <1>2, <2>6 DEF EntryRecord
    <3>2. SettingsIn(t, c, "module") = SettingsIn(lines, c, "module")
      <4>1. ~ Sets(lines, line, c, "module")
        BY <1>15, <2>6
      <4> QED
        BY <1>0, <4>1, SettingsGrow
    <3> HIDE DEF t, c, old, new, l
    <3>3. \A j : RankIn(t, c, j) = RankIn(lines, c, j)
      BY <3>2 DEF RankIn
    <3>4. \A j \in SettingsIn(lines, c, "module") : t[j] = lines[j]
      BY <1>5, <2>5
    <3>5. WrittenIn(t, new, h)
      BY <1>9, <2>1, <2>2, <2>4, <3>1, <3>2, <3>3, <3>4 DEF WrittenIn
    <3> QED
      BY <2>3, <3>2, <3>5
  <2>7. CASE line.key = "module"
    <3> DEFINE S == SettingsIn(lines, c, "module")
               p == Cardinality(S)
    <3>1. new.modules = Append(old.modules, line.value)
      BY <1>2, <2>7 DEF EntryRecord
    <3>2. Sets(lines, line, c, "module")
      BY <1>15, <2>7
    <3>3. /\ p \in Nat
          /\ SettingsIn(t, c, "module") = S \cup {l + 1}
          /\ Cardinality(SettingsIn(t, c, "module")) = p + 1
          /\ \A j \in S : RankIn(t, c, j) = RankIn(lines, c, j) /\ RankIn(lines, c, j) \in 1 .. p
          /\ RankIn(t, c, l + 1) = p + 1
      BY <1>0, <3>2, RanksGrow
    <3>4. p + 1 <= CONFIG_MAX_MODULES
      <4>1. CONFIG_MAX_MODULES \in Nat
        BY PartsAssumption DEF C!ConfigAssumption
      <4>2. Len(old.modules) < CONFIG_MAX_MODULES /\ Len(old.modules) = p
        BY <1>1, <1>4, <2>1, <2>7
      <4> HIDE DEF p
      <4> QED
        BY <3>3, <4>1, <4>2
    <3>5. Len(old.modules) = p /\ \A j \in S : old.modules[RankIn(lines, c, j)] = lines[j].value
      BY <2>1
    <3> HIDE DEF S, p, t, c, old, new, l
    <3>6. /\ Len(new.modules) = p + 1 /\ new.modules[p + 1] = line.value
          /\ \A k \in 1 .. p : new.modules[k] = old.modules[k]
      BY <1>7, <1>8, <3>1, <3>3, <3>5
    <3>7. \A j \in S : new.modules[RankIn(t, c, j)] = t[j].value
      BY <1>5, <2>5, <3>3, <3>5, <3>6 DEF S
    <3>8. new.modules[RankIn(t, c, l + 1)] = t[l + 1].value
      BY <1>5, <3>3, <3>6
    <3>9. \A j \in SettingsIn(t, c, "module") : new.modules[RankIn(t, c, j)] = t[j].value
      BY <3>3, <3>7, <3>8
    <3>10. WrittenIn(t, new, h)
      BY <1>9, <2>1, <2>2, <2>4, <3>3, <3>6, <3>9 DEF WrittenIn
    <3> QED
      BY <3>3, <3>4, <3>10
  <2> QED
    BY <2>6, <2>7
<1>18. ASSUME NEW i \in HeadsIn(lines), i # h
       PROVE  /\ WrittenIn(t, sections'[EntryIn(t, i)], i)
              /\ Cardinality(SettingsIn(t, EntryIn(t, i), "module")) <= CONFIG_MAX_MODULES
  <2>1. EntryIn(lines, i) # c /\ EntryIn(lines, i) \in 1 .. c /\ EntryIn(t, i) = EntryIn(lines, i)
    BY <1>3, <1>12, <1>18
  <2>2. sections'[EntryIn(t, i)] = sections[EntryIn(lines, i)]
    BY <1>10, <2>1
  <2>3. WrittenIn(lines, sections[EntryIn(lines, i)], i)
    BY <1>1 DEF EntriesRead
  <2>4. EntryIn(lines, i) # Cardinality(HeadsIn(lines))
    BY <1>13, <2>1
  <2>5. WrittenIn(t, sections[EntryIn(lines, i)], i)
    BY <1>0, <2>3, <2>4, WrittenStays
  <2>6. ~ Sets(lines, line, EntryIn(lines, i), "module")
    BY <2>4 DEF Sets
  <2>7. SettingsIn(t, EntryIn(lines, i), "module") = SettingsIn(lines, EntryIn(lines, i), "module")
    BY <1>0, <2>6, SettingsGrow
  <2>8. Cardinality(SettingsIn(lines, EntryIn(lines, i), "module")) <= CONFIG_MAX_MODULES
    BY <1>1 DEF Passable
  <2> QED
    BY <2>1, <2>2, <2>5, <2>7, <2>8
<1>19. GlobalsRead(t, timeout', default_entry')
  <2>1. \A name : ~ Sets(lines, line, 0, name)
    BY <1>2, <1>13 DEF Sets
  <2>2. \A name, none : LastIn(t, 0, name, none) = LastIn(lines, 0, name, none)
    <3> TAKE name, none
    <3> QED
      BY <1>0, <2>1, LastGrows
  <2> QED
    BY <1>1, <2>2 DEF GlobalsRead
<1> HIDE DEF t, l, c, old, new
<1>20. EntriesRead(t, sections')
  <2>1. WrittenIn(t, sections'[EntryIn(t, h)], h)
    BY <1>3, <1>10, <1>11, <1>17
  <2> QED
    BY <1>3, <1>10, <1>18, <2>1 DEF EntriesRead
<1>21. Passable(t)
  <2>1. Cardinality(HeadsIn(t)) <= CONFIG_MAX_ENTRIES
    BY <1>1, <1>3, <1>13 DEF Passable
  <2>2. \A i \in HeadsIn(t) : Cardinality(SettingsIn(t, EntryIn(t, i), "module")) <= CONFIG_MAX_MODULES
    BY <1>3, <1>11, <1>17, <1>18
  <2> QED
    BY <1>3, <1>6, <2>1, <2>2 DEF Passable
<1> QED
  BY <1>1, <1>3, <1>10, <1>19, <1>20, <1>21 DEF ConfigInv

(* A line that is refused has no meaning where it stands, or one entry or  *)
(* module too many.                                                        *)
LEMMA RefusedIsWrong ==
  ASSUME ConfigInv, status # "refused", NEW line \in Lines,
         ~ C!NewEntry(line), ~ C!GlobalSetting(line), ~ C!EntrySetting(line)
  PROVE  ~ Passable(Append(lines, line))
<1> DEFINE t == Append(lines, line)
           l == Len(lines)
           c == Len(sections)
<1>1. lines \in Seq(Lines) /\ sections \in Seq(EntryRecord) /\ EntriesRead(lines, sections)
  BY DEF ConfigInv
<1>0. lines \in Seq(Lines)
  BY <1>1
<1>2. /\ t \in Seq(Lines) /\ Len(t) = l + 1 /\ t[l + 1] = line /\ \A i \in 1 .. l : t[i] = lines[i]
      /\ l \in Nat /\ l + 1 \in 1 .. l + 1
  BY <1>0, OneLineMore
<1>3. /\ \A i \in HeadsIn(lines) : /\ i \in 1 .. l /\ EntryIn(lines, i) \in 1 .. c
                                   /\ sections[EntryIn(lines, i)].name = lines[i].name
      /\ \A n \in 1 .. c : \E i \in HeadsIn(lines) : EntryIn(lines, i) = n
      /\ c = Cardinality(HeadsIn(lines)) /\ c \in Nat
  BY EntriesAreHeads
<1> SUFFICES ASSUME Passable(t) PROVE FALSE
  OBVIOUS
<1>4. /\ line.kind = "entry" \/ (line.kind = "setting" /\ MeantIn(t, l + 1))
      /\ Cardinality(HeadsIn(t)) <= CONFIG_MAX_ENTRIES
      /\ \A i, j \in HeadsIn(t) : t[i].name # "" /\ (t[i].name = t[j].name => i = j)
      /\ \A i \in HeadsIn(t) : Cardinality(SettingsIn(t, EntryIn(t, i), "module")) <= CONFIG_MAX_MODULES
  BY <1>2 DEF Passable
<1>5. CONFIG_MAX_ENTRIES \in Nat /\ CONFIG_MAX_MODULES \in Nat
  BY PartsAssumption DEF C!ConfigAssumption
<1>6. ASSUME line.kind = "entry" PROVE FALSE
  <2>1. HeadsIn(t) = HeadsIn(lines) \cup {l + 1} /\ Cardinality(HeadsIn(t)) = Cardinality(HeadsIn(lines)) + 1
    BY <1>0, <1>6, HeadsGrow
  <2>2. line.name # ""
    BY <1>2, <1>4, <2>1
  <2>3. c < CONFIG_MAX_ENTRIES
    <3>1. Cardinality(HeadsIn(t)) = c + 1 /\ c \in Nat /\ Cardinality(HeadsIn(t)) <= CONFIG_MAX_ENTRIES
      BY <1>3, <1>4, <2>1
    <3> HIDE DEF c, t
    <3> QED
      BY <1>5, <3>1
  <2>4. C!config_find(line.name) # 0
    BY <1>6, <2>2, <2>3 DEF C!NewEntry
  <2>5. PICK n \in 1 .. c : sections[n].name = line.name
    BY <1>1, <2>4, FindIs
  <2>6. PICK i \in HeadsIn(lines) : EntryIn(lines, i) = n
    BY <1>3
  <2>7. lines[i].name = line.name /\ i \in 1 .. l
    BY <1>3, <2>5, <2>6
  <2>8. i # l + 1
    BY <1>2, <2>7
  <2> HIDE DEF t, l, c
  <2> QED
    BY <1>2, <1>4, <2>1, <2>7, <2>8
<1>7. ASSUME line.kind = "setting", MeantIn(t, l + 1) PROVE FALSE
  <2>1. /\ HeadsIn(t) = HeadsIn(lines) /\ EntryIn(t, l + 1) = c
        /\ \A i \in HeadsIn(lines) : EntryIn(t, i) = EntryIn(lines, i)
    BY <1>7, SettingTaken
  <2>2. CASE c = 0
    <3>1. sections = <<>>
      BY <1>1, <2>2
    <3>2. \/ line.key = "default"
          \/ line.key = "timeout" /\ line.value <= CONFIG_MAX_TIMEOUT_SECONDS
      <4> HIDE DEF t, l, c
      <4> QED
        BY <1>2, <1>7, <2>1, <2>2 DEF MeantIn
    <3> QED
      BY <1>7, <3>1, <3>2 DEF C!GlobalSetting
  <2>3. CASE c # 0
    <3>1. sections # <<>>
      BY <2>3
    <3>2. line.key \in {"kernel", "cmdline", "module"} /\ line.value # ""
      <4> HIDE DEF t, l, c
      <4> QED
        BY <1>2, <1>7, <2>1, <2>3 DEF MeantIn
    <3>3. line.key = "module" /\ ~ (Len(C!Last(sections).modules) < CONFIG_MAX_MODULES)
      BY <1>7, <3>1, <3>2 DEF C!EntrySetting
    <3>4. C!Last(sections) = sections[c]
      BY DEF C!Last
    <3>5. c \in 1 .. c
      BY <1>3, <2>3
    <3>6. PICK h \in HeadsIn(lines) : EntryIn(lines, h) = c
      BY <1>3, <3>5
    <3>7. Len(sections[c].modules) = Cardinality(SettingsIn(lines, c, "module"))
      BY <1>1, <3>6 DEF EntriesRead, WrittenIn
    <3>8. Sets(lines, line, c, "module")
      BY <1>3, <1>7, <3>3 DEF Sets
    <3>9. /\ Cardinality(SettingsIn(lines, c, "module")) \in Nat
          /\ Cardinality(SettingsIn(t, c, "module")) = Cardinality(SettingsIn(lines, c, "module")) + 1
      BY <1>0, <3>8, RanksGrow
    <3>10. Cardinality(SettingsIn(t, c, "module")) <= CONFIG_MAX_MODULES
      BY <1>4, <2>1, <3>6
    <3> HIDE DEF t, c
    <3> QED
      BY <1>5, <3>3, <3>4, <3>7, <3>9, <3>10
  <2> QED
    BY <2>2, <2>3
<1> QED
  BY <1>4, <1>6, <1>7

LEMMA LineRefused ==
  ASSUME ConfigInv, NEW line \in Lines, C!fail(line)
  PROVE  ConfigInv'
<1>1. C!Read(line) /\ ~ (C!NewEntry(line) \/ C!GlobalSetting(line) \/ C!EntrySetting(line)) /\ status' = "refused"
      /\ sections' = sections
  BY DEF C!fail
<1>2. status = "parsing" /\ lines' = Append(lines, line)
  BY <1>1 DEF C!Read
<1>3. lines \in Seq(Lines) /\ sections \in Seq(EntryRecord) /\ HeadsStand(lines)
  BY DEF ConfigInv
<1>4. Append(lines, line) \in Seq(Lines) /\ HeadsStand(Append(lines, line))
  BY <1>3, HeadsStandStays, OneLineMore
<1>5. ~ Passable(Append(lines, line))
  BY <1>1, <1>2, RefusedIsWrong
<1> QED
  BY <1>1, <1>2, <1>3, <1>4, <1>5 DEF ConfigInv

(* At the end of the file.                                                 *)
LEMMA KernelsAreNamed ==
  ASSUME ConfigInv, status # "refused"
  PROVE  (\A i \in DOMAIN sections : sections[i].kernel # "") <=> Kernels(lines)
<1>1. /\ lines \in Seq(Lines) /\ sections \in Seq(EntryRecord)
      /\ EntriesRead(lines, sections) /\ Passable(lines) /\ HeadsStand(lines)
  BY DEF ConfigInv
<1>2. /\ \A i \in HeadsIn(lines) : i \in 1 .. Len(lines) /\ EntryIn(lines, i) \in 1 .. Len(sections)
      /\ \A n \in 1 .. Len(sections) : \E i \in HeadsIn(lines) : EntryIn(lines, i) = n
      /\ Len(lines) \in Nat
  BY EntriesAreHeads
<1>3. ASSUME NEW i \in HeadsIn(lines)
      PROVE  sections[EntryIn(lines, i)].kernel # "" <=> SettingsIn(lines, EntryIn(lines, i), "kernel") # {}
  <2> DEFINE n == EntryIn(lines, i)
             S == SettingsIn(lines, n, "kernel")
  <2>1. sections[n].kernel = LastIn(lines, n, "kernel", "")
    BY <1>1 DEF EntriesRead, WrittenIn
  <2>2. CASE S = {}
    BY <2>1, <2>2 DEF LastIn
  <2>3. CASE S # {}
    <3>1. DOMAIN lines = 1 .. Len(lines) /\ S \in SUBSET (1 .. Len(lines))
      BY <1>1 DEF SettingsIn
    <3>2. C!Max(S) \in S
      BY <1>2, <2>3, <3>1, LatestIsOne
    <3>3. n # 0
      BY <1>2
    <3>4. C!Max(S) \in 1 .. Len(lines) /\ lines[C!Max(S)].kind = "setting" /\ EntryIn(lines, C!Max(S)) = n
      BY <3>1, <3>2 DEF SettingsIn
    <3>5. MeantIn(lines, C!Max(S))
      BY <1>1, <3>4 DEF Passable
    <3>6. lines[C!Max(S)].value # ""
      BY <3>3, <3>4, <3>5 DEF MeantIn
    <3> QED
      BY <2>1, <2>3, <3>6 DEF LastIn
  <2> QED
    BY <2>2, <2>3
<1>4. DOMAIN sections = 1 .. Len(sections)
  BY <1>1
<1> QED
  BY <1>2, <1>3, <1>4 DEF Kernels

(* A file that is too long is refused before a line of it is read.         *)
LEMMA TooLarge == ASSUME ConfigInv, C!too_large PROVE ConfigInv'
<1>1. /\ ~ C!Fits /\ file_bytes' = file_bytes
      /\ status = "parsing" /\ status' = "refused"
      /\ lines' = lines /\ timeout' = timeout /\ default_entry' = default_entry /\ sections' = sections
  BY DEF C!too_large
<1>2. ~ C!Fits'
  BY <1>1 DEF C!Fits
<1> QED
  BY <1>1, <1>2 DEF ConfigInv

LEMMA FileFinished == ASSUME ConfigInv, C!finished PROVE ConfigInv'
<1>1. /\ status = "parsing"
      /\ C!Fits /\ file_bytes' = file_bytes
      /\ status' = IF \A i \in DOMAIN sections : sections[i].kernel # "" THEN "parsed" ELSE "refused"
      /\ lines' = lines /\ timeout' = timeout /\ default_entry' = default_entry /\ sections' = sections
  BY DEF C!finished
<1>2. status' = IF Kernels(lines) THEN "parsed" ELSE "refused"
  BY <1>1, KernelsAreNamed
<1>3. C!Fits'
  BY <1>1 DEF C!Fits
<1> QED
  BY <1>1, <1>2, <1>3 DEF ConfigInv

LEMMA ConfigNext == ASSUME ConfigInv, C!Next PROVE ConfigInv'
<1>1. ASSUME NEW line \in Lines, C!new_entry(line) \/ C!apply_global(line) \/ C!apply_entry(line) \/ C!fail(line)
      PROVE  ConfigInv'
  BY <1>1, EntryBegun, GlobalTaken, ValueTaken, LineRefused
<1> QED
  BY <1>1, TooLarge, FileFinished DEF C!Next

LEMMA ConfigInit == C!Init => ConfigInv
<1> SUFFICES ASSUME C!Init PROVE ConfigInv
  OBVIOUS
<1>1. /\ lines = <<>> /\ sections = <<>> /\ status = "parsing"
      /\ timeout = CONFIG_DEFAULT_TIMEOUT_SECONDS /\ default_entry = ""
  BY DEF C!Init
<1>2. lines \in Seq(Lines) /\ sections \in Seq(EntryRecord) /\ Len(lines) = 0 /\ Len(sections) = 0 /\ DOMAIN lines = {}
  <2>1. \A S : <<>> \in Seq(S)
    OBVIOUS
  <2>2. Len(<<>>) = 0 /\ DOMAIN <<>> = {}
    OBVIOUS
  <2> QED
    BY <1>1, <2>1, <2>2
<1>3. HeadsIn(lines) = {} /\ \A n, name : SettingsIn(lines, n, name) = {}
  BY <1>2 DEF HeadsIn, SettingsIn
<1>4. Cardinality(HeadsIn(lines)) = 0 /\ 1 .. 0 = {} /\ 0 \in Nat
  BY <1>3, FS_EmptySet
<1>5. HeadsStand(lines)
  BY <1>2, <1>3, <1>4 DEF HeadsStand
<1>6. CONFIG_MAX_ENTRIES \in Nat
  BY PartsAssumption DEF C!ConfigAssumption
<1>7. Passable(lines)
  <2>1. 0 <= CONFIG_MAX_ENTRIES
    BY <1>6
  <2> QED
    BY <1>2, <1>3, <1>4, <2>1 DEF Passable
<1>8. EntriesRead(lines, sections)
  BY <1>2, <1>3, <1>4 DEF EntriesRead
<1>9. GlobalsRead(lines, timeout, default_entry)
  BY <1>1, <1>3 DEF GlobalsRead, LastIn
<1> QED
  BY <1>1, <1>2, <1>5, <1>7, <1>8, <1>9 DEF ConfigInv

(* What the invariant says once the file is read.                          *)
LEMMA ReadAsWritten == ConfigInv => C!ConfigAsWritten
<1> SUFFICES ASSUME ConfigInv PROVE C!ConfigAsWritten
  OBVIOUS
<1>1. lines \in Seq(Lines) /\ sections \in Seq(EntryRecord)
  BY DEF ConfigInv
<1>2. /\ status = "parsed" => C!Fits /\ C!WellFormed
      /\ status = "refused" => ~ (C!Fits /\ C!WellFormed)
  BY <1>1, SaidOfFiles DEF ConfigInv
<1>3. ASSUME status = "parsed"
      PROVE  /\ Len(sections) = C!Cardinality(C!Heads)
             /\ \A i \in C!Heads : C!Written(sections[C!EntryOf(i)], i)
             /\ timeout = C!LastOr(0, "timeout", CONFIG_DEFAULT_TIMEOUT_SECONDS)
             /\ default_entry = C!LastOr(0, "default", "")
  <2>1. EntriesRead(lines, sections) /\ GlobalsRead(lines, timeout, default_entry)
    BY <1>3 DEF ConfigInv
  <2>2. /\ Len(sections) = Cardinality(HeadsIn(lines))
        /\ \A i \in HeadsIn(lines) : WrittenIn(lines, sections[EntryIn(lines, i)], i)
    BY <2>1 DEF EntriesRead
  <2>3. /\ timeout = LastIn(lines, 0, "timeout", CONFIG_DEFAULT_TIMEOUT_SECONDS)
        /\ default_entry = LastIn(lines, 0, "default", "")
    BY <2>1 DEF GlobalsRead
  <2> QED
    BY <2>2, <2>3, SaidOfLines, SameCount
<1> DEFINE wanted == {i \in C!Heads : IF default_entry = "" THEN C!EntryOf(i) = 1 ELSE lines[i].name = default_entry}
<1>4. ASSUME status = "parsed"
      PROVE  IF wanted = {} THEN C!config_default_entry = 0
                            ELSE \E i \in wanted : C!config_default_entry = C!EntryOf(i)
  <2>1. /\ \A i \in HeadsIn(lines) : /\ EntryIn(lines, i) \in 1 .. Len(sections)
                                     /\ sections[EntryIn(lines, i)].name = lines[i].name
        /\ \A n \in 1 .. Len(sections) : \E i \in HeadsIn(lines) : EntryIn(lines, i) = n
        /\ Len(sections) \in Nat
    BY <1>4, EntriesAreHeads
  <2>2. \A i : i \in wanted <=> /\ i \in HeadsIn(lines)
                                /\ IF default_entry = "" THEN EntryIn(lines, i) = 1 ELSE lines[i].name = default_entry
    BY SaidOfLines
  <2>3. C!config_default_entry =
          IF default_entry = "" /\ sections # <<>> THEN 1 ELSE C!config_find(default_entry)
    BY DEF C!config_default_entry
  <2>4. /\ C!config_find(default_entry) = 0 <=> \A n \in 1 .. Len(sections) : sections[n].name # default_entry
        /\ C!config_find(default_entry) # 0 => /\ C!config_find(default_entry) \in 1 .. Len(sections)
                                               /\ sections[C!config_find(default_entry)].name = default_entry
    BY <1>1, FindIs
  <2>5. \A i : C!EntryOf(i) = EntryIn(lines, i)
    BY SaidOfLines
  <2> HIDE DEF wanted
  <2>6. CASE default_entry = ""
    <3>1. CASE sections = <<>>
      <4>1. 1 .. Len(sections) = {}
        BY <3>1
      <4>2. wanted = {}
        BY <2>1, <2>2, <4>1
      <4>3. C!config_find(default_entry) = 0
        BY <2>4, <4>1
      <4> QED
        BY <2>3, <3>1, <4>2, <4>3
    <3>2. CASE sections # <<>>
      <4>1. 1 \in 1 .. Len(sections)
        BY <1>1, <2>1, <3>2
      <4>2. PICK i \in HeadsIn(lines) : EntryIn(lines, i) = 1
        BY <2>1, <4>1
      <4>3. i \in wanted
        BY <2>2, <2>6, <4>2
      <4> QED
        BY <2>3, <2>5, <2>6, <3>2, <4>2, <4>3
    <3> QED
      BY <3>1, <3>2
  <2>7. CASE default_entry # ""
    <3>1. C!config_default_entry = C!config_find(default_entry)
      BY <2>3, <2>7
    <3>2. CASE C!config_find(default_entry) = 0
      <4>1. wanted = {}
        <5>1. \A i \in HeadsIn(lines) : lines[i].name # default_entry
          BY <2>1, <2>4, <3>2
        <5> QED
          BY <2>2, <2>7, <5>1
      <4> QED
        BY <3>1, <3>2, <4>1
    <3>3. CASE C!config_find(default_entry) # 0
      <4>1. PICK i \in HeadsIn(lines) : EntryIn(lines, i) = C!config_find(default_entry)
        BY <2>1, <2>4, <3>3
      <4>2. i \in wanted
        BY <2>1, <2>2, <2>4, <2>7, <3>3, <4>1
      <4> QED
        BY <2>5, <3>1, <4>1, <4>2
    <3> QED
      BY <3>2, <3>3
  <2> QED
    BY <2>6, <2>7
<1> QED
  BY <1>2, <1>3, <1>4 DEF C!ConfigAsWritten

(* Of every file, however long: it is parsed only if it is no longer than  *)
(* CONFIG_MAX_BYTES and well formed, refused only if it is longer or is    *)
(* not, and what is parsed is what is written; see config_parse,           *)
(* config_find and config_default_entry of config.c.                       *)
THEOREM ConfigsAreAsWritten == Spec => []ConfigAsWritten
<1>1. Init => ConfigInv
  BY ConfigInit DEF Init
<1>2. ConfigInv /\ [Next]_vars => ConfigInv'
  <2> SUFFICES ASSUME ConfigInv, [Next]_vars PROVE ConfigInv'
    OBVIOUS
  <2>1. CASE C!Next
    BY <2>1, ConfigNext
  <2>2. CASE UNCHANGED config_vars
    <3>1. /\ lines' = lines /\ timeout' = timeout /\ default_entry' = default_entry
          /\ sections' = sections /\ status' = status /\ file_bytes' = file_bytes
      BY <2>2 DEF config_vars
    <3>2. C!Fits' <=> C!Fits
      BY <3>1 DEF C!Fits
    <3> QED
      BY <3>1, <3>2 DEF ConfigInv
  <2> QED
    BY <2>1, <2>2 DEF Next, vars
<1>3. ConfigInv => ConfigAsWritten
  BY ReadAsWritten DEF ConfigAsWritten
<1> QED
  BY <1>1, <1>2, <1>3, PTL DEF Spec

-----------------------------------------------------------------------------
(* Ext2: the number of a block in the file, and the way to it.  A way of   *)
(* n pointers through blocks of p pointers each is a number of n - 1       *)
(* digits, after all the ways that are shorter.                            *)
LEMMA OneDigit ==
  ASSUME NEW p \in Nat \ {0}, NEW a \in Nat, NEW b \in Nat, NEW x \in 0 .. p - 1, NEW y \in 0 .. p - 1
  PROVE  /\ a * p + x \in Nat
         /\ a * p + x < b * p + y <=> a < b \/ (a = b /\ x < y)
         /\ a * p + x = b * p + y <=> a = b /\ x = y
         /\ a < b => a * p + x < b * p
         /\ (a * p + x) \div p = a /\ (a * p + x) % p = x
<1>1. a * p \in Nat /\ b * p \in Nat
  OBVIOUS
<1>2. ASSUME NEW c \in Nat, NEW d \in Nat, c < d PROVE c * p + p <= d * p
  <2>1. PICK e \in Nat : d = c + 1 + e
    <3>1. d - c - 1 \in Nat /\ d = c + 1 + (d - c - 1)
      BY <1>2
    <3> QED
      BY <3>1
  <2>2. d * p = c * p + p + e * p /\ e * p \in Nat /\ c * p \in Nat
    BY <2>1
  <2> QED
    BY <2>2
<1>3. a < b => a * p + p <= b * p
  BY <1>2
<1>4. b < a => b * p + p <= a * p
  BY <1>2
<1>5. a = b => a * p = b * p
  OBVIOUS
<1> DEFINE u == a * p
           v == b * p
<1>6. u \in Nat /\ v \in Nat /\ (a < b => u + p <= v) /\ (b < a => v + p <= u) /\ (a = b => u = v)
  BY <1>1, <1>3, <1>4, <1>5
<1> HIDE DEF u, v
<1>7. /\ u + x \in Nat
      /\ u + x < v + y <=> a < b \/ (a = b /\ x < y)
      /\ u + x = v + y <=> a = b /\ x = y
      /\ a < b => u + x < v
  <2>1. CASE a < b
    BY <1>6, <2>1
  <2>2. CASE b < a
    BY <1>6, <2>2
  <2>3. CASE a = b
    BY <1>6, <2>3
  <2> QED
    BY <2>1, <2>2, <2>3
<1>8. (a * p + x) \div p = a /\ (a * p + x) % p = x
  <2>1. p \in Nat /\ p > 0
    OBVIOUS
  <2> QED
    BY <2>1
<1> QED
  BY <1>7, <1>8 DEF u, v

LEMMA DivAndMod ==
  ASSUME NEW n \in Nat, NEW p \in Nat \ {0}
  PROVE  /\ n \div p \in Nat /\ n % p \in 0 .. p - 1
         /\ n = (n \div p) * p + (n % p)
         /\ \A b \in Nat : n < b * p => n \div p < b
<1> DEFINE q == n \div p
           r == n % p
<1>1. q \in Nat /\ r \in 0 .. p - 1 /\ n = p * q + r
  OBVIOUS
<1> HIDE DEF q, r
<1>2. n = q * p + r
  <2>1. p * q = q * p
    BY <1>1
  <2> QED
    BY <1>1, <2>1
<1>3. ASSUME NEW b \in Nat, n < b * p PROVE q < b
  <2>1. CASE b <= q
    <3>1. PICK e \in Nat : q = b + e
      <4>1. q - b \in Nat /\ q = b + (q - b)
        BY <1>1, <2>1
      <4> QED
        BY <4>1
    <3>2. q * p = b * p + e * p /\ b * p \in Nat /\ e * p \in Nat
      BY <3>1
    <3>3. b * p <= q * p /\ q * p \in Nat
      BY <3>2
    <3> QED
      BY <1>1, <1>2, <1>3, <3>2, <3>3
  <2> QED
    BY <1>1, <2>1
<1>4. q \in Nat /\ r \in 0 .. p - 1 /\ n = q * p + r /\ \A b \in Nat : n < b * p => q < b
  BY <1>1, <1>2, <1>3
<1> QED
  BY <1>4 DEF q, r

Direct == EXT2_DIRECT_BLOCKS
Per == X!PerBlock

(* How many blocks of the file come before those of so long a way, and a   *)
(* block's own number among these.                                         *)
Shorter(n) == IF n = 1 THEN 0 ELSE IF n = 2 THEN Direct
              ELSE IF n = 3 THEN Direct + Per ELSE Direct + Per + Per * Per
Own(w) == IF Len(w) = 1 THEN w[1] ELSE IF Len(w) = 2 THEN w[2]
          ELSE IF Len(w) = 3 THEN w[2] * Per + w[3] ELSE (w[2] * Per + w[3]) * Per + w[4]
Place(w) == Shorter(Len(w)) + Own(w)
Blocks == Direct + Per + Per * Per + Per * Per * Per

LEMMA WaysAre ==
  ASSUME NEW w
  PROVE  w \in X!Ways <=>
           \/ \E i \in 0 .. Direct - 1 : w = <<i>>
           \/ \E i \in 0 .. Per - 1 : w = <<Direct, i>>
           \/ \E i, j \in 0 .. Per - 1 : w = <<Direct + 1, i, j>>
           \/ \E i, j, k \in 0 .. Per - 1 : w = <<Direct + 2, i, j, k>>
  BY DEF X!Ways, Direct, Per

LEMMA Ext2Sizes ==
  ASSUME volume \in Superblocks
  PROVE  X!BlockBytes \in Nat \ {0} /\ Per \in Nat \ {0} /\ Direct \in Nat \ {0}
<1> DEFINE l == volume.log_block_size
           m == EXT2_MIN_BLOCK_BYTES
           b == X!BlockBytes
           e == EXT2_POINTER_BYTES
<1>1. m \in Nat \ {0} /\ e \in Nat \ {0} /\ Direct \in Nat \ {0} /\ e <= m
  BY PartsAssumption DEF X!Ext2Assumption, Direct
<1>2. l \in Nat
  BY Ext2Numbers
<1>3. X!TwoTo[l] \in Nat \ {0}
  BY <1>2, TwoToIs
<1>4. b = m * X!TwoTo[l]
  BY DEF X!BlockBytes
<1>5. Per = b \div e
  BY DEF X!PerBlock, Per
<1> HIDE DEF l, m, b, e
<1>6. b \in Nat \ {0} /\ m <= b
  BY <1>1, <1>3, <1>4
<1> DEFINE q == b \div e
           r == b % e
<1>7. q \in Nat /\ r \in 0 .. e - 1 /\ b = q * e + r
  BY <1>1, <1>6, DivAndMod
<1> HIDE DEF q, r
<1>8. q # 0
  <2>1. CASE q = 0
    <3>1. q * e = 0
      BY <1>1, <2>1
    <3> QED
      BY <1>1, <1>6, <1>7, <3>1
  <2> QED
    BY <2>1
<1> QED
  BY <1>1, <1>5, <1>6, <1>7, <1>8 DEF b, q

Slot == 0 .. Per - 1

Form(w) ==
  \/ Len(w) = 1 /\ DOMAIN w = {1} /\ w[1] \in 0 .. Direct - 1
  \/ Len(w) = 2 /\ DOMAIN w = {1, 2} /\ w[1] = Direct /\ w[2] \in Slot
  \/ Len(w) = 3 /\ DOMAIN w = {1, 2, 3} /\ w[1] = Direct + 1 /\ w[2] \in Slot /\ w[3] \in Slot
  \/ /\ Len(w) = 4 /\ DOMAIN w = {1, 2, 3, 4} /\ w[1] = Direct + 2
     /\ w[2] \in Slot /\ w[3] \in Slot /\ w[4] \in Slot

LEMMA WayForm ==
  ASSUME volume \in Superblocks, NEW w \in X!Ways
  PROVE  Form(w) /\ w = [i \in DOMAIN w |-> w[i]]
<1>1. CASE \E i \in 0 .. Direct - 1 : w = <<i>>
  BY <1>1 DEF Form
<1>2. CASE \E i \in 0 .. Per - 1 : w = <<Direct, i>>
  BY <1>2 DEF Form, Slot
<1>3. CASE \E i, j \in 0 .. Per - 1 : w = <<Direct + 1, i, j>>
  BY <1>3 DEF Form, Slot
<1>4. CASE \E i, j, k \in 0 .. Per - 1 : w = <<Direct + 2, i, j, k>>
  BY <1>4 DEF Form, Slot
<1> QED
  BY <1>1, <1>2, <1>3, <1>4, WaysAre

AsLong(n) == IF n = 1 THEN Direct ELSE IF n = 2 THEN Per ELSE IF n = 3 THEN Per * Per ELSE Per * Per * Per

LEMMA Levels ==
  ASSUME volume \in Superblocks
  PROVE  /\ \A n \in 1 .. 4 : Shorter(n) \in Nat /\ AsLong(n) \in Nat
         /\ \A m, n \in 1 .. 4 : m < n => Shorter(m) + AsLong(m) <= Shorter(n)
         /\ Shorter(4) + AsLong(4) = Blocks /\ Blocks \in Nat
         /\ Shorter(1) = 0
         /\ \A n \in 1 .. 3 : Shorter(n) + AsLong(n) = Shorter(n + 1)
<1> DEFINE d == Direct
           p == Per
           pp == p * p
           ppp == p * p * p
<1>1. d \in Nat /\ p \in Nat
  BY Ext2Sizes
<1> HIDE DEF d, p
<1>2. pp \in Nat /\ ppp \in Nat
  <2>1. pp \in Nat
    BY <1>1
  <2>2. ppp = pp * p
    OBVIOUS
  <2> HIDE DEF pp
  <2> QED
    BY <1>1, <2>1, <2>2
<1> HIDE DEF pp, ppp
<1>3. Shorter(1) = 0 /\ Shorter(2) = d /\ Shorter(3) = d + p /\ Shorter(4) = d + p + pp
  BY DEF Shorter, d, p, pp
<1>4. AsLong(1) = d /\ AsLong(2) = p /\ AsLong(3) = pp /\ AsLong(4) = ppp
  BY DEF AsLong, d, p, pp, ppp
<1>5. Blocks = d + p + pp + ppp
  BY DEF Blocks, d, p, pp, ppp
<1>6. \A n \in 1 .. 4 : n = 1 \/ n = 2 \/ n = 3 \/ n = 4
  OBVIOUS
<1>7. \A n \in 1 .. 4 : Shorter(n) \in Nat /\ AsLong(n) \in Nat
  <2> TAKE n \in 1 .. 4
  <2>1. CASE n = 1 BY <1>1, <1>2, <1>3, <1>4, <2>1
  <2>2. CASE n = 2 BY <1>1, <1>2, <1>3, <1>4, <2>2
  <2>3. CASE n = 3 BY <1>1, <1>2, <1>3, <1>4, <2>3
  <2>4. CASE n = 4 BY <1>1, <1>2, <1>3, <1>4, <2>4
  <2> QED
    BY <1>6, <2>1, <2>2, <2>3, <2>4
<1>8. \A n \in 1 .. 3 : Shorter(n) + AsLong(n) = Shorter(n + 1)
  <2> TAKE n \in 1 .. 3
  <2>1. CASE n = 1 BY <1>1, <1>2, <1>3, <1>4, <2>1
  <2>2. CASE n = 2 BY <1>1, <1>2, <1>3, <1>4, <2>2
  <2>3. CASE n = 3 BY <1>1, <1>2, <1>3, <1>4, <2>3
  <2> QED
    BY <2>1, <2>2, <2>3
<1>9. \A m, n \in 1 .. 4 : m < n => Shorter(m) + AsLong(m) <= Shorter(n)
  <2> TAKE m, n \in 1 .. 4
  <2> HAVE m < n
  <2>1. CASE m = 1
    <3>1. CASE n = 2 BY <1>1, <1>2, <1>3, <1>4, <2>1, <3>1
    <3>2. CASE n = 3 BY <1>1, <1>2, <1>3, <1>4, <2>1, <3>2
    <3>3. CASE n = 4 BY <1>1, <1>2, <1>3, <1>4, <2>1, <3>3
    <3> QED
      BY <2>1, <3>1, <3>2, <3>3
  <2>2. CASE m = 2
    <3>1. CASE n = 3 BY <1>1, <1>2, <1>3, <1>4, <2>2, <3>1
    <3>2. CASE n = 4 BY <1>1, <1>2, <1>3, <1>4, <2>2, <3>2
    <3> QED
      BY <2>2, <3>1, <3>2
  <2>3. CASE m = 3
    <3>1. n = 4
      BY <2>3
    <3> QED
      BY <1>1, <1>2, <1>3, <1>4, <2>3, <3>1
  <2> QED
    BY <2>1, <2>2, <2>3
<1>10. Shorter(4) + AsLong(4) = Blocks /\ Blocks \in Nat
  BY <1>1, <1>2, <1>3, <1>4, <1>5
<1> QED
  BY <1>3, <1>7, <1>8, <1>9, <1>10

LEMMA OwnIs ==
  ASSUME volume \in Superblocks, NEW w \in X!Ways
  PROVE  Len(w) \in 1 .. 4 /\ Own(w) \in Nat /\ Own(w) < AsLong(Len(w))
<1> DEFINE d == Direct
           p == Per
<1>1. d \in Nat \ {0} /\ p \in Nat \ {0}
  BY Ext2Sizes
<1>2. CASE Len(w) = 1
  <2>1. w[1] \in 0 .. d - 1
    BY <1>2, WayForm DEF Form
  <2>2. Own(w) = w[1] /\ AsLong(1) = d
    BY <1>2 DEF Own, AsLong
  <2> HIDE DEF d
  <2> QED
    BY <1>1, <1>2, <2>1, <2>2
<1>3. CASE Len(w) = 2
  <2>1. w[2] \in 0 .. p - 1
    BY <1>3, WayForm DEF Form, Slot
  <2>2. Own(w) = w[2] /\ AsLong(2) = p
    BY <1>3 DEF Own, AsLong
  <2> HIDE DEF p
  <2> QED
    BY <1>1, <1>3, <2>1, <2>2
<1>4. CASE Len(w) = 3
  <2>1. w[2] \in 0 .. p - 1 /\ w[3] \in 0 .. p - 1
    BY <1>4, WayForm DEF Form, Slot
  <2>2. Own(w) = w[2] * p + w[3] /\ AsLong(3) = p * p
    BY <1>4 DEF Own, AsLong
  <2> HIDE DEF p
  <2>3. w[2] \in Nat /\ w[2] < p /\ 0 \in 0 .. p - 1
    BY <1>1, <2>1
  <2>4. w[2] * p + w[3] \in Nat /\ w[2] * p + w[3] < p * p
    BY <1>1, <2>1, <2>3, OneDigit
  <2> QED
    BY <1>4, <2>2, <2>4
<1>5. CASE Len(w) = 4
  <2>1. w[2] \in 0 .. p - 1 /\ w[3] \in 0 .. p - 1 /\ w[4] \in 0 .. p - 1
    BY <1>5, WayForm DEF Form, Slot
  <2>2. Own(w) = (w[2] * p + w[3]) * p + w[4] /\ AsLong(4) = (p * p) * p
    BY <1>5 DEF Own, AsLong
  <2> HIDE DEF p
  <2>3. w[2] \in Nat /\ w[2] < p /\ 0 \in 0 .. p - 1 /\ p * p \in Nat
    BY <1>1, <2>1
  <2>4. w[2] * p + w[3] \in Nat /\ w[2] * p + w[3] < p * p
    BY <1>1, <2>1, <2>3, OneDigit
  <2> DEFINE a == w[2] * p + w[3]
             b == p * p
  <2>5. a \in Nat /\ a < b /\ b \in Nat
    BY <2>3, <2>4
  <2> DEFINE x == w[4]
  <2> HIDE DEF a, b
  <2>6. a * p + w[4] \in Nat /\ a * p + w[4] < b * p
    <3>1. x \in 0 .. p - 1 /\ 0 \in 0 .. p - 1 /\ p \in Nat \ {0}
      BY <1>1, <2>1, <2>3
    <3> HIDE DEF x
    <3>2. a * p + x \in Nat /\ a * p + x < b * p
      BY ONLY <2>5, <3>1, OneDigit
    <3> QED
      BY <3>2 DEF x
  <2> QED
    BY <1>5, <2>2, <2>6 DEF a, b
<1> QED
  BY <1>2, <1>3, <1>4, <1>5, WayForm DEF Form

LEMMA TwoDigits ==
  ASSUME NEW p \in Nat \ {0},
         NEW a \in 0 .. p - 1, NEW x \in 0 .. p - 1, NEW b \in 0 .. p - 1, NEW y \in 0 .. p - 1,
         NEW s \in 0 .. p - 1, NEW t \in 0 .. p - 1
  PROVE  /\ (a * p + x) * p + s < (b * p + y) * p + t <=>
               a < b \/ (a = b /\ x < y) \/ (a = b /\ x = y /\ s < t)
         /\ (a * p + x) * p + s = (b * p + y) * p + t => a = b /\ x = y /\ s = t
<1> DEFINE m == a * p + x
           n == b * p + y
<1>1. a \in Nat /\ b \in Nat
  OBVIOUS
<1>2. /\ m \in Nat /\ n \in Nat
      /\ m < n <=> a < b \/ (a = b /\ x < y)
      /\ m = n <=> a = b /\ x = y
  BY <1>1, OneDigit
<1> HIDE DEF m, n
<1>3. /\ m * p + s < n * p + t <=> m < n \/ (m = n /\ s < t)
      /\ m * p + s = n * p + t <=> m = n /\ s = t
  BY <1>2, OneDigit
<1>4. /\ m * p + s < n * p + t <=> a < b \/ (a = b /\ x < y) \/ (a = b /\ x = y /\ s < t)
      /\ m * p + s = n * p + t => a = b /\ x = y /\ s = t
  BY <1>2, <1>3
<1> QED
  BY <1>4 DEF m, n

(* Among ways of one length, the order of their numbers is that of their   *)
(* pointers.                                                               *)
First(v, w, i) == v[i] < w[i] /\ \A j \in 1 .. i - 1 : v[j] = w[j]

LEMMA FirstIs ==
  ASSUME NEW v, NEW w
  PROVE  /\ First(v, w, 1) <=> v[1] < w[1]
         /\ First(v, w, 2) <=> v[1] = w[1] /\ v[2] < w[2]
         /\ First(v, w, 3) <=> v[1] = w[1] /\ v[2] = w[2] /\ v[3] < w[3]
         /\ First(v, w, 4) <=> v[1] = w[1] /\ v[2] = w[2] /\ v[3] = w[3] /\ v[4] < w[4]
<1>1. 1 .. 1 - 1 = {} /\ 1 .. 2 - 1 = {1} /\ 1 .. 3 - 1 = {1, 2} /\ 1 .. 4 - 1 = {1, 2, 3}
  OBVIOUS
<1>2. First(v, w, 1) <=> v[1] < w[1]
  BY <1>1 DEF First
<1>3. First(v, w, 2) <=> v[1] = w[1] /\ v[2] < w[2]
  BY <1>1 DEF First
<1>4. First(v, w, 3) <=> v[1] = w[1] /\ v[2] = w[2] /\ v[3] < w[3]
  BY <1>1 DEF First
<1>5. First(v, w, 4) <=> v[1] = w[1] /\ v[2] = w[2] /\ v[3] = w[3] /\ v[4] < w[4]
  BY <1>1 DEF First
<1> QED
  BY <1>2, <1>3, <1>4, <1>5

LEMMA EarlierOwn ==
  ASSUME volume \in Superblocks, NEW v \in X!Ways, NEW w \in X!Ways, Len(v) = Len(w)
  PROVE  /\ X!Earlier(v, w) <=> Own(v) < Own(w)
         /\ Own(v) = Own(w) => v = w
<1> DEFINE p == Per
           First1 == First(v, w, 1)
           First2 == First(v, w, 2)
           First3 == First(v, w, 3)
           First4 == First(v, w, 4)
<1>1. Direct \in Nat \ {0} /\ p \in Nat \ {0}
  BY Ext2Sizes
<1>2. X!Earlier(v, w) <=> \E i \in DOMAIN v : First(v, w, i)
  <2>1. ~ (Len(v) < Len(w))
    BY OwnIs
  <2> QED
    BY <2>1 DEF X!Earlier, First
<1>3. /\ First1 <=> v[1] < w[1]
      /\ First2 <=> v[1] = w[1] /\ v[2] < w[2]
      /\ First3 <=> v[1] = w[1] /\ v[2] = w[2] /\ v[3] < w[3]
      /\ First4 <=> v[1] = w[1] /\ v[2] = w[2] /\ v[3] = w[3] /\ v[4] < w[4]
  BY FirstIs
<1>4. Form(v) /\ Form(w) /\ v = [i \in DOMAIN v |-> v[i]] /\ w = [i \in DOMAIN w |-> w[i]]
  BY WayForm
<1>5. CASE Len(v) = 1
  <2>1. DOMAIN v = {1} /\ DOMAIN w = {1} /\ v[1] \in Nat /\ w[1] \in Nat
    BY <1>1, <1>4, <1>5 DEF Form
  <2>2. Own(v) = v[1] /\ Own(w) = w[1]
    BY <1>5 DEF Own
  <2>3. X!Earlier(v, w) <=> First1
    BY <1>2, <2>1
  <2> HIDE DEF First1
  <2>4. v[1] = w[1] => v = w
    BY <1>4, <2>1
  <2> QED
    BY <1>3, <2>2, <2>3, <2>4
<1>6. CASE Len(v) = 2
  <2>1. DOMAIN v = {1, 2} /\ DOMAIN w = {1, 2} /\ v[1] = w[1] /\ v[1] = Direct
    BY <1>4, <1>6 DEF Form
  <2>2. Own(v) = v[2] /\ Own(w) = w[2]
    BY <1>6 DEF Own
  <2>3. X!Earlier(v, w) <=> First1 \/ First2
    BY <1>2, <2>1
  <2> HIDE DEF First1, First2
  <2>4. v[2] = w[2] => v = w
    BY <1>4, <2>1
  <2>5. ~ First1
    BY <1>1, <1>3, <2>1
  <2> QED
    BY <1>3, <2>1, <2>2, <2>3, <2>4, <2>5
<1>7. CASE Len(v) = 3
  <2>1. DOMAIN v = {1, 2, 3} /\ DOMAIN w = {1, 2, 3} /\ v[1] = w[1] /\ v[1] = Direct + 1
    BY <1>4, <1>7 DEF Form
  <2>2. v[2] \in 0 .. p - 1 /\ v[3] \in 0 .. p - 1 /\ w[2] \in 0 .. p - 1 /\ w[3] \in 0 .. p - 1
    BY <1>4, <1>7 DEF Form, Slot
  <2>3. Own(v) = v[2] * p + v[3] /\ Own(w) = w[2] * p + w[3]
    BY <1>7 DEF Own
  <2>4. X!Earlier(v, w) <=> First1 \/ First2 \/ First3
    BY <1>2, <2>1
  <2> HIDE DEF First1, First2, First3, p
  <2>5. v[2] = w[2] /\ v[3] = w[3] => v = w
    BY <1>4, <2>1
  <2>6. ~ First1
    BY <1>1, <1>3, <2>1
  <2>7. v[2] \in Nat /\ w[2] \in Nat
    BY <1>1, <2>2
  <2>8. /\ v[2] * p + v[3] < w[2] * p + w[3] <=> v[2] < w[2] \/ (v[2] = w[2] /\ v[3] < w[3])
        /\ v[2] * p + v[3] = w[2] * p + w[3] <=> v[2] = w[2] /\ v[3] = w[3]
    <3> DEFINE a == v[2]
               x == v[3]
               b == w[2]
               y == w[3]
    <3>1. a \in Nat /\ b \in Nat /\ x \in 0 .. p - 1 /\ y \in 0 .. p - 1 /\ p \in Nat \ {0}
      BY <1>1, <2>2, <2>7
    <3> HIDE DEF a, b, x, y
    <3>2. /\ a * p + x < b * p + y <=> a < b \/ (a = b /\ x < y)
          /\ a * p + x = b * p + y <=> a = b /\ x = y
      BY ONLY <3>1, OneDigit
    <3> QED
      BY <3>2 DEF a, b, x, y
  <2> QED
    BY <1>3, <2>1, <2>3, <2>4, <2>5, <2>6, <2>8
<1>8. CASE Len(v) = 4
  <2>1. DOMAIN v = {1, 2, 3, 4} /\ DOMAIN w = {1, 2, 3, 4} /\ v[1] = w[1] /\ v[1] = Direct + 2
    BY <1>4, <1>8 DEF Form
  <2>2. /\ v[2] \in 0 .. p - 1 /\ v[3] \in 0 .. p - 1 /\ w[2] \in 0 .. p - 1 /\ w[3] \in 0 .. p - 1
        /\ v[4] \in 0 .. p - 1 /\ w[4] \in 0 .. p - 1
    BY <1>4, <1>8 DEF Form, Slot
  <2>3. Own(v) = (v[2] * p + v[3]) * p + v[4] /\ Own(w) = (w[2] * p + w[3]) * p + w[4]
    BY <1>8 DEF Own
  <2>4. X!Earlier(v, w) <=> First1 \/ First2 \/ First3 \/ First4
    BY <1>2, <2>1
  <2> HIDE DEF First1, First2, First3, First4, p
  <2>5. v[2] = w[2] /\ v[3] = w[3] /\ v[4] = w[4] => v = w
    BY <1>4, <2>1
  <2>6. ~ First1
    BY <1>1, <1>3, <2>1
  <2>7. /\ Own(v) < Own(w) <=> v[2] < w[2] \/ (v[2] = w[2] /\ v[3] < w[3])
                                 \/ (v[2] = w[2] /\ v[3] = w[3] /\ v[4] < w[4])
        /\ Own(v) = Own(w) => v[2] = w[2] /\ v[3] = w[3] /\ v[4] = w[4]
    <3> DEFINE a == v[2]
               x == v[3]
               s == v[4]
               b == w[2]
               y == w[3]
               t == w[4]
    <3>1. /\ a \in 0 .. p - 1 /\ b \in 0 .. p - 1 /\ x \in 0 .. p - 1 /\ y \in 0 .. p - 1
          /\ s \in 0 .. p - 1 /\ t \in 0 .. p - 1 /\ p \in Nat \ {0}
      BY <1>1, <2>2
    <3> HIDE DEF a, b, x, y, s, t
    <3>2. /\ (a * p + x) * p + s < (b * p + y) * p + t <=>
               a < b \/ (a = b /\ x < y) \/ (a = b /\ x = y /\ s < t)
          /\ (a * p + x) * p + s = (b * p + y) * p + t => a = b /\ x = y /\ s = t
      BY ONLY <3>1, TwoDigits
    <3> QED
      BY <2>3, <3>2 DEF a, b, x, y, s, t
  <2> QED
    BY <1>3, <2>1, <2>4, <2>5, <2>6, <2>7
<1> QED
  BY <1>4, <1>5, <1>6, <1>7, <1>8 DEF Form

LEMMA PlacesAre ==
  ASSUME volume \in Superblocks, NEW v \in X!Ways, NEW w \in X!Ways
  PROVE  /\ Place(v) \in 0 .. Blocks - 1
         /\ X!Earlier(v, w) <=> Place(v) < Place(w)
         /\ Place(v) = Place(w) => v = w
<1> DEFINE m == Len(v)
           n == Len(w)
<1>1. /\ m \in 1 .. 4 /\ Own(v) \in Nat /\ Own(v) < AsLong(m)
      /\ n \in 1 .. 4 /\ Own(w) \in Nat /\ Own(w) < AsLong(n)
  BY OwnIs
<1>2. Place(v) = Shorter(m) + Own(v) /\ Place(w) = Shorter(n) + Own(w)
  BY DEF Place
<1>3. m = n => /\ X!Earlier(v, w) <=> Own(v) < Own(w)
               /\ Own(v) = Own(w) => v = w
  BY EarlierOwn
<1>4. m < n => X!Earlier(v, w)
  BY DEF X!Earlier
<1>5. n < m => ~ X!Earlier(v, w)
  BY <1>1 DEF X!Earlier
<1> HIDE DEF m, n
<1>6. /\ Shorter(m) \in Nat /\ AsLong(m) \in Nat /\ Shorter(n) \in Nat /\ AsLong(n) \in Nat
      /\ m < n => Shorter(m) + AsLong(m) <= Shorter(n)
      /\ n < m => Shorter(n) + AsLong(n) <= Shorter(m)
      /\ m < 4 => Shorter(m) + AsLong(m) <= Shorter(4)
      /\ Shorter(4) + AsLong(4) = Blocks /\ Blocks \in Nat /\ Shorter(4) \in Nat /\ AsLong(4) \in Nat
  BY <1>1, Levels
<1>7. Place(v) \in 0 .. Blocks - 1
  <2>1. CASE m < 4
    BY <1>1, <1>2, <1>6, <2>1
  <2>2. CASE m = 4
    BY <1>1, <1>2, <1>6, <2>2
  <2> QED
    BY <1>1, <2>1, <2>2
<1>8. CASE m = n
  BY <1>1, <1>2, <1>3, <1>6, <1>7, <1>8
<1>9. CASE m < n
  BY <1>1, <1>2, <1>4, <1>6, <1>7, <1>9
<1>10. CASE n < m
  BY <1>1, <1>2, <1>5, <1>6, <1>7, <1>10
<1> QED
  BY <1>1, <1>8, <1>9, <1>10

LEMMA PlacesHaveWays ==
  ASSUME volume \in Superblocks, NEW n \in 0 .. Blocks - 1
  PROVE  \E w \in X!Ways : Place(w) = n
<1> DEFINE d == Direct
           p == Per
           pp == p * p
           ppp == p * p * p
<1>1. d \in Nat \ {0} /\ p \in Nat \ {0}
  BY Ext2Sizes
<1>2. ppp = pp * p
  OBVIOUS
<1>3. Blocks = d + p + pp + ppp
  BY DEF Blocks
<1>4. \A w : Place(w) = Shorter(Len(w)) + Own(w)
  BY DEF Place
<1>5. Shorter(1) = 0 /\ Shorter(2) = d /\ Shorter(3) = d + p /\ Shorter(4) = d + p + pp
  BY DEF Shorter
<1>6. /\ \A i \in 0 .. d - 1 : <<i>> \in X!Ways
      /\ \A i \in 0 .. p - 1 : <<d, i>> \in X!Ways
      /\ \A i, j \in 0 .. p - 1 : <<d + 1, i, j>> \in X!Ways
      /\ \A i, j, k \in 0 .. p - 1 : <<d + 2, i, j, k>> \in X!Ways
  BY WaysAre
<1>7. /\ \A i : Len(<<i>>) = 1 /\ Own(<<i>>) = i
      /\ \A i : Len(<<d, i>>) = 2 /\ Own(<<d, i>>) = i
      /\ \A i, j : Len(<<d + 1, i, j>>) = 3 /\ Own(<<d + 1, i, j>>) = i * p + j
      /\ \A i, j, k : Len(<<d + 2, i, j, k>>) = 4 /\ Own(<<d + 2, i, j, k>>) = (i * p + j) * p + k
  BY DEF Own
<1> HIDE DEF d, p
<1>8. pp \in Nat /\ ppp \in Nat
  <2>1. pp \in Nat
    BY <1>1
  <2> HIDE DEF pp
  <2>2. pp * p \in Nat
    BY <1>1, <2>1
  <2> QED
    BY <1>2, <2>1, <2>2
<1>9. \A i \in Nat : i < p => i \in 0 .. p - 1
  BY <1>1
<1>10. CASE n < d
  <2>1. <<n>> \in X!Ways /\ n \in Nat
    BY <1>1, <1>6, <1>10
  <2>2. Len(<<n>>) = 1 /\ Own(<<n>>) = n
    BY <1>7
  <2>3. Place(<<n>>) = Shorter(1) + n
    BY <1>4, <2>2
  <2>4. Place(<<n>>) = n
    BY <1>5, <2>1, <2>3
  <2> QED
    BY <2>1, <2>4
<1>11. CASE d <= n /\ n < d + p
  <2> DEFINE i == n - d
  <2>1. i \in 0 .. p - 1 /\ d + i = n
    BY <1>1, <1>11
  <2> HIDE DEF i
  <2>2. Place(<<d, i>>) = n
    BY <1>4, <1>5, <1>7, <2>1
  <2> QED
    BY <1>6, <2>1, <2>2
<1> HIDE DEF pp, ppp
<1>12. CASE d + p <= n /\ n < d + p + pp
  <2> DEFINE r == n - d - p
             i == r \div p
             j == r % p
  <2>1. r \in Nat /\ r < pp /\ d + p + r = n
    BY <1>1, <1>8, <1>12
  <2> HIDE DEF r
  <2>2. i \in Nat /\ j \in 0 .. p - 1 /\ r = i * p + j /\ i < p
    <3>1. r < p * p
      BY <2>1 DEF pp
    <3> QED
      BY <1>1, <2>1, <3>1, DivAndMod
  <2> HIDE DEF i, j
  <2> DEFINE w == <<d + 1, i, j>>
  <2>3. Len(w) = 3 /\ Own(w) = i * p + j
    BY <1>7
  <2>4. w \in X!Ways
    BY <1>6, <1>9, <2>2
  <2> HIDE DEF w
  <2>5. Place(w) = d + p + r
    BY <1>4, <1>5, <2>2, <2>3
  <2>6. Place(w) = n
    BY <2>1, <2>5
  <2> QED
    BY <2>4, <2>6
<1>13. CASE d + p + pp <= n
  <2> DEFINE r == n - d - p - pp
             q == r \div p
             k == r % p
             i == q \div p
             j == q % p
  <2>1. r \in Nat /\ r < pp * p /\ d + p + pp + r = n
    BY <1>1, <1>2, <1>3, <1>8, <1>13
  <2> HIDE DEF r
  <2>2. q \in Nat /\ k \in 0 .. p - 1 /\ r = q * p + k /\ q < pp
    BY <1>1, <1>8, <2>1, DivAndMod
  <2> HIDE DEF q, k
  <2>3. i \in Nat /\ j \in 0 .. p - 1 /\ q = i * p + j /\ i < p
    <3>1. q < p * p
      BY <2>2 DEF pp
    <3> QED
      BY <1>1, <2>2, <3>1, DivAndMod
  <2> HIDE DEF i, j
  <2> DEFINE w == <<d + 2, i, j, k>>
  <2>4. Len(w) = 4 /\ Own(w) = (i * p + j) * p + k
    BY <1>7
  <2>5. w \in X!Ways
    BY <1>6, <1>9, <2>2, <2>3
  <2> HIDE DEF w
  <2>6. Own(w) = r
    BY <2>2, <2>3, <2>4
  <2>7. Place(w) = d + p + pp + r
    BY <1>4, <1>5, <2>4, <2>6
  <2>8. Place(w) = n
    BY <2>1, <2>7
  <2> QED
    BY <2>5, <2>8
<1> QED
  BY <1>1, <1>8, <1>10, <1>11, <1>12, <1>13

(* So the way that n others come before is the one with that number.       *)
LEMMA WayToIs ==
  ASSUME volume \in Superblocks, NEW n \in 0 .. Blocks - 1
  PROVE  X!WayTo(n) \in X!Ways /\ Place(X!WayTo(n)) = n
<1> DEFINE W == X!Ways
           Ahead(w) == {v \in W : X!Earlier(v, w)}
<1>1. ASSUME NEW w \in W PROVE Cardinality(Ahead(w)) = Place(w)
  <2> DEFINE m == Place(w)
             T == 0 .. m - 1
             f == [i \in T |-> CHOOSE v \in W : Place(v) = i]
  <2>1. m \in 0 .. Blocks - 1 /\ Blocks \in Nat
    BY PlacesAre, Levels
  <2>2. T \subseteq 0 .. Blocks - 1 /\ m \in Nat
    BY <2>1
  <2>3. \A v \in W : v \in Ahead(w) <=> Place(v) < m
    BY PlacesAre
  <2>4. \A i \in T : f[i] \in W /\ Place(f[i]) = i
    <3> TAKE i \in T
    <3>1. \E v \in W : Place(v) = i
      BY <2>2, PlacesHaveWays
    <3> QED
      BY <3>1
  <2>5. \A v \in Ahead(w) : v \in W /\ Place(v) \in T
    <3> TAKE v \in Ahead(w)
    <3>1. v \in W /\ Place(v) < m
      BY <2>3
    <3>2. Place(v) \in Nat
      BY <3>1, PlacesAre
    <3> HIDE DEF m
    <3> QED
      BY <2>2, <3>1, <3>2
  <2>6. \A u, v \in W : Place(u) = Place(v) => u = v
    BY PlacesAre
  <2>7. \A i \in T : i < m
    BY <2>2
  <2>8. DOMAIN f = T
    OBVIOUS
  <2> HIDE DEF f, T, m, W
  <2>9. f \in [T -> Ahead(w)]
    <3>1. f = [i \in T |-> f[i]]
      BY DEF f
    <3>2. \A i \in T : f[i] \in Ahead(w)
      BY <2>3, <2>4, <2>7
    <3> HIDE DEF Ahead
    <3> QED
      BY <3>1, <3>2
  <2>10. \A i, j \in T : f[i] = f[j] => i = j
    BY <2>4
  <2>11. \A v \in Ahead(w) : \E i \in T : f[i] = v
    BY <2>4, <2>5, <2>6
  <2> HIDE DEF Ahead
  <2>12. ExistsBijection(T, Ahead(w))
    <3>1. f \in Injection(T, Ahead(w))
      BY <2>9, <2>10 DEF Injection, IsInjective
    <3>2. f \in Surjection(T, Ahead(w))
      BY <2>9, <2>11 DEF Surjection
    <3> QED
      BY <3>1, <3>2 DEF ExistsBijection, Bijection
  <2>13. IsFiniteSet(T) /\ Cardinality(T) = m
    <3>1. 0 \in Int /\ m - 1 \in Int /\ IF 0 > m - 1 THEN m = 0 ELSE (m - 1) - 0 + 1 = m
      BY <2>2
    <3>2. IsFiniteSet(0 .. m - 1) /\ Cardinality(0 .. m - 1) = IF 0 > m - 1 THEN 0 ELSE (m - 1) - 0 + 1
      BY <3>1, FS_Interval
    <3> QED
      BY <3>1, <3>2 DEF T
  <2>14. Cardinality(Ahead(w)) = m
    BY <2>12, <2>13, FS_Bijection
  <2> QED
    BY <2>14 DEF m
<1>2. \A S : X!Cardinality(S) = Cardinality(S)
  BY DEF X!Cardinality, Cardinality
<1>3. X!WayTo(n) = CHOOSE w \in W : Cardinality(Ahead(w)) = n
  BY <1>2 DEF X!WayTo
<1>4. \E w \in W : Place(w) = n
  BY PlacesHaveWays
<1> HIDE DEF W, Ahead
<1>5. X!WayTo(n) \in W /\ Cardinality(Ahead(X!WayTo(n))) = n
  BY <1>1, <1>3, <1>4
<1>6. X!WayTo(n) \in W /\ Place(X!WayTo(n)) = n
  BY <1>1, <1>5
<1> QED
  BY <1>6 DEF W

-----------------------------------------------------------------------------
(* Ext2: what a disk that holds these pointers has at the end of a way,    *)
(* and at the end of a walk that has so many pointers still to follow.     *)
PointerIn(dk, b, i) ==
  IF b = X!BLOCK_HOLE THEN b ELSE IF <<b, i>> \in DOMAIN dk THEN dk[<<b, i>>] ELSE X!Unread

BlockIn(dk, w) ==
  IF Len(w) = 1 THEN PointerIn(dk, X!Inode, w[1])
  ELSE IF Len(w) = 2 THEN PointerIn(dk, PointerIn(dk, X!Inode, w[1]), w[2])
  ELSE IF Len(w) = 3 THEN PointerIn(dk, PointerIn(dk, PointerIn(dk, X!Inode, w[1]), w[2]), w[3])
  ELSE PointerIn(dk, PointerIn(dk, PointerIn(dk, PointerIn(dk, X!Inode, w[1]), w[2]), w[3]), w[4])

Down(dk, depth, b, n, p) ==
  IF depth = 0 THEN b
  ELSE IF depth = 1 THEN PointerIn(dk, b, n)
  ELSE IF depth = 2 THEN PointerIn(dk, PointerIn(dk, b, n \div p), n % p)
  ELSE PointerIn(dk, PointerIn(dk, PointerIn(dk, b, n \div (p * p)), (n % (p * p)) \div p),
                 (n % (p * p)) % p)

Begin(depth, p) ==
  IF depth = 1 THEN Direct ELSE IF depth = 2 THEN Direct + p ELSE Direct + p + p * p

Top(dk, depth) == PointerIn(dk, X!Inode, Direct + depth - 1)

EndsIn(dk, n, p) ==
  IF n < Direct THEN PointerIn(dk, X!Inode, n)
  ELSE IF n < Begin(2, p) THEN Down(dk, 1, Top(dk, 1), n - Begin(1, p), p)
  ELSE IF n < Begin(3, p) THEN Down(dk, 2, Top(dk, 2), n - Begin(2, p), p)
  ELSE Down(dk, 3, Top(dk, 3), n - Begin(3, p), p)

LEMMA BlockAtIs ==
  ASSUME NEW w, Len(w) \in 1 .. 4
  PROVE  X!BlockAt(w) = BlockIn(disk, w)
<1> DEFINE G(g) == g = [n \in 0 .. Len(w) |-> IF n = 0 THEN X!Inode ELSE X!PointerAt(g[n - 1], w[n])]
           b1 == PointerIn(disk, X!Inode, w[1])
           b2 == PointerIn(disk, b1, w[2])
           b3 == PointerIn(disk, b2, w[3])
           b4 == PointerIn(disk, b3, w[4])
           h == [n \in 0 .. Len(w) |-> IF n = 0 THEN X!Inode ELSE IF n = 1 THEN b1 ELSE
                                       IF n = 2 THEN b2 ELSE IF n = 3 THEN b3 ELSE b4]
           r == CHOOSE g : G(g)
<1>1. \A b, i : X!PointerAt(b, i) = PointerIn(disk, b, i)
  BY DEF X!PointerAt, PointerIn
<1>2. X!BlockAt(w) = r[Len(w)]
  BY DEF X!BlockAt
<1>3. /\ b1 = X!PointerAt(X!Inode, w[1]) /\ b2 = X!PointerAt(b1, w[2])
      /\ b3 = X!PointerAt(b2, w[3]) /\ b4 = X!PointerAt(b3, w[4])
  BY <1>1
<1>4. BlockIn(disk, w) = IF Len(w) = 1 THEN b1 ELSE IF Len(w) = 2 THEN b2 ELSE IF Len(w) = 3 THEN b3 ELSE b4
  BY DEF BlockIn
<1> HIDE DEF b1, b2, b3, b4
<1>5. G(h)
  <2>1. \A n \in 0 .. Len(w) : h[n] = IF n = 0 THEN X!Inode ELSE X!PointerAt(h[n - 1], w[n])
    <3> TAKE n \in 0 .. Len(w)
    <3>1. CASE n = 0 BY <3>1
    <3>2. CASE n = 1 BY <1>3, <3>2
    <3>3. CASE n = 2 BY <1>3, <3>3
    <3>4. CASE n = 3 BY <1>3, <3>4
    <3>5. CASE n = 4 BY <1>3, <3>5
    <3> QED
      BY <3>1, <3>2, <3>3, <3>4, <3>5
  <2>2. h = [n \in 0 .. Len(w) |-> h[n]]
    OBVIOUS
  <2> HIDE DEF h
  <2> QED
    BY <2>1, <2>2
<1>6. G(r)
  BY <1>5
<1> HIDE DEF r
<1>7. /\ r[0] = X!Inode
      /\ \A n \in 1 .. Len(w) : r[n] = X!PointerAt(r[n - 1], w[n])
  <2>1. \A n \in 0 .. Len(w) : r[n] = IF n = 0 THEN X!Inode ELSE X!PointerAt(r[n - 1], w[n])
    BY <1>6
  <2> QED
    BY <2>1
<1>8. r[1] = b1
  BY <1>3, <1>7
<1>9. Len(w) >= 2 => r[2] = b2
  BY <1>3, <1>7, <1>8
<1>10. Len(w) >= 3 => r[3] = b3
  BY <1>3, <1>7, <1>9
<1>11. Len(w) >= 4 => r[4] = b4
  BY <1>3, <1>7, <1>10
<1>12. Len(w) = 1 \/ Len(w) = 2 \/ Len(w) = 3 \/ Len(w) = 4
  OBVIOUS
<1>13. CASE Len(w) = 1
  BY <1>2, <1>4, <1>8, <1>13
<1>14. CASE Len(w) = 2
  BY <1>2, <1>4, <1>9, <1>14
<1>15. CASE Len(w) = 3
  BY <1>2, <1>4, <1>10, <1>15
<1>16. CASE Len(w) = 4
  BY <1>2, <1>4, <1>11, <1>16
<1> QED
  BY <1>12, <1>13, <1>14, <1>15, <1>16

LEMMA DownIs ==
  ASSUME NEW dk, NEW b, NEW n \in Nat, NEW p \in Nat \ {0}
  PROVE  /\ Down(dk, 1, b, n, p) = Down(dk, 0, PointerIn(dk, b, n \div 1), n % 1, p)
         /\ Down(dk, 2, b, n, p) = Down(dk, 1, PointerIn(dk, b, n \div p), n % p, p)
         /\ Down(dk, 3, b, n, p) = Down(dk, 2, PointerIn(dk, b, n \div (p * p)), n % (p * p), p)
         /\ \A depth \in 0 .. 3 : Down(dk, depth, X!BLOCK_HOLE, n, p) = X!BLOCK_HOLE
<1>1. n \div 1 = n
  OBVIOUS
<1>2. Down(dk, 1, b, n, p) = Down(dk, 0, PointerIn(dk, b, n \div 1), n % 1, p)
  BY <1>1 DEF Down
<1>3. Down(dk, 2, b, n, p) = Down(dk, 1, PointerIn(dk, b, n \div p), n % p, p)
  BY DEF Down
<1>4. Down(dk, 3, b, n, p) = Down(dk, 2, PointerIn(dk, b, n \div (p * p)), n % (p * p), p)
  <2> DEFINE q == n \div (p * p)
             r == n % (p * p)
  <2>1. Down(dk, 3, b, n, p) = PointerIn(dk, PointerIn(dk, PointerIn(dk, b, q), r \div p), r % p)
    BY DEF Down
  <2> HIDE DEF q, r
  <2>2. Down(dk, 2, PointerIn(dk, b, q), r, p) =
          PointerIn(dk, PointerIn(dk, PointerIn(dk, b, q), r \div p), r % p)
    BY DEF Down
  <2>3. Down(dk, 3, b, n, p) = Down(dk, 2, PointerIn(dk, b, q), r, p)
    BY <2>1, <2>2
  <2> QED
    BY <2>3 DEF q, r
<1>5. \A i : PointerIn(dk, X!BLOCK_HOLE, i) = X!BLOCK_HOLE
  BY DEF PointerIn
<1>6. \A depth \in 0 .. 3 : Down(dk, depth, X!BLOCK_HOLE, n, p) = X!BLOCK_HOLE
  BY <1>5 DEF Down
<1> QED
  BY <1>2, <1>3, <1>4, <1>6

LEMMA WayLeads ==
  ASSUME volume \in Superblocks, NEW w \in X!Ways, NEW dk
  PROVE  BlockIn(dk, w) = EndsIn(dk, Place(w), Per)
<1> DEFINE d == Direct
           p == Per
           pp == p * p
           n == Place(w)
<1>1. d \in Nat \ {0} /\ p \in Nat \ {0} /\ pp \in Nat \ {0}
  <2>1. d \in Nat \ {0} /\ p \in Nat \ {0}
    BY Ext2Sizes
  <2> HIDE DEF d, p
  <2> QED
    BY <2>1
<1>2. Len(w) \in 1 .. 4 /\ Form(w)
  BY OwnIs, WayForm
<1>3. n = Shorter(Len(w)) + Own(w) /\ Own(w) \in Nat /\ Own(w) < AsLong(Len(w))
  BY OwnIs DEF Place
<1>4. /\ Begin(1, p) = d /\ Begin(2, p) = d + p /\ Begin(3, p) = d + p + pp
      /\ Shorter(1) = 0 /\ Shorter(2) = d /\ Shorter(3) = d + p /\ Shorter(4) = d + p + pp
      /\ AsLong(1) = d /\ AsLong(2) = p /\ AsLong(3) = pp
  BY DEF Begin, Shorter, AsLong
<1>5. EndsIn(dk, n, p) =
        IF n < d THEN PointerIn(dk, X!Inode, n)
        ELSE IF n < d + p THEN Down(dk, 1, Top(dk, 1), n - d, p)
        ELSE IF n < d + p + pp THEN Down(dk, 2, Top(dk, 2), n - (d + p), p)
        ELSE Down(dk, 3, Top(dk, 3), n - (d + p + pp), p)
  BY <1>4 DEF EndsIn
<1>6. /\ Top(dk, 1) = PointerIn(dk, X!Inode, d) /\ Top(dk, 2) = PointerIn(dk, X!Inode, d + 1)
      /\ Top(dk, 3) = PointerIn(dk, X!Inode, d + 2)
  <2>1. d + 1 - 1 = d /\ d + 2 - 1 = d + 1 /\ d + 3 - 1 = d + 2
    BY <1>1
  <2> QED
    BY <2>1 DEF Top
<1> HIDE DEF n
<1>7. CASE Len(w) = 1
  <2>1. Own(w) = w[1] /\ BlockIn(dk, w) = PointerIn(dk, X!Inode, w[1])
    BY <1>7 DEF Own, BlockIn
  <2> HIDE DEF d, p
  <2>2. n = w[1] /\ n < d
    BY <1>1, <1>3, <1>4, <1>7, <2>1
  <2> QED
    BY <1>5, <2>1, <2>2 DEF p, n
<1>8. CASE Len(w) = 2
  <2>1. /\ Own(w) = w[2] /\ w[1] = d
        /\ BlockIn(dk, w) = PointerIn(dk, PointerIn(dk, X!Inode, w[1]), w[2])
    BY <1>2, <1>8 DEF Own, BlockIn, Form
  <2>2. Down(dk, 1, Top(dk, 1), w[2], p) = PointerIn(dk, Top(dk, 1), w[2])
    BY DEF Down
  <2> HIDE DEF d, p
  <2>3. n - d = w[2] /\ ~ (n < d) /\ n < d + p
    BY <1>1, <1>3, <1>4, <1>8, <2>1
  <2> QED
    BY <1>5, <1>6, <2>1, <2>2, <2>3 DEF p, n
<1>9. CASE Len(w) = 3
  <2> DEFINE i == w[2]
             j == w[3]
  <2>1. /\ Own(w) = i * p + j /\ w[1] = d + 1 /\ i \in 0 .. p - 1 /\ j \in 0 .. p - 1
        /\ BlockIn(dk, w) = PointerIn(dk, PointerIn(dk, PointerIn(dk, X!Inode, d + 1), i), j)
    BY <1>2, <1>9 DEF Own, BlockIn, Form, Slot
  <2> DEFINE m == Own(w)
  <2>2. Down(dk, 2, Top(dk, 2), m, p) = PointerIn(dk, PointerIn(dk, Top(dk, 2), m \div p), m % p)
    BY DEF Down
  <2> HIDE DEF d, p, i, j
  <2>3. m \div p = i /\ m % p = j
    <3>1. i \in Nat
      BY <1>1, <2>1
    <3> QED
      BY <1>1, <2>1, <3>1, OneDigit
  <2> HIDE DEF m, pp
  <2>4. n - (d + p) = m /\ ~ (n < d) /\ ~ (n < d + p) /\ n < d + p + pp
    BY <1>1, <1>3, <1>4, <1>9 DEF m
  <2> QED
    BY <1>5, <1>6, <2>1, <2>2, <2>3, <2>4 DEF p, n
<1>10. CASE Len(w) = 4
  <2> DEFINE i == w[2]
             j == w[3]
             k == w[4]
             m == Own(w)
             e == j * p + k
  <2>1. /\ Own(w) = (i * p + j) * p + k /\ w[1] = d + 2
        /\ i \in 0 .. p - 1 /\ j \in 0 .. p - 1 /\ k \in 0 .. p - 1
        /\ BlockIn(dk, w) = PointerIn(dk, PointerIn(dk, PointerIn(dk, PointerIn(dk, X!Inode, d + 2), i), j), k)
    BY <1>2, <1>10 DEF Own, BlockIn, Form, Slot
  <2>2. Down(dk, 3, Top(dk, 3), m, p) =
          PointerIn(dk, PointerIn(dk, PointerIn(dk, Top(dk, 3), m \div (p * p)), (m % (p * p)) \div p),
                    (m % (p * p)) % p)
    BY DEF Down
  <2> HIDE DEF d, p, i, j, k
  <2>3. i \in Nat /\ j \in Nat /\ k \in Nat /\ j < p
    BY <1>1, <2>1
  <2>4. e \in Nat /\ e < p * p /\ e \div p = j /\ e % p = k
    <3>1. 0 \in 0 .. p - 1
      BY <1>1
    <3> QED
      BY <1>1, <2>1, <2>3, OneDigit
  <2>5. (i * p + j) * p + k = i * pp + e
    <3>1. (i * p + j) * p = (i * p) * p + j * p
      <4> DEFINE u == i * p
      <4>1. u \in Nat
        BY <1>1, <2>3
      <4> HIDE DEF u
      <4>2. (u + j) * p = u * p + j * p
        BY <1>1, <2>3, <4>1
      <4> QED
        BY <4>2 DEF u
    <3>2. (i * p) * p = i * (p * p)
      BY <1>1, <2>3
    <3>3. i * (p * p) \in Nat /\ j * p \in Nat
      BY <1>1, <2>3
    <3> QED
      BY <2>3, <3>1, <3>2, <3>3
  <2> HIDE DEF e
  <2>6. e \in 0 .. pp - 1
    BY <1>1, <2>4
  <2> HIDE DEF pp
  <2>7. (i * pp + e) \div pp = i /\ (i * pp + e) % pp = e
    BY ONLY <1>1, <2>3, <2>6, OneDigit
  <2>8. m = i * pp + e
    BY <2>1, <2>5
  <2> HIDE DEF m
  <2>9. m \div (p * p) = i /\ m % (p * p) = e
    BY <2>7, <2>8 DEF pp
  <2>10. n - (d + p + pp) = m /\ ~ (n < d) /\ ~ (n < d + p) /\ ~ (n < d + p + pp)
    BY <1>1, <1>3, <1>4, <1>10 DEF m
  <2> QED
    BY <1>5, <1>6, <2>1, <2>2, <2>4, <2>9, <2>10 DEF p, n
<1> QED
  BY <1>2, <1>7, <1>8, <1>9, <1>10

-----------------------------------------------------------------------------
(* Ext2: what is read and where a walk leads, on this disk and on any that *)
(* it turns out to be a part of.                                           *)
Extends(dk, known) == DOMAIN known \subseteq DOMAIN dk /\ \A s \in DOMAIN known : dk[s] = known[s]

Most(p) == Direct + p + p * p + p * p * p

Good(dk, b, p, count, byte, n) ==
  IF EndsIn(dk, n \div b, p) = X!BLOCK_HOLE THEN byte = X!Zero
  ELSE byte = <<EndsIn(dk, n \div b, p), n % b>> /\ EndsIn(dk, n \div b, p) < count

ByteOK(b, p, count, known, byte, n) ==
  n \div b < Most(p) /\ \A dk : Extends(dk, known) => Good(dk, b, p, count, byte, n)

WalkOK(p, w, known, n) ==
  /\ w.depth \in 0 .. 3 /\ w.block \in Nat /\ w.index \in Nat
  /\ n < Most(p)
  /\ \A dk : Extends(dk, known) => Down(dk, w.depth, w.block, w.index, p) = EndsIn(dk, n, p)

FileOK(b, p, count, st, a, w, known, read) ==
  /\ a \in [offset : Nat, length : Nat]
  /\ read \in Seq(Nat \X Nat)
  /\ st \in {"mounting", "inode", "directory", "open"} => read = <<>> /\ w = X!NoWalk
  /\ \A i \in DOMAIN read : ByteOK(b, p, count, known, read[i], a.offset + i - 1)
  /\ st = "reading" /\ w # X!NoWalk => WalkOK(p, w, known, (a.offset + Len(read)) \div b)

FileInv ==
  /\ volume \in Superblocks
  /\ FileOK(X!BlockBytes, Per, volume.block_count, step, ask, walk, disk, delivered)

LEMMA ExtendsOn ==
  ASSUME NEW x, NEW y, NEW z, Extends(x, y), Extends(y, z)
  PROVE  Extends(x, z)
  BY DEF Extends

LEMMA ByteStays ==
  ASSUME NEW b, NEW p, NEW count, NEW known, NEW grown, NEW byte, NEW n,
         ByteOK(b, p, count, known, byte, n), Extends(grown, known)
  PROVE  ByteOK(b, p, count, grown, byte, n)
  BY ExtendsOn DEF ByteOK

LEMMA HeldIs ==
  ASSUME NEW b, NEW s, NEW q, X!Holds(b, s, q)
  PROVE  /\ Extends(disk', disk)
         /\ \A dk : Extends(dk, disk') => /\ Extends(dk, disk)
                                          /\ b # X!BLOCK_HOLE => PointerIn(dk, b, s) = q
<1> DEFINE N == <<b, s>>
<1>1. /\ N \in DOMAIN disk => disk[N] = q
      /\ disk' = [place \in DOMAIN disk \cup {N} |-> IF place = N THEN q ELSE disk[place]]
  BY DEF X!Holds
<1> HIDE DEF N
<1>2. DOMAIN disk' = DOMAIN disk \cup {N} /\ disk'[N] = q
  BY <1>1
<1>3. \A e \in DOMAIN disk : disk'[e] = disk[e]
  BY <1>1
<1>4. Extends(disk', disk)
  BY <1>2, <1>3 DEF Extends
<1>5. ASSUME NEW dk, Extends(dk, disk'), b # X!BLOCK_HOLE PROVE PointerIn(dk, b, s) = q
  <2>1. N \in DOMAIN dk /\ dk[N] = q
    BY <1>2, <1>5 DEF Extends
  <2> QED
    BY <1>5, <2>1 DEF PointerIn, N
<1> QED
  BY <1>4, <1>5, ExtendsOn

LEMMA FileSizesAre ==
  ASSUME FileInv
  PROVE  /\ volume \in Superblocks /\ X!BlockBytes \in Nat \ {0} /\ Per \in Nat \ {0}
         /\ Direct \in Nat \ {0} /\ volume.block_count \in Nat
         /\ ask.offset \in Nat /\ ask.length \in Nat /\ Len(delivered) \in Nat
         /\ X!Offset \in Nat /\ X!Index \in Nat /\ X!IntoBlock \in 0 .. X!BlockBytes - 1
         /\ X!Offset = X!Index * X!BlockBytes + X!IntoBlock
<1>1. volume \in Superblocks
  BY DEF FileInv
<1>2. X!BlockBytes \in Nat \ {0} /\ Per \in Nat \ {0} /\ Direct \in Nat \ {0}
  BY <1>1, Ext2Sizes
<1>3. volume.block_count \in Nat
  BY <1>1, PartsAssumption DEF X!Ext2Assumption
<1>4. ask \in [offset : Nat, length : Nat] /\ delivered \in Seq(Nat \X Nat)
  BY DEF FileInv, FileOK
<1>5. ask.offset \in Nat /\ ask.length \in Nat /\ Len(delivered) \in Nat
  BY <1>4
<1>6. X!Offset \in Nat
  BY <1>5 DEF X!Offset
<1> DEFINE b == X!BlockBytes
           n == X!Offset
<1>7. b \in Nat \ {0} /\ n \in Nat
  BY <1>2, <1>6
<1>8. X!Index = n \div b /\ X!IntoBlock = n % b
  BY DEF X!Index, X!IntoBlock
<1> HIDE DEF b, n
<1>9. n \div b \in Nat /\ n % b \in 0 .. b - 1 /\ n = (n \div b) * b + (n % b)
  BY <1>7, DivAndMod
<1> QED
  BY <1>1, <1>2, <1>3, <1>5, <1>6, <1>8, <1>9 DEF b, n

LEMMA SameVolume ==
  ASSUME volume' = volume
  PROVE  X!BlockBytes' = X!BlockBytes /\ Per' = Per
  BY DEF X!BlockBytes, X!PerBlock, Per

LEMMA WalkOn ==
  ASSUME FileInv, step = "reading", step' = "reading", volume' = volume, ask' = ask, delivered' = delivered,
         Extends(disk', disk), WalkOK(Per, walk', disk', X!Index)
  PROVE  FileInv'
<1> DEFINE b == X!BlockBytes
           p == Per
           count == volume.block_count
<1>1. X!BlockBytes' = b /\ Per' = p /\ volume'.block_count = count
  BY SameVolume
<1>2. X!Index = (ask.offset + Len(delivered)) \div b
  BY DEF X!Index, X!Offset
<1>3. FileOK(b, p, count, step, ask, walk, disk, delivered) /\ volume \in Superblocks
  BY DEF FileInv
<1>4. WalkOK(p, walk', disk', (ask.offset + Len(delivered)) \div b)
  BY <1>2
<1> HIDE DEF b, p, count
<1>5. \A i \in DOMAIN delivered : ByteOK(b, p, count, disk', delivered[i], ask.offset + i - 1)
  BY <1>3, ByteStays DEF FileOK
<1>6. FileOK(b, p, count, step', ask', walk', disk', delivered')
  BY <1>3, <1>4, <1>5 DEF FileOK
<1> QED
  BY <1>1, <1>3, <1>6 DEF FileInv

(* The bytes to the end of a block are all of that block.                  *)
LEMMA ToTheEnd ==
  ASSUME FileInv, NEW m \in Nat, X!IntoBlock + m < X!BlockBytes
  PROVE  /\ (X!Offset + m) \div X!BlockBytes = X!Index
         /\ (X!Offset + m) % X!BlockBytes = X!IntoBlock + m
<1> DEFINE b == X!BlockBytes
           i == X!Index
           r == X!IntoBlock
<1>1. b \in Nat \ {0} /\ i \in Nat /\ r \in 0 .. b - 1 /\ X!Offset = i * b + r /\ r + m < b
  BY FileSizesAre
<1> HIDE DEF b, i, r
<1> DEFINE x == r + m
<1>2. x \in 0 .. b - 1 /\ X!Offset + m = i * b + x
  <2>1. i * b \in Nat
    BY <1>1
  <2> QED
    BY <1>1, <2>1
<1> HIDE DEF x
<1>3. (i * b + x) \div b = i /\ (i * b + x) % b = x
  BY <1>1, <1>2, OneDigit
<1> QED
  BY <1>2, <1>3 DEF b, i, r, x

LEMMA TakeIs == ASSUME FileInv PROVE X!Take \in Int /\ X!IntoBlock + X!Take <= X!BlockBytes
<1> DEFINE x == X!BlockBytes - X!IntoBlock
           y == ask.length - Len(delivered)
<1>1. x \in Int /\ y \in Int /\ X!IntoBlock \in Nat /\ X!BlockBytes \in Nat
  BY FileSizesAre
<1>2. X!Take = CHOOSE m \in {x, y} : \A n \in {x, y} : m <= n
  BY DEF X!Take, X!Min
<1>3. x + X!IntoBlock = X!BlockBytes
  BY <1>1
<1> HIDE DEF x, y
<1>4. \E m \in {x, y} : \A n \in {x, y} : m <= n
  <2>1. CASE x <= y
    BY <1>1, <2>1
  <2>2. CASE y <= x
    BY <1>1, <2>2
  <2> QED
    BY <1>1, <2>1, <2>2
<1>5. X!Take \in {x, y} /\ X!Take <= x
  BY <1>2, <1>4
<1> QED
  BY <1>1, <1>3, <1>5

LEMMA FunctionIsSeq ==
  ASSUME NEW S, NEW m \in Int, NEW f \in [1 .. m -> S]
  PROVE  f \in Seq(S) /\ 1 .. Len(f) = 1 .. m
<1>1. CASE m \in Nat
  BY <1>1
<1>2. CASE m < 0
  <2>1. 1 .. m = {} /\ 1 .. 0 = {}
    BY <1>2
  <2>2. f \in [1 .. 0 -> S]
    BY <2>1
  <2>3. f \in Seq(S) /\ Len(f) = 0
    BY <2>2
  <2> QED
    BY <2>1, <2>3
<1> QED
  BY <1>1, <1>2

LEMMA DeliverIs ==
  ASSUME FileInv, step = "reading", X!Index < Blocks,
         NEW bytes \in [1 .. X!Take -> Nat \X Nat], X!Deliver(bytes),
         \A dk : Extends(dk, disk) => \A i \in 1 .. X!Take :
           IF EndsIn(dk, X!Index, Per) = X!BLOCK_HOLE THEN bytes[i] = X!Zero
           ELSE /\ bytes[i] = <<EndsIn(dk, X!Index, Per), X!IntoBlock + i - 1>>
                /\ EndsIn(dk, X!Index, Per) < volume.block_count
  PROVE  FileInv'
<1> DEFINE b == X!BlockBytes
           p == Per
           count == volume.block_count
           many == X!Take
           past == Len(delivered)
           o == ask.offset
<1>1. /\ delivered' = delivered \o bytes /\ walk' = X!NoWalk /\ step' \in {"read", "reading"}
      /\ volume' = volume /\ ask' = ask /\ disk' = disk
  BY DEF X!Deliver
<1>2. X!BlockBytes' = b /\ Per' = p /\ volume'.block_count = count
  BY <1>1, SameVolume
<1>3. FileOK(b, p, count, step, ask, walk, disk, delivered) /\ volume \in Superblocks
  BY DEF FileInv
<1>4. many \in Int /\ past \in Nat /\ o \in Nat /\ b \in Nat \ {0} /\ X!Offset = o + past
  BY FileSizesAre, TakeIs DEF X!Offset
<1>5. Blocks = Most(p)
  BY DEF Blocks, Most
<1>6. ASSUME NEW i \in 1 .. many PROVE ByteOK(b, p, count, disk, bytes[i], o + (past + i) - 1)
  <2> DEFINE m == i - 1
  <2>1. m \in Nat /\ X!IntoBlock + m < b
    BY <1>4, TakeIs, FileSizesAre
  <2>2. /\ (X!Offset + m) \div b = X!Index /\ (X!Offset + m) % b = X!IntoBlock + m
    BY <2>1, ToTheEnd
  <2>3. X!IntoBlock + m = X!IntoBlock + i - 1 /\ X!Offset + m = o + (past + i) - 1
    <3>1. X!IntoBlock \in Nat /\ o \in Nat /\ past \in Nat /\ i \in Nat /\ X!Offset = o + past
      BY <1>4, FileSizesAre
    <3> HIDE DEF o, past
    <3> QED
      BY <3>1
  <2> DEFINE n == o + (past + i) - 1
  <2>4. n \div b = X!Index /\ n % b = X!IntoBlock + i - 1
    BY <2>2, <2>3
  <2> HIDE DEF n
  <2>5. \A dk : Extends(dk, disk) => Good(dk, b, p, count, bytes[i], n)
    BY <2>4 DEF Good
  <2>6. n \div b < Most(p)
    BY <1>5, <2>4
  <2>7. ByteOK(b, p, count, disk, bytes[i], n)
    BY <2>5, <2>6 DEF ByteOK
  <2> QED
    BY <2>7 DEF n
<1>7. delivered \in Seq(Nat \X Nat) /\ bytes \in Seq(Nat \X Nat) /\ 1 .. Len(bytes) = 1 .. many
  <2>1. delivered \in Seq(Nat \X Nat)
    BY <1>3 DEF FileOK
  <2>2. bytes \in Seq(Nat \X Nat) /\ 1 .. Len(bytes) = 1 .. many
    <3> HIDE DEF many
    <3>1. bytes \in [1 .. many -> Nat \X Nat]
      BY DEF many
    <3> QED
      BY <1>4, <3>1, FunctionIsSeq
  <2> QED
    BY <2>1, <2>2
<1> HIDE DEF b, p, count, many, past, o
<1>8. \A i \in DOMAIN delivered' : ByteOK(b, p, count, disk, delivered'[i], o + i - 1)
  <2> TAKE i \in DOMAIN delivered'
  <2> DEFINE read == delivered'
  <2>1. read = delivered \o bytes
    BY <1>1
  <2>2. i \in DOMAIN read
    OBVIOUS
  <2> HIDE DEF read
  <2>3. i \in 1 .. past + Len(bytes) /\ past = Len(delivered) /\ Len(bytes) \in Nat
    BY <1>7, <2>1, <2>2 DEF past
  <2>4. CASE i <= past
    <3>1. i \in DOMAIN delivered /\ read[i] = delivered[i]
      BY <1>4, <1>7, <2>1, <2>3, <2>4
    <3>2. ByteOK(b, p, count, disk, delivered[i], o + i - 1)
      BY <1>3, <3>1 DEF FileOK, o
    <3> QED
      BY <3>1, <3>2 DEF read
  <2>5. CASE i > past
    <3> DEFINE j == i - past
    <3>1. j \in 1 .. Len(bytes) /\ past + j = i
      <4>1. past \in Nat
        BY <1>4
      <4> QED
        BY <2>3, <2>5, <4>1
    <3>2. j \in 1 .. many
      BY <1>7, <3>1
    <3>3. read[i] = bytes[j]
      BY <1>4, <1>7, <2>1, <2>3, <2>5
    <3> HIDE DEF j
    <3>4. ByteOK(b, p, count, disk, bytes[j], o + (past + j) - 1)
      BY <1>6, <3>2
    <3> QED
      BY <3>1, <3>3, <3>4 DEF read
  <2> QED
    BY <1>4, <2>3, <2>4, <2>5
<1>9. delivered' \in Seq(Nat \X Nat)
  BY <1>1, <1>7
<1>10. ask \in [offset : Nat, length : Nat]
  BY <1>3 DEF FileOK
<1>11. FileOK(b, p, count, step', ask', walk', disk', delivered')
  BY <1>1, <1>8, <1>9, <1>10 DEF FileOK, o
<1> QED
  BY <1>1, <1>2, <1>3, <1>11 DEF FileInv

(* Where each way begins, as the code counts it.                           *)
LEMMA BeforeIs ==
  ASSUME volume \in Superblocks
  PROVE  /\ \A depth \in 1 .. 3 : X!Before(depth) = Begin(depth, Per) /\ Begin(depth, Per) \in Nat
         /\ Begin(1, Per) = Direct /\ X!Before(4) = Most(Per)
         /\ X!Span(0) = 1 /\ X!Span(1) = Per /\ X!Span(2) = Per * Per
         /\ \A depth \in 0 .. 2 : X!Span(depth) \in Nat \ {0}
<1> DEFINE p == Per
           pp == p * p
           ppp == p * p * p
           d == Direct
<1>1. p \in Nat \ {0} /\ d \in Nat \ {0}
  BY Ext2Sizes
<1>2. X!Span(0) = 1 /\ X!Span(1) = p /\ X!Span(2) = pp /\ X!Span(3) = ppp
  BY DEF X!Span, Per
<1>3. /\ X!Before(1) = d + 0 /\ X!Before(2) = d + X!Span(1) /\ X!Before(3) = d + (X!Span(1) + X!Span(2))
      /\ X!Before(4) = d + (X!Span(1) + X!Span(2) + X!Span(3))
  BY DEF X!Before, Direct
<1>4. Begin(1, p) = d /\ Begin(2, p) = d + p /\ Begin(3, p) = d + p + pp /\ Most(p) = d + p + pp + ppp
  BY DEF Begin, Most
<1> HIDE DEF p, d
<1>5. pp \in Nat \ {0} /\ ppp \in Nat
  <2>1. pp \in Nat \ {0}
    BY <1>1
  <2>2. ppp = pp * p
    OBVIOUS
  <2> HIDE DEF pp
  <2>3. pp * p \in Nat
    BY <1>1, <2>1
  <2> QED
    BY <2>1, <2>2, <2>3
<1> HIDE DEF pp, ppp
<1>6. X!Before(4) = Most(p)
  BY <1>1, <1>2, <1>3, <1>4, <1>5
<1>7. \A depth \in 1 .. 3 : X!Before(depth) = Begin(depth, p) /\ Begin(depth, p) \in Nat
  <2> TAKE depth \in 1 .. 3
  <2>1. CASE depth = 1 BY <1>1, <1>3, <1>4, <2>1
  <2>2. CASE depth = 2 BY <1>1, <1>2, <1>3, <1>4, <2>2
  <2>3. CASE depth = 3 BY <1>1, <1>2, <1>3, <1>4, <1>5, <2>3
  <2> QED
    BY <2>1, <2>2, <2>3
<1>8. \A depth \in 0 .. 2 : X!Span(depth) \in Nat \ {0}
  <2> TAKE depth \in 0 .. 2
  <2>1. CASE depth = 0 BY <1>2, <2>1
  <2>2. CASE depth = 1 BY <1>1, <1>2, <2>2
  <2>3. CASE depth = 2 BY <1>2, <1>5, <2>3
  <2> QED
    BY <2>1, <2>2, <2>3
<1> QED
  BY <1>2, <1>4, <1>6, <1>7, <1>8 DEF p, pp, d

LEMMA DirectResolved ==
  ASSUME FileInv, NEW q \in Pointers, X!resolve_direct(q)
  PROVE  FileInv'
<1>1. /\ step = "reading" /\ step' = step /\ volume' = volume /\ ask' = ask /\ delivered' = delivered
      /\ X!Index < Direct
      /\ X!Holds(X!Inode, X!Index, q)
      /\ walk' = [block |-> q, depth |-> 0, index |-> 0]
  BY DEF X!resolve_direct, X!Resolving, Direct
<1>2. Extends(disk', disk) /\ \A dk : Extends(dk, disk') => PointerIn(dk, X!Inode, X!Index) = q
  <2>1. X!Inode # X!BLOCK_HOLE
    BY DEF X!Inode, X!BLOCK_HOLE
  <2> QED
    BY <1>1, <2>1, HeldIs
<1>3. ASSUME NEW dk, Extends(dk, disk') PROVE Down(dk, 0, q, 0, Per) = EndsIn(dk, X!Index, Per)
  BY <1>1, <1>2, <1>3 DEF Down, EndsIn
<1>4. X!Index < Most(Per)
  <2>1. Most(Per) = Blocks /\ Blocks \in Nat /\ X!Index \in Nat /\ Direct \in Nat
    BY FileSizesAre, Levels DEF Most, Blocks
  <2>2. Shorter(4) \in Nat /\ AsLong(4) \in Nat /\ Shorter(1) + AsLong(1) <= Shorter(4) /\ Shorter(1) = 0
        /\ Shorter(4) + AsLong(4) = Blocks
    BY FileSizesAre, Levels
  <2>3. AsLong(1) = Direct
    BY DEF AsLong
  <2> QED
    BY <1>1, <2>1, <2>2, <2>3
<1>5. WalkOK(Per, walk', disk', X!Index)
  <2>1. q \in Nat
    BY Ext2Numbers
  <2> QED
    BY <1>1, <1>3, <1>4, <2>1 DEF WalkOK
<1> QED
  BY <1>1, <1>2, <1>5, WalkOn

LEMMA IndirectResolved ==
  ASSUME FileInv, NEW depth \in 1 .. 3, NEW q \in Pointers, X!resolve_indirect(depth, q)
  PROVE  FileInv'
<1> DEFINE p == Per
           n == X!Index
           m == X!Index - X!Before(depth)
<1>1. /\ step = "reading" /\ step' = step /\ volume' = volume /\ ask' = ask /\ delivered' = delivered
      /\ n >= Direct
      /\ n < X!Before(depth + 1) /\ \A less \in 1 .. depth - 1 : ~ (n < X!Before(less + 1))
      /\ X!Holds(X!Inode, Direct + depth - 1, q)
      /\ walk' = [block |-> q, depth |-> depth, index |-> m]
  BY DEF X!resolve_indirect, X!Resolving, X!Reaches, Direct
<1>2. Extends(disk', disk) /\ \A dk : Extends(dk, disk') => Top(dk, depth) = q
  <2>1. X!Inode # X!BLOCK_HOLE
    BY DEF X!Inode, X!BLOCK_HOLE
  <2> QED
    BY <1>1, <2>1, HeldIs DEF Top
<1>3. /\ \A e \in 1 .. 3 : X!Before(e) = Begin(e, p) /\ Begin(e, p) \in Nat
      /\ Begin(1, p) = Direct /\ X!Before(4) = Most(p) /\ n \in Nat
  BY FileSizesAre, BeforeIs
<1>4. Begin(1, p) <= Begin(2, p) /\ Begin(2, p) <= Begin(3, p) /\ Begin(3, p) <= Most(p) /\ Most(p) \in Nat
  <2>1. /\ Shorter(2) <= Shorter(3) /\ Shorter(3) <= Shorter(4) /\ Shorter(4) <= Blocks /\ Blocks \in Nat
    <3>1. /\ \A i \in 1 .. 4 : Shorter(i) \in Nat /\ AsLong(i) \in Nat
          /\ \A i \in 1 .. 3 : Shorter(i) + AsLong(i) = Shorter(i + 1)
          /\ Shorter(4) + AsLong(4) = Blocks /\ Blocks \in Nat
      BY FileSizesAre, Levels
    <3>2. Shorter(2) + AsLong(2) = Shorter(3) /\ Shorter(3) + AsLong(3) = Shorter(4)
      BY <3>1
    <3>3. /\ Shorter(2) \in Nat /\ Shorter(3) \in Nat /\ Shorter(4) \in Nat
          /\ AsLong(2) \in Nat /\ AsLong(3) \in Nat /\ AsLong(4) \in Nat
      BY <3>1
    <3> QED
      BY <3>1, <3>2, <3>3
  <2>2. Shorter(2) = Begin(1, p) /\ Shorter(3) = Begin(2, p) /\ Shorter(4) = Begin(3, p) /\ Blocks = Most(p)
    BY DEF Shorter, Begin, Blocks, Most
  <2> QED
    BY <2>1, <2>2
<1>5. LET B(e) == Begin(e, p) IN
      /\ depth = 1 => B(1) <= n /\ n < B(2)
      /\ depth = 2 => B(2) <= n /\ n < B(3)
      /\ depth = 3 => B(3) <= n /\ n < Most(p)
  <2>1. CASE depth = 1
    BY <1>1, <1>3, <2>1
  <2>2. CASE depth = 2
    <3>1. ~ (n < X!Before(1 + 1))
      BY <1>1, <2>2
    <3> QED
      BY <1>1, <1>3, <2>2, <3>1
  <2>3. CASE depth = 3
    <3>1. ~ (n < X!Before(2 + 1))
      BY <1>1, <2>3
    <3> QED
      BY <1>1, <1>3, <2>3, <3>1
  <2> QED
    BY <2>1, <2>2, <2>3
<1>6. n < Most(p) /\ m = n - Begin(depth, p) /\ m \in Nat
  <2>1. m = n - Begin(depth, p)
    BY <1>3
  <2> HIDE DEF n, m
  <2>2. CASE depth = 1 BY <1>3, <1>4, <1>5, <2>1, <2>2
  <2>3. CASE depth = 2 BY <1>3, <1>4, <1>5, <2>1, <2>3
  <2>4. CASE depth = 3 BY <1>3, <1>4, <1>5, <2>1, <2>4
  <2> QED
    BY <2>2, <2>3, <2>4
<1> HIDE DEF n, m
<1>7. ASSUME NEW dk, Extends(dk, disk') PROVE Down(dk, depth, q, m, p) = EndsIn(dk, n, p)
  <2>1. Top(dk, depth) = q
    BY <1>2, <1>7
  <2>2. ~ (n < Direct)
    BY <1>1, <1>3, FileSizesAre
  <2>3. CASE depth = 1
    <3>1. EndsIn(dk, n, p) = Down(dk, 1, Top(dk, 1), n - Begin(1, p), p)
      BY <1>5, <2>2, <2>3 DEF EndsIn
    <3> QED
      BY <1>6, <2>1, <2>3, <3>1
  <2>4. CASE depth = 2
    <3>1. ~ (n < Begin(2, p)) /\ n < Begin(3, p)
      BY <1>3, <1>5, <2>4
    <3>2. EndsIn(dk, n, p) = Down(dk, 2, Top(dk, 2), n - Begin(2, p), p)
      BY <2>2, <3>1 DEF EndsIn
    <3> QED
      BY <1>6, <2>1, <2>4, <3>2
  <2>5. CASE depth = 3
    <3>1. ~ (n < Begin(2, p)) /\ ~ (n < Begin(3, p))
      BY <1>3, <1>4, <1>5, <2>5
    <3>2. EndsIn(dk, n, p) = Down(dk, 3, Top(dk, 3), n - Begin(3, p), p)
      BY <2>2, <3>1 DEF EndsIn
    <3> QED
      BY <1>6, <2>1, <2>5, <3>2
  <2> QED
    BY <2>3, <2>4, <2>5
<1>8. WalkOK(p, walk', disk', n)
  <2>1. q \in Nat
    BY Ext2Numbers
  <2>2. walk'.depth = depth /\ walk'.block = q /\ walk'.index = m
    BY <1>1
  <2> QED
    BY <1>6, <1>7, <2>1, <2>2 DEF WalkOK
<1> QED
  BY <1>1, <1>2, <1>8, WalkOn DEF n

LEMMA WalkIs ==
  ASSUME FileInv, step = "reading", walk # X!NoWalk
  PROVE  WalkOK(Per, walk, disk, X!Index)
  BY DEF FileInv, FileOK, X!Index, X!Offset

LEMMA Descended ==
  ASSUME FileInv, NEW q \in Pointers, X!descend(q)
  PROVE  FileInv'
<1> DEFINE p == Per
           n == X!Index
           depth == walk.depth
           b == walk.block
           i == walk.index
           span == X!Span(depth - 1)
<1>1. /\ step = "reading" /\ step' = step /\ volume' = volume /\ ask' = ask /\ delivered' = delivered
      /\ depth > 0 /\ X!InVolume(b)
      /\ X!Holds(b, i \div span, q)
      /\ walk' = [block |-> q, depth |-> depth - 1, index |-> i % span]
  BY DEF X!descend
<1>2. WalkOK(p, walk, disk, n)
  <2>1. walk # X!NoWalk
    BY <1>1 DEF X!NoWalk
  <2> QED
    BY <1>1, <2>1, WalkIs
<1>3. b # X!BLOCK_HOLE
  BY <1>1 DEF X!InVolume, X!BLOCK_HOLE
<1>4. /\ depth \in 1 .. 3 /\ b \in Nat /\ i \in Nat /\ n < Most(p)
      /\ \A dk : Extends(dk, disk) => Down(dk, depth, b, i, p) = EndsIn(dk, n, p)
  BY <1>1, <1>2 DEF WalkOK
<1>5. /\ Extends(disk', disk)
      /\ \A dk : Extends(dk, disk') => Extends(dk, disk) /\ PointerIn(dk, b, i \div span) = q
  BY <1>1, <1>3, HeldIs
<1>6. /\ X!Span(0) = 1 /\ X!Span(1) = p /\ X!Span(2) = p * p /\ span \in Nat \ {0} /\ p \in Nat \ {0}
  <2>1. depth - 1 \in 0 .. 2
    BY <1>4
  <2> HIDE DEF depth
  <2> QED
    BY <2>1, BeforeIs, FileSizesAre
<1>7. i % span \in Nat
  <2> HIDE DEF i, span
  <2> QED
    BY <1>4, <1>6
<1> HIDE DEF p, n, depth, b, i
<1>8. ASSUME NEW dk, Extends(dk, disk') PROVE Down(dk, depth - 1, q, i % span, p) = EndsIn(dk, n, p)
  <2>1. Down(dk, depth, b, i, p) = EndsIn(dk, n, p) /\ PointerIn(dk, b, i \div span) = q
    BY <1>4, <1>5, <1>8
  <2>2. /\ Down(dk, 1, b, i, p) = Down(dk, 0, PointerIn(dk, b, i \div 1), i % 1, p)
        /\ Down(dk, 2, b, i, p) = Down(dk, 1, PointerIn(dk, b, i \div p), i % p, p)
        /\ Down(dk, 3, b, i, p) = Down(dk, 2, PointerIn(dk, b, i \div (p * p)), i % (p * p), p)
    <3>1. i \in Nat /\ p \in Nat \ {0}
      BY <1>4, <1>6
    <3> QED
      BY ONLY <3>1, DownIs
  <2>3. CASE depth = 1
    <3>1. depth - 1 = 0 /\ span = 1
      BY <1>6, <2>3
    <3> HIDE DEF span
    <3> QED
      BY <2>1, <2>2, <2>3, <3>1
  <2>4. CASE depth = 2
    <3>1. depth - 1 = 1 /\ span = p
      BY <1>6, <2>4
    <3> HIDE DEF span
    <3> QED
      BY <2>1, <2>2, <2>4, <3>1
  <2>5. CASE depth = 3
    <3>1. depth - 1 = 2 /\ span = p * p
      BY <1>6, <2>5
    <3> HIDE DEF span
    <3> QED
      BY <2>1, <2>2, <2>5, <3>1
  <2> QED
    BY <1>4, <2>3, <2>4, <2>5
<1>9. WalkOK(p, walk', disk', n)
  <2>1. q \in Nat /\ depth - 1 \in 0 .. 3
    BY <1>4, Ext2Numbers
  <2>2. walk'.depth = depth - 1 /\ walk'.block = q /\ walk'.index = i % span
    BY <1>1
  <2> HIDE DEF span
  <2> QED
    BY <1>4, <1>7, <1>8, <2>1, <2>2 DEF WalkOK
<1> QED
  BY <1>1, <1>5, <1>9, WalkOn DEF p, n

LEMMA HoleRead == ASSUME FileInv, X!hole PROVE FileInv'
<1> DEFINE bytes == [i \in 1 .. X!Take |-> X!Zero]
<1>1. step = "reading" /\ walk # X!NoWalk /\ walk.block = X!BLOCK_HOLE /\ X!Deliver(bytes)
  BY DEF X!hole
<1>2. WalkOK(Per, walk, disk, X!Index)
  BY <1>1, WalkIs
<1>3. X!Index < Blocks
  BY <1>2 DEF WalkOK, Most, Blocks
<1>4. \A dk : Extends(dk, disk) => EndsIn(dk, X!Index, Per) = X!BLOCK_HOLE
  <2>1. walk.depth \in 0 .. 3 /\ walk.index \in Nat /\ Per \in Nat \ {0}
    BY <1>2, FileSizesAre DEF WalkOK
  <2> TAKE dk
  <2> HAVE Extends(dk, disk)
  <2>2. Down(dk, walk.depth, X!BLOCK_HOLE, walk.index, Per) = EndsIn(dk, X!Index, Per)
    BY <1>1, <1>2 DEF WalkOK
  <2>3. Down(dk, walk.depth, X!BLOCK_HOLE, walk.index, Per) = X!BLOCK_HOLE
    BY <2>1, DownIs
  <2> QED
    BY <2>2, <2>3
<1>5. bytes \in [1 .. X!Take -> Nat \X Nat] /\ \A i \in 1 .. X!Take : bytes[i] = X!Zero
  <2>1. X!Zero \in Nat \X Nat
    BY DEF X!Zero, X!BLOCK_HOLE
  <2> QED
    BY <2>1
<1> HIDE DEF bytes
<1> QED
  BY <1>1, <1>3, <1>4, <1>5, DeliverIs

LEMMA BlockRead == ASSUME FileInv, X!read_block PROVE FileInv'
<1> DEFINE bytes == [i \in 1 .. X!Take |-> <<walk.block, X!IntoBlock + i - 1>>]
<1>1. step = "reading" /\ walk.depth = 0 /\ X!InVolume(walk.block) /\ X!Deliver(bytes)
  BY DEF X!read_block
<1>2. walk # X!NoWalk
  BY <1>1 DEF X!NoWalk
<1>3. WalkOK(Per, walk, disk, X!Index)
  BY <1>1, <1>2, WalkIs
<1>4. X!Index < Blocks
  BY <1>3 DEF WalkOK, Most, Blocks
<1>5. walk.block \in Nat /\ walk.block # X!BLOCK_HOLE /\ walk.block < volume.block_count
  BY <1>1, <1>3, FileSizesAre DEF X!InVolume, WalkOK, X!BLOCK_HOLE
<1>6. \A dk : Extends(dk, disk) => EndsIn(dk, X!Index, Per) = walk.block
  BY <1>1, <1>3 DEF WalkOK, Down
<1>7. /\ bytes \in [1 .. X!Take -> Nat \X Nat]
      /\ \A i \in 1 .. X!Take : bytes[i] = <<walk.block, X!IntoBlock + i - 1>>
  <2>1. X!BlockBytes \in Nat /\ X!IntoBlock \in 0 .. X!BlockBytes - 1 /\ X!Take \in Int
    BY FileSizesAre, TakeIs
  <2>2. X!IntoBlock \in Nat
    BY <2>1
  <2>3. \A i \in 1 .. X!Take : X!IntoBlock + i - 1 \in Nat
    BY ONLY <2>1, <2>2
  <2> QED
    BY <1>5, <2>3
<1> HIDE DEF bytes
<1> QED
  BY <1>1, <1>4, <1>5, <1>6, <1>7, DeliverIs

(* The other steps touch no read.                                          *)
LEMMA ReadStays ==
  ASSUME FileInv, volume' = volume, walk' = walk, disk' = disk, delivered' = delivered,
         \/ ask' = ask
         \/ step = "open" /\ ask' \in [offset : Nat, length : Nat],
         \/ step' = step \/ step' = "refused"
         \/ step \in {"mounting", "inode", "directory", "open"} /\ step' # "read"
  PROVE  FileInv'
<1> DEFINE b == X!BlockBytes
           p == Per
           count == volume.block_count
<1>1. X!BlockBytes' = b /\ Per' = p /\ volume'.block_count = count
  BY SameVolume
<1>2. FileOK(b, p, count, step, ask, walk, disk, delivered) /\ volume \in Superblocks
  BY DEF FileInv
<1> HIDE DEF b, p, count
<1>3. FileOK(b, p, count, step', ask', walk', disk', delivered')
  <2>1. CASE step = "open"
    <3>1. delivered = <<>> /\ walk = X!NoWalk /\ ask' \in [offset : Nat, length : Nat]
      BY <1>2, <2>1 DEF FileOK
    <3> QED
      BY <1>2, <3>1 DEF FileOK
  <2>2. CASE step # "open"
    <3>1. ask' = ask
      BY <2>2
    <3>2. step' \in {"mounting", "inode", "directory", "open"} =>
            step \in {"mounting", "inode", "directory", "open"}
      OBVIOUS
    <3>3. step' = "reading" => step = "reading" \/ walk = X!NoWalk
      BY <1>2 DEF FileOK
    <3> QED
      BY <1>2, <3>1, <3>2, <3>3 DEF FileOK
  <2> QED
    BY <2>1, <2>2
<1> QED
  BY <1>1, <1>2, <1>3 DEF FileInv

LEMMA FileNext == ASSUME FileInv, X!Next PROVE FileInv'
<1>1. CASE X!ext2_mount
  BY <1>1, ReadStays DEF X!ext2_mount
<1>2. ASSUME NEW t, NEW directory, NEW size, X!read_inode(t, directory, size) PROVE FileInv'
  BY <1>2, ReadStays DEF X!read_inode
<1>3. ASSUME X!Refuse PROVE FileInv'
  BY <1>3, ReadStays DEF X!Refuse
<1>4. ASSUME NEW r, X!next_record(r) \/ X!name_found(r) PROVE FileInv'
  BY <1>4, ReadStays DEF X!next_record, X!name_found, X!Entry
<1>5. ASSUME NEW a \in Asks, X!ext2_read(a) PROVE FileInv'
  <2>1. a \in [offset : Nat, length : Nat]
    BY PartsAssumption DEF X!Ext2Assumption
  <2> QED
    BY <1>5, <2>1, ReadStays DEF X!ext2_read
<1>6. ASSUME NEW q \in Pointers,
             \/ X!resolve_direct(q)
             \/ \E depth \in 1 .. 3 : X!resolve_indirect(depth, q)
             \/ X!descend(q)
      PROVE  FileInv'
  BY <1>6, DirectResolved, IndirectResolved, Descended
<1>7. CASE X!hole \/ X!read_block
  BY <1>7, HoleRead, BlockRead
<1> QED
  BY <1>1, <1>2, <1>3, <1>4, <1>5, <1>6, <1>7
     DEF X!Next, X!read_inode_refused, X!not_found, X!read_refused

LEMMA FileInit == X!Init => FileInv
<1> SUFFICES ASSUME X!Init PROVE FileInv
  OBVIOUS
<1>1. /\ volume \in Superblocks /\ step = "mounting" /\ delivered = <<>> /\ walk = X!NoWalk
      /\ ask \in [offset : Nat, length : Nat]
  BY DEF X!Init
<1> QED
  BY <1>1 DEF FileInv, FileOK

LEMMA ReadsAreOfTheFile == FileInv => X!Ext2BytesAreTheFiles
<1> SUFFICES ASSUME FileInv, NEW i \in DOMAIN delivered
             PROVE  LET n == ask.offset + i - 1
                        block == X!BlockAt(X!WayTo(n \div X!BlockBytes))
                    IN IF block = X!BLOCK_HOLE THEN delivered[i] = X!Zero
                       ELSE delivered[i] = <<block, n % X!BlockBytes>> /\ block < volume.block_count
  BY DEF X!Ext2BytesAreTheFiles
<1> DEFINE n == ask.offset + i - 1
           b == X!BlockBytes
           p == Per
           m == n \div b
           w == X!WayTo(m)
<1>1. ByteOK(b, p, volume.block_count, disk, delivered[i], n)
  BY DEF FileInv, FileOK
<1>2. m \in 0 .. Blocks - 1
  <2>1. i \in Nat \ {0}
    <3>1. delivered \in Seq(Nat \X Nat)
      BY DEF FileInv, FileOK
    <3> QED
      BY <3>1
  <2>2. n \in Nat
    BY <2>1, FileSizesAre
  <2>3. b \in Nat \ {0} /\ Blocks \in Nat
    BY FileSizesAre, Levels
  <2>4. m < Blocks
    BY <1>1 DEF ByteOK, Most, Blocks
  <2> HIDE DEF n, b
  <2>5. m \in Nat
    BY <2>2, <2>3, DivAndMod
  <2> HIDE DEF m
  <2> QED
    BY <2>3, <2>4, <2>5
<1>3. w \in X!Ways /\ Place(w) = m
  BY <1>2, FileSizesAre, WayToIs
<1>4. X!BlockAt(w) = BlockIn(disk, w)
  BY <1>3, FileSizesAre, OwnIs, BlockAtIs
<1>5. BlockIn(disk, w) = EndsIn(disk, m, p)
  BY <1>3, FileSizesAre, WayLeads
<1>6. Good(disk, b, p, volume.block_count, delivered[i], n)
  <2>1. Extends(disk, disk)
    BY DEF Extends
  <2> QED
    BY <1>1, <2>1 DEF ByteOK
<1> HIDE DEF n, b, w
<1>7. IF EndsIn(disk, m, p) = X!BLOCK_HOLE THEN delivered[i] = X!Zero
      ELSE delivered[i] = <<EndsIn(disk, m, p), n % b>> /\ EndsIn(disk, m, p) < volume.block_count
  BY <1>6 DEF Good
<1>8. X!BlockAt(w) = EndsIn(disk, m, p)
  BY <1>4, <1>5
<1>9. IF X!BlockAt(w) = X!BLOCK_HOLE THEN delivered[i] = X!Zero
      ELSE delivered[i] = <<X!BlockAt(w), n % b>> /\ X!BlockAt(w) < volume.block_count
  BY <1>7, <1>8
<1> QED
  BY <1>9 DEF n, b, w

(* A read that succeeds delivers the bytes of the file, each from the      *)
(* block the inode's tree has in that place, zeroes where it has none,     *)
(* whatever the disk holds, the size of a block and of the file: the walk  *)
(* of resolve_block and the way counted out lead to the same block.        *)
THEOREM Ext2ReadsAreTheFiles == Spec => []Ext2BytesAreTheFiles
<1>1. Init => FileInv
  BY FileInit DEF Init
<1>2. FileInv /\ [Next]_vars => FileInv'
  <2> SUFFICES ASSUME FileInv, [Next]_vars PROVE FileInv'
    OBVIOUS
  <2>1. CASE X!Next
    BY <2>1, FileNext
  <2>2. CASE UNCHANGED ext2_vars
    <3>1. UNCHANGED <<step, volume, ask, walk, disk, delivered>>
      BY <2>2 DEF ext2_vars
    <3> QED
      BY <3>1, ReadStays
  <2> QED
    BY <2>1, <2>2 DEF Next, vars
<1>3. FileInv => Ext2BytesAreTheFiles
  BY ReadsAreOfTheFile DEF Ext2BytesAreTheFiles
<1> QED
  BY <1>1, <1>2, <1>3, PTL DEF Spec
=============================================================================
