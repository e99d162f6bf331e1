----------------------------- MODULE MemoryKinds -----------------------------
(***************************************************************************)
(* The kinds of memory of src/memory/map.h, numbered as the enum numbers   *)
(* them: where two claims meet on one byte the larger number wins, so the  *)
(* order is behaviour and not decoration.                                  *)
(***************************************************************************)
EXTENDS Integers

USABLE                 == 0
BOOTLOADER_RECLAIMABLE == 1
ACPI_RECLAIMABLE       == 2
ACPI_NVS               == 3
FRAMEBUFFER            == 4
KERNEL                 == 5
RESERVED               == 6
BAD                    == 7

Kind == USABLE .. BAD

(* A byte no region covers: memory_map_find answers NULL for it.           *)
NOBODY == -1

Verdict == Kind \cup {NOBODY}

(* The larger of two verdicts: the rule interval_kind applies.             *)
Stricter(v, w) == IF w > v THEN w ELSE v
=============================================================================
