--------------------------------- MODULE Boot ---------------------------------
(***************************************************************************)
(* boot_core (src/boot/main.c): the order in which the loader looks at     *)
(* memory, takes some, fills it and describes it to the kernel.            *)
(*                                                                         *)
(* Memory is one cell per page.  "ledger" is the memory map seen as        *)
(* MemoryLedger sees it, one verdict per page: module MemoryMap shows that *)
(* the real map implements it, and that its regions are the maximal runs   *)
(* of equal verdicts whenever it is finalized, which is how it is read     *)
(* here.  "holds" is what has been written to each page and by whom: no    *)
(* such table exists in the code, which is why nothing in it can notice    *)
(* one write landing on another.                                           *)
(***************************************************************************)
EXTENDS MemoryKinds, Sequences, FiniteSets, FiniteSetsExt

CONSTANTS
  AddressMax,    \* pages of physical memory
  Floor,         \* LOADER_ARENA_FLOOR, KERNEL_LIMIT_LOW: one megabyte
  Ceiling,       \* LOADER_ARENA_CEILING: one gigabyte
  Limit,         \* LOADER_ADDRESS_LIMIT, KERNEL_LIMIT_HIGH: four gigabytes
  ArenaPages,    \* LOADER_ARENA_BYTES
  MaxRegions,    \* MEMORY_MAP_MAX_REGIONS
  Snapshots,     \* the memory maps a firmware may describe
  Kernels,       \* the segment layouts elf_parse accepts
  ModuleSizes,   \* the sizes of module files
  MaxModules,    \* CONFIG_MAX_MODULES
  TablePages,    \* pages build_kernel_tables may need
  MaxTaken       \* bound: pages UEFI firmware allocates while we run

Page == 0 .. AddressMax - 1
Segment == [base : Page, pages : 1 .. AddressMax]

(* No two segments elf_parse accepts overlap; see ElfFile.                 *)
Apart(s, t) == s.base + s.pages <= t.base \/ t.base + t.pages <= s.base

ASSUME BootAssumption ==
  /\ {AddressMax, ArenaPages, MaxRegions} \subseteq Nat \ {0}
  /\ {Floor, Ceiling, Limit, MaxModules, MaxTaken} \subseteq Nat
  /\ Floor <= Ceiling /\ Ceiling <= Limit /\ Limit <= AddressMax
  /\ Snapshots \subseteq [Page -> Verdict]
  /\ Kernels \subseteq Seq(Segment) \ {<<>>}
  /\ \A image \in Kernels : \A i, j \in DOMAIN image : i # j => Apart(image[i], image[j])
  /\ ModuleSizes \subseteq Nat \ {0}
  /\ TablePages \subseteq Nat \ {0}

VARIABLES
  pc,          \* where boot_core is
  snapshot,    \* the map as fw_mem_snapshot returned it (history)
  ledger,      \* the map now: "memory"
  complete,    \* no memory_map_add failed and no finalize truncated
  arena_base,  \* where the arena is, -1 before it is placed
  used,        \* loader_arena.used
  modules,     \* modules[0 .. module_count - 1]
  kernel,      \* kernel_image.segments
  copied,      \* segments elf_load has copied
  handed,      \* the memory map response, <<>> until there is one
  holds,       \* what was last written to each page
  taken        \* pages the firmware allocated since the snapshot

vars == <<pc, snapshot, ledger, complete, arena_base, used, modules, kernel,
          copied, handed, holds, taken>>

loaded == <<snapshot, ledger, complete, arena_base>>

NOTHING == <<"nothing", 0>>
Owner == {NOTHING} \cup ({"module", "kernel", "answer", "table"} \X Nat)

Stages == {"snapshot", "arena", "disk", "mount", "configuration", "modules",
           "kernel", "copy", "claim", "answer", "tables", "entered", "stopped"}

-----------------------------------------------------------------------------
(* Reading the map.                                                        *)

Pages(base, n) == {b \in Page : base <= b /\ b < base + n}

(* How many regions a finalized map with these verdicts has: it counts the *)
(* pages at which a region starts.                                         *)
RegionCount(l) ==
  Cardinality({b \in Page : l[b] # NOBODY /\ (b = 0 \/ l[b - 1] # l[b])})

(* memory_map_find_free_high, as memory map's FindFreeExact describes it.  *)
ArenaChoices ==
  {base \in 0 .. Ceiling - ArenaPages :
     \A b \in Pages(base, ArenaPages) : ledger[b] = USABLE}

(* The highest choice, and it must not be below the floor.                 *)
ArenaPlaceable == \E base \in ArenaChoices : base = Max(ArenaChoices) /\ base >= Floor

Lowest(image) == Min({image[i].base : i \in DOMAIN image})
Highest(image) == Max({image[i].base + image[i].pages : i \in DOMAIN image})

(* Slip: only the first segment is thought of as the kernel.               *)
FirstSegment(image) == Pages(image[1].base, image[1].pages)

(* Everything from the lowest segment to the end of the highest.           *)
KernelSpan(image) == Pages(Lowest(image), Highest(image) - Lowest(image))

(* Slip: the first page decides for the whole image.                       *)
StartsInUsable(image) ==
  Lowest(image) \in Page /\ ledger[Lowest(image)] = USABLE

(* memory_map_find of the lowest address, and the end of that one region.  *)
InOneUsableRun(image) ==
  /\ Highest(image) <= AddressMax
  /\ \A b \in KernelSpan(image) : ledger[b] = USABLE

(* segment_within, for the placement load_kernel asks for.                 *)
segment_within(segment) ==
  Floor <= segment.base /\ segment.base + segment.pages <= Limit

(* Slip: each segment is checked as its turn comes.                        *)
FirstWithin(image) == segment_within(image[1])

AllWithin(image) == \A i \in DOMAIN image : segment_within(image[i])

-----------------------------------------------------------------------------
(* Writing memory.                                                         *)

Written(pages, owner) == [b \in Page |-> IF b \in pages THEN owner ELSE holds[b]]

HasRoom(n) == used + n <= ArenaPages

(* Slip: the cursor is moved before the last page.                         *)
CursorAfterShort(n) == used + n - 1
CursorAfter(n) == used + n

NextInArena(n) == Pages(arena_base + used, n)

-----------------------------------------------------------------------------
Init ==
  /\ pc = "snapshot"
  /\ snapshot = [b \in Page |-> NOBODY]
  /\ ledger = [b \in Page |-> NOBODY]
  /\ complete = TRUE
  /\ arena_base = -1
  /\ used = 0
  /\ modules = <<>>
  /\ kernel = <<>>
  /\ copied = 0
  /\ handed = <<>>
  /\ holds = [b \in Page |-> NOTHING]
  /\ taken = {}

Goto(stage) == pc' = stage

(* The firmware may describe more than the map can keep; report_memory is  *)
(* the only reader of that fact.                                           *)
fw_mem_snapshot(described, all) ==
  /\ pc = "snapshot"
  /\ RegionCount(described) <= MaxRegions
  /\ \E b \in Page : described[b] = USABLE
  /\ snapshot' = described
  /\ ledger' = described
  /\ complete' = all
  /\ Goto("arena")
  /\ UNCHANGED <<arena_base, used, modules, kernel, copied, handed, holds, taken>>

place_arena ==
  /\ pc = "arena"
  /\ ArenaPlaceable
  /\ arena_base' = Max(ArenaChoices)
  /\ used' = 0
  /\ Goto("disk")
  /\ UNCHANGED <<snapshot, ledger, complete, modules, kernel, copied, handed,
                 holds, taken>>

place_arena_refused ==
  /\ pc = "arena"
  /\ ~ ArenaPlaceable
  /\ Goto("stopped")
  /\ UNCHANGED <<loaded, used, modules, kernel, copied, handed, holds, taken>>

attach_boot_disk ==
  /\ pc = "disk"
  /\ Goto("mount")
  /\ UNCHANGED <<loaded, used, modules, kernel, copied, handed, holds, taken>>

mount_boot_filesystem ==
  /\ pc = "mount"
  /\ Goto("configuration")
  /\ UNCHANGED <<loaded, used, modules, kernel, copied, handed, holds, taken>>

read_configuration ==
  /\ pc = "configuration"
  /\ Goto("modules")
  /\ UNCHANGED <<loaded, used, modules, kernel, copied, handed, holds, taken>>

(* One turn of load_modules.  A read that fails has already written into   *)
(* the memory it was given.                                                *)
load_modules(size, readable) ==
  /\ pc = "modules"
  /\ Len(modules) < MaxModules
  /\ HasRoom(size)
  /\ holds' = Written(NextInArena(size), <<"module", Len(modules) + 1>>)
  /\ used' = CursorAfter(size)
  /\ modules' = IF readable
                  THEN Append(modules, [base |-> arena_base + used, pages |-> size])
                  ELSE modules
  /\ Goto(IF readable THEN "modules" ELSE "stopped")
  /\ UNCHANGED <<loaded, kernel, copied, handed, taken>>

load_modules_no_room(size) ==
  /\ pc = "modules"
  /\ Len(modules) < MaxModules
  /\ ~ HasRoom(size)
  /\ Goto("stopped")
  /\ UNCHANGED <<loaded, used, modules, kernel, copied, handed, holds, taken>>

load_modules_done ==
  /\ pc = "modules"
  /\ Goto("kernel")
  /\ UNCHANGED <<loaded, used, modules, kernel, copied, handed, holds, taken>>

(* Both checks come before the first byte is copied.                       *)
load_kernel(image) ==
  /\ pc = "kernel"
  /\ kernel' = image
  /\ Goto(IF InOneUsableRun(image) /\ AllWithin(image) THEN "copy" ELSE "stopped")
  /\ UNCHANGED <<loaded, used, modules, copied, handed, holds, taken>>

(* Slip: the loop over the segments does not advance.                      *)
SameSegment == copied
NextSegment == copied + 1

(* One segment of elf_load: copy_segment and its zeroing.  The last one is *)
(* followed by the test of the entry point, which stops on a null entry.   *)
copy_segment(readable) ==
  /\ pc = "copy"
  /\ copied < Len(kernel)
  /\ holds' = Written(Pages(kernel[copied + 1].base, kernel[copied + 1].pages),
                      <<"kernel", copied + 1>>)
  /\ copied' = IF readable THEN NextSegment ELSE copied
  /\ Goto(IF readable THEN "copy" ELSE "stopped")
  /\ UNCHANGED <<loaded, used, modules, kernel, handed, taken>>

elf_entry_point(entry) ==
  /\ pc = "copy"
  /\ copied = Len(kernel)
  /\ Goto(IF entry = 0 THEN "stopped" ELSE "claim")
  /\ UNCHANGED <<loaded, used, modules, kernel, copied, handed, holds, taken>>

(* Both results of memory_map_add are dropped: on a full map a claim is    *)
(* lost and the loader goes on.  Finalizing keeps the lowest regions.      *)
Claimed(l, pages, kind) ==
  [b \in Page |-> IF b \in pages THEN Stricter(l[b], kind) ELSE l[b]]

Tidied(l) ==
  [b \in Page |->
     IF RegionCount([c \in Page |-> IF c <= b THEN l[c] ELSE NOBODY]) <= MaxRegions
       THEN l[b] ELSE NOBODY]

claim_loader_memory ==
  LET room == MaxRegions - RegionCount(ledger)
      first == IF room >= 1
                 THEN Claimed(ledger, Pages(arena_base, ArenaPages), BOOTLOADER_RECLAIMABLE)
                 ELSE ledger
      both == IF room >= 2 THEN Claimed(first, KernelSpan(kernel), KERNEL) ELSE first
  IN
  /\ pc = "claim"
  /\ ledger' = Tidied(both)
  /\ complete' = (complete /\ room >= 2 /\ RegionCount(both) <= MaxRegions)
  /\ Goto("answer")
  /\ UNCHANGED <<snapshot, arena_base, used, modules, kernel, copied, handed,
                 holds, taken>>

(* One request of protocol_answer.  The memory map is copied into the      *)
(* answer: what the kernel reads is the map as it was at this step.        *)
protocol_answer(wants_map) ==
  /\ pc = "answer"
  /\ HasRoom(1)
  /\ holds' = Written(NextInArena(1), <<"answer", used>>)
  /\ used' = CursorAfter(1)
  /\ handed' = IF wants_map THEN ledger ELSE handed
  /\ UNCHANGED <<pc, loaded, modules, kernel, copied, taken>>

answer_kernel_requests ==
  /\ pc = "answer"
  /\ Goto("tables")
  /\ UNCHANGED <<loaded, used, modules, kernel, copied, handed, holds, taken>>

(* The page tables come out of the same arena, last of all.                *)
build_kernel_tables(n) ==
  /\ pc = "tables"
  /\ HasRoom(n)
  /\ holds' = Written(NextInArena(n), <<"table", used>>)
  /\ used' = CursorAfter(n)
  /\ Goto("entered")
  /\ UNCHANGED <<loaded, modules, kernel, copied, handed, taken>>

build_kernel_tables_no_room(n) ==
  /\ pc = "tables"
  /\ ~ HasRoom(n)
  /\ Goto("stopped")
  /\ UNCHANGED <<loaded, used, modules, kernel, copied, handed, holds, taken>>

(* Any stage that reads the disk or what was read from it can give up: no  *)
(* usable memory, no disk, no partition, a configuration that does not     *)
(* parse, an empty module, an image that is not a kernel, too many         *)
(* requests, a mapping refused.                                            *)
GiveUp ==
  /\ pc \in Stages \ {"arena", "copy", "claim", "entered", "stopped"}
  /\ Goto("stopped")
  /\ UNCHANGED <<loaded, used, modules, kernel, copied, handed, holds, taken>>

(* External: under UEFI boot services are still up, boot_core never leaves *)
(* them, and the firmware's own callbacks may allocate memory the snapshot *)
(* called usable.                                                          *)
FirmwareAllocates(b) ==
  /\ pc \notin {"snapshot", "entered", "stopped"}
  /\ Cardinality(taken) < MaxTaken
  /\ snapshot[b] = USABLE
  /\ taken' = taken \cup {b}
  /\ UNCHANGED <<pc, loaded, used, modules, kernel, copied, handed, holds>>

Progress ==
  \/ \E described \in Snapshots, all \in BOOLEAN : fw_mem_snapshot(described, all)
  \/ place_arena
  \/ place_arena_refused
  \/ attach_boot_disk
  \/ mount_boot_filesystem
  \/ read_configuration
  \/ \E size \in ModuleSizes : load_modules(size, TRUE)
  \/ \E size \in ModuleSizes : load_modules_no_room(size)
  \/ load_modules_done
  \/ \E image \in Kernels : load_kernel(image)
  \/ copy_segment(TRUE)
  \/ \E entry \in {0, 1} : elf_entry_point(entry)
  \/ claim_loader_memory
  \/ \E wants_map \in BOOLEAN : protocol_answer(wants_map)
  \/ answer_kernel_requests
  \/ \E n \in TablePages : build_kernel_tables(n)
  \/ \E n \in TablePages : build_kernel_tables_no_room(n)

ReadFails ==
  \/ \E size \in ModuleSizes : load_modules(size, FALSE)
  \/ copy_segment(FALSE)

Next ==
  \/ Progress
  \/ ReadFails
  \/ GiveUp
  \/ \E b \in Page : FirmwareAllocates(b)

(* The loader is the only thing the processor runs: it is never denied its *)
(* next step.  Nothing obliges a read to fail, so no loop may rely on that *)
(* to end, and nothing obliges the firmware to allocate.                   *)
Spec == Init /\ [][Next]_vars /\ WF_vars(Progress)

-----------------------------------------------------------------------------
TypeOK ==
  /\ pc \in Stages
  /\ snapshot \in [Page -> Verdict]
  /\ ledger \in [Page -> Verdict]
  /\ complete \in BOOLEAN
  /\ arena_base \in Page \cup {-1}
  /\ used \in 0 .. ArenaPages
  /\ modules \in Seq(Segment)
  /\ kernel \in Kernels \cup {<<>>}
  /\ copied \in 0 .. Len(kernel)
  /\ handed \in [Page -> Verdict] \cup {<<>>}
  /\ holds \in [Page -> Owner]
  /\ taken \subseteq Page

ArenaSpan == IF arena_base = -1 THEN {} ELSE Pages(arena_base, ArenaPages)

(* main.c: the map the kernel is handed is "the truth".  Unless the map    *)
(* ran out of regions, no page that holds a module, the kernel, an answer  *)
(* or a page table is described to the kernel as free memory - whichever   *)
(* of them were written before the map was copied and whichever after.     *)
HandedMapHonest ==
  pc = "entered" /\ handed # <<>> /\ complete =>
    \A b \in Page : holds[b] # NOTHING => handed[b] \notin {USABLE, NOBODY}

(* Everything the loader ever writes lands on memory the firmware called   *)
(* usable, above the first megabyte and where the identity map reaches,    *)
(* also when the boot is given up half way.                                *)
WritesOnlyUsable ==
  \A b \in Page : holds[b] # NOTHING =>
    snapshot[b] = USABLE /\ Floor <= b /\ b < Limit

(* elf.c: "a file that would land outside it moves nothing at all".  If    *)
(* any segment is outside the window, no segment has been copied.          *)
OutsideMovesNothing ==
  (\E i \in DOMAIN kernel : ~ segment_within(kernel[i])) =>
    \A b \in Page : holds[b][1] # "kernel"

(* What each stage wrote is still there when the kernel is entered: the    *)
(* modules, every segment, and no answer or page table over any of them -  *)
(* provided the kernel is not linked into the arena, which nothing checks. *)
OwnersIntact ==
  pc = "entered" /\ KernelSpan(kernel) \cap ArenaSpan = {} =>
    /\ \A i \in DOMAIN modules :
         \A b \in Pages(modules[i].base, modules[i].pages) : holds[b] = <<"module", i>>
    /\ \A i \in DOMAIN kernel :
         \A b \in Pages(kernel[i].base, kernel[i].pages) : holds[b] = <<"kernel", i>>

(* main.c, above load_kernel: a segment that would reach the loader's own  *)
(* memory "is refused by elf_load before anything moves".                  *)
KernelMissesLoader ==
  copied > 0 => \A b \in ArenaSpan : holds[b][1] # "kernel"

(* fw.h: the snapshot is for planning "and never as the map handed to the  *)
(* kernel": no page the firmware has taken is handed over as free.         *)
HandedMapCurrent ==
  pc = "entered" /\ handed # <<>> => \A b \in taken : handed[b] # USABLE

(* The loader ends: it enters the kernel or says why it will not.          *)
BootEnds == <>(pc \in {"entered", "stopped"})
=============================================================================
