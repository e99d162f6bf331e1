------------------------------- MODULE BootProof -------------------------------
(***************************************************************************)
(* Proofs about Boot, for any memory, any firmware map, any kernel that    *)
(* elf_parse accepts and any modules.                                      *)
(*                                                                         *)
(* The invariant is about who owns a page.  What came out of the arena is  *)
(* below its cursor; what was copied of the kernel is in the kernel's      *)
(* span, and only if both checks passed; a module can only be lost to the  *)
(* kernel and a segment only to the arena.                                 *)
(***************************************************************************)
EXTENDS Boot, WellFoundedInduction, FiniteSetTheorems, TLAPS

Unplaced == {"snapshot", "arena"}

BeforeKernel == Unplaced \cup {"disk", "mount", "configuration", "modules", "kernel"}

AfterClaim == {"answer", "tables", "entered"}

FromArena == {"module", "answer", "table"}

SegmentPages(i) == Pages(kernel[i].base, kernel[i].pages)

(* Both checks of load_kernel were passed.                                 *)
Accepted ==
  /\ kernel # <<>> /\ AllWithin(kernel)
  /\ \A b \in KernelSpan(kernel) : snapshot[b] = USABLE

ClaimsEntered ==
  complete => \A b \in ArenaSpan \cup KernelSpan(kernel) : ledger[b] \notin {USABLE, NOBODY}

(* What is true at each stage of what the stages before it have left.      *)
StageInv ==
  /\ pc \in Unplaced => arena_base = -1
  /\ pc \notin Unplaced \cup {"stopped"} => arena_base # -1
  /\ pc \in BeforeKernel => kernel = <<>> /\ copied = 0
  /\ pc \in BeforeKernel \cup {"copy", "claim"} => ledger = snapshot /\ handed = <<>>
  /\ pc \in {"copy", "claim"} \cup AfterClaim => Accepted
  /\ pc \in {"claim"} \cup AfterClaim => copied = Len(kernel)
  /\ pc \in AfterClaim => ClaimsEntered
  /\ handed # <<>> => handed = ledger

(* Where the arena is, and that there is nothing of it before it is placed. *)
ArenaInv ==
  /\ arena_base = -1 => used = 0 /\ modules = <<>> /\ holds = [b \in Page |-> NOTHING]
  /\ arena_base # -1 => /\ Floor <= arena_base /\ arena_base + ArenaPages <= Ceiling
                        /\ \A b \in Pages(arena_base, ArenaPages) : snapshot[b] = USABLE

(* Who may have written a page.                                            *)
OwnerInv ==
  \A b \in Page :
    /\ holds[b][1] \in FromArena => arena_base <= b /\ b < arena_base + used
    /\ holds[b][1] = "kernel" => Accepted /\ \E i \in DOMAIN kernel : b \in SegmentPages(i)

ModulesKept ==
  \A i \in DOMAIN modules : \A b \in Pages(modules[i].base, modules[i].pages) :
    /\ arena_base <= b /\ b < arena_base + used
    /\ holds[b] = <<"module", i>> \/ holds[b][1] = "kernel"

SegmentsKept ==
  \A i \in 1 .. copied : \A b \in SegmentPages(i) : holds[b] = <<"kernel", i>> \/ b \in ArenaSpan

IInv == TypeOK /\ StageInv /\ ArenaInv /\ OwnerInv /\ ModulesKept /\ SegmentsKept

-----------------------------------------------------------------------------
(* The smallest and the largest member of a set of bounded numbers.        *)
LEMMA MinIsMember ==
  ASSUME NEW S \in SUBSET Nat, S # {}
  PROVE  Min(S) \in S /\ \A y \in S : Min(S) <= y
<1>1. PICK x \in S : \A y \in S : ~ (<<y, x>> \in OpToRel(<, Nat))
  BY NatLessThanWellFounded, WFMin
<1>2. \A y \in S : ~ (y < x)
  BY <1>1 DEF OpToRel
<1>3. \A y \in S : x <= y
  BY <1>2
<1> QED
  BY <1>3 DEF Min

LEMMA MaxIsMember ==
  ASSUME NEW bound \in Nat, NEW S \in SUBSET (0 .. bound), S # {}
  PROVE  Max(S) \in S /\ \A y \in S : y <= Max(S)
<1> DEFINE T == {bound - y : y \in S}
<1>1. T \in SUBSET Nat
  OBVIOUS
<1>0. T # {}
  OBVIOUS
<1>2. Min(T) \in T /\ \A y \in T : Min(T) <= y
  BY <1>0, <1>1, MinIsMember
<1>3. PICK x \in S : Min(T) = bound - x
  BY <1>2
<1>4. \A y \in S : bound - x <= bound - y
  BY <1>2, <1>3
<1>5. \A y \in S : x >= y
  BY <1>4
<1> QED
  BY <1>5 DEF Max

(* Every segment lies in the span.                                         *)
LEMMA SegmentInSpan ==
  ASSUME NEW image \in Seq(Segment), NEW i \in DOMAIN image
  PROVE  Pages(image[i].base, image[i].pages) \subseteq KernelSpan(image)
<1> DEFINE bases == {image[j].base : j \in DOMAIN image}
           ends == {image[j].base + image[j].pages : j \in DOMAIN image}
<1>1. AddressMax \in Nat
  BY BootAssumption
<1>2. \A j \in DOMAIN image : image[j].base \in Page /\ image[j].pages \in 1 .. AddressMax
  <2>1. \A j \in DOMAIN image : image[j] \in Segment
    OBVIOUS
  <2> QED
    BY <2>1 DEF Segment
<1>3. bases \in SUBSET Nat /\ image[i].base \in bases
  BY <1>1, <1>2 DEF Page
<1>4. ends \in SUBSET (0 .. 2 * AddressMax) /\ image[i].base + image[i].pages \in ends
  BY <1>1, <1>2 DEF Page
<1>5. Lowest(image) \in Nat /\ Lowest(image) <= image[i].base
  BY <1>3, MinIsMember DEF Lowest
<1>6. Highest(image) \in Nat /\ image[i].base + image[i].pages <= Highest(image)
  <2>1. 2 * AddressMax \in Nat
    BY <1>1
  <2>2. Max(ends) \in ends /\ image[i].base + image[i].pages <= Max(ends)
    BY <1>4, <2>1, MaxIsMember
  <2> QED
    BY <1>4, <2>2 DEF Highest
<1> QED
  BY <1>1, <1>2, <1>5, <1>6 DEF Pages, KernelSpan, Page

-----------------------------------------------------------------------------
LEMMA NothingHeld ==
  ASSUME NEW b \in Page, holds = [p \in Page |-> NOTHING]
  PROVE  holds[b][1] \notin FromArena \cup {"kernel"}
  BY DEF NOTHING, FromArena

LEMMA InitInv == Init => IInv
<1> SUFFICES ASSUME Init PROVE IInv
  OBVIOUS
<1>1. TypeOK
  BY BootAssumption DEF Init, TypeOK, Stages, Verdict, Owner
<1>2. StageInv
  BY DEF Init, StageInv, Unplaced, BeforeKernel, AfterClaim
<1>3. ArenaInv
  BY DEF Init, ArenaInv
<1>4. OwnerInv
  BY NothingHeld DEF Init, OwnerInv
<1>5. ModulesKept /\ SegmentsKept
  BY DEF Init, ModulesKept, SegmentsKept
<1> QED
  BY <1>1, <1>2, <1>3, <1>4, <1>5 DEF IInv

(* A step that writes nothing keeps what was written; it is for the stage  *)
(* it goes to to say why it may.                                           *)
LEMMA NothingWritten ==
  ASSUME IInv,
         UNCHANGED <<loaded, used, modules, kernel, copied, handed, holds>>,
         pc' \in Stages, taken' \in SUBSET Page, StageInv'
  PROVE  IInv'
<1>1. UNCHANGED <<snapshot, ledger, complete, arena_base>>
  BY DEF loaded
<1>2. TypeOK'
  BY <1>1 DEF IInv, TypeOK
<1>3. ArenaInv'
  BY <1>1 DEF IInv, ArenaInv
<1>4. Accepted' <=> Accepted
  BY <1>1 DEF Accepted
<1>5. \A i : SegmentPages(i)' = SegmentPages(i)
  BY DEF SegmentPages
<1>6. OwnerInv'
  BY <1>1, <1>4, <1>5 DEF IInv, OwnerInv
<1>7. ModulesKept' /\ SegmentsKept'
  BY <1>1, <1>5 DEF IInv, ModulesKept, SegmentsKept, ArenaSpan
<1> QED
  BY <1>2, <1>3, <1>6, <1>7 DEF IInv

(* Going on to a stage that asks for nothing new.                          *)
LEMMA GoneOn ==
  ASSUME IInv,
         UNCHANGED <<loaded, used, modules, kernel, copied, handed, holds, taken>>,
         \/ pc' = "stopped"
         \/ pc = "disk" /\ pc' = "mount"
         \/ pc = "mount" /\ pc' = "configuration"
         \/ pc = "configuration" /\ pc' = "modules"
         \/ pc = "modules" /\ pc' = "kernel"
         \/ pc = "answer" /\ pc' = "tables"
         \/ pc = "copy" /\ copied = Len(kernel) /\ pc' = "claim"
         \/ pc' = pc
  PROVE  IInv'
<1>1. UNCHANGED <<snapshot, ledger, complete, arena_base>>
  BY DEF loaded
<1>2. (Accepted' <=> Accepted) /\ (ClaimsEntered' <=> ClaimsEntered)
  BY <1>1 DEF Accepted, ClaimsEntered, ArenaSpan
<1>3. StageInv'
  BY <1>1, <1>2 DEF IInv, StageInv, Unplaced, BeforeKernel, AfterClaim
<1>4. pc' \in Stages /\ taken' \in SUBSET Page
  BY DEF IInv, TypeOK, Stages
<1> QED
  BY <1>3, <1>4, NothingWritten

LEMMA FirmwareTakes ==
  ASSUME IInv, NEW p \in Page, FirmwareAllocates(p)
  PROVE  IInv'
<1>1. /\ UNCHANGED <<pc, loaded, used, modules, kernel, copied, handed, holds>>
      /\ taken' \in SUBSET Page
  BY DEF FirmwareAllocates, IInv, TypeOK
<1>2. StageInv'
  <2>1. (Accepted' <=> Accepted) /\ (ClaimsEntered' <=> ClaimsEntered)
    BY <1>1 DEF loaded, Accepted, ClaimsEntered, ArenaSpan
  <2> QED
    BY <1>1, <2>1 DEF loaded, IInv, StageInv
<1> QED
  BY <1>1, <1>2, NothingWritten DEF IInv, TypeOK

(* The map is described and the arena placed before anything is written.   *)
LEMMA SnapshotTaken ==
  ASSUME IInv, NEW described \in Snapshots, NEW all \in BOOLEAN, fw_mem_snapshot(described, all)
  PROVE  IInv'
<1>1. /\ pc = "snapshot" /\ pc' = "arena" /\ snapshot' = described /\ ledger' = described
      /\ complete' = all /\ described \in [Page -> Verdict]
      /\ UNCHANGED <<arena_base, used, modules, kernel, copied, handed, holds, taken>>
  BY BootAssumption DEF fw_mem_snapshot, Goto
<1>2. arena_base = -1 /\ kernel = <<>> /\ copied = 0 /\ handed = <<>>
  BY <1>1 DEF IInv, StageInv, Unplaced, BeforeKernel
<1>3. used = 0 /\ modules = <<>> /\ holds = [b \in Page |-> NOTHING]
  BY <1>2 DEF IInv, ArenaInv
<1>4. TypeOK'
  BY <1>1 DEF IInv, TypeOK, Stages
<1>5. StageInv'
  BY <1>1, <1>2 DEF StageInv, Unplaced, BeforeKernel, AfterClaim
<1>6. ArenaInv'
  BY <1>1, <1>2, <1>3 DEF ArenaInv
<1>7. OwnerInv'
  BY <1>1, <1>3, NothingHeld DEF OwnerInv
<1>8. ModulesKept' /\ SegmentsKept'
  BY <1>1, <1>2, <1>3 DEF ModulesKept, SegmentsKept
<1> QED
  BY <1>4, <1>5, <1>6, <1>7, <1>8 DEF IInv

LEMMA ArenaIsPlaced ==
  ASSUME IInv, place_arena
  PROVE  IInv'
<1>1. /\ pc = "arena" /\ pc' = "disk" /\ used' = 0
      /\ UNCHANGED <<snapshot, ledger, complete, modules, kernel, copied, handed, holds, taken>>
  BY DEF place_arena, Goto
<1>2. PICK base \in ArenaChoices : arena_base' = base /\ base >= Floor
  BY DEF place_arena, ArenaPlaceable
<1>3. /\ base \in Nat /\ base + ArenaPages <= Ceiling /\ base \in Page
      /\ \A b \in Pages(base, ArenaPages) : ledger[b] = USABLE
  BY <1>2, BootAssumption DEF ArenaChoices, Page
<1>4. kernel = <<>> /\ copied = 0 /\ handed = <<>> /\ ledger = snapshot /\ arena_base = -1
  BY <1>1 DEF IInv, StageInv, Unplaced, BeforeKernel
<1>5. modules = <<>> /\ holds = [b \in Page |-> NOTHING]
  BY <1>4 DEF IInv, ArenaInv
<1>6. TypeOK'
  <2>1. TypeOK
    BY DEF IInv
  <2>2. pc' \in Stages
    BY <1>1 DEF Stages
  <2>3. arena_base' \in Page \cup {-1}
    BY <1>2, <1>3
  <2>4. used' \in 0 .. ArenaPages
    BY <1>1, BootAssumption
  <2> QED
    BY <1>1, <2>1, <2>2, <2>3, <2>4 DEF TypeOK
<1>7. StageInv'
  BY <1>1, <1>2, <1>3, <1>4 DEF StageInv, Unplaced, BeforeKernel, AfterClaim
<1>8. ArenaInv'
  BY <1>1, <1>2, <1>3, <1>4 DEF ArenaInv
<1>9. OwnerInv'
  BY <1>1, <1>5, NothingHeld DEF OwnerInv
<1>10. ModulesKept' /\ SegmentsKept'
  BY <1>1, <1>4, <1>5 DEF ModulesKept, SegmentsKept
<1> QED
  BY <1>6, <1>7, <1>8, <1>9, <1>10 DEF IInv

-----------------------------------------------------------------------------
(* What the arena gives out lies in it, above all it has given before.     *)
LEMMA RoomIsThere ==
  ASSUME IInv, arena_base # -1, NEW n \in Nat, HasRoom(n)
  PROVE  /\ arena_base \in Nat /\ used \in Nat /\ used + n \in 0 .. ArenaPages
         /\ \A b \in NextInArena(n) : b \in Page /\ arena_base + used <= b /\ b < arena_base + (used + n)
<1>1. arena_base \in Nat /\ used \in 0 .. ArenaPages /\ ArenaPages \in Nat
  BY BootAssumption DEF IInv, TypeOK, Page
<1> QED
  BY <1>1 DEF HasRoom, NextInArena, Pages, Page

(* Filling the next pages of the arena takes from nobody that is in it.    *)
LEMMA ArenaWrite ==
  ASSUME IInv, arena_base # -1, NEW n \in Nat, HasRoom(n),
         NEW owner \in FromArena \X Nat,
         holds' = Written(NextInArena(n), owner), used' = CursorAfter(n),
         UNCHANGED <<snapshot, arena_base, kernel, copied>>
  PROVE  /\ used' \in 0 .. ArenaPages /\ holds' \in [Page -> Owner]
         /\ ArenaInv' /\ OwnerInv' /\ SegmentsKept'
         /\ \A i \in DOMAIN modules : \A b \in Pages(modules[i].base, modules[i].pages) :
              /\ arena_base <= b /\ b < arena_base + used'
              /\ holds'[b] = <<"module", i>> \/ holds'[b][1] = "kernel"
<1>1. /\ arena_base \in Nat /\ used \in Nat /\ used' = used + n /\ used' \in 0 .. ArenaPages
      /\ \A b \in NextInArena(n) : b \in Page /\ arena_base + used <= b /\ b < arena_base + used'
  BY RoomIsThere DEF CursorAfter
<1>2. \A b \in Page : holds'[b] = IF b \in NextInArena(n) THEN owner ELSE holds[b]
  BY DEF Written
<1>3. owner \in Owner /\ owner[1] \in FromArena
  BY DEF Owner, FromArena
<1>4. holds' \in [Page -> Owner]
  BY <1>3 DEF Written, IInv, TypeOK
<1>5. ArenaInv'
  BY DEF IInv, ArenaInv
<1>6. Accepted' <=> Accepted
  BY DEF Accepted
<1>7. \A i : SegmentPages(i)' = SegmentPages(i)
  BY DEF SegmentPages
<1>8. OwnerInv'
  <2> SUFFICES ASSUME NEW b \in Page
               PROVE  /\ holds'[b][1] \in FromArena => arena_base <= b /\ b < arena_base + used'
                      /\ holds'[b][1] = "kernel" => Accepted /\ \E i \in DOMAIN kernel : b \in SegmentPages(i)
    BY <1>6, <1>7 DEF OwnerInv
  <2>1. CASE b \in NextInArena(n)
    <3>1. holds'[b] = owner /\ owner[1] # "kernel"
      BY <1>2, <1>3, <2>1 DEF FromArena
    <3>2. arena_base <= b /\ b < arena_base + used'
      BY <1>1, <2>1 DEF Page
    <3> QED
      BY <3>1, <3>2
  <2>2. CASE b \notin NextInArena(n)
    <3>1. holds'[b] = holds[b]
      BY <1>2, <2>2
    <3>2. /\ holds[b][1] \in FromArena => arena_base <= b /\ b < arena_base + used
          /\ holds[b][1] = "kernel" => Accepted /\ \E i \in DOMAIN kernel : b \in SegmentPages(i)
      BY DEF IInv, OwnerInv
    <3>3. arena_base <= b /\ b < arena_base + used => arena_base <= b /\ b < arena_base + used'
      BY <1>1 DEF Page
    <3> QED
      BY <3>1, <3>2, <3>3
  <2> QED
    BY <2>1, <2>2
<1>9. SegmentsKept'
  <2> SUFFICES ASSUME NEW i \in 1 .. copied, NEW b \in SegmentPages(i)
               PROVE  holds'[b] = <<"kernel", i>> \/ b \in ArenaSpan
    BY <1>7 DEF SegmentsKept, ArenaSpan
  <2>1. b \in Page
    BY DEF SegmentPages, Pages
  <2>2. CASE b \in NextInArena(n)
    BY <1>1, <2>1, <2>2, BootAssumption DEF ArenaSpan, Pages, Page
  <2>3. CASE b \notin NextInArena(n)
    BY <1>2, <2>1, <2>3 DEF IInv, SegmentsKept
  <2> QED
    BY <2>2, <2>3
<1>10. ASSUME NEW i \in DOMAIN modules, NEW b \in Pages(modules[i].base, modules[i].pages)
       PROVE  /\ arena_base <= b /\ b < arena_base + used'
              /\ holds'[b] = <<"module", i>> \/ holds'[b][1] = "kernel"
  <2>1. b \in Page /\ b \in Nat
    BY DEF Pages, Page
  <2>2. /\ arena_base <= b /\ b < arena_base + used
        /\ holds[b] = <<"module", i>> \/ holds[b][1] = "kernel"
    BY DEF IInv, ModulesKept
  <2>3. b \notin NextInArena(n)
    BY <1>1, <2>1, <2>2
  <2>4. holds'[b] = holds[b]
    BY <1>2, <2>1, <2>3
  <2> QED
    BY <1>1, <2>1, <2>2, <2>4
<1> QED
  BY <1>1, <1>4, <1>5, <1>8, <1>9, <1>10

LEMMA ModuleLoaded ==
  ASSUME IInv, NEW size \in ModuleSizes, NEW readable \in BOOLEAN, load_modules(size, readable)
  PROVE  IInv'
<1>1. /\ pc = "modules" /\ Len(modules) < MaxModules /\ HasRoom(size)
      /\ holds' = Written(NextInArena(size), <<"module", Len(modules) + 1>>)
      /\ used' = CursorAfter(size)
      /\ UNCHANGED <<snapshot, ledger, complete, arena_base, kernel, copied, handed, taken>>
      /\ pc' = IF readable THEN "modules" ELSE "stopped"
      /\ modules' = IF readable THEN Append(modules, [base |-> arena_base + used, pages |-> size])
                                ELSE modules
  BY DEF load_modules, Goto, loaded
<1>2. size \in Nat \ {0} /\ arena_base # -1 /\ kernel = <<>> /\ copied = 0 /\ modules \in Seq(Segment)
  BY <1>1, BootAssumption DEF IInv, TypeOK, StageInv, Unplaced, BeforeKernel
<1>3. <<"module", Len(modules) + 1>> \in FromArena \X Nat
  BY <1>2 DEF FromArena
<1>4. /\ used' \in 0 .. ArenaPages /\ holds' \in [Page -> Owner]
      /\ ArenaInv' /\ OwnerInv' /\ SegmentsKept'
      /\ \A i \in DOMAIN modules : \A b \in Pages(modules[i].base, modules[i].pages) :
           /\ arena_base <= b /\ b < arena_base + used'
           /\ holds'[b] = <<"module", i>> \/ holds'[b][1] = "kernel"
  BY <1>1, <1>2, <1>3, ArenaWrite
<1> DEFINE module == [base |-> arena_base + used, pages |-> size]
<1>5. module \in Segment
  <2>1. arena_base \in Nat /\ used \in Nat /\ used + size <= ArenaPages
    BY <1>1, <1>2, RoomIsThere, BootAssumption
  <2>2. arena_base + ArenaPages <= AddressMax
    BY <1>2, <2>1, BootAssumption DEF IInv, ArenaInv
  <2>3. arena_base + used \in Page /\ size \in 1 .. AddressMax
    BY <1>2, <2>1, <2>2, BootAssumption DEF Page
  <2> QED
    BY <2>3 DEF Segment
<1>6. TypeOK'
  <2>1. modules' \in Seq(Segment)
    BY <1>1, <1>2, <1>5
  <2>2. pc' \in Stages
    BY <1>1 DEF Stages
  <2> QED
    BY <1>1, <1>4, <2>1, <2>2 DEF IInv, TypeOK
<1>7. StageInv'
  BY <1>1, <1>2 DEF IInv, StageInv, Unplaced, BeforeKernel, AfterClaim
<1>8. ModulesKept'
  <2>1. CASE ~ readable
    BY <1>1, <1>4, <2>1 DEF ModulesKept
  <2>2. CASE readable
    <3>1. modules' = Append(modules, module)
      BY <1>1, <2>2
    <3>2. /\ DOMAIN modules' = DOMAIN modules \cup {Len(modules) + 1}
          /\ modules'[Len(modules) + 1] = module
          /\ \A i \in DOMAIN modules : modules'[i] = modules[i]
      BY <1>2, <1>5, <3>1
    <3>3. ASSUME NEW b \in Pages(module.base, module.pages)
          PROVE  /\ arena_base <= b /\ b < arena_base + used'
                 /\ holds'[b] = <<"module", Len(modules) + 1>>
      <4>1. b \in NextInArena(size)
        BY DEF NextInArena
      <4>2. b \in Page /\ arena_base \in Nat /\ used \in Nat /\ arena_base + used <= b /\ b < arena_base + used'
        BY <1>1, <1>2, <4>1, RoomIsThere DEF CursorAfter
      <4> QED
        BY <1>1, <4>1, <4>2 DEF Written, Page
    <3>4. ASSUME NEW i \in DOMAIN modules', NEW b \in Pages(modules'[i].base, modules'[i].pages)
          PROVE  /\ arena_base <= b /\ b < arena_base + used'
                 /\ holds'[b] = <<"module", i>> \/ holds'[b][1] = "kernel"
      BY <1>4, <3>2, <3>3
    <3> QED
      BY <1>1, <3>4 DEF ModulesKept
  <2> QED
    BY <2>1, <2>2
<1> QED
  BY <1>4, <1>6, <1>7, <1>8 DEF IInv

(* An answer and the page tables are the same to the arena.                *)
LEMMA LoaderWrites ==
  ASSUME IInv, NEW n \in Nat, HasRoom(n), NEW who \in {"answer", "table"},
         holds' = Written(NextInArena(n), <<who, used>>), used' = CursorAfter(n),
         UNCHANGED <<loaded, modules, kernel, copied, taken>>,
         pc \in AfterClaim, pc' \in AfterClaim,
         handed' \in {handed, ledger}
  PROVE  IInv'
<1>1. UNCHANGED <<snapshot, ledger, complete, arena_base, modules, kernel, copied, taken>>
  BY DEF loaded
<1>2. arena_base # -1
  BY DEF IInv, StageInv, Unplaced, AfterClaim
<1>3. <<who, used>> \in FromArena \X Nat
  BY BootAssumption DEF FromArena, IInv, TypeOK
<1>4. /\ used' \in 0 .. ArenaPages /\ holds' \in [Page -> Owner]
      /\ ArenaInv' /\ OwnerInv' /\ SegmentsKept'
      /\ \A i \in DOMAIN modules : \A b \in Pages(modules[i].base, modules[i].pages) :
           /\ arena_base <= b /\ b < arena_base + used'
           /\ holds'[b] = <<"module", i>> \/ holds'[b][1] = "kernel"
  BY <1>1, <1>2, <1>3, ArenaWrite
<1>5. TypeOK'
  BY <1>1, <1>2, <1>4 DEF IInv, TypeOK, Stages, AfterClaim
<1>6. StageInv'
  <2>1. (Accepted' <=> Accepted) /\ (ClaimsEntered' <=> ClaimsEntered)
    BY <1>1 DEF Accepted, ClaimsEntered, ArenaSpan
  <2> QED
    BY <1>1, <1>2, <2>1 DEF IInv, StageInv, Unplaced, BeforeKernel, AfterClaim
<1>7. ModulesKept'
  BY <1>1, <1>4 DEF ModulesKept
<1> QED
  BY <1>4, <1>5, <1>6, <1>7 DEF IInv

-----------------------------------------------------------------------------
(* load_kernel decides about the whole image before the first byte.        *)
LEMMA KernelDecided ==
  ASSUME IInv, NEW image \in Kernels, load_kernel(image)
  PROVE  IInv'
<1>1. /\ pc = "kernel" /\ kernel' = image
      /\ pc' = IF InOneUsableRun(image) /\ AllWithin(image) THEN "copy" ELSE "stopped"
      /\ UNCHANGED <<snapshot, ledger, complete, arena_base, used, modules, copied, handed, holds, taken>>
  BY DEF load_kernel, Goto, loaded
<1>2. arena_base # -1 /\ kernel = <<>> /\ copied = 0 /\ ledger = snapshot /\ handed = <<>>
  BY <1>1 DEF IInv, StageInv, Unplaced, BeforeKernel
<1>3. image \in Seq(Segment) /\ image # <<>>
  BY BootAssumption
<1>4. TypeOK'
  BY <1>1, <1>2, <1>3 DEF IInv, TypeOK, Stages
<1>5. pc' = "copy" => Accepted'
  BY <1>1, <1>2, <1>3 DEF Accepted, InOneUsableRun
<1>6. StageInv'
  BY <1>1, <1>2, <1>5 DEF StageInv, Unplaced, BeforeKernel, AfterClaim
<1>7. ArenaInv'
  BY <1>1 DEF IInv, ArenaInv
<1>8. \A b \in Page : holds[b][1] # "kernel"
  BY <1>2 DEF IInv, OwnerInv, Accepted
<1>9. OwnerInv'
  BY <1>1, <1>8 DEF IInv, OwnerInv
<1>10. ModulesKept' /\ SegmentsKept'
  BY <1>1, <1>2 DEF IInv, ModulesKept, SegmentsKept
<1> QED
  BY <1>4, <1>6, <1>7, <1>9, <1>10 DEF IInv

LEMMA SegmentCopied ==
  ASSUME IInv, NEW readable \in BOOLEAN, copy_segment(readable)
  PROVE  IInv'
<1> DEFINE next == copied + 1
           owner == <<"kernel", next>>
<1>1. /\ pc = "copy" /\ copied < Len(kernel)
      /\ holds' = Written(SegmentPages(next), owner)
      /\ copied' = IF readable THEN next ELSE copied
      /\ pc' = IF readable THEN "copy" ELSE "stopped"
      /\ UNCHANGED <<snapshot, ledger, complete, arena_base, used, modules, kernel, handed, taken>>
  BY DEF copy_segment, NextSegment, Goto, loaded, SegmentPages
<1>2. Accepted /\ arena_base # -1 /\ handed = <<>> /\ ledger = snapshot
  BY <1>1 DEF IInv, StageInv, Unplaced, BeforeKernel
<1>3. /\ kernel \in Kernels /\ kernel \in Seq(Segment) /\ copied \in Nat
      /\ next \in DOMAIN kernel /\ copied' \in 0 .. Len(kernel)
  BY <1>1, <1>2, BootAssumption DEF IInv, TypeOK, Accepted
<1>4. \A b \in Page : holds'[b] = IF b \in SegmentPages(next) THEN owner ELSE holds[b]
  BY <1>1 DEF Written
<1>5. TypeOK'
  <2>1. owner \in Owner
    BY <1>3 DEF Owner
  <2>2. holds' \in [Page -> Owner]
    BY <1>1, <2>1 DEF Written, IInv, TypeOK
  <2> QED
    BY <1>1, <1>3, <2>2 DEF IInv, TypeOK, Stages
<1>6. (Accepted' <=> Accepted) /\ \A i : SegmentPages(i)' = SegmentPages(i)
  BY <1>1 DEF Accepted, SegmentPages
<1>7. StageInv'
  BY <1>1, <1>2, <1>6 DEF StageInv, Unplaced, BeforeKernel, AfterClaim
<1>8. ArenaInv'
  BY <1>1, <1>2 DEF IInv, ArenaInv
<1>9. OwnerInv'
  <2>1. ASSUME NEW b \in Page, b \in SegmentPages(next)
        PROVE  holds'[b][1] = "kernel" /\ holds'[b][1] \notin FromArena
    BY <1>4, <2>1 DEF FromArena
  <2>2. ASSUME NEW b \in Page, b \notin SegmentPages(next)
        PROVE  holds'[b] = holds[b]
    BY <1>4, <2>2
  <2> QED
    BY <1>1, <1>2, <1>3, <1>6, <2>1, <2>2 DEF IInv, OwnerInv
<1>10. ModulesKept'
  <2> SUFFICES ASSUME NEW i \in DOMAIN modules, NEW b \in Pages(modules[i].base, modules[i].pages)
               PROVE  /\ arena_base <= b /\ b < arena_base + used
                      /\ holds'[b] = <<"module", i>> \/ holds'[b][1] = "kernel"
    BY <1>1 DEF ModulesKept
  <2>1. b \in Page
    BY DEF Pages
  <2>2. holds'[b] = holds[b] \/ holds'[b] = owner
    BY <1>4, <2>1
  <2> QED
    BY <2>2 DEF IInv, ModulesKept
<1>11. SegmentsKept'
  <2> SUFFICES ASSUME NEW i \in 1 .. copied', NEW b \in SegmentPages(i)
               PROVE  holds'[b] = <<"kernel", i>> \/ b \in ArenaSpan
    BY <1>1, <1>6 DEF SegmentsKept, ArenaSpan
  <2>1. b \in Page
    BY DEF SegmentPages, Pages
  <2>2. CASE i = next
    BY <1>4, <2>1, <2>2
  <2>3. CASE i \in 1 .. copied
    <3>1. i \in DOMAIN kernel /\ i # next
      BY <1>3, <2>3
    <3>2. Apart(kernel[i], kernel[next])
      BY <1>3, <3>1, BootAssumption
    <3>3. kernel[i] \in Segment /\ kernel[next] \in Segment
      BY <1>3, <3>1
    <3>4. b \notin SegmentPages(next)
      <4> DEFINE bi == kernel[i].base
                 ni == kernel[i].pages
                 bn == kernel[next].base
                 nn == kernel[next].pages
      <4>1. b \in Nat /\ bi \in Nat /\ ni \in Nat /\ bn \in Nat /\ nn \in Nat
        <5>1. Page \subseteq Nat /\ 1 .. AddressMax \subseteq Nat
          BY BootAssumption DEF Page
        <5>2. b \in Nat
          BY <2>1, <5>1
        <5>3. kernel[i].base \in Page /\ kernel[i].pages \in 1 .. AddressMax
          BY <3>3 DEF Segment
        <5>4. kernel[next].base \in Page /\ kernel[next].pages \in 1 .. AddressMax
          BY <3>3 DEF Segment
        <5> QED
          BY <5>1, <5>2, <5>3, <5>4, Zenon
      <4>2. bi <= b /\ b < bi + ni
        BY DEF SegmentPages, Pages
      <4>3. bi + ni <= bn \/ bn + nn <= bi
        BY <3>2 DEF Apart
      <4>4. b \in SegmentPages(next) => bn <= b /\ b < bn + nn
        BY DEF SegmentPages, Pages
      <4> HIDE DEF bi, ni, bn, nn
      <4> QED
        BY <4>1, <4>2, <4>3, <4>4
    <3>5. holds'[b] = holds[b]
      BY <1>4, <2>1, <3>4
    <3> QED
      BY <2>3, <3>5 DEF IInv, SegmentsKept
  <2> QED
    BY <1>1, <1>3, <2>2, <2>3
<1> QED
  BY <1>5, <1>7, <1>8, <1>9, <1>10, <1>11 DEF IInv

(* A list that fits is tidied without loss.                                *)
LEMMA TidyKeeps ==
  ASSUME NEW l, RegionCount(l) <= MaxRegions, NEW b \in Page
  PROVE  Tidied(l)[b] = l[b]
<1> DEFINE upto == [c \in Page |-> IF c <= b THEN l[c] ELSE NOBODY]
           Starts(m) == {p \in Page : m[p] # NOBODY /\ (p = 0 \/ m[p - 1] # m[p])}
<1>1. AddressMax \in Nat /\ MaxRegions \in Nat /\ Page = 0 .. AddressMax - 1
  BY BootAssumption DEF Page
<1>2. IsFiniteSet(Page)
  BY <1>1, FS_Interval
<1>3. Starts(upto) \subseteq Starts(l)
  <2> SUFFICES ASSUME NEW p \in Starts(upto) PROVE p \in Starts(l)
    OBVIOUS
  <2>1. p \in Page /\ p <= b /\ upto[p] = l[p]
    OBVIOUS
  <2>2. p # 0 => p - 1 \in Page /\ upto[p - 1] = l[p - 1]
    BY <1>1, <2>1
  <2> QED
    BY <2>1, <2>2
<1>4. IsFiniteSet(Starts(l)) /\ IsFiniteSet(Starts(upto))
  BY <1>2, FS_Subset
<1>5. Cardinality(Starts(upto)) <= Cardinality(Starts(l))
  BY <1>3, <1>4, FS_Subset
<1>6. Cardinality(Starts(l)) \in Nat /\ Cardinality(Starts(upto)) \in Nat
  BY <1>4, FS_CardinalityType
<1>7. RegionCount(upto) <= MaxRegions
  BY <1>1, <1>5, <1>6 DEF RegionCount
<1> QED
  BY <1>7 DEF Tidied

LEMMA MemoryClaimed ==
  ASSUME IInv, claim_loader_memory
  PROVE  IInv'
<1> DEFINE room == MaxRegions - RegionCount(ledger)
           first == IF room >= 1
                      THEN Claimed(ledger, Pages(arena_base, ArenaPages), BOOTLOADER_RECLAIMABLE)
                      ELSE ledger
           both == IF room >= 2 THEN Claimed(first, KernelSpan(kernel), KERNEL) ELSE first
<1>1. /\ pc = "claim" /\ pc' = "answer" /\ ledger' = Tidied(both)
      /\ complete' = (complete /\ room >= 2 /\ RegionCount(both) <= MaxRegions)
      /\ UNCHANGED <<snapshot, arena_base, used, modules, kernel, copied, handed, holds, taken>>
  BY DEF claim_loader_memory, Goto
<1>2. Accepted /\ arena_base # -1 /\ handed = <<>> /\ copied = Len(kernel) /\ ledger \in [Page -> Verdict]
  BY <1>1 DEF IInv, TypeOK, StageInv, Unplaced, BeforeKernel
<1>3. ASSUME NEW l \in [Page -> Verdict], NEW pages, NEW kind \in Kind
      PROVE  /\ Claimed(l, pages, kind) \in [Page -> Verdict]
             /\ \A b \in Page : Claimed(l, pages, kind)[b] >= l[b]
             /\ \A b \in Page : b \in pages => Claimed(l, pages, kind)[b] >= kind
  BY DEF Claimed, Stricter, Verdict, Kind, USABLE, BAD, NOBODY
<1>4. BOOTLOADER_RECLAIMABLE \in Kind /\ KERNEL \in Kind
  BY DEF Kind, USABLE, BAD, BOOTLOADER_RECLAIMABLE, KERNEL
<1>5. first \in [Page -> Verdict]
  BY <1>2, <1>3, <1>4
<1>6. both \in [Page -> Verdict]
  BY <1>3, <1>4, <1>5
<1>7. Tidied(both) \in [Page -> Verdict]
  <2>1. NOBODY \in Verdict
    BY DEF Verdict
  <2> QED
    BY <1>6, <2>1 DEF Tidied
<1>8. complete' \in BOOLEAN
  BY <1>1 DEF IInv, TypeOK
<1>9. TypeOK'
  BY <1>1, <1>7, <1>8 DEF IInv, TypeOK, Stages
<1>10. ClaimsEntered'
  <2> SUFFICES ASSUME complete', NEW b \in ArenaSpan \cup KernelSpan(kernel)
               PROVE  ledger'[b] \notin {USABLE, NOBODY}
    BY <1>1 DEF ClaimsEntered, ArenaSpan
  <2>1. room >= 2 /\ RegionCount(both) <= MaxRegions
    BY <1>1
  <2>2. b \in Page
    BY DEF ArenaSpan, KernelSpan, Pages
  <2>3. ledger'[b] = both[b]
    BY <1>1, <2>1, <2>2, TidyKeeps
  <2>4. both[b] >= first[b] /\ (b \in KernelSpan(kernel) => both[b] >= KERNEL)
    BY <1>3, <1>4, <1>5, <2>1, <2>2
  <2>5. RegionCount(ledger) \in Nat /\ MaxRegions \in Nat
    <3>1. AddressMax \in Nat /\ MaxRegions \in Nat
      BY BootAssumption
    <3>2. IsFiniteSet(Page)
      BY <3>1, FS_Interval DEF Page
    <3> QED
      BY <3>1, <3>2, FS_Subset, FS_CardinalityType DEF RegionCount
  <2>6. room >= 1
    BY <2>1, <2>5
  <2>7. b \in ArenaSpan => first[b] >= BOOTLOADER_RECLAIMABLE
    BY <1>2, <1>3, <1>4, <2>2, <2>6 DEF ArenaSpan
  <2>8. first[b] \in Int /\ both[b] \in Int
    BY <1>5, <1>6, <2>2 DEF Verdict, Kind, NOBODY, USABLE, BAD
  <2>9. both[b] >= 1
    BY <2>4, <2>7, <2>8 DEF KERNEL, BOOTLOADER_RECLAIMABLE
  <2> QED
    BY <2>3, <2>8, <2>9 DEF USABLE, NOBODY
<1>11. Accepted' <=> Accepted
  BY <1>1 DEF Accepted
<1>12. StageInv'
  BY <1>1, <1>2, <1>10, <1>11 DEF StageInv, Unplaced, BeforeKernel, AfterClaim
<1>13. ArenaInv'
  BY <1>1 DEF IInv, ArenaInv
<1>14. \A i : SegmentPages(i)' = SegmentPages(i)
  BY <1>1 DEF SegmentPages
<1>15. OwnerInv'
  BY <1>1, <1>11, <1>14 DEF IInv, OwnerInv
<1>16. ModulesKept' /\ SegmentsKept'
  BY <1>1, <1>14 DEF IInv, ModulesKept, SegmentsKept, ArenaSpan
<1> QED
  BY <1>9, <1>12, <1>13, <1>15, <1>16 DEF IInv

-----------------------------------------------------------------------------
LEMMA NextInv == IInv /\ [Next]_vars => IInv'
<1> SUFFICES ASSUME IInv, [Next]_vars PROVE IInv'
  OBVIOUS
<1>1. ASSUME NEW described \in Snapshots, NEW all \in BOOLEAN, fw_mem_snapshot(described, all) PROVE IInv'
  BY <1>1, SnapshotTaken
<1>2. CASE place_arena
  BY <1>2, ArenaIsPlaced
<1>3. CASE place_arena_refused \/ GiveUp
  BY <1>3, GoneOn DEF place_arena_refused, GiveUp, Goto
<1>4. CASE attach_boot_disk \/ mount_boot_filesystem \/ read_configuration
  BY <1>4, GoneOn DEF attach_boot_disk, mount_boot_filesystem, read_configuration, Goto
<1>5. ASSUME NEW size \in ModuleSizes, NEW readable \in BOOLEAN, load_modules(size, readable) PROVE IInv'
  BY <1>5, ModuleLoaded
<1>6. ASSUME NEW n \in Nat, load_modules_no_room(n) \/ build_kernel_tables_no_room(n) PROVE IInv'
  BY <1>6, GoneOn DEF load_modules_no_room, build_kernel_tables_no_room, Goto
<1>7. CASE load_modules_done \/ answer_kernel_requests
  BY <1>7, GoneOn DEF load_modules_done, answer_kernel_requests, Goto
<1>8. ASSUME NEW image \in Kernels, load_kernel(image) PROVE IInv'
  BY <1>8, KernelDecided
<1>9. ASSUME NEW readable \in BOOLEAN, copy_segment(readable) PROVE IInv'
  BY <1>9, SegmentCopied
<1>10. ASSUME NEW entry \in {0, 1}, elf_entry_point(entry) PROVE IInv'
  BY <1>10, GoneOn DEF elf_entry_point, Goto
<1>11. CASE claim_loader_memory
  BY <1>11, MemoryClaimed
<1>12. ASSUME NEW wants_map \in BOOLEAN, protocol_answer(wants_map) PROVE IInv'
  <2>1. /\ HasRoom(1) /\ pc \in AfterClaim /\ pc' \in AfterClaim
        /\ holds' = Written(NextInArena(1), <<"answer", used>>) /\ used' = CursorAfter(1)
        /\ UNCHANGED <<loaded, modules, kernel, copied, taken>>
        /\ handed' \in {handed, ledger}
    BY <1>12 DEF protocol_answer, AfterClaim
  <2> QED
    BY <2>1, LoaderWrites
<1>13. ASSUME NEW n \in Nat, build_kernel_tables(n) PROVE IInv'
  BY <1>13, LoaderWrites DEF build_kernel_tables, AfterClaim, Goto
<1>14. ASSUME NEW p \in Page, FirmwareAllocates(p) PROVE IInv'
  BY <1>14, FirmwareTakes
<1>15. CASE UNCHANGED vars
  BY <1>15, GoneOn DEF vars, loaded
<1>16. ModuleSizes \subseteq Nat /\ TablePages \subseteq Nat
  BY BootAssumption
<1> QED
  BY <1>1, <1>2, <1>3, <1>4, <1>5, <1>6, <1>7, <1>8, <1>9, <1>10, <1>11, <1>12, <1>13, <1>14, <1>15, <1>16
  DEF Next, Progress, ReadFails

(* The state keeps its types whatever the disk, the firmware and the files *)
(* make of the boot.                                                       *)
THEOREM BootTypeCorrect == Spec => []TypeOK
<1>1. IInv => TypeOK
  BY DEF IInv
<1> QED
  BY <1>1, InitInv, NextInv, PTL DEF Spec

(* Everything the loader ever writes lands on memory the firmware called   *)
(* usable, above the first megabyte and where the identity map reaches: in *)
(* the arena, which was chosen so, or in a kernel both checks let through. *)
THEOREM WritesAreOnUsable == Spec => []WritesOnlyUsable
<1>1. IInv => WritesOnlyUsable
  <2> SUFFICES ASSUME IInv, NEW b \in Page, holds[b] # NOTHING
               PROVE  snapshot[b] = USABLE /\ Floor <= b /\ b < Limit
    BY DEF WritesOnlyUsable
  <2>1. holds[b][1] \in FromArena \/ holds[b][1] = "kernel"
    <3>1. holds[b] \in Owner
      BY DEF IInv, TypeOK
    <3> QED
      BY <3>1 DEF Owner, FromArena
  <2>2. b \in Nat /\ {Floor, Ceiling, Limit, ArenaPages} \subseteq Nat /\ Ceiling <= Limit
    BY BootAssumption DEF Page
  <2>3. CASE holds[b][1] \in FromArena
    <3>1. arena_base <= b /\ b < arena_base + used
      BY <2>3 DEF IInv, OwnerInv
    <3>2. arena_base # -1
      BY <2>3, NothingHeld DEF IInv, ArenaInv
    <3>3. arena_base \in Nat /\ used \in 0 .. ArenaPages
      BY <3>2 DEF IInv, TypeOK, Page
    <3>4. b \in Pages(arena_base, ArenaPages) /\ b < arena_base + ArenaPages
      BY <2>2, <3>1, <3>3 DEF Pages
    <3> QED
      BY <2>2, <3>1, <3>2, <3>3, <3>4 DEF IInv, ArenaInv
  <2>4. CASE holds[b][1] = "kernel"
    <3>1. PICK i \in DOMAIN kernel : Accepted /\ b \in SegmentPages(i)
      BY <2>4 DEF IInv, OwnerInv
    <3>2. kernel \in Seq(Segment) /\ kernel[i] \in Segment
      BY <3>1, BootAssumption DEF IInv, TypeOK, Accepted
    <3>3. b \in KernelSpan(kernel)
      BY <3>1, <3>2, SegmentInSpan DEF SegmentPages
    <3>4. segment_within(kernel[i])
      BY <3>1 DEF Accepted, AllWithin
    <3>5. Floor <= b /\ b < Limit
      <4> DEFINE base == kernel[i].base
                 pages == kernel[i].pages
      <4>1. base \in Nat /\ pages \in Nat
        BY <3>2, BootAssumption DEF Segment, Page
      <4>2. base <= b /\ b < base + pages
        BY <3>1 DEF SegmentPages, Pages
      <4>3. Floor <= base /\ base + pages <= Limit
        BY <3>4 DEF segment_within
      <4> HIDE DEF base, pages
      <4> QED
        BY <2>2, <4>1, <4>2, <4>3
    <3> QED
      BY <3>1, <3>3, <3>5 DEF Accepted
  <2> QED
    BY <2>1, <2>3, <2>4
<1> QED
  BY <1>1, InitInv, NextInv, PTL DEF Spec

(* A kernel with a segment outside the window has moved nothing: elf_load  *)
(* looks at all of them before it copies the first.                        *)
THEOREM OutsideAlwaysMovesNothing == Spec => []OutsideMovesNothing
<1>1. IInv => OutsideMovesNothing
  BY DEF IInv, OwnerInv, Accepted, AllWithin, OutsideMovesNothing
<1> QED
  BY <1>1, InitInv, NextInv, PTL DEF Spec

(* What each stage wrote is there when the kernel is entered, unless the   *)
(* kernel is linked into the arena: a module can only have been lost to a  *)
(* segment, a segment only to the arena.                                   *)
THEOREM OwnersAreIntact == Spec => []OwnersIntact
<1>1. IInv => OwnersIntact
  <2> SUFFICES ASSUME IInv, pc = "entered", KernelSpan(kernel) \cap ArenaSpan = {}
               PROVE  /\ \A i \in DOMAIN modules :
                           \A b \in Pages(modules[i].base, modules[i].pages) : holds[b] = <<"module", i>>
                      /\ \A i \in DOMAIN kernel :
                           \A b \in Pages(kernel[i].base, kernel[i].pages) : holds[b] = <<"kernel", i>>
    BY DEF OwnersIntact
  <2>1. Accepted /\ copied = Len(kernel) /\ arena_base # -1
    BY DEF IInv, StageInv, AfterClaim, Unplaced
  <2>2. kernel \in Seq(Segment)
    BY <2>1, BootAssumption DEF IInv, TypeOK, Accepted
  <2>3. ASSUME NEW i \in DOMAIN kernel, NEW b \in SegmentPages(i) PROVE b \in KernelSpan(kernel) /\ b \notin ArenaSpan
    BY <2>2, <2>3, SegmentInSpan DEF SegmentPages
  <2>4. ASSUME NEW i \in DOMAIN modules, NEW b \in Pages(modules[i].base, modules[i].pages)
        PROVE  holds[b] = <<"module", i>>
    <3>1. /\ arena_base <= b /\ b < arena_base + used
          /\ holds[b] = <<"module", i>> \/ holds[b][1] = "kernel"
      BY DEF IInv, ModulesKept
    <3>2. b \in Page /\ b \in Nat /\ arena_base \in Nat /\ used \in 0 .. ArenaPages /\ ArenaPages \in Nat
      BY <2>1, BootAssumption DEF IInv, TypeOK, Pages, Page
    <3>3. b \in ArenaSpan
      BY <2>1, <3>1, <3>2 DEF ArenaSpan, Pages
    <3>4. holds[b][1] # "kernel"
      BY <2>3, <3>2, <3>3 DEF IInv, OwnerInv
    <3> QED
      BY <3>1, <3>4
  <2>5. ASSUME NEW i \in DOMAIN kernel, NEW b \in SegmentPages(i)
        PROVE  holds[b] = <<"kernel", i>>
    <3>1. i \in 1 .. copied
      BY <2>1, <2>2
    <3> QED
      BY <2>3, <3>1 DEF IInv, SegmentsKept
  <2> QED
    BY <2>4, <2>5 DEF SegmentPages
<1> QED
  BY <1>1, InitInv, NextInv, PTL DEF Spec

(* Unless the map ran out of regions, the kernel is told of no page that   *)
(* holds anything of the loader's that it is free, whether it was written  *)
(* before the map was copied or after: both claims cover all of the arena  *)
(* and all of the kernel, whatever is still to be put there.               *)
THEOREM HandedMapIsHonest == Spec => []HandedMapHonest
<1>1. IInv => HandedMapHonest
  <2> SUFFICES ASSUME IInv, pc = "entered", handed # <<>>, complete, NEW b \in Page, holds[b] # NOTHING
               PROVE  handed[b] \notin {USABLE, NOBODY}
    BY DEF HandedMapHonest
  <2>1. Accepted /\ ClaimsEntered /\ arena_base # -1 /\ handed = ledger
    BY DEF IInv, StageInv, AfterClaim, Unplaced
  <2>2. holds[b][1] \in FromArena \/ holds[b][1] = "kernel"
    <3>1. holds[b] \in Owner
      BY DEF IInv, TypeOK
    <3> QED
      BY <3>1 DEF Owner, FromArena
  <2>3. CASE holds[b][1] \in FromArena
    <3>1. arena_base <= b /\ b < arena_base + used
      BY <2>3 DEF IInv, OwnerInv
    <3>2. b \in Nat /\ arena_base \in Nat /\ used \in 0 .. ArenaPages /\ ArenaPages \in Nat
      BY <2>1, BootAssumption DEF IInv, TypeOK, Page
    <3>3. b \in ArenaSpan
      BY <2>1, <3>1, <3>2 DEF ArenaSpan, Pages
    <3> QED
      BY <2>1, <3>3 DEF ClaimsEntered
  <2>4. CASE holds[b][1] = "kernel"
    <3>1. kernel \in Seq(Segment)
      BY <2>1, BootAssumption DEF IInv, TypeOK, Accepted
    <3>2. b \in KernelSpan(kernel)
      BY <2>4, <3>1, SegmentInSpan DEF IInv, OwnerInv, SegmentPages
    <3> QED
      BY <2>1, <3>2 DEF ClaimsEntered
  <2> QED
    BY <2>2, <2>3, <2>4
<1> QED
  BY <1>1, InitInv, NextInv, PTL DEF Spec
=============================================================================
