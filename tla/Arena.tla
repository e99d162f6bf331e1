-------------------------------- MODULE Arena --------------------------------
(***************************************************************************)
(* src/memory/arena.c: the bump allocator, with the callers that hold what *)
(* it handed out.  The code keeps one number, "used"; "blocks" is what the *)
(* callers believe they own, and the properties say that the number is     *)
(* enough to keep them apart.                                              *)
(*                                                                         *)
(* A caller may hold marks for as long as it likes and release them in any *)
(* order, also after a reset.  Releasing a mark is the caller's word that  *)
(* it is done with everything it allocated after taking it.                *)
(***************************************************************************)
EXTENDS ArenaFit, FiniteSets

CONSTANTS
  Base,          \* where arena_init was told the memory is
  Room,          \* and how much of it there is
  Alignments,    \* alignments callers ask for, powers of two
  Sizes,         \* sizes callers ask for
  Counts,        \* element counts given to arena_allocate_array
  DefaultAlignment,
  MaxBlocks,     \* bound: allocations outstanding at once
  MaxMarks       \* bound: marks outstanding at once

ASSUME ArenaAssumption ==
  /\ WordSize \in Nat \ {0}
  /\ Base \in Nat /\ Room \in Nat
  /\ Base + Room <= WordSize          \* the memory is in the address space
  /\ Alignments \subseteq Nat \ {0}
  /\ \A a \in Alignments : WordSize % a = 0 /\ a <= WordSize
  /\ DefaultAlignment \in Alignments
  /\ Sizes \subseteq 0 .. WordSize - 1
  /\ Counts \subseteq 0 .. WordSize - 1

VARIABLES
  used,      \* arena->used
  blocks,    \* allocations their callers still rely on
  marks      \* marks taken and not yet released

vars == <<used, blocks, marks>>

(* arena_init gives no capacity to a null base.                            *)
Capacity == IF Base = 0 THEN 0 ELSE Room

Block == [at : Nat, size : Nat \ {0}, alignment : Nat \ {0}]

Init ==
  /\ used = 0
  /\ blocks = {}
  /\ marks = {}

arena_allocate_aligned(size, alignment) ==
  /\ Cardinality(blocks) < MaxBlocks
  /\ Fits(Base, Capacity, used, size, alignment)
  /\ used' = UsedAfter(Base, used, size, alignment)
  /\ blocks' = blocks \cup {[at        |-> AlignedAt(Base, used, alignment),
                             size      |-> size,
                             alignment |-> alignment]}
  /\ UNCHANGED marks

arena_allocate_refused(size, alignment) ==
  /\ ~ Fits(Base, Capacity, used, size, alignment)
  /\ UNCHANGED vars

arena_allocate(size) == arena_allocate_aligned(size, DefaultAlignment)

(* A product that wraps is refused before anything is allocated.           *)
arena_allocate_array(count, size) ==
  /\ count * size < WordSize
  /\ arena_allocate(count * size)

arena_reset ==
  /\ used' = 0
  /\ blocks' = {}
  /\ UNCHANGED marks

arena_mark ==
  /\ Cardinality(marks) < MaxMarks
  /\ marks' = marks \cup {[used |-> used, kept |-> blocks]}
  /\ UNCHANGED <<used, blocks>>

(* A mark ahead of the cursor is ignored.                                  *)
ReleaseCursor(mark) == IF mark.used <= used THEN mark.used ELSE used

arena_release(mark) ==
  /\ mark \in marks
  /\ used' = ReleaseCursor(mark)
  /\ blocks' = blocks \cap mark.kept
  /\ marks' = marks \ {mark}

Next ==
  \/ \E size \in Sizes, alignment \in Alignments : arena_allocate_aligned(size, alignment)
  \/ \E size \in Sizes, alignment \in Alignments : arena_allocate_refused(size, alignment)
  \/ \E count \in Counts, size \in Sizes : arena_allocate_array(count, size)
  \/ arena_reset
  \/ arena_mark
  \/ \E mark \in marks : arena_release(mark)

Spec == Init /\ [][Next]_vars

-----------------------------------------------------------------------------
TypeOK ==
  /\ used \in 0 .. Capacity
  /\ blocks \in SUBSET Block
  /\ marks \in SUBSET [used : Nat, kept : SUBSET Block]

BlockEnd(block) == block.at + block.size

(* No two callers ever own the same byte, whatever order marks are taken   *)
(* and released in and whatever was reset in between.                      *)
BlocksDisjoint ==
  \A x, y \in blocks : x # y => BlockEnd(x) <= y.at \/ BlockEnd(y) <= x.at

(* What a caller owns is memory of the arena, below the cursor, where the  *)
(* next allocation will not go: also when rounding up wraps the address.   *)
BlocksInside ==
  \A x \in blocks : Base <= x.at /\ BlockEnd(x) <= Base + used

(* Alignment is a property of the address the caller gets.                 *)
BlocksAligned == \A x \in blocks : x.at % x.alignment = 0

(* A mark never vouches for memory beyond itself.                          *)
MarksSound ==
  \A m \in marks : \A x \in m.kept : BlockEnd(x) <= Base + m.used
=============================================================================
