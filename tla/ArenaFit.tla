------------------------------- MODULE ArenaFit -------------------------------
(***************************************************************************)
(* The arithmetic of arena_allocate_aligned (src/memory/arena.c), apart    *)
(* from the state it advances, so that every user of an arena can share it.*)
(* Addresses are machine words: the sum that rounds up may wrap and the    *)
(* code does not test it.                                                  *)
(***************************************************************************)
EXTENDS Integers

CONSTANT WordSize       \* 2^64: the number of values of uintptr_t and size_t

Wrapped(x) == IF x >= WordSize THEN x - WordSize
              ELSE IF x < 0 THEN x + WordSize ELSE x

AlignMask(x, alignment) == x - (x % alignment)

(* Slip: alignment applied to the offset and not to the address.           *)
AlignedOffset(base, used, alignment) ==
  base + AlignMask(used + (alignment - 1), alignment)

(* "aligned": the first address at or after base + used that is a multiple.*)
AlignedAt(base, used, alignment) ==
  AlignMask(Wrapped(base + used + (alignment - 1)), alignment)

Padding(base, used, alignment) ==
  Wrapped(AlignedAt(base, used, alignment) - (base + used))

(* Slip: room measured without the padding.                                *)
FitsUnpadded(base, capacity, used, size, alignment) ==
  /\ size # 0
  /\ size <= capacity - used

Fits(base, capacity, used, size, alignment) ==
  /\ size # 0
  /\ Padding(base, used, alignment) + size < WordSize
  /\ Padding(base, used, alignment) + size <= capacity - used

(* Slip: the padding handed out twice.                                     *)
UsedAfterUnpadded(base, used, size, alignment) == used + size

UsedAfter(base, used, size, alignment) ==
  used + Padding(base, used, alignment) + size
=============================================================================
