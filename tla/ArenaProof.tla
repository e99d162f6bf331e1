------------------------------ MODULE ArenaProof ------------------------------
(***************************************************************************)
(* Proofs about Arena, for every word size, base, capacity and sequence of *)
(* calls.                                                                  *)
(***************************************************************************)
EXTENDS Arena, TLAPS

LEMMA ModBounds ==
  ASSUME NEW x \in Nat, NEW a \in Nat \ {0}
  PROVE  x % a \in 0 .. a - 1 /\ x % a <= x /\ (x < a => x % a = x)
<1>1. x % a \in 0 .. a - 1
  OBVIOUS
<1>2. x = a * (x \div a) + (x % a) /\ x \div a \in Nat
  OBVIOUS
<1>3. a * (x \div a) >= 0
  BY <1>2
<1>4. x % a <= x
  BY <1>1, <1>2, <1>3
<1>5. x < a => x % a = x
  OBVIOUS
<1>6. QED
  BY <1>1, <1>4, <1>5

LEMMA MaskIsMultiple ==
  ASSUME NEW x \in Nat, NEW a \in Nat \ {0}
  PROVE  AlignMask(x, a) % a = 0
<1>1. x = a * (x \div a) + (x % a) /\ x \div a \in Nat
  OBVIOUS
<1>2. AlignMask(x, a) = a * (x \div a)
  BY <1>1 DEF AlignMask
<1>3. \A k \in Nat : (a * k) % a = 0
  OBVIOUS
<1>4. QED
  BY <1>1, <1>2, <1>3

(* What a successful allocation is: an aligned run above the cursor and    *)
(* inside the arena, with the cursor moved to its end.                     *)
Placed(at, base, capacity, u, size, a) ==
  /\ at \in Nat
  /\ base + u <= at
  /\ at + size <= base + capacity
  /\ at % a = 0
  /\ UsedAfter(base, u, size, a) = at + size - base

(* Rounding up lands at or after the cursor, unless it wraps: then the     *)
(* padding is everything left in the address space and nothing fits.       *)
LEMMA PlacementSound ==
  ASSUME NEW base \in Nat, NEW capacity \in Nat, NEW u \in Nat, u <= capacity,
         NEW size \in Nat, NEW a \in Nat \ {0},
         WordSize \in Nat, base + capacity <= WordSize, a <= WordSize,
         Fits(base, capacity, u, size, a)
  PROVE  Placed(AlignedAt(base, u, a), base, capacity, u, size, a)
<1>. DEFINE current == base + u
            bumped  == current + (a - 1)
            at      == AlignedAt(base, u, a)
<1>1. current \in Nat /\ bumped \in Nat /\ current <= WordSize /\ size > 0
  BY DEF Fits
<1>2. CASE bumped < WordSize
  <2>1. Wrapped(bumped) = bumped
    BY <1>1, <1>2 DEF Wrapped
  <2>2. at = bumped - (bumped % a)
    BY <2>1 DEF AlignedAt, AlignMask
  <2>3. bumped % a \in 0 .. a - 1 /\ bumped % a <= bumped
    BY <1>1, ModBounds
  <2>4. at \in Nat /\ current <= at /\ at < WordSize
    BY <1>1, <1>2, <2>2, <2>3
  <2>5. Padding(base, u, a) = at - current
    BY <1>1, <2>4 DEF Padding, Wrapped
  <2>6. at % a = 0
    BY <1>1, <2>1, MaskIsMultiple DEF AlignedAt
  <2>7. QED
    BY <1>1, <2>4, <2>5, <2>6 DEF Fits, UsedAfter, Placed
<1>3. CASE bumped >= WordSize
  <2>1. Wrapped(bumped) = bumped - WordSize
    BY <1>1, <1>3 DEF Wrapped
  <2>2. bumped - WordSize \in Nat /\ bumped - WordSize < a
    BY <1>1, <1>3
  <2>3. at = 0
    <3> DEFINE x == bumped - WordSize
    <3>1. x % a = x
      BY <2>2, ModBounds
    <3>2. at = x - (x % a)
      BY <2>1 DEF AlignedAt, AlignMask
    <3>3. x \in Nat
      BY <2>2
    <3> HIDE DEF x
    <3> QED
      BY <3>1, <3>2, <3>3
  <2>4. CASE current = 0
    <3>1. bumped = a - 1
      BY <2>4
    <3>2. QED
      BY <1>3, <3>1
  <2>5. CASE current > 0
    <3>1. Padding(base, u, a) = WordSize - current
      BY <1>1, <2>3, <2>5 DEF Padding, Wrapped
    <3>2. QED
      BY <1>1, <3>1 DEF Fits
  <2>6. QED
    BY <1>1, <2>4, <2>5
<1>4. QED
  BY <1>1, <1>2, <1>3

-----------------------------------------------------------------------------
Inv ==
  /\ TypeOK
  /\ BlocksDisjoint
  /\ BlocksInside
  /\ BlocksAligned
  /\ MarksSound

LEMMA CapacityFits == Capacity \in Nat /\ Base \in Nat /\ Base + Capacity <= WordSize
BY ArenaAssumption DEF Capacity

LEMMA InitInv == Init => Inv
BY CapacityFits DEF Init, Inv, TypeOK, BlocksDisjoint, BlocksInside, BlocksAligned, MarksSound

LEMMA AllocateInv ==
  ASSUME Inv, NEW size \in Nat, NEW alignment \in Alignments,
         arena_allocate_aligned(size, alignment)
  PROVE  Inv'
<1>. DEFINE at  == AlignedAt(Base, used, alignment)
            new == [at |-> at, size |-> size, alignment |-> alignment]
<1>1. /\ used \in 0 .. Capacity
      /\ alignment \in Nat \ {0} /\ alignment <= WordSize /\ WordSize \in Nat
      /\ Fits(Base, Capacity, used, size, alignment)
      /\ size # 0
  BY ArenaAssumption DEF Inv, TypeOK, arena_allocate_aligned, Fits
<1>2. /\ at \in Nat
      /\ Base + used <= at
      /\ at + size <= Base + Capacity
      /\ at % alignment = 0
      /\ UsedAfter(Base, used, size, alignment) = at + size - Base
  <2>1. /\ Base \in Nat /\ Capacity \in Nat /\ WordSize \in Nat
        /\ Base + Capacity <= WordSize /\ used \in Nat /\ used <= Capacity
        /\ alignment \in Nat \ {0} /\ alignment <= WordSize
        /\ Fits(Base, Capacity, used, size, alignment)
    BY <1>1, CapacityFits
  <2>2. Placed(at, Base, Capacity, used, size, alignment)
    BY <2>1, PlacementSound
  <2>3. QED
    BY <2>2 DEF Placed
<1>3. used' = at + size - Base /\ blocks' = blocks \cup {new} /\ marks' = marks
  BY <1>2 DEF arena_allocate_aligned
<1>. HIDE DEF at
<1>4. new \in Block /\ new.at = at /\ new.size = size /\ new.alignment = alignment
  BY <1>1, <1>2 DEF Block
<1>. HIDE DEF new
<1>5. used' \in 0 .. Capacity /\ used <= used'
  BY <1>1, <1>2, <1>3, CapacityFits
<1>6. TypeOK'
  <2>1. Capacity' = Capacity
    BY DEF Capacity
  <2>2. QED
    BY <1>3, <1>4, <1>5, <2>1 DEF Inv, TypeOK
<1>7. \A x \in blocks : x \in Block /\ Base <= x.at /\ BlockEnd(x) <= Base + used /\ BlockEnd(x) \in Nat
  BY DEF Inv, TypeOK, BlocksInside, Block, BlockEnd
<1>8. \A x \in blocks : BlockEnd(x) <= new.at
  BY <1>1, <1>2, <1>4, <1>7, CapacityFits
<1>9. BlocksDisjoint'
  BY <1>3, <1>8 DEF Inv, BlocksDisjoint
<1>10. BlocksInside'
  <2>1. Base <= new.at /\ BlockEnd(new) <= Base + used'
    BY <1>1, <1>2, <1>3, <1>4, CapacityFits DEF BlockEnd
  <2>2. \A x \in blocks : BlockEnd(x) <= Base + used'
    BY <1>1, <1>5, <1>7, CapacityFits
  <2>3. QED
    BY <1>3, <1>7, <2>1, <2>2 DEF BlocksInside
<1>11. BlocksAligned'
  BY <1>2, <1>3, <1>4 DEF Inv, BlocksAligned
<1>12. MarksSound'
  BY <1>3 DEF Inv, MarksSound
<1>13. QED
  BY <1>6, <1>9, <1>10, <1>11, <1>12 DEF Inv

LEMMA MarkInv ==
  ASSUME Inv, arena_mark
  PROVE  Inv'
<1>. DEFINE mark == [used |-> used, kept |-> blocks]
<1>1. marks' = marks \cup {mark} /\ used' = used /\ blocks' = blocks
  BY DEF arena_mark
<1>2. mark \in [used : Nat, kept : SUBSET Block]
  BY CapacityFits DEF Inv, TypeOK
<1>3. TypeOK'
  BY <1>1, <1>2 DEF Inv, TypeOK, Capacity
<1>4. MarksSound'
  BY <1>1 DEF Inv, MarksSound, BlocksInside
<1>5. QED
  BY <1>1, <1>3, <1>4 DEF Inv, BlocksDisjoint, BlocksInside, BlocksAligned

LEMMA ReleaseInv ==
  ASSUME Inv, NEW mark \in marks, arena_release(mark)
  PROVE  Inv'
<1>1. /\ used' = (IF mark.used <= used THEN mark.used ELSE used)
      /\ blocks' = blocks \cap mark.kept
      /\ marks' = marks \ {mark}
  BY DEF arena_release, ReleaseCursor
<1>2. mark.used \in Nat /\ used \in 0 .. Capacity
  BY DEF Inv, TypeOK
<1>3. TypeOK'
  BY <1>1, <1>2, CapacityFits DEF Inv, TypeOK, Capacity
<1>4. BlocksInside'
  <2>1. \A x \in blocks' : Base <= x.at /\ BlockEnd(x) <= Base + used
    BY <1>1 DEF Inv, BlocksInside
  <2>2. \A x \in blocks' : BlockEnd(x) <= Base + mark.used
    BY <1>1 DEF Inv, MarksSound
  <2>3. QED
    BY <1>1, <2>1, <2>2 DEF BlocksInside
<1>5. QED
  BY <1>1, <1>3, <1>4 DEF Inv, BlocksDisjoint, BlocksAligned, MarksSound

LEMMA NextInv == Inv /\ [Next]_vars => Inv'
<1>. SUFFICES ASSUME Inv, [Next]_vars PROVE Inv'
  OBVIOUS
<1>1. CASE \E size \in Sizes, alignment \in Alignments : arena_allocate_aligned(size, alignment)
  BY <1>1, AllocateInv, ArenaAssumption
<1>2. CASE \E count \in Counts, size \in Sizes : arena_allocate_array(count, size)
  <2>1. PICK count \in Counts, size \in Sizes : arena_allocate_array(count, size)
    BY <1>2
  <2>2. count * size \in Nat
    BY ArenaAssumption
  <2>3. arena_allocate_aligned(count * size, DefaultAlignment)
    BY <2>1 DEF arena_allocate_array, arena_allocate
  <2>4. QED
    BY <2>2, <2>3, AllocateInv, ArenaAssumption
<1>3. CASE arena_reset
  BY <1>3, CapacityFits DEF arena_reset, Inv, TypeOK, Capacity, BlocksDisjoint, BlocksInside,
                            BlocksAligned, MarksSound
<1>4. CASE arena_mark
  BY <1>4, MarkInv
<1>5. CASE \E mark \in marks : arena_release(mark)
  BY <1>5, ReleaseInv
<1>6. CASE UNCHANGED vars
  BY <1>6 DEF vars, Inv, TypeOK, Capacity, BlocksDisjoint, BlocksInside, BlocksAligned, MarksSound
<1>7. CASE \E size \in Sizes, alignment \in Alignments : arena_allocate_refused(size, alignment)
  BY <1>6, <1>7 DEF arena_allocate_refused
<1>8. QED
  BY <1>1, <1>2, <1>3, <1>4, <1>5, <1>6, <1>7 DEF Next

LEMMA ArenaInvariant == Spec => []Inv
BY InitInv, NextInv, PTL DEF Spec

(* The cursor never leaves the arena.                                      *)
THEOREM ArenaTypeCorrect == Spec => []TypeOK
<1>1. Inv => TypeOK
  BY DEF Inv
<1>2. QED
  BY ArenaInvariant, <1>1, PTL

(* No two live allocations share a byte.                                   *)
THEOREM ArenaBlocksDisjoint == Spec => []BlocksDisjoint
<1>1. Inv => BlocksDisjoint
  BY DEF Inv
<1>2. QED
  BY ArenaInvariant, <1>1, PTL

(* Every live allocation lies inside the arena, below the cursor, even     *)
(* where rounding its address up wraps the machine word.                   *)
THEOREM ArenaBlocksInside == Spec => []BlocksInside
<1>1. Inv => BlocksInside
  BY DEF Inv
<1>2. QED
  BY ArenaInvariant, <1>1, PTL

(* Every allocation has the alignment its caller asked for.                *)
THEOREM ArenaBlocksAligned == Spec => []BlocksAligned
<1>1. Inv => BlocksAligned
  BY DEF Inv
<1>2. QED
  BY ArenaInvariant, <1>1, PTL
=============================================================================
