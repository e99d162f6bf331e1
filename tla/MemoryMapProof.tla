---------------------------- MODULE MemoryMapProof ----------------------------
(***************************************************************************)
(* Proofs about MemoryMap, for every address width, capacity and sequence  *)
(* of claims.                                                              *)
(***************************************************************************)
EXTENDS MemoryMap, WellFoundedInduction, TLAPS

(* A non-empty set of verdicts has a strictest member.                     *)
LEMMA StrictestExists ==
  ASSUME NEW S, S \subseteq Verdict, S # {}
  PROVE  \E v \in S : \A w \in S : w <= v
<1>. DEFINE Top(n) == n \in S /\ \A w \in S : w <= n
<1>1. \A w \in S : w \in -1 .. 7
  BY DEF Verdict, Kind, USABLE, BAD, NOBODY
<1>2. \E n \in -1 .. 7 : n \in S
  BY <1>1
<1>3. Top(7) \/ Top(6) \/ Top(5) \/ Top(4) \/ Top(3) \/ Top(2) \/ Top(1) \/ Top(0) \/ Top(-1)
  BY <1>1, <1>2
<1>4. QED
  BY <1>3

(* What membership in Regions says of one region.                          *)
LEMMA RegionFacts ==
  ASSUME NEW list, Regions(list)
  PROVE  /\ Len(list) \in Nat
         /\ DOMAIN list = 1 .. Len(list)
         /\ \A i \in 1 .. Len(list) :
              /\ list[i] \in Region
              /\ list[i].base \in Nat
              /\ list[i].length \in Nat \ {0}
              /\ list[i].kind \in Kind
              /\ RegionEnd(list[i]) \in Nat
              /\ RegionEnd(list[i]) = list[i].base + list[i].length
              /\ RegionEnd(list[i]) <= AddressMax
<1>1. list \in Seq(Region)
  BY DEF Regions
<1>2. Len(list) \in Nat /\ DOMAIN list = 1 .. Len(list)
  BY <1>1
<1>3. \A i \in 1 .. Len(list) : list[i] \in Region
  BY <1>1
<1>4. QED
  BY <1>2, <1>3 DEF Regions, Region, RegionEnd

LEMMA KindsAtAreKinds ==
  ASSUME NEW list, Regions(list), NEW b
  PROVE  KindsAt(list, b) \subseteq Kind
BY RegionFacts DEF KindsAt

(* KindAt really is the strictest of the kinds over a byte.                *)
LEMMA KindAtIsStrictest ==
  ASSUME NEW list, Regions(list), NEW b
  PROVE  /\ KindAt(list, b) \in KindsAt(list, b) \cup {NOBODY}
         /\ \A w \in KindsAt(list, b) \cup {NOBODY} : w <= KindAt(list, b)
<1>1. KindsAt(list, b) \subseteq Kind
  BY KindsAtAreKinds
<1>2. KindsAt(list, b) \cup {NOBODY} \subseteq Verdict
  BY <1>1 DEF Verdict
<1>3. \E v \in KindsAt(list, b) \cup {NOBODY} :
        \A w \in KindsAt(list, b) \cup {NOBODY} : w <= v
  BY <1>2, StrictestExists
<1>4. QED
  BY <1>3 DEF KindAt

(* The verdict depends only on the set of kinds over the byte.             *)
LEMMA KindAtNobody ==
  ASSUME NEW list, NEW b, KindsAt(list, b) = {}
  PROVE  KindAt(list, b) = NOBODY
BY DEF KindAt, NOBODY

LEMMA KindAtSame ==
  ASSUME NEW list, NEW other, NEW b, KindsAt(list, b) = KindsAt(other, b)
  PROVE  KindAt(list, b) = KindAt(other, b)
BY DEF KindAt

LEMMA KindAtMaximum ==
  ASSUME NEW list, Regions(list), NEW b, NEW kind \in KindsAt(list, b),
         \A k \in KindsAt(list, b) : k <= kind
  PROVE  KindAt(list, b) = kind
<1>1. KindsAt(list, b) \subseteq Kind
  BY KindsAtAreKinds
<1>2. kind \in Int /\ -1 <= kind
  BY <1>1 DEF Kind, USABLE, BAD
<1>3. KindAt(list, b) \in KindsAt(list, b) \cup {NOBODY} /\ kind <= KindAt(list, b)
  BY KindAtIsStrictest
<1>4. KindAt(list, b) \in Int
  BY <1>1, <1>3 DEF Kind, USABLE, BAD, NOBODY
<1>5. KindAt(list, b) <= kind
  BY <1>2, <1>3 DEF NOBODY
<1>6. QED
  BY <1>2, <1>3, <1>4, <1>5

(* The kinds over a byte once one region is appended.                      *)
LEMMA KindsAtAppend ==
  ASSUME NEW list, Regions(list), NEW r \in Region, NEW b
  PROVE  KindsAt(Append(list, r), b) =
           KindsAt(list, b) \cup (IF r.base <= b /\ b < RegionEnd(r) THEN {r.kind} ELSE {})
<1>1. /\ list \in Seq(Region)
      /\ Len(list) \in Nat
      /\ Append(list, r) \in Seq(Region)
      /\ Len(Append(list, r)) = Len(list) + 1
      /\ \A i \in 1 .. Len(list) : Append(list, r)[i] = list[i]
      /\ Append(list, r)[Len(list) + 1] = r
      /\ DOMAIN list = 1 .. Len(list)
      /\ DOMAIN Append(list, r) = 1 .. Len(list) + 1
  BY DEF Regions
<1>2. 1 .. Len(list) + 1 = (1 .. Len(list)) \cup {Len(list) + 1}
  BY <1>1
<1>. DEFINE new == Append(list, r)
            over(l, i) == l[i].base <= b /\ b < RegionEnd(l[i])
<1>3. \A i \in 1 .. Len(list) : over(new, i) = over(list, i) /\ new[i].kind = list[i].kind
  BY <1>1
<1>4. over(new, Len(list) + 1) = (r.base <= b /\ b < RegionEnd(r)) /\ new[Len(list) + 1].kind = r.kind
  BY <1>1
<1>. HIDE DEF new, over
<1>5. {new[i].kind : i \in {j \in 1 .. Len(list) + 1 : over(new, j)}} =
        {list[i].kind : i \in {j \in 1 .. Len(list) : over(list, j)}} \cup
        (IF r.base <= b /\ b < RegionEnd(r) THEN {r.kind} ELSE {})
  BY <1>2, <1>3, <1>4
<1>6. QED
  BY <1>1, <1>5 DEF KindsAt, new, over

(* An elementary interval is covered as a whole or not at all, so the kinds*)
(* over any of its bytes are the kinds interval_kind looks at.             *)
LEMMA IntervalIsElementary ==
  ASSUME TypeOK, NEW end, IsNextBoundary(end), NEW b \in Nat, start <= b, b < end
  PROVE  KindsAt(regions, b) = IntervalKinds(regions, start, end)
<1>1. Regions(regions) /\ start \in Nat
  BY DEF TypeOK
<1>2. \A i \in DOMAIN regions :
        /\ regions[i].base \in Boundaries(regions)
        /\ RegionEnd(regions[i]) \in Boundaries(regions)
  BY DEF Boundaries
<1>3. end \in Nat
  BY <1>1, RegionFacts DEF IsNextBoundary, Boundaries
<1>4. \A i \in DOMAIN regions :
        (regions[i].base <= b /\ b < RegionEnd(regions[i]))
          <=> (regions[i].base <= start /\ end <= RegionEnd(regions[i]))
  <2>1. SUFFICES ASSUME NEW i \in DOMAIN regions
                 PROVE  (regions[i].base <= b /\ b < RegionEnd(regions[i]))
                          <=> (regions[i].base <= start /\ end <= RegionEnd(regions[i]))
    OBVIOUS
  <2>2. regions[i].base \in Nat /\ RegionEnd(regions[i]) \in Nat
    BY <1>1, <2>1, RegionFacts
  <2>3. /\ regions[i].base <= start \/ end <= regions[i].base
        /\ RegionEnd(regions[i]) <= start \/ end <= RegionEnd(regions[i])
    BY <1>2, <2>1 DEF IsNextBoundary
  <2>4. QED
    BY <1>1, <1>3, <2>2, <2>3
<1>5. QED
  BY <1>4 DEF KindsAt, IntervalKinds

(* A byte past the end of every region is described by none of them.       *)
LEMMA NothingAbove ==
  ASSUME NEW list, Regions(list), NEW top \in Nat, NEW b \in Nat, top <= b,
         \A i \in 1 .. Len(list) : RegionEnd(list[i]) <= top
  PROVE  KindsAt(list, b) = {}
<1>1. \A i \in DOMAIN list : ~ (b < RegionEnd(list[i]))
  BY RegionFacts
<1>2. QED
  BY <1>1 DEF KindsAt

LEMMA BoundaryInRange ==
  ASSUME TypeOK, NEW end \in Boundaries(regions)
  PROVE  end \in Nat /\ end <= AddressMax
<1>1. Regions(regions)
  BY DEF TypeOK
<1>2. \A i \in DOMAIN regions : /\ regions[i].base \in Nat
                                /\ regions[i].base <= AddressMax
                                /\ RegionEnd(regions[i]) \in Nat
                                /\ RegionEnd(regions[i]) <= AddressMax
  BY <1>1, RegionFacts, MapAssumption
<1>3. QED
  BY <1>2 DEF Boundaries

(* The interval's winner is the verdict on each of its bytes.              *)
LEMMA IntervalVerdict ==
  ASSUME TypeOK, NEW end, IsNextBoundary(end), NEW kind, WinsInterval(kind, end),
         NEW b \in Nat, start <= b, b < end
  PROVE  KindAt(regions, b) = kind
<1>1. KindsAt(regions, b) = IntervalKinds(regions, start, end)
  BY IntervalIsElementary
<1>2. Regions(regions)
  BY DEF TypeOK
<1>3. QED
  BY <1>1, <1>2, KindAtMaximum DEF WinsInterval

-----------------------------------------------------------------------------
LEMMA PieceIsRegion ==
  ASSUME TypeOK, NEW end, IsNextBoundary(end), NEW kind \in Kind
  PROVE  /\ Piece(end, kind) \in Region
         /\ Piece(end, kind).base = start
         /\ Piece(end, kind).kind = kind
         /\ RegionEnd(Piece(end, kind)) = end
         /\ end \in Nat /\ end <= AddressMax /\ start < end
<1>1. end \in Nat /\ end <= AddressMax /\ start < end /\ start \in Nat
  BY BoundaryInRange DEF IsNextBoundary, TypeOK
<1>2. QED
  BY <1>1 DEF Piece, Region, RegionEnd

LEMMA AppendRegions ==
  ASSUME NEW list, Regions(list), NEW r \in Region, RegionEnd(r) <= AddressMax,
         Len(list) # MaxRegions
  PROVE  /\ Regions(Append(list, r))
         /\ Len(Append(list, r)) = Len(list) + 1
         /\ \A i \in 1 .. Len(list) : Append(list, r)[i] = list[i]
         /\ Append(list, r)[Len(list) + 1] = r
<1>1. list \in Seq(Region) /\ Len(list) \in Nat /\ Len(list) <= MaxRegions
  BY DEF Regions
<1>2. /\ Append(list, r) \in Seq(Region)
      /\ Len(Append(list, r)) = Len(list) + 1
      /\ \A i \in 1 .. Len(list) : Append(list, r)[i] = list[i]
      /\ Append(list, r)[Len(list) + 1] = r
  BY <1>1
<1>3. Len(list) + 1 <= MaxRegions
  BY <1>1, MapAssumption
<1>4. \A i \in 1 .. Len(list) + 1 : RegionEnd(Append(list, r)[i]) <= AddressMax
  <2>1. \A i \in 1 .. Len(list) + 1 : i \in 1 .. Len(list) \/ i = Len(list) + 1
    BY <1>1
  <2>2. QED
    BY <1>2, <2>1 DEF Regions
<1>5. QED
  BY <1>2, <1>3, <1>4 DEF Regions

(* Lengthening the last region, as a merge does.                           *)
LEMMA MergeRegions ==
  ASSUME TypeOK, NEW end, IsNextBoundary(end), NEW kind, Touches(kind),
         NEW new, new = [result EXCEPT ![Len(result)] = Stretched(result[Len(result)], end)]
  PROVE  /\ Regions(new)
         /\ Len(new) = Len(result)
         /\ Len(result) \in 1 .. Len(result)
         /\ \A i \in 1 .. Len(result) : /\ new[i].base = result[i].base
                                        /\ new[i].kind = result[i].kind
         /\ \A i \in 1 .. Len(result) - 1 : RegionEnd(new[i]) = RegionEnd(result[i])
         /\ RegionEnd(new[Len(result)]) = end
         /\ new[Len(result)].kind = kind
         /\ RegionEnd(result[Len(result)]) = start
<1>. DEFINE n == Len(result)
<1>1. end \in Nat /\ end <= AddressMax /\ start < end /\ start \in Nat
  BY BoundaryInRange DEF IsNextBoundary, TypeOK
<1>2. Regions(result) /\ result \in Seq(Region)
  BY DEF TypeOK, Regions
<1>3. n \in Nat /\ n \in 1 .. n /\ result # << >>
  BY <1>2 DEF Touches
<1>4. /\ result[n].base \in Nat
      /\ result[n].length \in Nat \ {0}
      /\ result[n].kind \in Kind
      /\ result[n].base + result[n].length = start
      /\ result[n].kind = kind
      /\ result[n] \in [base : Nat, length : Nat \ {0}, kind : Kind]
  BY <1>2, <1>3, RegionFacts DEF Touches, RegionEnd, Region
<1>. DEFINE last == Stretched(result[n], end)
<1>5. /\ last \in Region
      /\ last.base = result[n].base
      /\ last.kind = result[n].kind
      /\ last.base + last.length = end
  BY <1>1, <1>4 DEF Region, Stretched
<1>6. new = [result EXCEPT ![n] = last]
  BY <1>3
<1>. HIDE DEF last
<1>7. /\ new \in Seq(Region)
      /\ Len(new) = n
      /\ \A i \in 1 .. n : new[i] = IF i = n THEN last ELSE result[i]
  BY <1>2, <1>3, <1>5, <1>6
<1>8. \A i \in 1 .. n : /\ new[i].base = result[i].base
                        /\ new[i].kind = result[i].kind
  BY <1>5, <1>7
<1>9. \A i \in 1 .. n - 1 : RegionEnd(new[i]) = RegionEnd(result[i])
  <2>. SUFFICES ASSUME NEW i \in 1 .. n - 1
                PROVE  RegionEnd(new[i]) = RegionEnd(result[i])
    OBVIOUS
  <2>1. i \in 1 .. n /\ i # n
    BY <1>3
  <2>2. new[i] = result[i]
    BY <1>7, <2>1
  <2>3. QED
    BY <2>2
<1>10. RegionEnd(new[n]) = end
  BY <1>3, <1>5, <1>7 DEF RegionEnd
<1>11. \A i \in 1 .. n : RegionEnd(new[i]) <= AddressMax
  <2>1. \A i \in 1 .. n : i \in 1 .. n - 1 \/ i = n
    BY <1>3
  <2>2. QED
    BY <1>1, <1>2, <1>9, <1>10, <2>1, RegionFacts
<1>12. QED
  BY <1>2, <1>3, <1>4, <1>7, <1>8, <1>9, <1>10, <1>11 DEF Regions, RegionEnd

-----------------------------------------------------------------------------
(* The invariant the sweep rests on.                                       *)
Inv == TypeOK /\ SweepInv

LEMMA InitInv == Init => Inv
<1>. SUFFICES ASSUME Init PROVE Inv
  OBVIOUS
<1>1. Regions(<< >>)
  BY MapAssumption DEF Regions
<1>2. QED
  BY <1>1 DEF Init, Inv, TypeOK, SweepInv

LEMMA AddInv ==
  ASSUME Inv, NEW base \in Nat, NEW length \in Nat, NEW kind \in ClaimKinds,
         memory_map_add(base, length, kind)
  PROVE  Inv'
<1>1. CASE Len(regions) = MaxRegions
  BY <1>1 DEF memory_map_add, IsFull, locals, Inv, TypeOK, SweepInv
<1>2. CASE Len(regions) # MaxRegions
  <2>. DEFINE r == [base |-> base, length |-> length, kind |-> kind]
  <2>1. r \in Region /\ RegionEnd(r) <= AddressMax
    BY MapAssumption DEF memory_map_add, Region, RegionEnd
  <2>2. Regions(Append(regions, r))
    BY <1>2, <2>1, AppendRegions DEF Inv, TypeOK
  <2>3. regions' = Append(regions, r) /\ adds' = adds + 1
    BY <1>2 DEF IsFull, memory_map_add
  <2>4. TypeOK'
    BY <2>2, <2>3 DEF memory_map_add, locals, Inv, TypeOK
  <2>5. SweepInv'
    BY DEF memory_map_add, SweepInv
  <2>6. QED
    BY <2>4, <2>5 DEF Inv
<1>3. QED
  BY <1>1, <1>2

LEMMA BeginInv ==
  ASSUME Inv, NEW lowest \in Boundaries(regions), BeginFinalize(lowest)
  PROVE  Inv'
<1>1. Regions(regions) /\ Regions(<< >>) /\ lowest \in Nat
  BY BoundaryInRange, MapAssumption DEF Inv, TypeOK, Regions
<1>2. TypeOK'
  BY <1>1 DEF BeginFinalize, Inv, TypeOK
<1>3. \A b \in 0 .. AddressMax - 1 : b < lowest => KindAt(<< >>, b) = KindAt(regions, b)
  <2>. SUFFICES ASSUME NEW b \in 0 .. AddressMax - 1, b < lowest
                PROVE  KindAt(<< >>, b) = KindAt(regions, b)
    OBVIOUS
  <2>1. KindsAt(<< >>, b) = {}
    BY DEF KindsAt
  <2>2. \A i \in DOMAIN regions : ~ (regions[i].base <= b)
    <3>1. \A i \in DOMAIN regions : regions[i].base \in Boundaries(regions)
      BY DEF Boundaries
    <3>2. \A i \in DOMAIN regions : lowest <= regions[i].base
      BY <3>1 DEF BeginFinalize
    <3>3. \A i \in DOMAIN regions : regions[i].base \in Nat
      BY <1>1, RegionFacts
    <3>4. QED
      BY <1>1, <3>2, <3>3
  <2>3. KindsAt(regions, b) = {}
    BY <2>2 DEF KindsAt
  <2>4. QED
    BY <2>1, <2>3, KindAtSame
<1>4. SweepInv'
  BY <1>1, <1>3 DEF BeginFinalize, SweepInv, Canonical, Inv, TypeOK
<1>5. QED
  BY <1>2, <1>4 DEF Inv

LEMMA GapInv ==
  ASSUME Inv, NEW end \in Boundaries(regions), SweepGap(end)
  PROVE  Inv'
<1>1. end \in Nat /\ start \in Nat /\ start < end /\ Regions(result) /\ Regions(regions)
  BY BoundaryInRange DEF SweepGap, IsNextBoundary, Inv, TypeOK
<1>2. TypeOK'
  BY <1>1 DEF SweepGap, Inv, TypeOK
<1>3. \A b \in 0 .. AddressMax - 1 : b < end => KindAt(result, b) = KindAt(regions, b)
  <2>. SUFFICES ASSUME NEW b \in 0 .. AddressMax - 1, b < end
                PROVE  KindAt(result, b) = KindAt(regions, b)
    OBVIOUS
  <2>1. CASE b < start
    BY <2>1 DEF SweepGap, Inv, SweepInv
  <2>2. CASE start <= b
    <3>1. KindsAt(regions, b) = {}
      BY <2>2, IntervalIsElementary DEF SweepGap, Inv
    <3>2. KindsAt(result, b) = {}
      BY <1>1, <2>2, NothingAbove DEF SweepGap, Inv, SweepInv
    <3>3. QED
      BY <3>1, <3>2, KindAtSame
  <2>3. QED
    BY <1>1, <2>1, <2>2
<1>4. \A i \in 1 .. Len(result) : RegionEnd(result[i]) <= end
  BY <1>1, RegionFacts DEF SweepGap, Inv, SweepInv
<1>5. SweepInv'
  BY <1>1, <1>3, <1>4 DEF SweepGap, Inv, SweepInv
<1>6. QED
  BY <1>2, <1>5 DEF Inv

LEMMA AppendInv ==
  ASSUME Inv, NEW end \in Boundaries(regions), NEW kind \in Kind, SweepAppend(end, kind)
  PROVE  Inv'
<1>. DEFINE piece == Piece(end, kind)
            new == Append(result, piece)
            n == Len(result)
<1>1. /\ start \in Nat /\ Regions(result) /\ Regions(regions) /\ TypeOK
      /\ IsNextBoundary(end) /\ WinsInterval(kind, end) /\ pc = "sweep"
  BY DEF SweepAppend, Inv, TypeOK
<1>2. /\ piece \in Region
      /\ piece.base = start
      /\ piece.kind = kind
      /\ RegionEnd(piece) = end
      /\ end \in Nat /\ end <= AddressMax /\ start < end
  BY <1>1, PieceIsRegion
<1>. HIDE DEF piece
<1>3. /\ Regions(new)
      /\ Len(new) = n + 1
      /\ \A i \in 1 .. n : new[i] = result[i]
      /\ new[n + 1] = piece
      /\ n \in Nat
  BY <1>1, <1>2, AppendRegions, RegionFacts DEF SweepAppend
<1>. HIDE DEF new
<1>4. TypeOK'
  BY <1>1, <1>2, <1>3 DEF SweepAppend, Inv, TypeOK, new, piece
<1>5. \A i \in 1 .. n + 1 : RegionEnd(new[i]) <= end
  <2>1. \A i \in 1 .. n : RegionEnd(new[i]) <= end
    BY <1>1, <1>2, <1>3, RegionFacts DEF Inv, SweepInv
  <2>2. \A i \in 1 .. n + 1 : i \in 1 .. n \/ i = n + 1
    BY <1>3
  <2>3. QED
    BY <1>2, <1>3, <2>1, <2>2
<1>6. Canonical(new)
  <2>. SUFFICES ASSUME NEW i \in 1 .. n + 1, NEW j \in 1 .. n + 1, i < j
                PROVE  /\ RegionEnd(new[i]) <= new[j].base
                       /\ new[i].kind = new[j].kind => RegionEnd(new[i]) < new[j].base
    BY <1>3 DEF Canonical
  <2>1. i \in 1 .. n /\ new[i] = result[i] /\ RegionEnd(result[i]) <= start
    BY <1>1, <1>3 DEF Inv, SweepInv
  <2>2. CASE j \in 1 .. n
    BY <1>1, <1>3, <2>1, <2>2 DEF Inv, SweepInv, Canonical
  <2>3. CASE j = n + 1
    <3>1. new[j].base = start /\ new[j].kind = kind
      BY <1>2, <1>3, <2>3
    <3>2. CASE i = n
      <4>1. ~ (result[n].kind = kind /\ RegionEnd(result[n]) = start)
        BY <1>3, <2>1, <3>2 DEF SweepAppend, Touches
      <4>2. RegionEnd(result[n]) \in Nat
        BY <1>1, <2>1, <3>2, RegionFacts
      <4>3. QED
        BY <1>1, <2>1, <3>1, <3>2, <4>1, <4>2
    <3>3. CASE i # n
      <4>1. n \in 1 .. n /\ i < n
        BY <1>3, <2>1, <3>3
      <4>2. RegionEnd(result[i]) <= result[n].base
        BY <1>1, <2>1, <4>1 DEF Inv, SweepInv, Canonical
      <4>3. result[n].base < RegionEnd(result[n]) /\ RegionEnd(result[n]) <= start
        <5>1. result[n].base < RegionEnd(result[n])
          BY <1>1, <4>1, RegionFacts
        <5>2. RegionEnd(result[n]) <= start
          BY <1>1, <4>1 DEF Inv, SweepInv
        <5>3. QED
          BY <5>1, <5>2
      <4>4. /\ RegionEnd(result[i]) \in Nat /\ RegionEnd(result[n]) \in Nat
            /\ result[n].base \in Nat
        BY <1>1, <2>1, <4>1, RegionFacts
      <4>5. QED
        BY <1>1, <2>1, <3>1, <4>2, <4>3, <4>4
    <3>4. QED
      BY <3>2, <3>3
  <2>4. QED
    BY <1>3, <2>2, <2>3
<1>7. \A b \in 0 .. AddressMax - 1 : b < end => KindAt(new, b) = KindAt(regions, b)
  <2>. SUFFICES ASSUME NEW b \in 0 .. AddressMax - 1, b < end
                PROVE  KindAt(new, b) = KindAt(regions, b)
    OBVIOUS
  <2>1. KindsAt(new, b) =
          KindsAt(result, b) \cup (IF start <= b /\ b < end THEN {kind} ELSE {})
    BY <1>1, <1>2, KindsAtAppend DEF new
  <2>2. CASE b < start
    <3>1. KindsAt(new, b) = KindsAt(result, b)
      BY <1>1, <2>1, <2>2
    <3>2. KindAt(result, b) = KindAt(regions, b)
      BY <1>1, <2>2 DEF Inv, SweepInv
    <3>3. QED
      BY <3>1, <3>2, KindAtSame
  <2>3. CASE start <= b
    <3>1. KindsAt(result, b) = {}
      BY <1>1, <2>3, NothingAbove DEF Inv, SweepInv
    <3>2. KindsAt(new, b) = {kind}
      BY <2>1, <2>3, <3>1
    <3>3. KindAt(new, b) = kind
      <4>1. kind <= kind
        BY DEF Kind, USABLE, BAD
      <4>2. QED
        BY <1>3, <3>2, <4>1, KindAtMaximum
    <3>4. KindAt(regions, b) = kind
      BY <1>1, <2>3, IntervalVerdict
    <3>5. QED
      BY <3>3, <3>4
  <2>4. QED
    BY <1>1, <2>2, <2>3
<1>8. result' = new /\ start' = end /\ regions' = regions
  BY DEF SweepAppend, new, piece
<1>9. SweepInv'
  BY <1>1, <1>3, <1>5, <1>6, <1>7, <1>8 DEF SweepAppend, Inv, SweepInv, IsNextBoundary
<1>10. QED
  BY <1>4, <1>9 DEF Inv

LEMMA MergeInv ==
  ASSUME Inv, NEW end \in Boundaries(regions), NEW kind \in Kind, SweepMerge(end, kind)
  PROVE  Inv'
<1>. DEFINE new == [result EXCEPT ![Len(result)] = Stretched(result[Len(result)], end)]
            n == Len(result)
<1>1. /\ start \in Nat /\ Regions(result) /\ Regions(regions) /\ TypeOK
      /\ IsNextBoundary(end) /\ WinsInterval(kind, end) /\ Touches(kind) /\ pc = "sweep"
  BY DEF SweepMerge, Inv, TypeOK
<1>2. end \in Nat /\ start < end
  BY <1>1, BoundaryInRange DEF IsNextBoundary
<1>3. /\ Regions(new)
      /\ Len(new) = n
      /\ n \in 1 .. n
      /\ \A i \in 1 .. n : new[i].base = result[i].base /\ new[i].kind = result[i].kind
      /\ \A i \in 1 .. n - 1 : RegionEnd(new[i]) = RegionEnd(result[i])
      /\ RegionEnd(new[n]) = end
      /\ new[n].kind = kind
      /\ RegionEnd(result[n]) = start
  BY <1>1, MergeRegions
<1>4. n \in Nat
  BY <1>1, RegionFacts
<1>5. result' = new /\ start' = end /\ regions' = regions
  BY DEF SweepMerge
<1>. HIDE DEF new
<1>6. TypeOK'
  BY <1>1, <1>2, <1>3, <1>5 DEF SweepMerge, Inv, TypeOK
<1>7. \A i \in 1 .. n : i = n \/ i \in 1 .. n - 1
  BY <1>4
<1>8. \A i \in 1 .. n : RegionEnd(result[i]) \in Nat /\ RegionEnd(result[i]) <= start
  BY <1>1, RegionFacts DEF Inv, SweepInv
<1>9. \A i \in 1 .. n : RegionEnd(new[i]) <= end
  BY <1>1, <1>2, <1>3, <1>7, <1>8
<1>10. Canonical(new)
  <2>. SUFFICES ASSUME NEW i \in 1 .. n, NEW j \in 1 .. n, i < j
                PROVE  /\ RegionEnd(new[i]) <= new[j].base
                       /\ new[i].kind = new[j].kind => RegionEnd(new[i]) < new[j].base
    BY <1>3 DEF Canonical
  <2>1. i \in 1 .. n - 1
    BY <1>4
  <2>2. /\ RegionEnd(new[i]) = RegionEnd(result[i])
        /\ new[j].base = result[j].base
        /\ new[i].kind = result[i].kind /\ new[j].kind = result[j].kind
    BY <1>3, <2>1
  <2>3. /\ RegionEnd(result[i]) <= result[j].base
        /\ result[i].kind = result[j].kind => RegionEnd(result[i]) < result[j].base
    BY <1>1 DEF Inv, SweepInv, Canonical
  <2>4. QED
    BY <2>2, <2>3
<1>11. \A b \in 0 .. AddressMax - 1 : b < end => KindAt(new, b) = KindAt(regions, b)
  <2>. SUFFICES ASSUME NEW b \in 0 .. AddressMax - 1, b < end
                PROVE  KindAt(new, b) = KindAt(regions, b)
    OBVIOUS
  <2>. DEFINE over(l, i) == l[i].base <= b /\ b < RegionEnd(l[i])
  <2>1. DOMAIN new = 1 .. n /\ DOMAIN result = 1 .. n
    BY <1>1, <1>3, RegionFacts
  <2>2. \A i \in 1 .. n - 1 : over(new, i) <=> over(result, i)
    BY <1>3, <1>4
  <2>3. CASE b < start
    <3>1. over(new, n) <=> over(result, n)
      BY <1>1, <1>2, <1>3, <2>3
    <3>2. \A i \in 1 .. n : (over(new, i) <=> over(result, i)) /\ new[i].kind = result[i].kind
      BY <1>3, <1>7, <2>2, <3>1
    <3>3. KindsAt(new, b) = KindsAt(result, b)
      BY <2>1, <3>2 DEF KindsAt
    <3>4. KindAt(result, b) = KindAt(regions, b)
      BY <1>1, <2>3 DEF Inv, SweepInv
    <3>5. QED
      BY <3>3, <3>4, KindAtSame
  <2>4. CASE start <= b
    <3>1. \A i \in 1 .. n : ~ over(result, i)
      BY <1>1, <1>8, <2>4
    <3>2. result[n].base \in Nat /\ result[n].base < start
      <4>1. /\ result[n].base \in Nat
            /\ result[n].length \in Nat \ {0}
            /\ RegionEnd(result[n]) = result[n].base + result[n].length
        BY <1>1, <1>3, RegionFacts
      <4>2. QED
        BY <1>1, <1>3, <4>1
    <3>3. over(new, n)
      BY <1>1, <1>3, <2>4, <3>2
    <3>4. \A i \in 1 .. n : over(new, i) <=> i = n
      BY <1>7, <1>4, <2>2, <3>1, <3>3
    <3>5. KindsAt(new, b) = {kind}
      BY <1>3, <2>1, <3>4 DEF KindsAt
    <3>6. KindAt(new, b) = kind
      <4>1. kind <= kind
        BY DEF Kind, USABLE, BAD
      <4>2. QED
        BY <1>3, <3>5, <4>1, KindAtMaximum
    <3>7. KindAt(regions, b) = kind
      BY <1>1, <2>4, IntervalVerdict
    <3>8. QED
      BY <3>6, <3>7
  <2>5. QED
    BY <1>1, <2>3, <2>4
<1>12. SweepInv'
  BY <1>1, <1>3, <1>5, <1>9, <1>10, <1>11 DEF SweepMerge, Inv, SweepInv
<1>13. QED
  BY <1>6, <1>12 DEF Inv

(* The remaining steps of finalize change nothing the invariant reads but  *)
(* pc, or hand the finished result to the map.                             *)
LEMMA LeaveLoopInv ==
  ASSUME Inv, (\E end \in Boundaries(regions), kind \in Kind : SweepFull(end, kind)) \/ SweepEnd
  PROVE  Inv'
<1>1. CASE \E end \in Boundaries(regions), kind \in Kind : SweepFull(end, kind)
  <2>1. TypeOK'
    BY <1>1 DEF SweepFull, Inv, TypeOK
  <2>2. SweepInv'
    BY <1>1 DEF SweepFull, Inv, SweepInv
  <2>3. QED
    BY <2>1, <2>2 DEF Inv
<1>2. CASE SweepEnd
  <2>1. TypeOK'
    BY <1>2 DEF SweepEnd, Inv, TypeOK
  <2>2. SweepInv'
    BY <1>2 DEF SweepEnd, Inv, SweepInv
  <2>3. QED
    BY <2>1, <2>2 DEF Inv
<1>3. QED
  BY <1>1, <1>2

LEMMA StoreInv ==
  ASSUME Inv, StoreResult
  PROVE  Inv'
<1>1. Regions(<< >>)
  BY MapAssumption DEF Regions
<1>2. QED
  BY <1>1 DEF StoreResult, Inv, TypeOK, SweepInv

LEMMA ClearInv ==
  ASSUME Inv, memory_map_clear
  PROVE  Inv'
<1>1. Regions(<< >>)
  BY MapAssumption DEF Regions
<1>2. QED
  BY <1>1 DEF memory_map_clear, locals, Inv, TypeOK, SweepInv

LEMMA StutterInv ==
  ASSUME Inv, UNCHANGED vars
  PROVE  Inv'
BY DEF vars, Inv, TypeOK, SweepInv

LEMMA NextInv == Inv /\ [Next]_vars => Inv'
<1>. SUFFICES ASSUME Inv, [Next]_vars PROVE Inv'
  OBVIOUS
<1>1. CASE memory_map_clear
  BY <1>1, ClearInv
<1>2. CASE \E base, length \in 0 .. AddressMax, kind \in ClaimKinds :
             memory_map_add(base, length, kind)
  BY <1>2, AddInv
<1>3. CASE \E base, length \in 0 .. AddressMax : memory_map_add_refused(base, length)
  BY <1>3, StutterInv DEF memory_map_add_refused
<1>4. CASE \E lowest \in Boundaries(regions) : BeginFinalize(lowest)
  BY <1>4, BeginInv
<1>5. CASE \E end \in Boundaries(regions) : SweepGap(end)
  BY <1>5, GapInv
<1>6. CASE \E end \in Boundaries(regions), kind \in Kind : SweepMerge(end, kind)
  BY <1>6, MergeInv
<1>7. CASE \E end \in Boundaries(regions), kind \in Kind : SweepAppend(end, kind)
  BY <1>7, AppendInv
<1>8. CASE (\E end \in Boundaries(regions), kind \in Kind : SweepFull(end, kind)) \/ SweepEnd
  BY <1>8, LeaveLoopInv
<1>9. CASE StoreResult
  BY <1>9, StoreInv
<1>10. CASE UNCHANGED vars
  BY <1>10, StutterInv
<1>11. QED
  BY <1>1, <1>2, <1>3, <1>4, <1>5, <1>6, <1>7, <1>8, <1>9, <1>10 DEF Next, Sweep

-----------------------------------------------------------------------------
(* Every region the map ever holds is representable and the arrays of      *)
(* memory_map_finalize are never overrun: type correctness.                *)
THEOREM MapTypeCorrect == Spec => []TypeOK
<1>1. Inv => TypeOK
  BY DEF Inv
<1>2. QED
  BY InitInv, NextInv, <1>1, PTL DEF Spec

(* Half way through a sweep the result is canonical and agrees with the    *)
(* unsorted list on every byte below the edge reached.                     *)
THEOREM SweepCorrect == Spec => []SweepInv
<1>1. Inv => SweepInv
  BY DEF Inv
<1>2. QED
  BY InitInv, NextInv, <1>1, PTL DEF Spec

(* Only the memcpy leaves memory_map_finalize.                             *)
LEMMA OnlyStoreFinishes ==
  ASSUME [Next]_vars, pc # "ready", pc' = "ready"
  PROVE  StoreResult
BY DEF Next, vars, Sweep, memory_map_clear, memory_map_add, memory_map_add_refused,
       BeginFinalize, SweepGap, SweepMerge, SweepAppend, SweepFull, SweepEnd

(* memory_map_finalize always leaves the map sorted, disjoint and merged.  *)
THEOREM FinalizeIsCanonical == Spec => FinalizeCanonical
<1>1. Inv /\ [Next]_vars => [pc # "ready" /\ pc' = "ready" => Canonical(regions')]_vars
  BY OnlyStoreFinishes DEF StoreResult, Inv, SweepInv
<1>2. QED
  BY InitInv, NextInv, <1>1, PTL DEF Spec, FinalizeCanonical

(* memory_map_finalize never makes a byte look freer than it was: what the *)
(* map still describes it describes as strictly as before, and what it no  *)
(* longer describes it calls nobody's.                                     *)
THEOREM FinalizeKeepsStrictest == Spec => FinalizeNeverRelaxes
<1>1. ASSUME Inv, StoreResult, NEW b \in 0 .. AddressMax - 1
      PROVE  KindAt(result, b) \in {KindAt(regions, b), NOBODY}
  <2>1. /\ Regions(result) /\ start \in Nat
        /\ \A i \in 1 .. Len(result) : RegionEnd(result[i]) <= start
        /\ b < start => KindAt(result, b) = KindAt(regions, b)
    BY <1>1 DEF Inv, TypeOK, SweepInv, StoreResult
  <2>2. CASE b < start
    BY <2>1, <2>2
  <2>3. CASE start <= b
    <3>1. b \in Nat
      BY MapAssumption
    <3>2. KindsAt(result, b) = {}
      BY <2>1, <2>3, <3>1, NothingAbove
    <3>3. QED
      BY <3>2, KindAtNobody
  <2>4. QED
    BY <2>1, <2>2, <2>3
<1>2. Inv /\ [Next]_vars =>
        [pc # "ready" /\ pc' = "ready" =>
           \A b \in 0 .. AddressMax - 1 :
             KindAt(regions', b) \in {KindAt(regions, b), NOBODY}]_vars
  <2>. SUFFICES ASSUME Inv, [Next]_vars, pc # "ready", pc' = "ready",
                       NEW b \in 0 .. AddressMax - 1
                PROVE  KindAt(regions', b) \in {KindAt(regions, b), NOBODY}
    OBVIOUS
  <2>1. StoreResult
    BY OnlyStoreFinishes
  <2>2. regions' = result
    BY <2>1 DEF StoreResult
  <2>3. QED
    BY <1>1, <2>1, <2>2
<1>3. QED
  BY InitInv, NextInv, <1>2, PTL DEF Spec, FinalizeNeverRelaxes

-----------------------------------------------------------------------------
(* The refinement, step by step.  Collecting a claim is a step of the      *)
(* ledger, and so is a finalize that runs out of room; every other step of *)
(* the sweep, the final memcpy included, is invisible to the ledger.       *)

LEMMA KindAtAppend ==
  ASSUME NEW list, Regions(list), NEW r \in Region, RegionEnd(r) <= AddressMax,
         Len(list) # MaxRegions, NEW b
  PROVE  KindAt(Append(list, r), b) =
           IF r.base <= b /\ b < RegionEnd(r) THEN Stricter(KindAt(list, b), r.kind)
                                             ELSE KindAt(list, b)
<1>. DEFINE new == Append(list, r)
<1>1. Regions(new)
  BY AppendRegions
<1>2. KindsAt(new, b) =
        KindsAt(list, b) \cup (IF r.base <= b /\ b < RegionEnd(r) THEN {r.kind} ELSE {})
  BY KindsAtAppend
<1>. HIDE DEF new
<1>3. CASE ~ (r.base <= b /\ b < RegionEnd(r))
  <2>1. KindsAt(new, b) = KindsAt(list, b)
    BY <1>2, <1>3
  <2>2. QED
    BY <1>3, <2>1, KindAtSame DEF new
<1>4. CASE r.base <= b /\ b < RegionEnd(r)
  <2>1. KindsAt(new, b) = KindsAt(list, b) \cup {r.kind}
    BY <1>2, <1>4
  <2>2. /\ KindAt(new, b) \in KindsAt(new, b) \cup {NOBODY}
        /\ \A w \in KindsAt(new, b) \cup {NOBODY} : w <= KindAt(new, b)
    BY <1>1, KindAtIsStrictest
  <2>3. /\ KindAt(list, b) \in KindsAt(list, b) \cup {NOBODY}
        /\ \A w \in KindsAt(list, b) \cup {NOBODY} : w <= KindAt(list, b)
    BY KindAtIsStrictest
  <2>4. /\ KindsAt(list, b) \subseteq 0 .. 7
        /\ r.kind \in 0 .. 7
    BY KindsAtAreKinds DEF Region, Kind, USABLE, BAD
  <2>5. KindAt(new, b) = Stricter(KindAt(list, b), r.kind)
    <3>1. /\ KindAt(new, b) \in Int /\ KindAt(list, b) \in Int /\ r.kind \in Int
          /\ -1 <= KindAt(list, b)
      BY <2>1, <2>2, <2>3, <2>4 DEF NOBODY
    <3>2. r.kind <= KindAt(new, b) /\ KindAt(list, b) <= KindAt(new, b)
      BY <2>1, <2>2, <2>3
    <3>3. KindAt(new, b) = r.kind \/ KindAt(new, b) <= KindAt(list, b)
      BY <2>1, <2>2, <2>3
    <3>4. QED
      BY <3>1, <3>2, <3>3 DEF Stricter
  <2>6. QED
    BY <1>4, <2>5 DEF new
<1>5. QED
  BY <1>3, <1>4

LEMMA InitLedger == Init => Ledger!LedgerInit
<1>. SUFFICES ASSUME Init PROVE Ledger!LedgerInit
  OBVIOUS
<1>1. \A b : KindsAt(<< >>, b) = {}
  BY DEF KindsAt
<1>2. \A b : KindAt(<< >>, b) = NOBODY
  BY <1>1, KindAtNobody
<1>3. QED
  BY <1>2 DEF Init, Ledger!LedgerInit, Ledger!Byte, Ledger!NOBODY, NOBODY

LEMMA AddLedger ==
  ASSUME Inv, NEW base \in 0 .. AddressMax, NEW length \in 0 .. AddressMax,
         NEW kind \in ClaimKinds, memory_map_add(base, length, kind)
  PROVE  [Ledger!LedgerNext]_(Ledger!ledgerVars)
<1>1. CASE Len(regions) = MaxRegions
  <2>1. truncated' = TRUE /\ regions' = regions
    BY <1>1 DEF IsFull, memory_map_add
  <2>2. Ledger!ClaimLost
    BY <2>1 DEF Ledger!ClaimLost
  <2>3. QED
    BY <2>2 DEF Ledger!LedgerNext
<1>2. CASE Len(regions) # MaxRegions
  <2>. DEFINE r == [base |-> base, length |-> length, kind |-> kind]
              end == base + length
  <2>1. /\ r \in Region /\ r.base = base /\ r.kind = kind /\ RegionEnd(r) = end
        /\ end \in 0 .. AddressMax /\ base < end
    BY MapAssumption DEF memory_map_add, Region, RegionEnd
  <2>2. regions' = Append(regions, r) /\ truncated' = truncated /\ Regions(regions)
    BY <1>2 DEF IsFull, memory_map_add, Inv, TypeOK
  <2>. HIDE DEF r, end
  <2>3. \A b : KindAt(regions', b) = IF base <= b /\ b < end
                                        THEN Stricter(KindAt(regions, b), kind)
                                        ELSE KindAt(regions, b)
    BY <1>2, <2>1, <2>2, KindAtAppend
  <2>4. Ledger!Claim(base, end, kind)
    BY <2>2, <2>3 DEF Ledger!Claim, Ledger!Byte, Ledger!Stricter, Stricter
  <2>5. Ledger!LedgerNext
    BY <2>1, <2>4 DEF Ledger!LedgerNext
  <2>6. QED
    BY <2>5
<1>3. QED
  BY <1>1, <1>2

LEMMA StoreLedger ==
  ASSUME Inv, StoreResult
  PROVE  [Ledger!LedgerNext]_(Ledger!ledgerVars)
<1>1. /\ Regions(result) /\ Regions(regions) /\ start \in Nat
      /\ \A i \in 1 .. Len(result) : RegionEnd(result[i]) <= start
      /\ \A b \in 0 .. AddressMax - 1 : b < start => KindAt(result, b) = KindAt(regions, b)
      /\ ~ overflowed => \A b \in Boundaries(regions) : b <= start
      /\ truncated => overflowed
      /\ start \in Boundaries(regions)
      /\ truncated \in BOOLEAN /\ overflowed \in BOOLEAN
      /\ regions' = result /\ truncated' = overflowed
  BY DEF Inv, TypeOK, SweepInv, StoreResult
<1>2. \A b \in 0 .. AddressMax - 1 : ~ (b < start) => KindAt(result, b) = NOBODY
  BY <1>1, NothingAbove, KindAtNobody, MapAssumption
<1>3. CASE overflowed
  <2>1. start \in 0 .. AddressMax
    BY <1>1, BoundaryInRange DEF Inv
  <2>2. Ledger!TopLost(start)
    BY <1>1, <1>2, <1>3 DEF Ledger!TopLost, Ledger!Byte, Ledger!NOBODY, NOBODY
  <2>3. QED
    BY <2>1, <2>2 DEF Ledger!LedgerNext
<1>4. CASE ~ overflowed
  <2>1. \A i \in 1 .. Len(regions) : RegionEnd(regions[i]) <= start
    BY <1>1, <1>4, RegionFacts DEF Boundaries
  <2>2. \A b \in 0 .. AddressMax - 1 : ~ (b < start) => KindAt(regions, b) = NOBODY
    BY <1>1, <2>1, NothingAbove, KindAtNobody, MapAssumption
  <2>3. \A b \in 0 .. AddressMax - 1 : KindAt(regions', b) = KindAt(regions, b)
    BY <1>1, <1>2, <2>2
  <2>4. UNCHANGED Ledger!ledgerVars
    BY <1>1, <1>4, <2>3 DEF Ledger!ledgerVars
  <2>5. QED
    BY <2>4
<1>5. QED
  BY <1>3, <1>4

LEMMA NextLedger == Inv /\ [Next]_vars => [Ledger!LedgerNext]_(Ledger!ledgerVars)
<1>. SUFFICES ASSUME Inv, [Next]_vars PROVE [Ledger!LedgerNext]_(Ledger!ledgerVars)
  OBVIOUS
<1>1. CASE memory_map_clear
  <2>1. regions' = << >> /\ truncated' = FALSE
    BY <1>1 DEF memory_map_clear
  <2>2. \A b : KindAt(<< >>, b) = NOBODY
    BY KindAtNobody DEF KindsAt
  <2>3. Ledger!Forget
    BY <2>1, <2>2 DEF Ledger!Forget, Ledger!Byte, Ledger!NOBODY, NOBODY
  <2>4. QED
    BY <2>3 DEF Ledger!LedgerNext
<1>2. CASE \E base, length \in 0 .. AddressMax, kind \in ClaimKinds :
             memory_map_add(base, length, kind)
  BY <1>2, AddLedger
<1>3. CASE StoreResult
  BY <1>3, StoreLedger
<1>4. CASE \/ \E base, length \in 0 .. AddressMax : memory_map_add_refused(base, length)
           \/ \E lowest \in Boundaries(regions) : BeginFinalize(lowest)
           \/ Sweep
           \/ UNCHANGED vars
  <2>1. regions' = regions /\ truncated' = truncated
    BY <1>4 DEF vars, memory_map_add_refused, BeginFinalize, Sweep, SweepGap, SweepMerge,
                SweepAppend, SweepFull, SweepEnd
  <2>2. QED
    BY <2>1 DEF Ledger!ledgerVars
<1>5. QED
  BY <1>1, <1>2, <1>3, <1>4 DEF Next

(* The region list implements the ledger: for every byte the map gives the *)
(* strictest kind claimed for it, however the claims overlapped and however*)
(* often the map was finalized, unless it says it is truncated.            *)
THEOREM MapImplementsLedger == Spec => ImplementsLedger
<1>1. Spec => Ledger!LedgerInit /\ [][Ledger!LedgerNext]_(Ledger!ledgerVars)
  BY InitInv, NextInv, InitLedger, NextLedger, PTL DEF Spec
<1>2. QED
  BY <1>1 DEF ImplementsLedger, Ledger!LedgerSpec

-----------------------------------------------------------------------------
(* The searches.                                                           *)

(* A byte lies in a region.                                                *)
Over(list, i, b) == list[i].base <= b /\ b < RegionEnd(list[i])

(* In a canonical map a byte has the kind of the region it lies in.        *)
LEMMA KindOfRegion ==
  ASSUME NEW list, Regions(list), Canonical(list),
         NEW i \in 1 .. Len(list), NEW b \in Nat, Over(list, i, b)
  PROVE  KindAt(list, b) = list[i].kind
<1>1. \A j \in 1 .. Len(list) : Over(list, j, b) => j = i
  <2> SUFFICES ASSUME NEW j \in 1 .. Len(list), Over(list, j, b), j # i
               PROVE  FALSE
    OBVIOUS
  <2>1. /\ list[i].base \in Nat /\ RegionEnd(list[i]) \in Nat
        /\ list[j].base \in Nat /\ RegionEnd(list[j]) \in Nat
        /\ Len(list) \in Nat
    BY RegionFacts
  <2>2. j < i \/ i < j
    BY <2>1
  <2>3. RegionEnd(list[j]) <= list[i].base \/ RegionEnd(list[i]) <= list[j].base
    BY <2>2 DEF Canonical
  <2> QED
    BY <2>1, <2>3 DEF Over
<1>2. DOMAIN list = 1 .. Len(list)
  BY RegionFacts
<1>3. KindsAt(list, b) = {list[i].kind}
  BY <1>1, <1>2 DEF KindsAt, Over
<1>4. list[i].kind \in Kind
  BY RegionFacts
<1>5. list[i].kind <= list[i].kind
  BY <1>4 DEF Kind, USABLE, BAD
<1> QED
  BY <1>3, <1>5, KindAtMaximum

(* A byte with a kind lies in a region of that kind.                       *)
LEMMA RegionOfKind ==
  ASSUME NEW list, Regions(list), NEW b \in Nat, KindAt(list, b) = USABLE
  PROVE  \E i \in 1 .. Len(list) : Over(list, i, b) /\ list[i].kind = USABLE
<1>1. USABLE \in KindsAt(list, b)
  BY KindAtIsStrictest DEF USABLE, NOBODY
<1>2. DOMAIN list = 1 .. Len(list)
  BY RegionFacts
<1> QED
  BY <1>1, <1>2 DEF KindsAt, Over

(* The bytes of a run.                                                     *)
UsableRun(list, s, size) == \A b \in s .. s + size - 1 : KindAt(list, b) = USABLE

(* The region a run lies in.                                               *)
Holds(list, i, s, size) ==
  /\ list[i].kind = USABLE
  /\ list[i].base <= s
  /\ s + size <= RegionEnd(list[i])

(* A run of usable bytes does not cross from one region to another: two    *)
(* that touch would have been merged.                                      *)
LEMMA RunInOneRegion ==
  ASSUME NEW list, Regions(list), Canonical(list),
         NEW s \in Nat, NEW size \in Nat \ {0}, UsableRun(list, s, size)
  PROVE  \E i \in 1 .. Len(list) : Holds(list, i, s, size)
<1>1. s \in s .. s + size - 1
  OBVIOUS
<1>2. KindAt(list, s) = USABLE
  BY <1>1 DEF UsableRun
<1>3. PICK i \in 1 .. Len(list) : Over(list, i, s) /\ list[i].kind = USABLE
  BY <1>2, RegionOfKind
<1>4. /\ list[i].base \in Nat /\ RegionEnd(list[i]) \in Nat /\ Len(list) \in Nat
  BY RegionFacts
<1>5. list[i].base <= s /\ s < RegionEnd(list[i])
  BY <1>3 DEF Over
<1>6. SUFFICES ASSUME ~ (s + size <= RegionEnd(list[i])) PROVE FALSE
  BY <1>3, <1>5 DEF Holds
<1> DEFINE e == RegionEnd(list[i])
<1>7. e \in s .. s + size - 1 /\ e \in Nat
  BY <1>4, <1>5, <1>6
<1>8. KindAt(list, e) = USABLE
  BY <1>7 DEF UsableRun
<1>9. PICK j \in 1 .. Len(list) : Over(list, j, e) /\ list[j].kind = USABLE
  BY <1>7, <1>8, RegionOfKind
<1>10. list[j].base \in Nat /\ RegionEnd(list[j]) \in Nat
  BY RegionFacts
<1>11. list[j].base <= e /\ e < RegionEnd(list[j])
  BY <1>9 DEF Over
<1>12. CASE j < i
  <2>1. RegionEnd(list[j]) <= list[i].base
    BY <1>12 DEF Canonical
  <2> QED
    BY <2>1, <1>4, <1>5, <1>10, <1>11
<1>13. CASE i < j
  <2>1. list[i].kind = list[j].kind
    BY <1>3, <1>9
  <2>2. RegionEnd(list[i]) < list[j].base
    BY <1>13, <2>1 DEF Canonical
  <2> QED
    BY <2>2, <1>4, <1>10, <1>11
<1>14. CASE i = j
  BY <1>14, <1>4, <1>11
<1> QED
  BY <1>4, <1>12, <1>13, <1>14

(* And what lies in a usable region is a run.                              *)
LEMMA RegionHoldsRun ==
  ASSUME NEW list, Regions(list), Canonical(list), NEW i \in 1 .. Len(list),
         NEW s \in Nat, NEW size \in Nat \ {0}, Holds(list, i, s, size)
  PROVE  UsableRun(list, s, size) /\ s + size <= AddressMax
<1>1. /\ list[i].base \in Nat /\ RegionEnd(list[i]) \in Nat
      /\ RegionEnd(list[i]) <= AddressMax
      /\ AddressMax \in Nat
  BY RegionFacts, MapAssumption
<1>2. \A b \in s .. s + size - 1 : b \in Nat /\ Over(list, i, b)
  BY <1>1 DEF Holds, Over
<1>3. \A b \in s .. s + size - 1 : KindAt(list, b) = USABLE
  BY <1>2, KindOfRegion DEF Holds
<1> QED
  BY <1>1, <1>3 DEF UsableRun, Holds

(* Rounding down is to the last multiple that is not above.                *)
LEMMA Rounds ==
  ASSUME NEW x \in Nat, NEW a \in Nat \ {0}
  PROVE  /\ AlignDown(x, a) \in Nat
         /\ AlignDown(x, a) <= x
         /\ x < AlignDown(x, a) + a
         /\ AlignDown(x, a) % a = 0
         /\ \A s \in Nat : s % a = 0 /\ s <= x => s <= AlignDown(x, a)
<1> DEFINE q == x \div a
<1>1. /\ q \in Nat /\ x % a \in 0 .. a - 1
      /\ x = a * q + (x % a)
  OBVIOUS
<1>2. a * q \in Nat /\ AlignDown(x, a) = a * q
  BY <1>1 DEF AlignDown
<1>3. (a * q) % a = 0
  BY <1>1
<1>4. \A s \in Nat : s % a = 0 /\ s <= x => s <= a * q
  <2> SUFFICES ASSUME NEW s \in Nat, s % a = 0, s <= x, ~ (s <= a * q) PROVE FALSE
    OBVIOUS
  <2> DEFINE p == s \div a
  <2>1. p \in Nat /\ s = a * p
    OBVIOUS
  <2> HIDE DEF p, q
  <2>2. q < p
    <3>1. p <= q => a * p <= a * q
      BY <1>1, <2>1
    <3> QED
      BY <3>1, <1>1, <1>2, <2>1
  <2>3. a * (q + 1) <= a * p
    BY <1>1, <2>1, <2>2
  <2>4. a * (q + 1) = a * q + a
    BY <1>1
  <2> QED
    BY <1>1, <1>2, <2>1, <2>3, <2>4
<1> QED
  BY <1>1, <1>2, <1>3, <1>4

(* Rounding up is to the first multiple that is not below.                 *)
LEMMA RoundsUp ==
  ASSUME NEW x \in Nat, NEW a \in Nat \ {0}
  PROVE  /\ AlignUp(x, a) \in Nat
         /\ x <= AlignUp(x, a)
         /\ AlignUp(x, a) % a = 0
         /\ \A s \in Nat : s % a = 0 /\ x <= s => AlignUp(x, a) <= s
<1> DEFINE y == x + (a - 1)
<1>1. y \in Nat
  OBVIOUS
<1>2. /\ AlignDown(y, a) \in Nat
      /\ AlignDown(y, a) <= y
      /\ y < AlignDown(y, a) + a
      /\ AlignDown(y, a) % a = 0
  BY <1>1, Rounds
<1>3. AlignUp(x, a) = AlignDown(y, a)
  BY DEF AlignUp
<1>4. \A s \in Nat : s % a = 0 /\ x <= s => AlignDown(y, a) <= s
  <2> SUFFICES ASSUME NEW s \in Nat, s % a = 0, x <= s, ~ (AlignDown(y, a) <= s) PROVE FALSE
    OBVIOUS
  <2> DEFINE p == s \div a
             d == AlignDown(y, a) \div a
  <2>1. p \in Nat /\ s = a * p
    OBVIOUS
  <2>2. d \in Nat /\ AlignDown(y, a) = a * d
    BY <1>2
  <2> HIDE DEF p, d
  <2>3. p < d
    <3>1. d <= p => a * d <= a * p
      BY <2>1, <2>2
    <3> QED
      BY <3>1, <2>1, <2>2, <1>2
  <2>4. a * (p + 1) <= a * d
    BY <2>1, <2>2, <2>3
  <2>5. a * (p + 1) = s + a
    BY <2>1
  <2> QED
    BY <1>2, <2>2, <2>4, <2>5
<1> QED
  BY <1>2, <1>3, <1>4

(* A set of numbers has a least one, and a bounded one a greatest.         *)
LEMMA LeastOne ==
  ASSUME NEW S \in SUBSET Nat, S # {}
  PROVE  \E x \in S : \A y \in S : x <= y
<1>1. PICK x \in S : \A y \in S : ~ (<<y, x>> \in OpToRel(<, Nat))
  BY NatLessThanWellFounded, WFMin
<1>2. \A y \in S : ~ (y < x)
  BY <1>1 DEF OpToRel
<1> QED
  BY <1>2

LEMMA GreatestOne ==
  ASSUME NEW bound \in Nat, NEW S \in SUBSET (0 .. bound), S # {}
  PROVE  \E x \in S : \A y \in S : y <= x
<1> DEFINE T == {bound - y : y \in S}
<1>1. T \in SUBSET Nat
  OBVIOUS
<1>0. T # {}
  OBVIOUS
<1>2. PICK t \in T : \A u \in T : t <= u
  BY <1>0, <1>1, LeastOne
<1>3. PICK x \in S : t = bound - x
  OBVIOUS
<1>4. \A y \in S : bound - x <= bound - y
  BY <1>2, <1>3
<1> QED
  BY <1>4

-----------------------------------------------------------------------------
(* Where the search from below looks in a region, and whether it has room. *)
Lower(region, minimum) == IF region.base > minimum THEN region.base ELSE minimum

LowFits(region, size, alignment, minimum) ==
  /\ region.kind = USABLE
  /\ Lower(region, minimum) + (alignment - 1) <= AddressMax
  /\ LowStart(region, alignment, minimum) + size <= RegionEnd(region)

(* An aligned run that the caller would accept.                            *)
RunAbove(list, size, alignment, minimum, s) ==
  /\ s \in 0 .. AddressMax - 1
  /\ s % alignment = 0
  /\ s + size <= AddressMax
  /\ UsableRun(list, s, size)
  /\ minimum <= s

(* What the search finds in a region is a run, the lowest of that region.  *)
LEMMA LowStartIsRun ==
  ASSUME NEW list, Regions(list), Canonical(list), NEW i \in 1 .. Len(list),
         NEW size \in Nat \ {0}, NEW alignment \in Nat \ {0}, NEW minimum \in Nat,
         LowFits(list[i], size, alignment, minimum)
  PROVE  RunAbove(list, size, alignment, minimum, LowStart(list[i], alignment, minimum))
<1> DEFINE x == Lower(list[i], minimum)
           s == LowStart(list[i], alignment, minimum)
<1>1. list[i].base \in Nat /\ RegionEnd(list[i]) \in Nat /\ AddressMax \in Nat
  BY RegionFacts, MapAssumption
<1>2. x \in Nat /\ list[i].base <= x /\ minimum <= x
  BY <1>1 DEF Lower
<1>3. s = AlignUp(x, alignment)
  BY DEF LowStart, Lower
<1>4. s + size <= RegionEnd(list[i]) /\ list[i].kind = USABLE
  BY DEF LowFits
<1> HIDE DEF x, s
<1>5. s \in Nat /\ x <= s /\ s % alignment = 0
  BY <1>2, <1>3, RoundsUp
<1>6. Holds(list, i, s, size)
  BY <1>1, <1>2, <1>5, <1>4 DEF Holds
<1>7. UsableRun(list, s, size) /\ s + size <= AddressMax
  BY <1>5, <1>6, RegionHoldsRun
<1>8. s \in 0 .. AddressMax - 1 /\ minimum <= s
  BY <1>1, <1>2, <1>5, <1>7
<1> QED
  BY <1>5, <1>7, <1>8 DEF RunAbove, s

(* And a region that holds a run has room, at or below it.                 *)
LEMMA RunHasRoom ==
  ASSUME NEW list, Regions(list), NEW i \in 1 .. Len(list),
         NEW size \in Nat \ {0}, NEW alignment \in Alignments, NEW minimum \in Nat,
         NEW s, RunAbove(list, size, alignment, minimum, s), Holds(list, i, s, size)
  PROVE  /\ LowFits(list[i], size, alignment, minimum)
         /\ LowStart(list[i], alignment, minimum) <= s
<1> DEFINE x == Lower(list[i], minimum)
           up == AlignUp(x, alignment)
<1>1. /\ list[i].base \in Nat /\ RegionEnd(list[i]) \in Nat
      /\ AddressMax \in Nat /\ alignment \in Nat \ {0}
  BY RegionFacts, MapAssumption
<1>2. /\ s \in 0 .. AddressMax - 1 /\ s \in Nat /\ s % alignment = 0 /\ minimum <= s
      /\ list[i].kind = USABLE /\ list[i].base <= s /\ s + size <= RegionEnd(list[i])
  BY <1>1 DEF RunAbove, Holds
<1>3. x \in Nat /\ x <= s
  BY <1>1, <1>2 DEF Lower
<1>4. s + (alignment - 1) <= AddressMax
  BY <1>2, AlignmentAssumption
<1>5. LowStart(list[i], alignment, minimum) = up
  BY DEF LowStart, Lower
<1>6. up \in Nat /\ up <= s
  BY <1>1, <1>2, <1>3, RoundsUp
<1> HIDE DEF x, up
<1>7. x + (alignment - 1) <= AddressMax /\ up + size <= RegionEnd(list[i])
  BY <1>1, <1>2, <1>3, <1>4, <1>6
<1> QED
  BY <1>2, <1>5, <1>6, <1>7 DEF LowFits, x

(* The search from below finds the lowest run there is.                    *)
LEMMA FindFreeIsExact ==
  ASSUME NEW list, Regions(list), Canonical(list),
         NEW size \in Sizes, NEW alignment \in Alignments, NEW minimum \in Nat
  PROVE  LET low == memory_map_find_free(list, size, alignment, minimum)
         IN  \/ /\ low = NONE
                /\ \A s : ~ RunAbove(list, size, alignment, minimum, s)
             \/ /\ RunAbove(list, size, alignment, minimum, low)
                /\ \A s : RunAbove(list, size, alignment, minimum, s) => low <= s
<1> DEFINE low == memory_map_find_free(list, size, alignment, minimum)
           hits == {i \in 1 .. Len(list) : LowFits(list[i], size, alignment, minimum)}
           run(s) == RunAbove(list, size, alignment, minimum, s)
           first == CHOOSE i \in hits : \A j \in hits : i <= j
<1>1. size \in Nat \ {0} /\ alignment \in Nat \ {0} /\ Len(list) \in Nat
      /\ DOMAIN list = 1 .. Len(list)
  BY MapAssumption, RegionFacts
<1>2. low = IF hits = {} THEN NONE ELSE LowStart(list[first], alignment, minimum)
  <2>1. hits = {i \in DOMAIN list : LowFits(list[i], size, alignment, minimum)}
    BY <1>1
  <2> QED
    BY <1>1, <2>1 DEF memory_map_find_free, LowFits, Lower
<1>3. ASSUME NEW s, run(s)
      PROVE  \E i \in hits : /\ Holds(list, i, s, size)
                             /\ LowStart(list[i], alignment, minimum) <= s
  <2>1. s \in Nat /\ UsableRun(list, s, size)
    BY <1>3, MapAssumption DEF RunAbove
  <2>2. PICK i \in 1 .. Len(list) : Holds(list, i, s, size)
    BY <1>1, <2>1, RunInOneRegion
  <2>3. /\ LowFits(list[i], size, alignment, minimum)
        /\ LowStart(list[i], alignment, minimum) <= s
    BY <1>1, <1>3, <2>2, RunHasRoom
  <2> QED
    BY <2>2, <2>3
<1>4. CASE hits = {}
  BY <1>2, <1>3, <1>4
<1>5. CASE hits # {}
  <2>1. hits \in SUBSET Nat
    OBVIOUS
  <2>2. \E i \in hits : \A j \in hits : i <= j
    BY <1>5, <2>1, LeastOne
  <2>3. first \in hits /\ \A j \in hits : first <= j
    BY <2>2
  <2>4. low = LowStart(list[first], alignment, minimum)
    BY <1>2, <1>5
  <2>5. first \in 1 .. Len(list) /\ LowFits(list[first], size, alignment, minimum)
    BY <2>3
  <2> HIDE DEF low, first
  <2>6. run(low)
    BY <1>1, <2>4, <2>5, LowStartIsRun
  <2>7. ASSUME NEW s, run(s) PROVE low <= s
    <3>1. PICK i \in hits : /\ Holds(list, i, s, size)
                            /\ LowStart(list[i], alignment, minimum) <= s
      BY <1>3, <2>7
    <3>2. i \in 1 .. Len(list) /\ first <= i
      BY <2>3, <3>1
    <3>3. CASE i = first
      BY <2>4, <3>1, <3>3
    <3>4. CASE first < i
      <4>1. RegionEnd(list[first]) <= list[i].base
        BY <2>5, <3>2, <3>4 DEF Canonical
      <4>2. low + size <= RegionEnd(list[first])
        BY <2>4, <2>5 DEF LowFits
      <4>3. list[i].base <= s
        BY <3>1 DEF Holds
      <4>4. /\ low \in Nat /\ s \in Nat
            /\ RegionEnd(list[first]) \in Nat /\ list[i].base \in Nat
        BY <2>5, <2>6, <2>7, <3>2, RegionFacts, MapAssumption DEF RunAbove
      <4> QED
        BY <1>1, <4>1, <4>2, <4>3, <4>4
    <3> QED
      BY <2>1, <2>3, <3>1, <3>2, <3>3, <3>4
  <2> QED
    BY <2>6, <2>7 DEF low
<1> QED
  BY <1>4, <1>5

-----------------------------------------------------------------------------
HighFits(region, size, alignment, limit) ==
  /\ region.kind = USABLE
  /\ size <= HighEnd(region, limit)
  /\ region.base <= HighStart(region, size, alignment, limit)

RunBelow(list, size, alignment, limit, s) ==
  /\ s \in 0 .. AddressMax - 1
  /\ s % alignment = 0
  /\ s + size <= AddressMax
  /\ UsableRun(list, s, size)
  /\ s + size <= limit

(* What the search from above finds in a region is a run under the limit.  *)
LEMMA HighStartIsRun ==
  ASSUME NEW list, Regions(list), Canonical(list), NEW i \in 1 .. Len(list),
         NEW size \in Nat \ {0}, NEW alignment \in Nat \ {0}, NEW limit \in Nat,
         HighFits(list[i], size, alignment, limit)
  PROVE  RunBelow(list, size, alignment, limit, HighStart(list[i], size, alignment, limit))
<1> DEFINE e == HighEnd(list[i], limit)
           s == HighStart(list[i], size, alignment, limit)
<1>1. list[i].base \in Nat /\ RegionEnd(list[i]) \in Nat /\ AddressMax \in Nat
  BY RegionFacts, MapAssumption
<1>2. e \in Nat /\ e <= RegionEnd(list[i]) /\ e <= limit
  BY <1>1 DEF HighEnd
<1>3. size <= e /\ list[i].base <= s /\ list[i].kind = USABLE
  BY DEF HighFits
<1>4. s = AlignDown(e - size, alignment)
  BY DEF HighStart
<1> HIDE DEF e, s
<1>5. e - size \in Nat
  BY <1>2, <1>3
<1>6. s \in Nat /\ s <= e - size /\ s % alignment = 0
  BY <1>4, <1>5, Rounds
<1>7. s + size <= e
  BY <1>2, <1>6
<1>8. Holds(list, i, s, size)
  BY <1>1, <1>2, <1>3, <1>6, <1>7 DEF Holds
<1>9. UsableRun(list, s, size) /\ s + size <= AddressMax
  BY <1>6, <1>8, RegionHoldsRun
<1>10. s \in 0 .. AddressMax - 1 /\ s + size <= limit
  BY <1>1, <1>2, <1>6, <1>7, <1>9
<1> QED
  BY <1>6, <1>9, <1>10 DEF RunBelow, s

(* And a region that holds a run has room, at or above it.                 *)
LEMMA RunHasRoomBelow ==
  ASSUME NEW list, Regions(list), NEW i \in 1 .. Len(list),
         NEW size \in Nat \ {0}, NEW alignment \in Nat \ {0}, NEW limit \in Nat,
         NEW s, RunBelow(list, size, alignment, limit, s), Holds(list, i, s, size)
  PROVE  /\ HighFits(list[i], size, alignment, limit)
         /\ s <= HighStart(list[i], size, alignment, limit)
<1> DEFINE e == HighEnd(list[i], limit)
           down == AlignDown(e - size, alignment)
<1>1. list[i].base \in Nat /\ RegionEnd(list[i]) \in Nat /\ AddressMax \in Nat
  BY RegionFacts, MapAssumption
<1>2. /\ s \in Nat /\ s % alignment = 0 /\ s + size <= limit
      /\ list[i].kind = USABLE /\ list[i].base <= s /\ s + size <= RegionEnd(list[i])
  BY <1>1 DEF RunBelow, Holds
<1>3. e \in Nat /\ s + size <= e
  BY <1>1, <1>2 DEF HighEnd
<1>4. e - size \in Nat /\ s <= e - size
  BY <1>2, <1>3
<1>5. down \in Nat /\ s <= down
  BY <1>2, <1>4, Rounds
<1>6. HighStart(list[i], size, alignment, limit) = down
  BY DEF HighStart
<1> HIDE DEF e, down
<1>7. size <= e /\ list[i].base <= down
  BY <1>1, <1>2, <1>3, <1>5
<1> QED
  BY <1>2, <1>5, <1>6, <1>7 DEF HighFits, e

(* The search from above finds the highest run there is.                   *)
LEMMA FindFreeHighIsExact ==
  ASSUME NEW list, Regions(list), Canonical(list),
         NEW size \in Sizes, NEW alignment \in Alignments, NEW limit \in Nat
  PROVE  LET high == memory_map_find_free_high(list, size, alignment, limit)
         IN  \/ /\ high = NONE
                /\ \A s : ~ RunBelow(list, size, alignment, limit, s)
             \/ /\ RunBelow(list, size, alignment, limit, high)
                /\ \A s : RunBelow(list, size, alignment, limit, s) => s <= high
<1> DEFINE high == memory_map_find_free_high(list, size, alignment, limit)
           at(i) == HighStart(list[i], size, alignment, limit)
           hits == {i \in 1 .. Len(list) : HighFits(list[i], size, alignment, limit)}
           starts == {at(i) : i \in hits}
           run(s) == RunBelow(list, size, alignment, limit, s)
           last == CHOOSE s \in starts : \A t \in starts : t <= s
<1>1. size \in Nat \ {0} /\ alignment \in Nat \ {0} /\ Len(list) \in Nat
      /\ DOMAIN list = 1 .. Len(list) /\ AddressMax \in Nat
  BY MapAssumption, RegionFacts
<1>2. high = IF starts = {} THEN NONE ELSE last
  <2>1. hits = {i \in DOMAIN list : HighFits(list[i], size, alignment, limit)}
    BY <1>1
  <2> QED
    BY <1>1, <2>1 DEF memory_map_find_free_high, HighFits
<1>3. ASSUME NEW s, run(s) PROVE \E t \in starts : s <= t
  <2>1. s \in Nat /\ UsableRun(list, s, size)
    BY <1>1, <1>3 DEF RunBelow
  <2>2. PICK i \in 1 .. Len(list) : Holds(list, i, s, size)
    BY <1>1, <2>1, RunInOneRegion
  <2>3. HighFits(list[i], size, alignment, limit) /\ s <= at(i)
    BY <1>1, <1>3, <2>2, RunHasRoomBelow
  <2> QED
    BY <2>2, <2>3
<1>4. \A t \in starts : run(t)
  <2> SUFFICES ASSUME NEW i \in hits PROVE run(at(i))
    OBVIOUS
  <2> QED
    BY <1>1, HighStartIsRun
<1>5. CASE starts = {}
  BY <1>2, <1>3, <1>5
<1>6. CASE starts # {}
  <2>1. starts \in SUBSET (0 .. AddressMax)
    <3>1. \A t : run(t) => t \in 0 .. AddressMax
      BY <1>1 DEF RunBelow
    <3> QED
      BY <1>4, <3>1
  <2>2. \E s \in starts : \A t \in starts : t <= s
    BY <1>1, <1>6, <2>1, GreatestOne
  <2>3. last \in starts /\ \A t \in starts : t <= last
    BY <2>2
  <2>4. high = last
    BY <1>2, <1>6
  <2>5. \A t \in starts : t \in Nat
    BY <2>1
  <2> HIDE DEF high, last, starts
  <2>6. run(high)
    BY <1>4, <2>3, <2>4
  <2>7. ASSUME NEW s, run(s) PROVE s <= high
    <3>1. PICK t \in starts : s <= t
      BY <1>3, <2>7
    <3>2. s \in Nat /\ t \in Nat /\ last \in Nat /\ t <= last
      BY <1>1, <2>3, <2>5, <2>7 DEF RunBelow
    <3> QED
      BY <2>4, <3>1, <3>2
  <2> QED
    BY <2>6, <2>7 DEF high
<1> QED
  BY <1>5, <1>6

(* The searches of any size and alignment that callers ask for, on any     *)
(* canonical map, find a run whenever one exists, only runs, and the       *)
(* extreme one: memory_map_find_free and memory_map_find_free_high.        *)
LEMMA SearchesExact == ASSUME Inv PROVE FindFreeExact
<1> SUFFICES ASSUME Canonical(regions),
                    NEW size \in Sizes, NEW alignment \in Alignments,
                    NEW bound \in 0 .. AddressMax
             PROVE  LET low  == memory_map_find_free(regions, size, alignment, bound)
                        high == memory_map_find_free_high(regions, size, alignment, bound)
                        above == {s \in Runs(size, alignment) : bound <= s}
                        below == {s \in Runs(size, alignment) : s + size <= bound}
                    IN  /\ IF above = {} THEN low = NONE
                           ELSE low \in above /\ \A s \in above : low <= s
                        /\ IF below = {} THEN high = NONE
                           ELSE high \in below /\ \A s \in below : s <= high
  BY DEF FindFreeExact
<1> DEFINE low == memory_map_find_free(regions, size, alignment, bound)
           high == memory_map_find_free_high(regions, size, alignment, bound)
           above == {s \in Runs(size, alignment) : bound <= s}
           below == {s \in Runs(size, alignment) : s + size <= bound}
<1>1. Regions(regions) /\ bound \in Nat
  BY MapAssumption DEF Inv, TypeOK
<1>2. \A s : s \in above <=> RunAbove(regions, size, alignment, bound, s)
  BY DEF Runs, RunAbove, UsableRun
<1>3. \A s : s \in below <=> RunBelow(regions, size, alignment, bound, s)
  BY DEF Runs, RunBelow, UsableRun
<1>4. \/ /\ low = NONE
         /\ \A s : ~ RunAbove(regions, size, alignment, bound, s)
      \/ /\ RunAbove(regions, size, alignment, bound, low)
         /\ \A s : RunAbove(regions, size, alignment, bound, s) => low <= s
  BY <1>1, FindFreeIsExact
<1>5. \/ /\ high = NONE
         /\ \A s : ~ RunBelow(regions, size, alignment, bound, s)
      \/ /\ RunBelow(regions, size, alignment, bound, high)
         /\ \A s : RunBelow(regions, size, alignment, bound, s) => s <= high
  BY <1>1, FindFreeHighIsExact
<1> HIDE DEF low, high, above, below
<1>6. IF above = {} THEN low = NONE ELSE low \in above /\ \A s \in above : low <= s
  BY <1>2, <1>4
<1>7. IF below = {} THEN high = NONE ELSE high \in below /\ \A s \in below : s <= high
  BY <1>3, <1>5
<1> QED
  BY <1>6, <1>7 DEF low, high, above, below

(* For any map, any size and any power-of-two alignment: a search finds a  *)
(* run whenever the map has one, and the lowest or highest there is.       *)
THEOREM SearchesAreExact == Spec => []FindFreeExact
<1>1. Inv => FindFreeExact
  BY SearchesExact
<1>2. QED
  BY <1>1, InitInv, NextInv, PTL DEF Spec
=============================================================================
