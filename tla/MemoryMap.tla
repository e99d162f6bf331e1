------------------------------ MODULE MemoryMap ------------------------------
(***************************************************************************)
(* src/memory/map.c: the list of regions the firmware's description of     *)
(* memory is collected into, and the sweep that turns it into a sorted,    *)
(* disjoint, merged one.                                                   *)
(*                                                                         *)
(* memory_map_finalize is the only operation with a loop.  It is modelled  *)
(* one elementary interval at a time: the sorted array "boundaries" is the *)
(* set of region edges, "index" is the edge the sweep stands on, and the   *)
(* map itself is written once, at the end, as the code does.               *)
(***************************************************************************)
EXTENDS MemoryKinds, Sequences, FiniteSets

CONSTANTS
  AddressMax,   \* UINT64_MAX
  MaxRegions,   \* MEMORY_MAP_MAX_REGIONS
  ClaimKinds,   \* the kinds callers claim
  Sizes,        \* the lengths callers search for
  Alignments,   \* and the alignments, powers of two
  MaxAdds       \* bound on the regions accepted between two clears

ASSUME MapAssumption ==
  /\ AddressMax \in Nat \ {0}
  /\ MaxRegions \in Nat \ {0}
  /\ ClaimKinds \subseteq Kind
  /\ MaxAdds \in Nat
  /\ Sizes \subseteq Nat \ {0}
  /\ Alignments \subseteq Nat \ {0}

(* The searches refuse an alignment that is no power of two, and the size  *)
(* of the address space is one: its last aligned block is all there.       *)
ASSUME AlignmentAssumption ==
  \A a \in Alignments, s \in 0 .. AddressMax - 1 :
    s % a = 0 => s + (a - 1) <= AddressMax

VARIABLES
  regions,      \* map->regions[0 .. map->count - 1]
  truncated,    \* map->truncated
  pc,           \* "ready", or inside memory_map_finalize: "sweep", "store"
  start,        \* boundaries[index]
  result,       \* result[0 .. result_count - 1]
  overflowed,   \* the local "truncated"
  adds          \* regions accepted since the clear (bounds the exploration)

vars == <<regions, truncated, pc, start, result, overflowed, adds>>

Region == [base : Nat, length : Nat \ {0}, kind : Kind]

RegionEnd(region) == region.base + region.length

(* Edges of the regions, the contents of the array collect_boundaries      *)
(* sorts and strips of duplicates.                                         *)
Boundaries(list) ==
  {list[i].base : i \in DOMAIN list} \cup {RegionEnd(list[i]) : i \in DOMAIN list}

(* Slip: an edge the interval begins on taken to be outside it.            *)
IntervalKindsOffByOne(list, low, high) ==
  {list[i].kind : i \in {j \in DOMAIN list :
                           list[j].base < low /\ high <= RegionEnd(list[j])}}

(* The kinds of the regions that contain all of [low, high).               *)
IntervalKinds(list, low, high) ==
  {list[i].kind : i \in {j \in DOMAIN list :
                           list[j].base <= low /\ high <= RegionEnd(list[j])}}

Init ==
  /\ regions = << >>
  /\ truncated = FALSE
  /\ pc = "ready"
  /\ start = 0
  /\ result = << >>
  /\ overflowed = FALSE
  /\ adds = 0

locals == <<start, result, overflowed>>

memory_map_clear ==
  /\ pc = "ready"
  /\ regions' = << >>
  /\ truncated' = FALSE
  /\ adds' = 0
  /\ UNCHANGED <<pc, locals>>

(* Slip: a capacity test that lets one region too many in.                 *)
IsFullOffByOne == Len(regions) > MaxRegions

IsFull == Len(regions) = MaxRegions

(* A zero length or an end past AddressMax is refused and leaves no trace; *)
(* a full map remembers that it was asked.                                 *)
memory_map_add(base, length, kind) ==
  /\ pc = "ready"
  /\ length # 0
  /\ base + length <= AddressMax
  /\ IF IsFull
       THEN /\ truncated' = TRUE
            /\ UNCHANGED <<regions, adds>>
       ELSE /\ adds < MaxAdds
            /\ regions' = Append(regions, [base |-> base, length |-> length, kind |-> kind])
            /\ adds' = adds + 1
            /\ UNCHANGED truncated
  /\ UNCHANGED <<pc, locals>>

memory_map_add_refused(base, length) ==
  /\ pc = "ready"
  /\ length = 0 \/ base + length > AddressMax
  /\ UNCHANGED vars

(* memory_map_finalize up to its loop; an empty map returns untouched.     *)
BeginFinalize(lowest) ==
  /\ pc = "ready"
  /\ regions # << >>
  /\ lowest \in Boundaries(regions)
  /\ \A b \in Boundaries(regions) : lowest <= b
  /\ pc' = "sweep"
  /\ start' = lowest
  /\ result' = << >>
  /\ overflowed' = truncated
  /\ UNCHANGED <<regions, truncated, adds>>

(* "end" of one iteration: the next edge after the one the sweep is on.    *)
IsNextBoundary(end) ==
  /\ end \in Boundaries(regions)
  /\ start < end
  /\ \A b \in Boundaries(regions) : b <= start \/ end <= b

SweepGap(end) ==
  /\ pc = "sweep"
  /\ IsNextBoundary(end)
  /\ IntervalKinds(regions, start, end) = {}
  /\ start' = end
  /\ UNCHANGED <<regions, truncated, pc, result, overflowed, adds>>

(* Slip: the comparison of precedences the wrong way round.                *)
WinsIntervalMildest(kind, end) ==
  /\ kind \in IntervalKinds(regions, start, end)
  /\ \A k \in IntervalKinds(regions, start, end) : kind <= k

(* interval_kind's answer.                                                 *)
WinsInterval(kind, end) ==
  /\ kind \in IntervalKinds(regions, start, end)
  /\ \A k \in IntervalKinds(regions, start, end) : k <= kind

(* Slips: a merge that forgets to ask for adjacency, and no merge at all.  *)
TouchesByKind(kind) == result # << >> /\ result[Len(result)].kind = kind
TouchesNever(kind)  == FALSE

Touches(kind) ==
  /\ result # << >>
  /\ result[Len(result)].kind = kind
  /\ RegionEnd(result[Len(result)]) = start

(* The last region grown by the interval.                                  *)
Stretched(region, end) ==
  [base |-> region.base, length |-> region.length + (end - start), kind |-> region.kind]

SweepMerge(end, kind) ==
  /\ pc = "sweep"
  /\ IsNextBoundary(end)
  /\ WinsInterval(kind, end)
  /\ Touches(kind)
  /\ result' = [result EXCEPT ![Len(result)] = Stretched(result[Len(result)], end)]
  /\ start' = end
  /\ UNCHANGED <<regions, truncated, pc, overflowed, adds>>

(* The interval as a region of its own.                                    *)
Piece(end, kind) == [base |-> start, length |-> end - start, kind |-> kind]

SweepAppend(end, kind) ==
  /\ pc = "sweep"
  /\ IsNextBoundary(end)
  /\ WinsInterval(kind, end)
  /\ ~ Touches(kind)
  /\ Len(result) # MaxRegions
  /\ result' = Append(result, Piece(end, kind))
  /\ start' = end
  /\ UNCHANGED <<regions, truncated, pc, overflowed, adds>>

(* No room for one more: the rest of memory is dropped.                    *)
SweepFull(end, kind) ==
  /\ pc = "sweep"
  /\ IsNextBoundary(end)
  /\ WinsInterval(kind, end)
  /\ ~ Touches(kind)
  /\ Len(result) = MaxRegions
  /\ overflowed' = TRUE
  /\ pc' = "store"
  /\ UNCHANGED <<regions, truncated, start, result, adds>>

SweepEnd ==
  /\ pc = "sweep"
  /\ \A b \in Boundaries(regions) : b <= start
  /\ pc' = "store"
  /\ UNCHANGED <<regions, truncated, start, result, overflowed, adds>>

(* The memcpy: the only step of the sweep that changes the map.            *)
StoreResult ==
  /\ pc = "store"
  /\ regions' = result
  /\ truncated' = overflowed
  /\ pc' = "ready"
  /\ start' = 0
  /\ result' = << >>
  /\ overflowed' = FALSE
  /\ UNCHANGED adds

Sweep ==
  \/ \E end \in Boundaries(regions) : SweepGap(end)
  \/ \E end \in Boundaries(regions), kind \in Kind : SweepMerge(end, kind)
  \/ \E end \in Boundaries(regions), kind \in Kind : SweepAppend(end, kind)
  \/ \E end \in Boundaries(regions), kind \in Kind : SweepFull(end, kind)
  \/ SweepEnd

Next ==
  \/ memory_map_clear
  \/ \E base, length \in 0 .. AddressMax, kind \in ClaimKinds :
       memory_map_add(base, length, kind)
  \/ \E base, length \in 0 .. AddressMax : memory_map_add_refused(base, length)
  \/ \E lowest \in Boundaries(regions) : BeginFinalize(lowest)
  \/ Sweep
  \/ StoreResult

Spec == Init /\ [][Next]_vars

-----------------------------------------------------------------------------
(* The queries.  They only read the list.                                  *)

NONE == -1

(* memory_map_find: the index of the first region containing an address.   *)
memory_map_find(list, address) ==
  LET hits == {i \in DOMAIN list :
                 list[i].base <= address /\ address < RegionEnd(list[i])}
  IN  IF hits = {} THEN NONE ELSE CHOOSE i \in hits : \A j \in hits : i <= j

AlignDown(x, alignment) == x - (x % alignment)
AlignUp(x, alignment)   == AlignDown(x + (alignment - 1), alignment)

(* Where a run would begin in one region, for each direction of search.    *)
LowStart(region, alignment, minimum) ==
  AlignUp(IF region.base > minimum THEN region.base ELSE minimum, alignment)

(* Slip: the ceiling forgotten.                                            *)
HighEndUnclamped(region, limit) == RegionEnd(region)

HighEnd(region, limit) == IF RegionEnd(region) > limit THEN limit ELSE RegionEnd(region)

HighStart(region, size, alignment, limit) ==
  AlignDown(HighEnd(region, limit) - size, alignment)

(* memory_map_find_free: the run in the first region that has room.        *)
memory_map_find_free(list, size, alignment, minimum) ==
  LET fits(region) ==
        /\ region.kind = USABLE
        /\ (IF region.base > minimum THEN region.base ELSE minimum)
              + (alignment - 1) <= AddressMax
        /\ LowStart(region, alignment, minimum) + size <= RegionEnd(region)
      hits == {i \in DOMAIN list : fits(list[i])}
  IN  IF size = 0 \/ hits = {}
        THEN NONE
        ELSE LowStart(list[CHOOSE i \in hits : \A j \in hits : i <= j],
                      alignment, minimum)

(* memory_map_find_free_high: the highest run of any region.               *)
memory_map_find_free_high(list, size, alignment, limit) ==
  LET fits(region) ==
        /\ region.kind = USABLE
        /\ size <= HighEnd(region, limit)
        /\ region.base <= HighStart(region, size, alignment, limit)
      starts == {HighStart(list[i], size, alignment, limit) :
                   i \in {j \in DOMAIN list : fits(list[j])}}
  IN  IF size = 0 \/ starts = {}
        THEN NONE
        ELSE CHOOSE s \in starts : \A t \in starts : t <= s

-----------------------------------------------------------------------------
(* The map as a ledger: the strictest kind of the regions over a byte.     *)

KindsAt(list, b) ==
  {list[i].kind : i \in {j \in DOMAIN list :
                           list[j].base <= b /\ b < RegionEnd(list[j])}}

KindAt(list, b) ==
  CHOOSE v \in KindsAt(list, b) \cup {NOBODY} :
    \A w \in KindsAt(list, b) \cup {NOBODY} : w <= v

Ledger == INSTANCE MemoryLedger WITH
  ledger   <- [b \in 0 .. AddressMax - 1 |-> KindAt(regions, b)],
  complete <- ~ truncated

(* Every region is representable, and there are never more than fit.       *)
Regions(list) ==
  /\ list \in Seq(Region)
  /\ Len(list) <= MaxRegions
  /\ \A i \in 1 .. Len(list) : RegionEnd(list[i]) <= AddressMax

TypeOK ==
  /\ Regions(regions)
  /\ truncated \in BOOLEAN
  /\ pc \in {"ready", "sweep", "store"}
  /\ start \in Nat
  /\ Regions(result)
  /\ overflowed \in BOOLEAN
  /\ adds \in Nat

(* map.h: "the regions are ascending, disjoint, and no two adjacent ones   *)
(* share a kind".                                                          *)
Canonical(list) ==
  \A i, j \in 1 .. Len(list) :
    i < j => /\ RegionEnd(list[i]) <= list[j].base
             /\ list[i].kind = list[j].kind => RegionEnd(list[i]) < list[j].base

(* What holds of the half-built result between two iterations: it is       *)
(* canonical, ends at or before the edge the sweep stands on, and below    *)
(* that edge says of every byte what the unsorted list says of it.         *)
SweepInv ==
  pc # "ready" =>
    /\ Canonical(result)
    /\ \A i \in 1 .. Len(result) : RegionEnd(result[i]) <= start
    /\ \A b \in 0 .. AddressMax - 1 :
         b < start => KindAt(result, b) = KindAt(regions, b)
    /\ start \in Boundaries(regions)
    /\ pc = "store" /\ ~ overflowed => \A b \in Boundaries(regions) : b <= start
    /\ truncated => overflowed

(* Finalizing leaves a canonical map, whatever was in it, truncated or not.*)
FinalizeCanonical ==
  [][pc # "ready" /\ pc' = "ready" => Canonical(regions')]_vars

(* Finalizing never talks a byte down: a byte the map still describes      *)
(* afterwards is described exactly as strictly as before.                  *)
FinalizeNeverRelaxes ==
  [][pc # "ready" /\ pc' = "ready" =>
       \A b \in 0 .. AddressMax - 1 :
         KindAt(regions', b) \in {KindAt(regions, b), NOBODY}]_vars

(* The map implements the ledger: collecting, overlapping, sorting and     *)
(* merging are invisible, and whatever is lost is admitted to.             *)
ImplementsLedger == Ledger!LedgerSpec

(* The aligned runs of usable bytes there are, by the ledger alone.        *)
Runs(size, alignment) ==
  {s \in 0 .. AddressMax - 1 :
     /\ s % alignment = 0
     /\ s + size <= AddressMax
     /\ \A b \in s .. s + size - 1 : KindAt(regions, b) = USABLE}

(* On a canonical map both searches find a run whenever one exists, find   *)
(* only runs, and find the extreme one the caller asked for.               *)
FindFreeExact ==
  Canonical(regions) =>
    \A size \in Sizes, alignment \in Alignments, bound \in 0 .. AddressMax :
      LET low  == memory_map_find_free(regions, size, alignment, bound)
          high == memory_map_find_free_high(regions, size, alignment, bound)
          above == {s \in Runs(size, alignment) : bound <= s}
          below == {s \in Runs(size, alignment) : s + size <= bound}
      IN  /\ IF above = {} THEN low = NONE
             ELSE low \in above /\ \A s \in above : low <= s
          /\ IF below = {} THEN high = NONE
             ELSE high \in below /\ \A s \in below : s <= high
=============================================================================
