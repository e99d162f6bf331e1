------------------------------- MODULE MCPaging -------------------------------
(***************************************************************************)
(* Two entries per table: sixteen translatable pages, page sizes of one,   *)
(* two and four, and a hole between the eight low and the eight high pages.*)
(* Requests begin on both sides of every alignment and of the hole; none   *)
(* is long enough to reach from one side of it to the other.               *)
(*                                                                         *)
(* Kernels are one and two segments in the four identity mapped pages of   *)
(* two units each: linked where they are loaded, in the high half at       *)
(* distances that leave the direct map all, some or none of its room, and  *)
(* at distances that are refused; sharing pages, and not.                  *)
(***************************************************************************)
EXTENDS KernelTables

MCVirtuals == {0, 2, 7, 8, 60, 63}

MCDistances == {0, 112, 117, 120}

Segments(distance, p) ==
  {[v |-> p + distance, p |-> p, units |-> units, write |-> write, execute |-> ~ write] :
     units \in {u \in 1 .. 3 : p + distance + u < WordUnits}, write \in BOOLEAN}

Disjoint(a, b) == a.p + a.units <= b.p \/ b.p + b.units <= a.p

MCKernels ==
  LET singles == UNION {Segments(d, p) : d \in MCDistances, p \in {2, 3, 5}} IN
  { <<s>> : s \in singles } \cup
  { k \in singles \X UNION {Segments(d, p) : d \in {0, 112, 114}, p \in {4, 5}} :
      Disjoint(k[1], k[2]) }
=============================================================================
