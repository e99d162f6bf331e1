----------------------------- MODULE KernelTables -----------------------------
(***************************************************************************)
(* build_kernel_tables of src/boot/main.c: the calls of paging_map that    *)
(* make the address space a kernel is entered in.                          *)
(*                                                                         *)
(* Addresses of segments are counted in units of less than a page, for a   *)
(* segment seldom begins or ends on one.  A machine whose kernel is <<>>   *)
(* is Paging on its own: any calls, in any order.                          *)
(***************************************************************************)
EXTENDS Paging, FiniteSetsExt, SequencesExt

CONSTANTS
  PageUnits,        \* PAGE_BYTES
  IdentityPages,    \* IDENTITY_MAP_BYTES
  Kernels           \* what elf_parse may have accepted

WordUnits == WordPages * PageUnits

Segment == [v : 0 .. WordUnits - 1, p : Nat, units : Nat \ {0}, write : BOOLEAN, execute : BOOLEAN]

ASSUME KernelTablesAssumption ==
  /\ PageUnits \in Nat \ {0} /\ IdentityPages \in 1 .. FramePages - 1
  /\ \A image \in Kernels :
       /\ image \in Seq(Segment) /\ image # <<>>
       /\ \A i \in DOMAIN image :
            /\ image[i].p + image[i].units <= IdentityPages * PageUnits
            /\ image[i].v + image[i].units < WordUnits

VARIABLES
  kernel,               \* the segments
  kernel_no_execute,
  calls,                \* of paging_map, the ones still to make
  built                 \* "building", "built" or "refused"

kernel_vars == <<kernel, kernel_no_execute, calls, built>>
all_vars == <<vars, kernel_vars>>

-----------------------------------------------------------------------------
RoundDown(a) == a - (a % PageUnits)
RoundUp(a) == RoundDown(a + PageUnits - 1) % WordUnits

Lowest(image) == Min({image[i].p : i \in DOMAIN image})
Highest(image) == Max({image[i].p + image[i].units : i \in DOMAIN image})

Call(v, p, units, flags) == [v |-> v % WordUnits, p |-> p, units |-> units, flags |-> flags]

Asked(segment, nx) ==
  {f \in {"writable", "no_execute"} :
     IF f = "writable" THEN segment.write ELSE nx /\ ~ segment.execute}

(* Slip: the bytes of the first page that come before the segment are not  *)
(* counted.                                                                *)
map_segment_short(segment, nx) ==
  Call(RoundDown(segment.v), RoundDown(segment.p), RoundUp(segment.units),
       Asked(segment, nx))

map_segment(segment, nx) ==
  LET leading == segment.v % PageUnits IN
  Call(RoundDown(segment.v), RoundDown(segment.p), RoundUp(segment.units + leading),
       Asked(segment, nx))

(* All of memory again, at the distance the first segment is linked at,    *)
(* as far as it fits, below and above the pages of the kernel.             *)
DirectMap(image, nx) ==
  LET base  == (image[1].v - image[1].p) % WordUnits
      room  == (WordUnits - base - PageUnits) % WordUnits
      end   == Min({room, IdentityPages * PageUnits})
      low   == RoundDown(Lowest(image))
      high  == RoundUp(Highest(image))
      flags == {"writable"} \cup (IF nx THEN {"no_execute"} ELSE {})
  IN  IF base = 0 THEN <<>>
      ELSE (IF low > 0 THEN << Call(base, 0, low, flags) >> ELSE <<>>) \o
           (IF high < end THEN << Call(base + high, high, end - high, flags) >> ELSE <<>>)

build_kernel_tables(image, nx) ==
  << Call(0, 0, IdentityPages * PageUnits, {"writable"}) >> \o DirectMap(image, nx) \o
  [i \in DOMAIN image |-> map_segment(image[i], nx)]

(* The last calls are those for the segments, in their order.  A segment   *)
(* linked where it is loaded is left to the identity map.                  *)
StaysInPlace ==
  /\ Len(calls) \in 1 .. Len(kernel)
  /\ LET segment == kernel[Len(kernel) - Len(calls) + 1] IN segment.v = segment.p

-----------------------------------------------------------------------------
KernelInit ==
  /\ Init
  /\ kernel \in Kernels \cup {<<>>}
  /\ kernel_no_execute \in IF kernel = <<>> THEN {FALSE} ELSE BOOLEAN
  /\ calls = IF kernel = <<>> THEN <<>> ELSE build_kernel_tables(kernel, kernel_no_execute)
  /\ built = "building"

Ready == kernel # <<>> /\ built = "building" /\ outcome = "mapped"

Whole(call) == {call.v % PageUnits, call.p % PageUnits, call.units % PageUnits} = {0}

next_call ==
  /\ Ready /\ calls # <<>> /\ ~ StaysInPlace
  /\ Whole(calls[1])
  /\ paging_map(calls[1].v \div PageUnits, calls[1].p \div PageUnits,
                calls[1].units \div PageUnits, calls[1].flags)
  /\ calls' = Tail(calls)
  /\ UNCHANGED <<kernel, kernel_no_execute, built>>

left_in_place ==
  /\ Ready /\ StaysInPlace
  /\ calls' = Tail(calls)
  /\ UNCHANGED <<vars, kernel, kernel_no_execute, built>>

(* paging_map refuses at once, or has given up half way: nothing is entered. *)
call_refused ==
  /\ kernel # <<>> /\ built = "building"
  /\ \/ outcome = "failed"
     \/ outcome = "mapped" /\ calls # <<>> /\ ~ StaysInPlace /\
          ~ (/\ Whole(calls[1])
             /\ Acceptable(calls[1].v \div PageUnits, calls[1].p \div PageUnits,
                           calls[1].units \div PageUnits))
  /\ built' = "refused"
  /\ UNCHANGED <<vars, kernel, kernel_no_execute, calls>>

all_mapped ==
  /\ Ready /\ calls = <<>>
  /\ built' = "built"
  /\ UNCHANGED <<vars, kernel, kernel_no_execute, calls>>

KernelNext ==
  \/ kernel = <<>> /\ Next /\ UNCHANGED kernel_vars
  \/ kernel # <<>> /\ Step /\ UNCHANGED kernel_vars
  \/ next_call
  \/ left_in_place
  \/ call_refused
  \/ all_mapped

KernelSpec == KernelInit /\ [][KernelNext]_all_vars

-----------------------------------------------------------------------------
(* Where a byte of the kernel's address space is, and with which flags.    *)
Translated(a) ==
  LET page == paging_translate(tables, (a \div PageUnits) % Translatable)
  IN  [at |-> page.frame * PageUnits + (a % PageUnits), flags |-> page.flags]

Mapped(segment) ==
  \A i \in 0 .. segment.units - 1 :
    Translated(segment.v + i) = [at |-> segment.p + i, flags |-> Asked(segment, kernel_no_execute)]

SameOffset(segment) == segment.v % PageUnits = segment.p % PageUnits

PagesOf(segment) ==
  segment.p \div PageUnits .. (segment.p + segment.units - 1) \div PageUnits

(* What a kernel is entered with: memory where the loader stands, every    *)
(* segment linked elsewhere at its bytes with its own permissions, and, in *)
(* that part of the address space, no other way to write to the kernel     *)
(* ("a writable direct map across them would undo that").  Segments whose  *)
(* two addresses differ within a page are excused: nothing refuses them.   *)
SegmentsAsAsked ==
  built = "built" =>
    /\ \A page \in 0 .. IdentityPages - 1 :
         paging_translate(tables, page) = [frame |-> page, flags |-> {"writable"}]
    /\ \A i \in DOMAIN kernel :
         kernel[i].v # kernel[i].p /\ SameOffset(kernel[i]) => Mapped(kernel[i])
    /\ (\A i \in DOMAIN kernel : SameOffset(kernel[i])) =>
         \A page \in IdentityPages .. Translatable - 1, i \in DOMAIN kernel :
           LET there == paging_translate(tables, page) IN
           there.frame \in PagesOf(kernel[i]) =>
             \E j \in DOMAIN kernel :
               /\ there.frame \in PagesOf(kernel[j])
               /\ there.flags = Asked(kernel[j], kernel_no_execute)

(* protocol.md: the kernel is entered with "its segments mapped where it   *)
(* asked for them, non-executable where its program headers said so".      *)
NoExecuteAsAsked ==
  built = "built" /\ kernel_no_execute =>
    \A i \in DOMAIN kernel : ~ kernel[i].execute =>
      \A unit \in 0 .. kernel[i].units - 1 :
        "no_execute" \in Translated(kernel[i].v + unit).flags
=============================================================================
