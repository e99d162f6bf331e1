-------------------------------- MODULE MCBoot --------------------------------
(***************************************************************************)
(* Eight pages: one below the megabyte, five the arena may use, one        *)
(* between the ceiling and the limit, one beyond the identity map.  The    *)
(* arena is three pages, so a module, an answer and a page table fill it.  *)
(***************************************************************************)
EXTENDS Boot

(* A machine that is all usable memory; one whose arena cannot go as high  *)
(* as the ceiling and whose low page is reserved; one with no run long     *)
(* enough for the arena, and a hole nobody described.                      *)
MCSnapshots ==
  LET Machine(reserved, absent) ==
        [b \in Page |-> IF b \in reserved THEN RESERVED
                        ELSE IF b \in absent THEN NOBODY ELSE USABLE]
  IN {Machine({}, {}), Machine({0, 4}, {7}), Machine({2}, {5})}

(* Every layout of one segment, and every one of two that elf_parse would  *)
(* accept (no overlap), the second segment one page long.                  *)
MCKernels ==
  LET Fits(s) == s.base + s.pages <= AddressMax
      Up(n) == {s \in [base : Page, pages : 1 .. n] : Fits(s)}
  IN {<<s>> : s \in Up(3)}
     \cup {<<p[1], p[2]>> : p \in {p \in Up(2) \X Up(1) : Apart(p[1], p[2])}}
=============================================================================
