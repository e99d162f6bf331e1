----------------------------- MODULE MCMemoryMap -----------------------------
(***************************************************************************)
(* A map of two regions over an address space of four bytes: two           *)
(* overlapping claims already sweep into three intervals, so the map can   *)
(* fill both while collecting and while finalizing.                        *)
(***************************************************************************)
EXTENDS MemoryMap

MCClaimKinds == {USABLE, KERNEL, RESERVED}
=============================================================================
