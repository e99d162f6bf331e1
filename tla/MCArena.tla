------------------------------- MODULE MCArena -------------------------------
(* A five-bit machine with the arena at the very top of the address space, *)
(* so that rounding up can wrap, and at an address nothing is aligned to.  *)
EXTENDS Arena
=============================================================================
