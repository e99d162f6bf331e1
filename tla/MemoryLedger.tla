----------------------------- MODULE MemoryLedger -----------------------------
(***************************************************************************)
(* What the memory map promises, one byte at a time.  The ledger knows for *)
(* every byte the strictest kind anybody claimed for it.  Nothing else a   *)
(* caller can observe matters: not the order the claims arrived in, not    *)
(* how they overlapped, not when the map was tidied.                       *)
(*                                                                         *)
(* The ledger may lose information only in the two ways map.h admits to,   *)
(* and then only after saying so in "complete": a claim that found no room *)
(* is not written down, and tidying may forget the top of memory.          *)
(***************************************************************************)
EXTENDS MemoryKinds

CONSTANTS
  AddressMax,   \* the largest value of an address (UINT64_MAX)
  ClaimKinds    \* the kinds callers claim

(* A region's end must itself be representable, so the last byte that can  *)
(* be described is the one before AddressMax.                              *)
Byte == 0 .. AddressMax - 1

VARIABLES
  ledger,    \* the verdict on every byte
  complete   \* nothing has been lost since the last clear

ledgerVars == <<ledger, complete>>

LedgerInit ==
  /\ ledger = [b \in Byte |-> NOBODY]
  /\ complete = TRUE

Forget ==
  /\ ledger' = [b \in Byte |-> NOBODY]
  /\ complete' = TRUE

(* A claim that fits: every byte of it becomes at least as strict.         *)
Claim(base, end, kind) ==
  /\ ledger' = [b \in Byte |-> IF base <= b /\ b < end
                                 THEN Stricter(ledger[b], kind)
                                 ELSE ledger[b]]
  /\ UNCHANGED complete

(* A claim with no room left for it.                                       *)
ClaimLost ==
  /\ complete' = FALSE
  /\ UNCHANGED ledger

(* Tidying more intervals than the map can hold: the low ones survive.     *)
TopLost(from) ==
  /\ complete' = FALSE
  /\ ledger' = [b \in Byte |-> IF b < from THEN ledger[b] ELSE NOBODY]

LedgerNext ==
  \/ Forget
  \/ \E base, end \in 0 .. AddressMax, kind \in ClaimKinds :
       base < end /\ Claim(base, end, kind)
  \/ ClaimLost
  \/ \E from \in 0 .. AddressMax : TopLost(from)

LedgerSpec == LedgerInit /\ [][LedgerNext]_ledgerVars
=============================================================================
