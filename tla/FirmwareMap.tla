----------------------------- MODULE FirmwareMap -----------------------------
(***************************************************************************)
(* src/fw/uefi/fw_uefi.c and memory.c: UEFI firmware, and its              *)
(* map of memory, read while the firmware still runs, and the way out of   *)
(* its boot services.                                                      *)
(*                                                                         *)
(* Memory is a few pages; what the firmware uses each for is its own to    *)
(* change between any two calls, and its key changes with it.  A run of    *)
(* pages of one type is a descriptor.                                      *)
(***************************************************************************)
EXTENDS Integers, FiniteSets

CONSTANTS
  Pages,           \* of memory
  MapCapacity,     \* UEFI_MEMORY_MAP_MAX_BYTES, in descriptors
  MapSlack,        \* UEFI_MEMORY_MAP_SLACK_BYTES
  Attempts,        \* of uefi_exit_boot_services
  MaxChanges       \* bound on what the firmware does meanwhile

Page == 1 .. Pages

(* What the firmware says of a page: free, its own until the exit, the     *)
(* loader's, and what is never anybody else's.                             *)
Type == {"conventional", "boot_services", "loader", "runtime"}

FirmwareMapAssumption ==
  {Pages, MapCapacity, MapSlack, Attempts, MaxChanges} \subseteq Nat \ {0}

VARIABLES
  memory,      \* the firmware's own books
  key,         \* that they are at: how often they have changed
  services,    \* whether boot services are up
  stride_ok,   \* descriptor_bytes is one this code can step by
  map,         \* self->map, as read
  map_key,     \* self->map_key
  exited,      \* self->exited
  call,        \* the call in progress and where it is
  out          \* the memory map it leaves, and whether it returned true

vars == <<memory, key, services, stride_ok, map, map_key, exited, call, out>>
firmware == <<memory, key, services, stride_ok>>
self == <<map, map_key, exited>>

Idle == [of |-> "none", at |-> "none", attempt |-> 0]
Nothing == [kinds |-> [page \in Page |-> "unlisted"], ok |-> FALSE]

Init ==
  /\ memory \in [Page -> Type]
  /\ key = 0 /\ services = TRUE /\ stride_ok \in BOOLEAN
  /\ map = memory /\ map_key = -1 /\ exited = FALSE
  /\ call = Idle
  /\ out = Nothing

Descriptors(m) == Cardinality({page \in Page : page = 1 \/ m[page] # m[page - 1]})

(* Timers and events of the firmware allocate and free its own pages.      *)
firmware_changes ==
  /\ services /\ key < MaxChanges
  /\ \E page \in Page :
       /\ memory[page] \in {"conventional", "boot_services"}
       /\ memory' = [memory EXCEPT ![page] =
            IF @ = "conventional" THEN "boot_services" ELSE "conventional"]
  /\ key' = key + 1
  /\ UNCHANGED <<services, stride_ok, self, call, out>>

-----------------------------------------------------------------------------
(* uefi_memory_kind; before the exit and after it.                         *)
uefi_memory_kind(type, after) ==
  CASE type = "conventional"  -> "usable"
    [] type = "boot_services" -> IF after THEN "usable" ELSE "reserved"
    [] type = "loader"        -> "bootloader_reclaimable"
    [] type = "runtime"       -> "reserved"

Kinds(m, after) == [page \in Page |-> uefi_memory_kind(m[page], after)]

(* uefi_memory_parse: false when there is nothing usable in it.            *)
Parsed(m, after) ==
  IF stride_ok
    THEN [kinds |-> Kinds(m, after), ok |-> \E page \in Page : Kinds(m, after)[page] = "usable"]
    ELSE Nothing

(* boot_core takes one snapshot, while boot services are up: after the     *)
(* exit there would be nobody to answer it.                                *)
uefi_mem_snapshot ==
  /\ call = Idle /\ ~ exited
  /\ call' = [of |-> "snapshot", at |-> "probe", attempt |-> 1]
  /\ out' = Nothing
  /\ UNCHANGED <<firmware, self>>

uefi_exit_boot_services ==
  /\ call = Idle /\ ~ exited
  /\ call' = [of |-> "exit", at |-> "probe", attempt |-> 1]
  /\ UNCHANGED <<firmware, self, out>>

Failed == call' = Idle /\ out' = [out EXCEPT !.ok = FALSE]

(* fetch_memory_map asks for the size first ...                            *)
probe ==
  /\ call.at = "probe"
  /\ IF Descriptors(memory) + MapSlack > MapCapacity THEN Failed
     ELSE call' = [call EXCEPT !.at = "fetch"] /\ UNCHANGED out
  /\ UNCHANGED <<firmware, self>>

(* ... and then for the map, which may have grown in between.              *)
fetch_too_large ==
  /\ call.at = "fetch"
  /\ Descriptors(memory) > MapCapacity
  /\ Failed
  /\ UNCHANGED <<firmware, self>>

fetch ==
  /\ call.at = "fetch"
  /\ Descriptors(memory) <= MapCapacity
  /\ map' = memory /\ map_key' = key
  /\ IF call.of = "snapshot"
       THEN call' = Idle /\ out' = Parsed(memory, exited)
       ELSE call' = [call EXCEPT !.at = "leave"] /\ UNCHANGED out
  /\ UNCHANGED <<firmware, exited>>

(* Slip: the map is interpreted as it was before the exit.                 *)
AfterExitForgotten == FALSE
AfterExit == TRUE

exit_accepted ==
  /\ call.at = "leave" /\ map_key = key
  /\ services' = FALSE /\ exited' = TRUE
  /\ out' = Parsed(map, AfterExit)
  /\ call' = Idle
  /\ UNCHANGED <<memory, key, stride_ok, map, map_key>>

(* Slip: the attempts are counted from zero and up to their number.        *)
MayRetryOnceMore == call.attempt <= Attempts
MayRetry == call.attempt < Attempts

(* The key is not current: one retry and no more.                          *)
exit_refused ==
  /\ call.at = "leave" /\ map_key # key
  /\ IF MayRetry
       THEN call' = [call EXCEPT !.at = "probe", !.attempt = @ + 1] /\ UNCHANGED out
       ELSE Failed
  /\ UNCHANGED <<firmware, self>>

Next ==
  \/ firmware_changes
  \/ uefi_mem_snapshot
  \/ uefi_exit_boot_services
  \/ probe
  \/ fetch_too_large
  \/ fetch
  \/ exit_accepted
  \/ exit_refused

Spec == Init /\ [][Next]_vars

-----------------------------------------------------------------------------
TypeOK ==
  /\ memory \in [Page -> Type] /\ map \in [Page -> Type]
  /\ key \in 0 .. MaxChanges /\ map_key \in -1 .. MaxChanges
  /\ {services, stride_ok, exited, out.ok} \subseteq BOOLEAN
  /\ call.of \in {"none", "snapshot", "exit"}
  /\ call.at \in {"none", "probe", "fetch", "leave"} /\ call.attempt \in 0 .. Attempts

(* "The map in hand is the one the kernel is handed, and boot services     *)
(* memory is now free" (fw_uefi.c): once the firmware is left, the map     *)
(* says what its memory is used for now and gives nothing away that is     *)
(* still used, however often it changed before the key was accepted; and   *)
(* while boot services run, a snapshot gives away nothing that was theirs. *)
MapIsCurrent ==
  /\ exited = ~ services
  /\ exited /\ stride_ok => out.kinds = Kinds(memory, TRUE)
  /\ ~ exited /\ call = Idle /\ out.ok =>
       \A page \in Page : out.kinds[page] = "usable" => map[page] = "conventional"
=============================================================================
