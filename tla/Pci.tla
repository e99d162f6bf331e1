---------------------------------- MODULE Pci ----------------------------------
(***************************************************************************)
(* src/pci/pci.c: the walk over the buses of a machine that may be wired   *)
(* in any way, bridges that point back at a bus already walked included.   *)
(*                                                                         *)
(* What the configuration words say of a function is that nothing is there *)
(* (the bus is not driven), a device, or a bridge and the bus behind it.   *)
(***************************************************************************)
EXTENDS Integers, Sequences, SequencesExt, FiniteSetsExt

CONSTANTS
  Buses,               \* PCI_BUSES
  Devices,             \* PCI_DEVICES_PER_BUS
  Functions,           \* PCI_FUNCTIONS_PER_DEVICE
  PCI_MAX_DEVICES,
  Machines             \* what may be plugged in

Bus == 0 .. Buses - 1
Place == Bus \X (0 .. Devices - 1) \X (0 .. Functions - 1)
Machine == [kind : [Place -> {"none", "device", "bridge"}],
            behind : [Place -> Bus],                        \* secondary
            multi : [Bus \X (0 .. Devices - 1) -> BOOLEAN]]

PciAssumption ==
  /\ {Buses, Devices, Functions, PCI_MAX_DEVICES} \subseteq Nat \ {0}
  /\ Machines \subseteq Machine

VARIABLES
  machine,     \* what its configuration words say
  pending,     \* walk.pending
  seen,        \* walk.seen
  cursor,      \* where the walk is: a place, or <<>> between two buses
  entries,     \* out->entries
  truncated,   \* out->truncated
  done

vars == <<machine, pending, seen, cursor, entries, truncated, done>>

Init ==
  /\ machine \in Machines
  /\ pending = {0} /\ seen = {}
  /\ cursor = <<>>
  /\ entries = <<>> /\ truncated = FALSE
  /\ done = FALSE

(* Slip: the bus that is walked is still pending.                          *)
PendingAfterAll(bus) == pending
PendingAfter(bus) == pending \ {bus}

(* The lowest bus that is still to be walked.                              *)
next_bus ==
  /\ ~ done /\ cursor = <<>> /\ pending # {}
  /\ LET bus == Min(pending) IN
       /\ pending' = PendingAfter(bus)
       /\ seen' = seen \cup {bus}
       /\ cursor' = <<bus, 0, 0>>
  /\ UNCHANGED <<machine, entries, truncated, done>>

finish ==
  /\ ~ done /\ cursor = <<>> /\ pending = {}
  /\ done' = TRUE
  /\ UNCHANGED <<machine, pending, seen, cursor, entries, truncated>>

KindAt(place) == machine.kind[place]

(* visit_device: only a device that is there, and that says so, has more   *)
(* than one function.                                                      *)
HasMore(place) ==
  /\ KindAt(<<place[1], place[2], 0>>) # "none"
  /\ machine.multi[<<place[1], place[2]>>]

(* The function, the device or the bus that is looked at next.             *)
After(place) ==
  IF place[3] + 1 < Functions /\ HasMore(place) THEN <<place[1], place[2], place[3] + 1>>
  ELSE IF place[2] + 1 < Devices THEN <<place[1], place[2] + 1, 0>>
  ELSE <<>>

(* visit_function, and the loops round it.                                 *)
Visit == ~ done /\ cursor # <<>> /\ cursor' = After(cursor) /\ UNCHANGED <<machine, seen, done>>

visit_nothing ==
  /\ Visit
  /\ KindAt(cursor) = "none"
  /\ UNCHANGED <<pending, entries, truncated>>

(* record refuses, and a bridge that is not recorded is not followed.      *)
visit_full ==
  /\ Visit
  /\ KindAt(cursor) # "none" /\ Len(entries) = PCI_MAX_DEVICES
  /\ truncated' = TRUE
  /\ UNCHANGED <<pending, entries>>

(* Slip: a bridge is followed wherever it points.                          *)
BehindAnyway(place) ==
  IF KindAt(place) = "bridge" THEN {machine.behind[place]} ELSE {}

(* The bus behind a bridge, if it has not been walked.                     *)
Behind(place) ==
  IF KindAt(place) = "bridge" THEN {machine.behind[place]} \ seen ELSE {}

visit_function ==
  /\ Visit
  /\ KindAt(cursor) # "none" /\ Len(entries) < PCI_MAX_DEVICES
  /\ entries' = Append(entries, cursor)
  /\ pending' = pending \cup Behind(cursor)
  /\ UNCHANGED truncated

Next == next_bus \/ finish \/ visit_nothing \/ visit_full \/ visit_function

Spec == Init /\ [][Next]_vars /\ WF_vars(Next)

-----------------------------------------------------------------------------
TypeOK ==
  /\ machine \in Machines
  /\ pending \subseteq Bus /\ seen \subseteq Bus
  /\ cursor \in {<<>>} \cup Place
  /\ entries \in Seq(Place)
  /\ truncated \in BOOLEAN /\ done \in BOOLEAN

(* The functions of a bus that answer as functions of their own.           *)
Answering(bus) ==
  {place \in {bus} \X (0 .. Devices - 1) \X (0 .. Functions - 1) :
     /\ KindAt(place) # "none" /\ KindAt(<<place[1], place[2], 0>>) # "none"
     /\ place[3] # 0 => machine.multi[<<place[1], place[2]>>]}

(* The buses that bridges lead to from the first, over any others.         *)
Closed(buses) ==
  \A bus \in buses : \A place \in Answering(bus) :
    KindAt(place) = "bridge" => machine.behind[place] \in buses

Reached == {bus \in Bus : \A buses \in SUBSET Bus : 0 \in buses /\ Closed(buses) => bus \in buses}

Plugged == UNION {Answering(b) : b \in Reached}

(* No function is reported twice, however the bridges point; the kernel is *)
(* handed all of what is plugged in, or told that there is more (pci.h).   *)
DevicesExact ==
  /\ IsInjective(entries)
  /\ done => /\ ToSet(entries) \subseteq Plugged
             /\ truncated <=> ToSet(entries) # Plugged
             /\ truncated => Len(entries) = PCI_MAX_DEVICES

(* "A bridge that points back at a bus already seen would otherwise be a   *)
(* loop" (pci.c): the walk comes to this whatever the wiring.              *)
Ended == done
=============================================================================
