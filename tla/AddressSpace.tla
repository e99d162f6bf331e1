----------------------------- MODULE AddressSpace -----------------------------
(***************************************************************************)
(* What page tables promise to whoever builds them: a partial function     *)
(* from virtual pages to physical ones that only ever grows.  A page once  *)
(* mapped keeps its frame and its flags; no call remaps or splits one.     *)
(***************************************************************************)
EXTENDS Integers

CONSTANTS
  VirtualPage,   \* pages the processor can translate
  PhysicalPage,
  Flags,         \* what a mapping may carry
  Runs           \* the lengths mapped in one step: the page sizes

UNMAPPED == [frame |-> -1, flags |-> {}]

Mapping == [frame : PhysicalPage, flags : Flags]

VARIABLE space

SpaceInit == space = [v \in VirtualPage |-> UNMAPPED]

(* One page of some size: all of it was unmapped, all of it is mapped, one *)
(* frame after the other, and nothing else has changed.                    *)
Map(v, n, old, new) ==
  LET run == v .. v + n - 1 IN
  /\ run \subseteq VirtualPage
  /\ new[v] \in Mapping
  /\ \A x \in VirtualPage :
       IF x \in run
         THEN /\ old[x] = UNMAPPED
              /\ new[x] = [frame |-> new[v].frame + (x - v), flags |-> new[v].flags]
         ELSE new[x] = old[x]

SpaceNext ==
  LET old == space
      new == space'
  IN  \E v \in VirtualPage, n \in Runs : Map(v, n, old, new)

SpaceSpec == SpaceInit /\ [][SpaceNext]_space
=============================================================================
