-------------------------------- MODULE Paging --------------------------------
(***************************************************************************)
(* src/memory/paging.c: a four-level radix tree built in the arena.        *)
(*                                                                         *)
(* A table is its number in the order of allocation; the arena gives out   *)
(* MaxTables of them.  Addresses are counted in pages.  A call is followed *)
(* entry by entry, so that every way of giving up half way - a page that   *)
(* is already mapped, an arena that is empty - leaves what it really       *)
(* leaves behind: tables with nothing in them and a range half mapped.     *)
(***************************************************************************)
EXTENDS Integers, Sequences

CONSTANTS
  Fan,           \* entries per table, 512 in the code
  WordPages,     \* pages in a 64-bit address space
  FramePages,    \* pages an entry has address bits for, 2^40
  MaxTables,     \* tables the arena has room for
  Virtuals,      \* bounds on the requests: first pages,
  Physicals,     \*   frames,
  Lengths,       \*   lengths in pages
  Flags,         \*   sets of flags
  MaxCalls       \* and calls of paging_map

PAGE_LEVEL_ROOT == 4
PageFlags == SUBSET {"writable", "no_execute"}

(* level_span: pages under one entry at each level.                        *)
Span == <<1, Fan, Fan * Fan, Fan * Fan * Fan>>

(* Pages a walk can tell apart.                                            *)
Translatable == Fan * Span[PAGE_LEVEL_ROOT]

ASSUME PagingAssumption ==
  /\ Fan \in Nat /\ Fan >= 2
  /\ WordPages \in Nat /\ WordPages % Translatable = 0
  /\ MaxTables \in Nat \ {0} /\ MaxCalls \in Nat
  /\ Virtuals \subseteq 0 .. WordPages - 1
  /\ Physicals \subseteq Nat /\ Lengths \subseteq Nat /\ Flags \subseteq PageFlags
  /\ FramePages \in 1 .. WordPages
  (* No caller has memory above the address bits of an entry.  paging_map   *)
  (* does not ask: PAGE_ADDRESS_MASK would silently cut such a frame short. *)
  /\ \A p \in Physicals, n \in Lengths : p + n <= FramePages

VARIABLES
  tables,        \* the tables in memory, the root first
  huge_pages,    \* the processor has pages at level three
  walk,          \* the locals of paging_map and map_one
  asked,         \* the arguments of the last paging_map
  outcome        \* "running", or how that call ended

vars == <<tables, huge_pages, walk, asked, outcome>>

ABSENT == [kind |-> "absent", at |-> -1, flags |-> {}]
Leaf(frame, flags) == [kind |-> "leaf", at |-> frame, flags |-> flags]
Pointer(table) == [kind |-> "table", at |-> table, flags |-> {}]

EmptyTable == [i \in 0 .. Fan - 1 |-> ABSENT]

(* Only the low bits of an address choose entries.                         *)
Index(v, level) == (v \div Span[level]) % Fan

(* The bits above the ones translated all equal the topmost of those.      *)
paging_address_is_canonical(v) ==
  v < Translatable \div 2 \/ v >= WordPages - Translatable \div 2

-----------------------------------------------------------------------------
FitsAt(level, v, p, remaining) ==
  remaining >= Span[level] /\ v % Span[level] = 0 /\ p % Span[level] = 0

(* page_size_for and level_for.                                            *)
LeafLevel(v, p, remaining) ==
  IF huge_pages /\ FitsAt(3, v, p, remaining) THEN 3
  ELSE IF FitsAt(2, v, p, remaining) THEN 2 ELSE 1

LeafNow == LeafLevel(walk.v, walk.p, walk.remaining)
EntryNow == tables[walk.table][Index(walk.v, walk.level)]

WithEntry(entry) == [tables EXCEPT ![walk.table][Index(walk.v, walk.level)] = entry]

AtRoot(v, p, remaining, flags) ==
  [v |-> v, p |-> p, remaining |-> remaining, flags |-> flags,
   level |-> PAGE_LEVEL_ROOT, table |-> 1]

(* The tests at the top of paging_map: a range whose end is the end of the *)
(* address space has no representable end and is refused too.              *)
Acceptable(v, p, n) ==
  /\ n # 0
  /\ v + n < WordPages
  /\ p + n < WordPages
  /\ paging_address_is_canonical(v)
  /\ paging_address_is_canonical(v + n - 1)

-----------------------------------------------------------------------------
(* After paging_create: an empty root.                                     *)
Init ==
  /\ tables = <<EmptyTable>>
  /\ huge_pages \in BOOLEAN
  /\ walk = AtRoot(0, 0, 0, {})
  /\ asked = [v |-> 0, p |-> 0, n |-> 0, flags |-> {}, calls |-> 0]
  /\ outcome = "mapped"

paging_map(v, p, n, flags) ==
  /\ outcome # "running"
  /\ Acceptable(v, p, n)
  /\ asked' = [v |-> v, p |-> p, n |-> n, flags |-> flags, calls |-> asked.calls + 1]
  /\ walk' = AtRoot(v, p, n, flags)
  /\ outcome' = "running"
  /\ UNCHANGED <<tables, huge_pages>>

paging_map_refused(v, p, n) ==
  /\ outcome # "running"
  /\ ~ Acceptable(v, p, n)
  /\ UNCHANGED vars

descend ==
  /\ outcome = "running"
  /\ walk.level > LeafNow
  /\ EntryNow.kind = "table"
  /\ walk' = [walk EXCEPT !.table = EntryNow.at, !.level = @ - 1]
  /\ UNCHANGED <<tables, huge_pages, asked, outcome>>

(* Slip: the table that is linked is not the one that was allocated.       *)
LinkedStale(table) == Pointer(table - 1)
Linked(table) == Pointer(table)

descend_creating ==
  /\ outcome = "running"
  /\ walk.level > LeafNow
  /\ EntryNow = ABSENT
  /\ Len(tables) < MaxTables
  /\ tables' = Append(WithEntry(Linked(Len(tables) + 1)), EmptyTable)
  /\ walk' = [walk EXCEPT !.table = Len(tables) + 1, !.level = @ - 1]
  /\ UNCHANGED <<huge_pages, asked, outcome>>

(* A larger page already covers this address, or the arena is empty.       *)
descend_refused ==
  /\ outcome = "running"
  /\ walk.level > LeafNow
  /\ \/ EntryNow.kind = "leaf"
     \/ EntryNow = ABSENT /\ Len(tables) = MaxTables
  /\ outcome' = "failed"
  /\ UNCHANGED <<tables, huge_pages, walk, asked>>

(* Slip: the presence of the entry is not tested.                          *)
LeafFreeAlways == TRUE
LeafFree == EntryNow = ABSENT

Advance == Span[LeafNow]

(* Slip: the loop stops when one page is left.                             *)
LastPieceEarly == walk.remaining - Advance <= 1
LastPiece == walk.remaining = Advance

map_one ==
  /\ outcome = "running"
  /\ walk.level = LeafNow
  /\ LeafFree
  /\ tables' = WithEntry(Leaf(walk.p % FramePages, walk.flags))
  /\ walk' = AtRoot(walk.v + Advance, walk.p + Advance, walk.remaining - Advance,
                    walk.flags)
  /\ outcome' = IF LastPiece THEN "mapped" ELSE "running"
  /\ UNCHANGED <<huge_pages, asked>>

map_one_refused ==
  /\ outcome = "running"
  /\ walk.level = LeafNow
  /\ ~ LeafFree
  /\ outcome' = "failed"
  /\ UNCHANGED <<tables, huge_pages, walk, asked>>

Step ==
  \/ descend
  \/ descend_creating
  \/ descend_refused
  \/ map_one
  \/ map_one_refused

Next ==
  \/ /\ asked.calls < MaxCalls
     /\ \E v \in Virtuals, p \in Physicals, n \in Lengths, flags \in Flags :
          paging_map(v, p, n, flags)
  \/ \E v \in Virtuals, p \in Physicals, n \in Lengths : paging_map_refused(v, p, n)
  \/ Step

Spec == Init /\ [][Next]_vars

-----------------------------------------------------------------------------
UNMAPPED == [frame |-> -1, flags |-> {}]

(* What an entry met at a level says of v, if no table hangs from it.      *)
Found(entry, v, level) ==
  IF entry.kind = "leaf"
  THEN [frame |-> entry.at + (v % Span[level]), flags |-> entry.flags]
  ELSE UNMAPPED

(* paging_translate, which is also the walk the processor makes, from each *)
(* level downwards.                                                        *)
TranslateFrom1(ts, table, v) == Found(ts[table][Index(v, 1)], v, 1)

TranslateFrom2(ts, table, v) ==
  LET entry == ts[table][Index(v, 2)] IN
  IF entry.kind = "table" THEN TranslateFrom1(ts, entry.at, v) ELSE Found(entry, v, 2)

TranslateFrom3(ts, table, v) ==
  LET entry == ts[table][Index(v, 3)] IN
  IF entry.kind = "table" THEN TranslateFrom2(ts, entry.at, v) ELSE Found(entry, v, 3)

paging_translate(ts, v) ==
  LET entry == ts[1][Index(v, PAGE_LEVEL_ROOT)] IN
  IF entry.kind = "table" THEN TranslateFrom3(ts, entry.at, v) ELSE UNMAPPED

Distinct == 0 .. Translatable - 1

Space == INSTANCE AddressSpace WITH
  VirtualPage  <- Distinct,
  PhysicalPage <- 0 .. WordPages - 1,
  Flags        <- PageFlags,
  Runs         <- {Span[level] : level \in 1 .. 3},
  space        <- [v \in Distinct |-> paging_translate(tables, v)]

Entry == [kind : {"absent", "leaf", "table"}, at : Int, flags : PageFlags]

TypeOK ==
  /\ tables \in Seq([0 .. Fan - 1 -> Entry])
  /\ Len(tables) \in 1 .. MaxTables
  /\ huge_pages \in BOOLEAN
  /\ walk.v \in 0 .. WordPages /\ walk.p \in 0 .. WordPages
  /\ walk.remaining \in 0 .. WordPages
  /\ walk.level \in 1 .. PAGE_LEVEL_ROOT /\ walk.table \in 1 .. Len(tables)
  /\ asked.calls \in Nat
  /\ outcome \in {"running", "mapped", "failed"}

Places == (1 .. MaxTables) \X (0 .. Fan - 1)
EntryAt(place) == tables[place[1]][place[2]]

(* The tables are a tree, also after a call that gave up half way: every   *)
(* table but the root hangs from exactly one entry, of an earlier table.   *)
TablesAreTree ==
  LET used == {place \in Places : place[1] <= Len(tables) /\ EntryAt(place).kind = "table"}
  IN  /\ \A place \in used : EntryAt(place).at > place[1]
      /\ \A t \in 2 .. Len(tables) : \E place \in used :
           /\ EntryAt(place).at = t
           /\ \A other \in used : EntryAt(other).at = t => other = place

(* No page changes its frame or its flags, and the pages that appear are   *)
(* pages of the range that was asked for, at the frame it asked for.       *)
MapsOnlyAsAsked ==
  [][\A v \in Distinct :
       LET before == paging_translate(tables, v)
           after  == paging_translate(tables', v)
       IN  after # before =>
             /\ before = UNMAPPED
             /\ \E i \in 0 .. asked.n - 1 :
                  /\ v = (asked.v + i) % Translatable
                  /\ after = [frame |-> asked.p + i, flags |-> asked.flags]]_vars

(* A call that reports success has mapped all of what it was asked, with   *)
(* whatever mixture of page sizes the processor and the alignment allowed. *)
SuccessIsComplete ==
  outcome = "mapped" =>
    \A i \in 0 .. asked.n - 1 :
      paging_translate(tables, (asked.v + i) % Translatable) =
        [frame |-> asked.p + i, flags |-> asked.flags]

(* The tables implement the address space: building and linking tables is  *)
(* invisible, and each page of any size appears in one piece.              *)
ImplementsAddressSpace == Space!SpaceSpec
=============================================================================
