----------------------------- MODULE FatDirectory -----------------------------
(***************************************************************************)
(* fat_open of src/fs/fat.c: a path followed from directory to directory,  *)
(* each searched for one name, which an entry may have as its short name   *)
(* or spelled out in the fragments that come before it.                    *)
(*                                                                         *)
(* An entry is whatever the disk holds and is chosen when it is read.  A   *)
(* fragment carries one character, letters are compared as upper case, and *)
(* a short name is its checksum and whether it is the name sought.  What   *)
(* nobody has written of a name under way is what the stack held: any      *)
(* character.                                                              *)
(***************************************************************************)
EXTENDS Integers, Sequences, SequencesExt, FiniteSetsExt

CONSTANTS
  Letters,                 \* what a character may be
  Name,                    \* the component sought
  Components,              \* of the path
  FAT_LONG_MAX_SEQUENCE,
  MaximumEntries,          \* maximum_entries, from the size of the volume
  Checksums,
  Fragments                \* those the directories are made of

(* A unit that ends a name, and one that is not ASCII.                     *)
Unit == Letters \cup {"end", "other"}

Fragment == [sequence : 0 .. FAT_LONG_MAX_SEQUENCE + 1, last : BOOLEAN, checksum : Checksums, unit : Unit]

FatDirectoryAssumption ==
  /\ Name \in Seq(Letters) /\ Name # <<>>
  /\ {Components, FAT_LONG_MAX_SEQUENCE, MaximumEntries} \subseteq Nat \ {0}
  /\ {"end", "other"} \cap Letters = {}
  /\ Fragments \subseteq Fragment

VARIABLES
  left,       \* components of the path still to find
  seen,       \* entries_seen of the directory being searched
  pending,    \* the long name under way
  fragments,  \* the entries read since the last one that was not a fragment
  judged,     \* the entry that was just found or passed over, with its fragments
  result      \* "searching", "opened" or "refused"

vars == <<left, seen, pending, fragments, judged, result>>

Positions == 1 .. FAT_LONG_MAX_SEQUENCE
NoEntry == [short |-> FALSE, checksum |-> 0, label |-> FALSE, fragments |-> <<>>, as |-> "none"]

(* struct long_name, before anything is in it.                             *)
long_name_reset(p) == [p EXCEPT !.length = 0, !.valid = FALSE]

Init ==
  /\ left = Components /\ seen = 0
  /\ pending \in [text : {[i \in Positions |-> c] : c \in Letters},
                  length : {0}, checksum : {0}, valid : {FALSE}]
  /\ fragments = <<>> /\ judged = NoEntry
  /\ result = "searching"

-----------------------------------------------------------------------------
(* A fragment with the mark of the last begins a name.                     *)
Begun(p, f) ==
  IF f.last THEN [p EXCEPT !.length = f.sequence, !.checksum = f.checksum, !.valid = TRUE] ELSE p

(* Slip: the fragments need not be of one entry.                           *)
BelongsAlways(p, f) == TRUE
Belongs(p, f) == f.checksum = p.checksum

Taken(p, f) ==
  IF ~ p.valid THEN p
  ELSE IF ~ Belongs(p, f) \/ f.unit = "other" THEN long_name_reset(p)
  ELSE IF f.unit = "end" THEN [p EXCEPT !.length = Min({@, f.sequence - 1})]
  ELSE [p EXCEPT !.text[f.sequence] = f.unit]

long_name_accumulate(p, f) ==
  IF f.sequence \notin Positions THEN long_name_reset(p) ELSE Taken(Begun(p, f), f)

long_name_matches(p) == p.valid /\ p.length = Len(Name) /\ SubSeq(p.text, 1, p.length) = Name

(* One more entry of the directory, read at the next offset.               *)
Entry == result = "searching" /\ seen < MaximumEntries

fragment(f) ==
  /\ Entry /\ seen' = seen + 1
  /\ pending' = long_name_accumulate(pending, f)
  /\ fragments' = Append(fragments, f)
  /\ judged' = NoEntry
  /\ UNCHANGED <<left, result>>

(* Slip: what was under way is taken for this entry's.                     *)
LongBelongsAlways(checksum) == pending.valid
LongBelongs(checksum) == pending.valid /\ pending.checksum = checksum

Matched(e) == (LongBelongs(e.checksum) /\ long_name_matches(pending)) \/ e.short

Forgotten == pending' = long_name_reset(pending) /\ fragments' = <<>>

deleted ==
  /\ Entry /\ seen' = seen + 1
  /\ Forgotten
  /\ judged' = NoEntry
  /\ UNCHANGED <<left, result>>

(* Not this one, or a volume's label.                                      *)
other_entry(e) ==
  /\ Entry /\ seen' = seen + 1
  /\ ~ Matched(e) \/ e.label
  /\ Forgotten
  /\ judged' = [e EXCEPT !.fragments = fragments, !.as = "passed over"]
  /\ UNCHANGED <<left, result>>

Found(e) ==
  /\ Entry
  /\ Matched(e) /\ ~ e.label
  /\ judged' = [e EXCEPT !.fragments = fragments, !.as = "found"]
  /\ Forgotten

(* The last component, or one that more of the path goes through: only a   *)
(* directory is searched on, from its beginning.                           *)
opened(e) == Found(e) /\ left = 1 /\ left' = 0 /\ result' = "opened" /\ UNCHANGED seen
next_directory(e) == Found(e) /\ left > 1 /\ left' = left - 1 /\ seen' = 0 /\ UNCHANGED result
not_a_directory(e) == Found(e) /\ left > 1 /\ result' = "refused" /\ UNCHANGED <<left, seen>>

(* The end of the directory, the most it can hold, or a read that fails:   *)
(* what was under way is lost with the search.                             *)
not_found ==
  /\ result = "searching"
  /\ result' = "refused" /\ judged' = NoEntry /\ seen' = 0
  /\ Forgotten
  /\ UNCHANGED left

ShortEntry == [short : BOOLEAN, checksum : Checksums, label : BOOLEAN, fragments : {<<>>}, as : {"none"}]

Next ==
  \/ \E f \in Fragments : fragment(f)
  \/ deleted
  \/ \E e \in ShortEntry : other_entry(e) \/ opened(e) \/ next_directory(e) \/ not_a_directory(e)
  \/ not_found

Spec == Init /\ [][Next]_vars

-----------------------------------------------------------------------------
TypeOK ==
  /\ left \in 0 .. Components /\ seen \in 0 .. MaximumEntries
  /\ pending \in [text : [Positions -> Letters], length : 0 .. FAT_LONG_MAX_SEQUENCE,
                  checksum : Checksums \cup {0}, valid : BOOLEAN]
  /\ fragments \in Seq(Fragment)
  /\ result \in {"searching", "opened", "refused"}

(* The fragments from the latest mark of the last one on, and those that   *)
(* no later one of the same number replaced.                               *)
Marks(fs) == {i \in DOMAIN fs : fs[i].last /\ fs[i].sequence \in Positions}
Since(fs) == {i \in DOMAIN fs : \A m \in Marks(fs) : m <= i}
Standing(fs) == {i \in Since(fs) : \A j \in Since(fs) : fs[j].sequence = fs[i].sequence => j <= i}

(* A name as the file system writes it: numbered down to one from no more  *)
(* than it may have, all of one checksum, a letter each, the first with    *)
(* the mark; before it may be what is left of another.                     *)
Spelled(e) ==
  LET before == Len(e.fragments) - Len(Name) IN
    /\ Len(Name) \in Positions /\ before >= 0
    /\ \A i \in DOMAIN Name :
         e.fragments[before + i] = [sequence |-> Len(Name) + 1 - i, last |-> i = 1,
                                    checksum |-> e.checksum, unit |-> Name[Len(Name) + 1 - i]]

(* What a path is followed to bears the name, as its short name or in      *)
(* fragments of its own checksum that have the mark of the last and no     *)
(* letter that stands against it.  A letter that no fragment gives is      *)
(* excused: there the code compares what the stack held.  And no entry     *)
(* whose long name is written as the file system writes it, or whose short *)
(* name it is, is passed over, whatever was read before it.                *)
SearchFindsTheName ==
  /\ judged.as = "found" /\ ~ judged.short =>
       /\ Marks(judged.fragments) # {}
       /\ \A i \in Since(judged.fragments) : judged.fragments[i].checksum = judged.checksum
       /\ \A i \in Standing(judged.fragments) :
            LET f == judged.fragments[i] IN f.sequence \in DOMAIN Name => f.unit = Name[f.sequence]
  /\ judged.as = "passed over" /\ ~ judged.label => ~ judged.short /\ ~ Spelled(judged)

Ended == result # "searching"
=============================================================================
