------------------------------- MODULE Config -------------------------------
(***************************************************************************)
(* config_parse of src/config/config.c, line by line, and what is found in *)
(* the result afterwards.  A line is its kind: an entry's name, a setting, *)
(* one that is too long, or neither ("junk").  Blank lines and comments    *)
(* change nothing but the length and are left out; a value is a member of  *)
(* a small set with "" for one that is empty.                              *)
(***************************************************************************)
EXTENDS Integers, Sequences, FiniteSets, SequencesExt, FiniteSetsExt

CONSTANTS
  Lines,                   \* a file is made of these
  MaxLines,                \* (bound)
  FileLengths,             \* the bytes a file may have, with its blank lines and comments
  CONFIG_MAX_BYTES,
  CONFIG_MAX_ENTRIES, CONFIG_MAX_MODULES,
  CONFIG_DEFAULT_TIMEOUT_SECONDS, CONFIG_MAX_TIMEOUT_SECONDS

ConfigAssumption ==
  /\ FileLengths \subseteq Nat
  /\ {MaxLines, CONFIG_MAX_BYTES, CONFIG_MAX_ENTRIES, CONFIG_MAX_MODULES,
      CONFIG_DEFAULT_TIMEOUT_SECONDS, CONFIG_MAX_TIMEOUT_SECONDS} \subseteq Nat
  /\ \A line \in Lines : line.kind \in {"entry", "setting", "long", "junk"}

VARIABLES
  file_bytes,  \* the file's length
  lines,       \* the file as far as it is read
  timeout, default_entry, entries,
  status       \* "parsing", "parsed" or "refused"

vars == <<file_bytes, lines, timeout, default_entry, entries, status>>

Init ==
  /\ file_bytes \in FileLengths
  /\ lines = <<>>
  /\ timeout = CONFIG_DEFAULT_TIMEOUT_SECONDS /\ default_entry = "" /\ entries = <<>>
  /\ status = "parsing"

-----------------------------------------------------------------------------
(* An entry is found by its place, and 0 is a null pointer.                *)
config_find(name) ==
  LET named == {n \in DOMAIN entries : entries[n].name = name}
  IN IF named = {} THEN 0 ELSE Min(named)

config_default_entry ==
  IF default_entry = "" /\ entries # <<>> THEN 1 ELSE config_find(default_entry)

(* Slip: what the entry before held is still there.                        *)
EntryLeft(name) ==
  IF entries = <<>> THEN [name |-> name, kernel |-> "", cmdline |-> "", modules |-> <<>>]
                    ELSE [Last(entries) EXCEPT !.name = name]
clear_entry(name) == [name |-> name, kernel |-> "", cmdline |-> "", modules |-> <<>>]

(* What each kind of line must be to be taken.                             *)
NewEntry(line) ==
  /\ line.kind = "entry" /\ line.name # ""
  /\ Len(entries) < CONFIG_MAX_ENTRIES
  /\ config_find(line.name) = 0

GlobalSetting(line) ==
  /\ line.kind = "setting" /\ entries = <<>>
  /\ \/ line.key = "timeout" /\ line.value <= CONFIG_MAX_TIMEOUT_SECONDS
     \/ line.key = "default"

EntrySetting(line) ==
  /\ line.kind = "setting" /\ entries # <<>>
  /\ \/ line.key \in {"kernel", "cmdline"}
     \/ line.key = "module" /\ Len(Last(entries).modules) < CONFIG_MAX_MODULES
  /\ line.value # ""

Fits == file_bytes <= CONFIG_MAX_BYTES

(* A file is refused for its length before any of it is read.              *)
too_large ==
  /\ status = "parsing" /\ ~ Fits
  /\ status' = "refused"
  /\ UNCHANGED <<file_bytes, lines, timeout, default_entry, entries>>

(* A line has at least a byte.                                             *)
Read(line) ==
  /\ status = "parsing" /\ Fits
  /\ Len(lines) < MaxLines /\ Len(lines) < file_bytes
  /\ lines' = Append(lines, line)
  /\ UNCHANGED file_bytes

new_entry(line) ==
  /\ Read(line)
  /\ NewEntry(line)
  /\ entries' = Append(entries, clear_entry(line.name))
  /\ UNCHANGED <<timeout, default_entry, status>>

apply_global(line) ==
  /\ Read(line)
  /\ GlobalSetting(line)
  /\ timeout' = IF line.key = "timeout" THEN line.value ELSE timeout
  /\ default_entry' = IF line.key = "default" THEN line.value ELSE default_entry
  /\ UNCHANGED <<entries, status>>

(* The entry with one of its settings.                                     *)
Given(entry, line) ==
  IF line.key = "kernel" THEN [entry EXCEPT !.kernel = line.value]
  ELSE IF line.key = "cmdline" THEN [entry EXCEPT !.cmdline = line.value]
  ELSE [entry EXCEPT !.modules = Append(entry.modules, line.value)]

apply_entry(line) ==
  /\ Read(line)
  /\ EntrySetting(line)
  /\ entries' = [entries EXCEPT ![Len(entries)] = Given(Last(entries), line)]
  /\ UNCHANGED <<timeout, default_entry, status>>

fail(line) ==
  /\ Read(line)
  /\ ~ (NewEntry(line) \/ GlobalSetting(line) \/ EntrySetting(line))
  /\ status' = "refused"
  /\ timeout' = IF line.kind = "setting" /\ entries = <<>> /\ line.key = "timeout" THEN line.value ELSE timeout
  /\ UNCHANGED <<default_entry, entries>>

finished ==
  /\ status = "parsing" /\ Fits
  /\ status' = IF \A i \in DOMAIN entries : entries[i].kernel # "" THEN "parsed" ELSE "refused"
  /\ UNCHANGED <<file_bytes, lines, timeout, default_entry, entries>>

Next ==
  \/ too_large
  \/ \E line \in Lines : new_entry(line) \/ apply_global(line) \/ apply_entry(line) \/ fail(line)
  \/ finished

Spec == Init /\ [][Next]_vars

-----------------------------------------------------------------------------
(* The entry that a line stands in, by the lines that begin one; 0 is what *)
(* stands before the first.                                                *)
Heads == {i \in DOMAIN lines : lines[i].kind = "entry"}
EntryOf(i) == Cardinality({j \in Heads : j <= i})

(* The lines that set something in it, and what the last of them says.     *)
Settings(n, key) ==
  {i \in DOMAIN lines : lines[i].kind = "setting" /\ EntryOf(i) = n /\ lines[i].key = key}
LastOr(n, key, none) == IF Settings(n, key) = {} THEN none ELSE lines[Max(Settings(n, key))].value

(* A line has a meaning where it stands.                                   *)
Meant(i) ==
  IF EntryOf(i) = 0
  THEN \/ lines[i].key = "default"
       \/ lines[i].key = "timeout" /\ lines[i].value <= CONFIG_MAX_TIMEOUT_SECONDS
  ELSE lines[i].key \in {"kernel", "cmdline", "module"} /\ lines[i].value # ""

(* A file that may be booted from.                                         *)
WellFormed ==
  /\ \A i \in DOMAIN lines : lines[i].kind = "entry" \/ (lines[i].kind = "setting" /\ Meant(i))
  /\ Cardinality(Heads) <= CONFIG_MAX_ENTRIES
  /\ \A i, j \in Heads : lines[i].name # "" /\ (lines[i].name = lines[j].name => i = j)
  /\ \A i \in Heads : Cardinality(Settings(EntryOf(i), "module")) <= CONFIG_MAX_MODULES
  /\ \A i \in Heads : Settings(EntryOf(i), "kernel") # {}

(* The entry with this heading, as it is written.                          *)
Written(entry, i) ==
  LET n == EntryOf(i)
      modules == Settings(n, "module") IN
  /\ entry.name = lines[i].name
  /\ entry.kernel = LastOr(n, "kernel", "") /\ entry.cmdline = LastOr(n, "cmdline", "")
  /\ Len(entry.modules) = Cardinality(modules)
  /\ \A j \in modules : entry.modules[Cardinality({k \in modules : k <= j})] = lines[j].value

(* A file is refused as a whole or taken as it was written: it is parsed   *)
(* exactly if it is no longer than CONFIG_MAX_BYTES, every line of it has  *)
(* a meaning and every entry a kernel, and then each entry has its own     *)
(* section's settings and none of another's, the last of several winning,  *)
(* and the default is the entry that is named so, the first one, or none.  *)
ConfigAsWritten ==
  /\ status = "parsed" => Fits /\ WellFormed
  /\ status = "refused" => ~ (Fits /\ WellFormed)
  /\ status = "parsed" =>
       /\ Len(entries) = Cardinality(Heads)
       /\ \A i \in Heads : Written(entries[EntryOf(i)], i)
       /\ timeout = LastOr(0, "timeout", CONFIG_DEFAULT_TIMEOUT_SECONDS)
       /\ LET name == LastOr(0, "default", "")
              wanted == {i \in Heads : IF name = "" THEN EntryOf(i) = 1 ELSE lines[i].name = name}
          IN IF wanted = {} THEN config_default_entry = 0
                            ELSE \E i \in wanted : config_default_entry = EntryOf(i)
=============================================================================
