------------------------------- MODULE ElfFile -------------------------------
(***************************************************************************)
(* elf_parse of src/elf/elf.c, and the check elf_load makes before the     *)
(* first byte is placed.  Every number comes out of the file and is        *)
(* whatever a word holds; headers are chosen when they are read.           *)
(***************************************************************************)
EXTENDS Integers, Sequences

CONSTANTS
  WordSize,                  \* 2^64
  ELF_MAX_SEGMENTS,
  ELF_MAX_PROGRAM_HEADERS,
  ELF_PROGRAM_HEADER_BYTES,
  Offsets, Starts, Sizes,    \* bounds on the numbers a file may hold
  Placements                 \* where it may be asked to be loaded

ElfFileAssumption ==
  /\ WordSize \in Nat \ {0}
  /\ {ELF_MAX_SEGMENTS, ELF_MAX_PROGRAM_HEADERS, ELF_PROGRAM_HEADER_BYTES} \subseteq Nat \ {0}
  /\ Offsets \cup Starts \cup Sizes \subseteq 0 .. WordSize - 1
  /\ Placements \subseteq [bias : Int, low : 0 .. WordSize - 1, high : 0 .. WordSize - 1]

VARIABLES
  stage,       \* "header", "segments", "parsed", "loaded" or "refused"
  program,     \* program_offset, program_count and the index of the loop
  image,       \* out->segments
  lowest,      \* out->lowest_address
  highest,     \* out->highest_address
  placement    \* that of elf_load

vars == <<stage, program, image, lowest, highest, placement>>

Word == 0 .. WordSize - 1

Segment == [offset : Word, v : Word, p : Word, file : Word, memory : Word]

Init ==
  /\ stage = "header"
  /\ program = [offset |-> 0, count |-> 0, index |-> 0]
  /\ image = <<>> /\ lowest = WordSize - 1 /\ highest = 0
  /\ placement = [bias |-> 0, low |-> 0, high |-> 0]

parse_header(offset, count) ==
  /\ stage = "header"
  /\ count \in 1 .. ELF_MAX_PROGRAM_HEADERS
  /\ program' = [offset |-> offset, count |-> count, index |-> 0]
  /\ stage' = "segments"
  /\ UNCHANGED <<image, lowest, highest, placement>>

(* A read fails, or what was read is not acceptable.                       *)
elf_parse_refused ==
  /\ stage \in {"header", "segments"}
  /\ stage' = "refused"
  /\ UNCHANGED <<program, image, lowest, highest, placement>>

(* The header that comes next has an offset.                               *)
AtHeader ==
  /\ stage = "segments" /\ program.index < program.count
  /\ program.offset + program.index * ELF_PROGRAM_HEADER_BYTES < WordSize

(* Slip: the sum is the machine's and may have wrapped.                    *)
FitsWrapping(start, size) == (start + size) % WordSize >= 0
Fits(start, size) == start + size < WordSize

(* parse_program_header, of a segment to be loaded.                        *)
Loadable(s) ==
  /\ s.file <= s.memory /\ s.memory # 0
  /\ Fits(s.offset, s.file) /\ Fits(s.p, s.memory) /\ Fits(s.v, s.memory)

segments_overlap(a, b) == a.p < b.p + b.memory /\ b.p < a.p + a.memory

program_header_load(s) ==
  /\ AtHeader
  /\ Loadable(s)
  /\ Len(image) < ELF_MAX_SEGMENTS
  /\ \A i \in DOMAIN image : ~ segments_overlap(image[i], s)
  /\ image' = Append(image, s)
  /\ lowest' = IF s.p < lowest THEN s.p ELSE lowest
  /\ highest' = IF s.p + s.memory > highest THEN s.p + s.memory ELSE highest
  /\ program' = [program EXCEPT !.index = @ + 1]
  /\ UNCHANGED <<stage, placement>>

(* Neither to be loaded nor an interpreter.                                *)
program_header_other ==
  /\ AtHeader
  /\ program' = [program EXCEPT !.index = @ + 1]
  /\ UNCHANGED <<stage, image, lowest, highest, placement>>

elf_parse_end ==
  /\ stage = "segments" /\ program.index = program.count
  /\ image # <<>>
  /\ stage' = "parsed"
  /\ UNCHANGED <<program, image, lowest, highest, placement>>

(* biased: the sum or the difference, unless it is not a word.             *)
Biased(address, bias) == address + bias \in Word

segment_within(s, to) ==
  /\ Biased(s.p, to.bias)
  /\ Fits(s.p + to.bias, s.memory)
  /\ s.p + to.bias >= to.low /\ s.p + to.bias + s.memory <= to.high

(* All the segments are checked before any of them is written.             *)
elf_load(to) ==
  /\ stage = "parsed"
  /\ placement' = to
  /\ stage' = IF to.low < to.high /\ \A i \in DOMAIN image : segment_within(image[i], to)
                THEN "loaded" ELSE "refused"
  /\ UNCHANGED <<program, image, lowest, highest>>

Next ==
  \/ \E offset \in Offsets, count \in 0 .. ELF_MAX_PROGRAM_HEADERS + 1 : parse_header(offset, count)
  \/ elf_parse_refused
  \/ \E offset, v \in Offsets, p \in Starts, file, memory \in Sizes :
       program_header_load([offset |-> offset, v |-> v, p |-> p, file |-> file, memory |-> memory])
  \/ program_header_other
  \/ elf_parse_end
  \/ \E to \in Placements : elf_load(to)

Spec == Init /\ [][Next]_vars

-----------------------------------------------------------------------------
TypeOK ==
  /\ stage \in {"header", "segments", "parsed", "loaded", "refused"}
  /\ program \in [offset : Word, count : Nat, index : Nat]
  /\ image \in Seq(Segment) /\ Len(image) <= ELF_MAX_SEGMENTS
  /\ lowest \in Word /\ highest \in Word
  /\ placement \in [bias : Int, low : Word, high : Word]

(* What the rest of the boot takes for granted of a file it accepted: the  *)
(* segments miss each other, none wraps in any of its three places, the    *)
(* copy never runs past what it fills, and the span that is checked        *)
(* against the memory map and handed on holds all of them.  "Nothing is    *)
(* written outside this window, whatever the file claims" (elf.h): by the  *)
(* time the first byte is placed, all have a place in the window.          *)
ParsedImageSound ==
  stage \in {"parsed", "loaded"} =>
    /\ image # <<>>
    /\ \A i \in DOMAIN image :
         /\ image[i].file <= image[i].memory
         /\ image[i].offset + image[i].file < WordSize
         /\ image[i].v + image[i].memory < WordSize
         /\ lowest <= image[i].p /\ image[i].p + image[i].memory <= highest
         /\ stage = "loaded" =>
              /\ placement.low <= image[i].p + placement.bias
              /\ image[i].p + placement.bias + image[i].memory <= placement.high
         /\ \A j \in DOMAIN image :
              i # j => \/ image[i].p + image[i].memory <= image[j].p
                       \/ image[j].p + image[j].memory <= image[i].p
=============================================================================
