------------------------------- MODULE Protocol -------------------------------
(***************************************************************************)
(* protocol_answer of src/protocol/protocol.c: the scan of the kernel's    *)
(* image for requests, and the answers.  The image is the words it is read *)
(* in; a request is five of them: two of magic, an id, a revision, and the *)
(* response.  What is pointed to is a block of the arena, by its number.   *)
(***************************************************************************)
EXTENDS Integers, Sequences, FiniteSets

CONSTANTS
  BOOT_REQUEST_MAGIC_LOW, BOOT_REQUEST_MAGIC_HIGH,
  BOOT_PROTOCOL_REVISION, BOOT_MAX_REQUESTS,
  Images,        \* what may be in the kernel's image
  Rooms          \* blocks the arena may have left

RequestWords == 5

(* The requests that are always answered, those that only are when there   *)
(* is something to tell, and those that take an array besides.             *)
Always == 1 .. 4                   \* MEMORY_MAP .. LOADER_INFO
IfThere == 5 .. 8                  \* FRAMEBUFFER to MODULES
WithEntries == {1, 7, 8}           \* MEMORY_MAP, PROCESSORS, MODULES

ProtocolAssumption ==
  /\ {BOOT_REQUEST_MAGIC_LOW, BOOT_REQUEST_MAGIC_HIGH, BOOT_PROTOCOL_REVISION,
      BOOT_MAX_REQUESTS} \cup Rooms \subseteq Nat
  /\ Images \subseteq Seq(Nat)

VARIABLES
  image,      \* words; the responses in it are never read
  facts,      \* the ids of boot_facts there is something to say of
  room,       \* of the arena
  offset,     \* of the scan, in words
  answered,   \* requests so far
  replies,    \* by the offset of a request: its response
  result      \* "scanning", "answered" or "failed"

vars == <<image, facts, room, offset, answered, replies, result>>

Init ==
  /\ image \in Images /\ room \in Rooms
  /\ facts \in {{}, {1} \cup IfThere}
  /\ offset = 0 /\ answered = 0
  /\ replies = <<>>
  /\ result = "scanning"

Word(o) == image[o + 1]

MagicAt(o) == Word(o) = BOOT_REQUEST_MAGIC_LOW /\ Word(o + 1) = BOOT_REQUEST_MAGIC_HIGH

(* A whole request could start here.                                       *)
Inside(o) == o + RequestWords <= Len(image)

Id(o) == Word(o + 2)

agreed_revision(o) ==
  IF Word(o + 3) > BOOT_PROTOCOL_REVISION THEN BOOT_PROTOCOL_REVISION ELSE Word(o + 3)

Scanning == result = "scanning" /\ Inside(offset)

scan_on ==
  /\ Scanning /\ ~ MagicAt(offset)
  /\ offset' = offset + 1
  /\ UNCHANGED <<image, facts, room, answered, replies, result>>

(* Slip: only past the first word of the magic.                            *)
PastOneWord == offset + 1

(* The loop's own step comes on top of what is added here.                 *)
Past == offset + (RequestWords - 1) + 1

(* answer: a response, and for some the array it points to.                *)
Cost(o) == IF Id(o) \in WithEntries \cap facts THEN 2 ELSE 1

Answerable(o) == Id(o) \in Always \cup (IfThere \cap facts)

answer ==
  /\ Scanning /\ MagicAt(offset) /\ Answerable(offset)
  /\ answered < BOOT_MAX_REQUESTS /\ Cost(offset) <= room
  /\ room' = room - Cost(offset)
  /\ replies' = [o \in DOMAIN replies \cup {offset} |->
       IF o = offset THEN [to |-> Id(o), revision |-> agreed_revision(o), block |-> room]
                     ELSE replies[o]]
  /\ answered' = answered + 1
  /\ offset' = Past
  /\ UNCHANGED <<image, facts, result>>

(* A request not heard of, or about what is not there, stays unanswered.   *)
answer_nothing ==
  /\ Scanning /\ MagicAt(offset) /\ ~ Answerable(offset)
  /\ answered < BOOT_MAX_REQUESTS
  /\ answered' = answered + 1
  /\ offset' = Past
  /\ UNCHANGED <<image, facts, room, replies, result>>

(* One more than it will answer, or nowhere to put the answer.             *)
answer_failed ==
  /\ Scanning /\ MagicAt(offset)
  /\ \/ answered = BOOT_MAX_REQUESTS
     \/ Answerable(offset) /\ Cost(offset) > room
  /\ result' = "failed"
  /\ UNCHANGED <<image, facts, room, offset, answered, replies>>

scan_end ==
  /\ result = "scanning" /\ ~ Inside(offset)
  /\ result' = "answered"
  /\ UNCHANGED <<image, facts, room, offset, answered, replies>>

Next == scan_on \/ answer \/ answer_nothing \/ answer_failed \/ scan_end

Spec == Init /\ [][Next]_vars

-----------------------------------------------------------------------------
TypeOK ==
  /\ image \in Images /\ facts \subseteq Always \cup IfThere
  /\ {room, offset, answered} \subseteq Nat
  /\ DOMAIN replies \subseteq 0 .. Len(image)
  /\ result \in {"scanning", "answered", "failed"}

Overlap(o, other) == o < other + RequestWords /\ other < o + RequestWords

(* Where a word could be taken for the beginning of a request.             *)
Candidates == {o \in 0 .. Len(image) - RequestWords : MagicAt(o)}

(* No half request at the end of the image and no word inside another      *)
(* request is answered, no two answers share a block of the arena, and     *)
(* each is to the request's own question, at no revision either side does  *)
(* not know.  When the kernel is entered, every request that is not inside *)
(* another has had its answer, or there is nothing to tell it.             *)
AnswersExact ==
  /\ \A o \in DOMAIN replies :
       /\ o \in Candidates
       /\ replies[o].to = Id(o)
       /\ replies[o].revision <= BOOT_PROTOCOL_REVISION /\ replies[o].revision <= Word(o + 3)
       /\ \A other \in DOMAIN replies \ {o} :
            ~ Overlap(o, other) /\ replies[o].block # replies[other].block
  /\ result = "answered" =>
       \A o \in Candidates :
         \/ o \in DOMAIN replies
         \/ ~ Answerable(o)
         \/ \E other \in Candidates : other < o /\ Overlap(o, other)

Ended == result # "scanning"
=============================================================================
