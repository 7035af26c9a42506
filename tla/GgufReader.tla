------------------------------ MODULE GgufReader ------------------------------
(***************************************************************************)
(* parse_gguf_metadata (src/src/llama/gguf_metadata.cpp): walks the        *)
(* key-value section of a model file, entry by entry, and keeps the        *)
(* scalars.  Nothing in the file says where an entry ends: the reader has  *)
(* to get the width of each value right, those it discards included, to    *)
(* find the next key.                                                      *)
(*                                                                         *)
(* A file is a record:                                                     *)
(*   magic, version, kv_count  what the header says                        *)
(*   entries  what a writer put after it; each entry says how many bytes   *)
(*            it takes (`bytes`), which the reader cannot see              *)
(*   size     the length of the file, which may end anywhere               *)
(* An entry has a key (<<prefix, name>>), the length of the key, a type,   *)
(* and a value; a string, its length in `strings`; an array, the type `of` *)
(* its elements, their `count`, and the lengths of its `strings`.          *)
(***************************************************************************)
EXTENDS Integers, Sequences, SequencesExt, FiniteSets

CONSTANTS
  Files,                                  \* what a model file may contain
  MaxKeyBytes, MaxStringBytes, MaxKvCount, MaxArrayElements,  \* ceilings
  Absent                                  \* std::nullopt

VARIABLES
  file,     \* the file that is read
  pos,      \* the position in the stream, Failed once a read failed
  walked,   \* entries read so far
  scalars,  \* the scalars kept so far: a set of records, one for each key
  gguf      \* the GgufParseResult, or Absent

vars == <<file, pos, walked, scalars, gguf>>

Failed == -1
HeaderBytes == 24  \* magic, version, tensor_count, kv_count

Ints  == {"i8", "i16", "i32", "i64"}
UInts == {"u8", "u16", "u32", "u64"}
KnownTypes == Ints \cup UInts \cup {"f32", "f64", "bool", "string", "array"}

\* Mutant: a bool is as wide as in C's int.
FixedSizeWideBool(type) ==
  CASE type \in {"u8", "i8"}                   -> 1
    [] type \in {"u16", "i16"}                 -> 2
    [] type \in {"u32", "i32", "f32", "bool"}  -> 4
    [] type \in {"u64", "i64", "f64"}          -> 8

Fields == {"block_count", "context_length", "embedding_length",
           "attention.head_count", "attention.head_count_kv",
           "expert_count", "expert_used_count"}

Invalid == [valid |-> FALSE, architecture |-> Absent, field |-> [f \in Fields |-> Absent]]

Unread == /\ file = Absent /\ pos = 0 /\ walked = 0
          /\ scalars = {} /\ gguf = Absent

FixedSize(type) ==
  CASE type \in {"u8", "i8", "bool"}   -> 1
    [] type \in {"u16", "i16"}         -> 2
    [] type \in {"u32", "i32", "f32"}  -> 4
    [] type \in {"u64", "i64", "f64"}  -> 8

-----------------------------------------------------------------------------
(* What a file may be (external): the widths are those of the format, which *)
(* the reader repeats in FixedSize.                                        *)

Width == [u8 |-> 1, i8 |-> 1, bool |-> 1, u16 |-> 2, i16 |-> 2, u32 |-> 4, i32 |-> 4,
          f32 |-> 4, u64 |-> 8, i64 |-> 8, f64 |-> 8]

StringBytes(lengths) ==
  LET upTo[i \in 0..Len(lengths)] == IF i = 0 THEN 0 ELSE upTo[i - 1] + 8 + lengths[i]
  IN upTo[Len(lengths)]

ValueBytes(e) ==
  CASE e.type = "string" -> StringBytes(e.strings)
    [] e.type = "array"  -> 12 + (IF e.of = "string" THEN StringBytes(e.strings)
                                  ELSE e.count * Width[e.of])
    [] OTHER             -> Width[e.type]

\* A type that the format does not know may take any number of bytes.
Written(e) ==
  /\ e.keyBytes \in Nat /\ e.bytes \in Nat \ {0}
  /\ e.strings \in Seq(Nat) /\ e.count \in Nat
  /\ CASE e.type = "string"                      -> Len(e.strings) = 1 /\ e.value # Absent
       [] e.type = "array" /\ e.of = "string"     -> Len(e.strings) = e.count
       [] OTHER                                   -> e.strings = <<>>
  /\ e.type \in KnownTypes /\ (e.type = "array" => e.of \in KnownTypes \ {"array"}) =>
       e.bytes = 8 + e.keyBytes + 4 + ValueBytes(e)

IsFile(f) ==
  /\ f # Absent
  /\ f.kv_count \in Nat /\ f.size \in Nat
  /\ f.entries \in Seq(Range(f.entries))
  /\ \A e \in Range(f.entries) : Written(e)

-----------------------------------------------------------------------------
(* Reading.  Each operator takes a position and returns the one after what *)
(* it read or skipped.                                                     *)

Advance(p, n) == IF p = Failed \/ p + n > file.size THEN Failed ELSE p + n

ReadString(p, length, limit) ==
  IF length > limit THEN Failed ELSE Advance(Advance(p, 8), length)

SkipStrings(p, lengths) ==
  LET after[i \in 0..Len(lengths)] ==
        IF i = 0 THEN p ELSE ReadString(after[i - 1], lengths[i], MaxStringBytes)
  IN after[Len(lengths)]

SkipArray(p, e) ==
  LET q == Advance(Advance(p, 4), 8)
  IN IF e.of \notin KnownTypes \ {"array"} \/ e.count > MaxArrayElements THEN Failed
     ELSE IF e.of = "string" THEN SkipStrings(q, e.strings)
     ELSE Advance(q, e.count * FixedSize(e.of))

ReadScalar(p, e) ==
  IF e.type = "string" THEN ReadString(p, e.strings[1], MaxStringBytes)
  ELSE Advance(p, FixedSize(e.type))

ReadEntry(p, e) ==
  LET q == Advance(ReadString(p, e.keyBytes, MaxKeyBytes), 4)
  IN IF q = Failed \/ e.type \notin KnownTypes THEN Failed
     ELSE IF e.type = "array" THEN SkipArray(q, e) ELSE ReadScalar(q, e)

\* scalars.emplace keeps the first value of a key.
Kept(e) ==
  IF e.type = "array" \/ \E s \in scalars : s.key = e.key THEN scalars
  ELSE scalars \cup {[key |-> e.key, type |-> e.type, value |-> e.value]}

-----------------------------------------------------------------------------
(* What is made of the scalars.                                            *)

AsUint64(s) ==
  CASE s.type \in UInts                 -> s.value
    [] s.type \in Ints /\ s.value >= 0  -> s.value
    [] s.type = "bool"                  -> IF s.value THEN 1 ELSE 0
    [] OTHER                            -> Absent

Found(key) == {s \in scalars : s.key = key}

FindUint(key) == IF Found(key) = {} THEN Absent
                 ELSE AsUint64(CHOOSE s \in Found(key) : TRUE)

FindString(key) ==
  IF \E s \in Found(key) : s.type = "string"
  THEN (CHOOSE s \in Found(key) : TRUE).value ELSE Absent

Architecture == FindString(<<"general", "architecture">>)

Metadata ==
  [valid |-> TRUE,
   architecture |-> Architecture,
   field |-> [f \in Fields |->
     IF Architecture = Absent THEN Absent ELSE FindUint(<<Architecture, f>>)]]

-----------------------------------------------------------------------------
\* The file is opened and its header is read.  A file that cannot be opened
\* is reported like one that cannot be read.
Open(f) ==
  /\ file = Absent
  /\ file' = f
  /\ pos' = IF f.size >= HeaderBytes THEN HeaderBytes ELSE Failed
  /\ UNCHANGED <<walked, scalars, gguf>>

Finish(result) == /\ gguf' = result
                  /\ UNCHANGED <<file, pos, walked, scalars>>

Header ==
  /\ pos # Failed /\ file.magic /\ file.version \in {2, 3}
  /\ file.kv_count <= MaxKvCount

\* What a writer put at a position.
Offset(i) ==
  LET end[k \in 0..Len(file.entries)] ==
        IF k = 0 THEN HeaderBytes ELSE end[k - 1] + file.entries[k].bytes
  IN end[i - 1]
StartsAt(p) == {i \in DOMAIN file.entries : Offset(i) = p}

\* One turn of the loop.  Where no entry starts the reader finds something that
\* passes for none; that is also how a file that is too short for its kv_count
\* ends.
Walk ==
  /\ file # Absent /\ gguf = Absent
  /\ Header /\ walked < file.kv_count
  /\ \E i \in StartsAt(pos) :
       LET e == file.entries[i]
           q == ReadEntry(pos, e)
       IN IF q = Failed THEN pos' = Failed /\ UNCHANGED <<walked, scalars>>
          ELSE pos' = q /\ walked' = walked + 1 /\ scalars' = Kept(e)
  /\ UNCHANGED <<file, gguf>>

Reject ==
  /\ file # Absent /\ gguf = Absent
  /\ ~Header \/ (walked < file.kv_count /\ StartsAt(pos) = {})
  /\ Finish(Invalid)

Accept ==
  /\ file # Absent /\ gguf = Absent
  /\ Header /\ walked = file.kv_count
  /\ Finish(Metadata)

Read == Walk \/ Reject \/ Accept

\* The result has been used.
Close ==
  /\ gguf # Absent
  /\ file' = Absent /\ pos' = 0 /\ walked' = 0
  /\ scalars' = {} /\ gguf' = Absent

-----------------------------------------------------------------------------
(* Properties.                                                             *)

\* The section as it was written: every entry that counts is there in full,
\* and is one the reader accepts.
Legal(e) ==
  /\ e.keyBytes <= MaxKeyBytes
  /\ e.type \in KnownTypes
  /\ \A i \in DOMAIN e.strings : e.strings[i] <= MaxStringBytes
  /\ e.type = "array" => e.of \in KnownTypes \ {"array"} /\ e.count <= MaxArrayElements

Whole ==
  /\ file.magic /\ file.version \in {2, 3}
  /\ file.kv_count <= MaxKvCount /\ file.kv_count <= Len(file.entries)
  /\ Offset(file.kv_count + 1) <= file.size
  /\ \A i \in 1..file.kv_count : Legal(file.entries[i])

\* The first scalar under a key.
Defines(i, key) ==
  /\ file.entries[i].key = key /\ file.entries[i].type # "array"
  /\ \A j \in 1..(i - 1) : file.entries[j].key # key \/ file.entries[j].type = "array"

\* The entry whose value a field should have, if it is a number: the first
\* scalar under the name of the field and the file's own architecture.
Gives(j, f) ==
  \E i \in 1..file.kv_count :
    /\ Defines(i, <<"general", "architecture">>)
    /\ file.entries[i].type = "string"
    /\ Defines(j, <<file.entries[i].value, f>>)

IsNumber(e) == e.type \in UInts \/ (e.type \in Ints /\ e.value >= 0)

\* The result is valid exactly if the section is whole, and then every field
\* has the value that the file gives it first, or none if that is no number:
\* whatever lies between the keys, wherever the file ends, and whatever types
\* a writer chose (gguf_metadata.cpp:343-462).  A bool is excepted: it is read
\* as 1 or 0 (gguf_metadata.cpp:90), although gguf_metadata.hpp:16-19 says that
\* only a correctly typed entry sets a field.
MetadataIsTheFiles ==
  gguf # Absent =>
    /\ gguf.valid <=> Whole
    /\ gguf.valid => \A f \in Fields :
         LET given == {j \in 1..file.kv_count : Gives(j, f)}
         IN IF \E j \in given : IsNumber(file.entries[j])
            THEN \A j \in given : gguf.field[f] = file.entries[j].value
            ELSE gguf.field[f] = Absent \/ \E j \in given : file.entries[j].type = "bool"
================================================================================
