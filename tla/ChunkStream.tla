---------------------------- MODULE ChunkStream ----------------------------
(***************************************************************************)
(* Chunks written to a stream and read back.  A byte is what it is a part  *)
(* of and its place there.  The target is a ChunkWriter whose contents are *)
(* taken from time to time, or any other Writer, which may take less than  *)
(* it is given; the source is what was taken, perhaps cut off somewhere.   *)
(* A stream is handed on as a proxy, by value: the copy shares its         *)
(* position, or has one of its own.                                        *)
(***************************************************************************)
EXTENDS Naturals, SequencesExt

CONSTANTS
  Chunks,        \* addresses of chunks
  Size,          \* the number of bytes of each
  SharedWriter, SharedReader,  \* whether copies of the proxy share the stream
  Shortfalls,    \* how many bytes less than it is given a writer may take
  ShortReads,    \* whether a reader may give less than asked before its end
  Uint32Values,  \* what four bytes that are no length may be read as
  MaxChunks      \* chunks serialized at most (a bound for TLC)

\* Assumed of the instances.
ChunkStreamAssumption ==
  /\ Size \in [Chunks -> Nat]       \* below 4 GB: see the comment in serialize
  /\ {SharedWriter, SharedReader, ShortReads} \subseteq BOOLEAN
  /\ Shortfalls \subseteq Nat /\ 0 \in Shortfalls
  /\ Uint32Values \subseteq Nat /\ MaxChunks \in Nat

VARIABLES
  buffer,      \* ChunkWriter::buffer
  taken,       \* the bytes getChunk has returned
  serialized,  \* history: the chunks serialize has been called for
  short,       \* history: the write that came short: "none", "data", or "header", which nobody looks at
  source,      \* the bytes of the source
  position,    \* where the caller's reader is
  got,         \* what deserialize has returned, in order
  mode         \* "writing", "failed" if serialize threw, "reading", "eof", "threw" if deserialize did

vars == <<buffer, taken, serialized, short, source, position, got, mode>>

ByteLen == 20
Uint32Size == 4

Field(kind, c, n) == [k \in 1..n |-> <<kind, c, k>>]
HashBytes(c) == Field("hash", c, ByteLen)
LengthBytes(c) == Field("length", Size[c], Uint32Size)
DataBytes(c) == Field("data", c, Size[c])
ChunkBytes(c) == HashBytes(c) \o LengthBytes(c) \o DataBytes(c)

\* The bytes of a run of chunks.
Stream(s) == FlattenSeq([i \in DOMAIN s |-> ChunkBytes(s[i])])

Init ==
  /\ buffer = <<>> /\ taken = <<>> /\ serialized = <<>> /\ short = "none"
  /\ source = <<>> /\ position = 0 /\ got = <<>>
  /\ mode = "writing"
-----------------------------------------------------------------------------
\* How much of n bytes a writer takes, and a reader of which rest are left gives.
Takes(n) == {n - k : k \in {s \in Shortfalls : s <= n}}
Gives(n, rest) == LET most == IF n < rest THEN n ELSE rest
                  IN  IF ShortReads /\ most > 0 THEN 1..most ELSE {most}

\* serialize: only the last of its three writes is looked at.  A caller whose call throws gives up writing.
\* Mutation: nor is that one.
Overlooked(d, size) == FALSE
CameShort(d, size) == d # size
Serialize(c) ==
  /\ mode = "writing" /\ Len(serialized) < MaxChunks
  /\ serialized' = Append(serialized, c)
  /\ \E h \in Takes(ByteLen), l \in Takes(Uint32Size), d \in Takes(Size[c]) :
       /\ buffer' = IF SharedWriter
                    THEN buffer \o SubSeq(HashBytes(c), 1, h) \o SubSeq(LengthBytes(c), 1, l)
                                \o SubSeq(DataBytes(c), 1, d)
                    ELSE buffer
       /\ short' = IF short = "header" \/ h # ByteLen \/ l # Uint32Size THEN "header"
                   ELSE IF CameShort(d, Size[c]) THEN "data" ELSE short
       /\ mode' = IF CameShort(d, Size[c]) THEN "failed" ELSE mode
  /\ UNCHANGED <<taken, source, position, got>>

\* getChunk: all there is, once.
\* Mutation: the buffer keeps its bytes.
Keep(b) == b
Clear(b) == <<>>
GetChunk ==
  /\ mode \in {"writing", "failed"} /\ buffer # <<>>
  /\ taken' = taken \o buffer
  /\ buffer' = Clear(buffer)
  /\ UNCHANGED <<serialized, short, source, position, got, mode>>

\* The stream is opened for reading; it may have lost its end.
Open ==
  /\ mode \in {"writing", "failed"}
  /\ \E n \in 0..Len(taken) : source' = SubSeq(taken, 1, n)
  /\ mode' = "reading"
  /\ UNCHANGED <<buffer, taken, serialized, short, position, got>>

Part(from, n) == SubSeq(source, from + 1, from + n)

\* The values of four bytes.
Lengths(bytes) ==
  LET exact == {Size[c] : c \in {d \in Chunks : bytes = LengthBytes(d)}}
  IN  IF exact = {} THEN Uint32Values ELSE exact

\* Mutations: a short header passes for the end; short data passes for all of it.
AtEndEarly(n) == n < ByteLen
AtEnd(n) == n = 0
Anything(n, size) == TRUE
Complete(n, size) == n = size

Throw == mode' = "threw" /\ UNCHANGED <<position, got>>

\* deserialize: the length is read through a copy of the reader.
Deserialize ==
  /\ mode = "reading"
  /\ \E h \in Gives(ByteLen, Len(source) - position) :
       LET afterHash == position + h
       IN  IF AtEnd(h) THEN mode' = "eof" /\ UNCHANGED <<position, got>>
           ELSE IF h # ByteLen THEN Throw
           ELSE \E l \in Gives(Uint32Size, Len(source) - afterHash) :
                  IF l # Uint32Size THEN Throw
                  ELSE \E size \in Lengths(Part(afterHash, Uint32Size)) :
                         LET atData == IF SharedReader THEN afterHash + Uint32Size ELSE afterHash
                         IN  \E d \in Gives(size, Len(source) - atData) :
                               IF ~Complete(d, size) THEN Throw
                               ELSE /\ got' = Append(got, [hash |-> Part(position, ByteLen), data |-> Part(atData, d)])
                                    /\ position' = IF SharedReader THEN atData + d ELSE position
                                    /\ UNCHANGED mode
  /\ UNCHANGED <<buffer, taken, serialized, short, source>>

Next == (\E c \in Chunks : Serialize(c)) \/ GetChunk \/ Open \/ Deserialize

Spec == Init /\ [][Next]_vars
-----------------------------------------------------------------------------
\* How many of the chunks the calls of serialize that returned were for.
Returned == IF short = "data" THEN Len(serialized) - 1 ELSE Len(serialized)

(***************************************************************************)
(* Whatever has been serialized is in the stream, byte for byte, whether   *)
(* getChunk has taken it or not (the layout at the head of chunk.cpp).     *)
(***************************************************************************)
Delivered == mode = "writing" /\ short = "none" => taken \o buffer = Stream(serialized)

(***************************************************************************)
(* What is read back are the chunks whose serialize returned, whole and in *)
(* their order, also from a stream that was cut, where a write of data     *)
(* came short (lines 26 to 29), or which gives little at a time.  A short  *)
(* write of a hash or a length, which the code does not look at, is        *)
(* exempted.                                                               *)
(***************************************************************************)
RoundTrip == short # "header" =>
  /\ Len(got) <= Returned
  /\ \A i \in DOMAIN got : got[i] = [hash |-> HashBytes(serialized[i]), data |-> DataBytes(serialized[i])]

(***************************************************************************)
(* A stream that ends with a chunk is read to its end, one that ends       *)
(* inside a chunk never passes for complete (lines 36 to 38); with the     *)
(* same exemption.                                                         *)
(***************************************************************************)
EndIsNoticed == mode = "eof" /\ short # "header" => source = Stream(SubSeq(serialized, 1, Len(got)))
=============================================================================
