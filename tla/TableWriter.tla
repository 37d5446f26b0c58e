---------------------------- MODULE TableWriter ----------------------------
(***************************************************************************)
(* Writing one table: chunks into a buffer of the size the constructor     *)
(* chose, then the index field by field, then the footer.  The buffer is a *)
(* function on the byte positions written so far, and a byte is a value    *)
(* and its place in it, so that a field read anywhere else than where it   *)
(* was written is not found.  A position at or beyond the size of the      *)
(* buffer is a write out of bounds.                                        *)
(***************************************************************************)
EXTENDS Lz4, Sequences, Functions

CONSTANTS
  Hash,        \* addresses
  Prefix,      \* the first 8 bytes of an address as a number
  SuffixOf,    \* the 12 others
  Sizes,       \* sizes of the chunks
  numChunks,   \* what the constructor is told, before any chunk is added
  totalData,
  MaxAdds,     \* how many chunks are added at most (a bound for TLC)
  MaxChunkSize

ASSUME TableWriterAssumption ==
  /\ Prefix \in [Hash -> Nat]
  /\ \A h, g \in Hash : Prefix[h] = Prefix[g] /\ SuffixOf[h] = SuffixOf[g] => h = g
  /\ Sizes \subseteq 1..MaxChunkSize
  /\ numChunks \in Nat \ {0} /\ totalData \in Nat
  /\ MaxAdds \in Nat /\ MaxChunkSize \in Nat
  /\ totalData \div numChunks <= MaxChunkSize   \* maxTableSize has not thrown

VARIABLES
  buff,              \* TableWriter::buff
  pos,               \* TableWriter::pos
  totalUncompressed, \* TableWriter::totalUncompressed
  prefixes,          \* TableWriter::prefixes
  pc,                \* where finish is, or "adding", "done", "threw"
  loop,              \* the steps the loop at pc has made
  base,              \* pos at the start of writeIndex
  currentOffset,     \* writeIndex's sum of lengths
  chunks,            \* history: the address, place and length of each chunk added
  asked              \* history: how many chunks, of how many bytes, addChunk was called with

vars == <<buff, pos, totalUncompressed, prefixes, pc, loop, base, currentOffset, chunks, asked>>

PrefixSize == 8
SuffixSize == 12
CheckSumSize == 4
PrefixTupleSize == 12
LengthSize == 4
OffsetSize == 4
FooterSize == 20

\* Mutation: the checksums are left out.
maxTableSizeNoCrc ==
  numChunks * (PrefixTupleSize + LengthSize + OffsetSize + SuffixSize
               + LZ4_compressBound(ToInt(totalData \div numChunks))) + FooterSize
maxTableSize ==
  numChunks * (PrefixTupleSize + LengthSize + OffsetSize + SuffixSize + CheckSumSize
               + LZ4_compressBound(ToInt(totalData \div numChunks))) + FooterSize

\* What the fields hold: an integer cut to its width, the suffix of a record, the
\* compressed bytes of a chunk and their checksum.
Uint32(x) == <<"uint32", x % IntWord>>
Uint64(x) == <<"uint64", x>>
Suffix(h) == <<"suffix", SuffixOf[h]>>
Data(c)   == <<"data", c>>
Crc(c)    == <<"crc32", c>>
Magic     == <<"magic", 0>>

Write(b, at, width, value) ==
  [p \in DOMAIN b \cup at..at + width - 1 |->
     IF p \in at..at + width - 1 THEN <<value, p - at>> ELSE b[p]]
Reads(b, at, width, value) == \A k \in 0..width - 1 : at + k \in DOMAIN b /\ b[at + k] = <<value, k>>

\* BigEndian's test of a span from there to the end of the buffer, in unsigned arithmetic.
Room(at, width) == at > maxTableSize \/ maxTableSize - at >= width

Init ==
  /\ buff = <<>>
  /\ pos = 0
  /\ totalUncompressed = 0
  /\ prefixes = <<>>
  /\ pc = "adding"
  /\ loop = 0 /\ base = 0 /\ currentOffset = 0
  /\ chunks = <<>>
  /\ asked = [number |-> 0, bytes |-> 0]
-----------------------------------------------------------------------------
(***************************************************************************)
(* addChunk: the compressed bytes, their checksum, and a record of them.   *)
(* The checksum's write throws when the data has taken all but 3 bytes.    *)
(* (A chunk of no bytes is refused before anything has changed.)           *)
(***************************************************************************)
Rec(h, order, size) == [hash |-> h, prefix |-> Prefix[h], order |-> order, size |-> size % IntWord]

\* A call that throws; finish may leave some of a step's fields written, which nobody reads.
Throw ==
  /\ pc' = "threw"
  /\ UNCHANGED <<buff, pos, totalUncompressed, prefixes, loop, base, currentOffset, chunks>>

\* compressInplace(data, buff.subSpan(pos)), as in Compression.
Compressed(size) ==
  LET room == maxTableSize - pos
  IN  IF room < LZ4_compressBound(ToInt(size)) THEN {0}
      ELSE LZ4_compress_default(ToInt(size), ToInt(room))

AddChunk(h, size) ==
  /\ pc = "adding" /\ Len(prefixes) < MaxAdds
  /\ asked' = [number |-> asked.number + 1, bytes |-> asked.bytes + size]
  /\ \E c \in Compressed(size) :
       IF c = 0 THEN Throw
       ELSE LET data == Write(buff, pos, c, Data(Len(prefixes)))
            IN  /\ totalUncompressed' = totalUncompressed + size
                /\ \/ /\ Room(pos + c, CheckSumSize)
                      /\ buff' = Write(data, pos + c, CheckSumSize, Crc(Len(prefixes)))
                      /\ pos' = pos + c + CheckSumSize
                      /\ prefixes' = Append(prefixes, Rec(h, Len(prefixes), c + CheckSumSize))
                      /\ chunks' = Append(chunks, [hash |-> h, first |-> pos, length |-> c])
                      /\ pc' = pc
                   \/ /\ ~Room(pos + c, CheckSumSize)
                      /\ buff' = data
                      /\ pos' = pos + c
                      /\ UNCHANGED <<prefixes, chunks>>
                      /\ pc' = "threw"
                /\ UNCHANGED <<loop, base, currentOffset>>
-----------------------------------------------------------------------------
(***************************************************************************)
(* finish: writeIndex sorts the records by prefix, in any order among      *)
(* equals; a tuple goes where the loop is, the rest of the record where    *)
(* its order says.                                                         *)
(***************************************************************************)
count == Len(prefixes)
lenOffset == base + PrefixTupleSize * count
offsetOffset == lenOffset + LengthSize * count
suffixOffset == offsetOffset + OffsetSize * count

\* Mutation: the records stay as they are.
Unsorted(s) == TRUE
Sorted(s) == \A j, k \in DOMAIN s : j < k => s[j].prefix <= s[k].prefix
Sort ==
  /\ pc = "adding"
  /\ \E f \in Bijection(1..count, 1..count) :
       /\ prefixes' = [j \in 1..count |-> prefixes[f[j]]]
       /\ Sorted(prefixes')
  /\ pc' = "index" /\ loop' = 0 /\ base' = pos
  /\ UNCHANGED <<buff, pos, totalUncompressed, currentOffset, chunks>>

\* Mutations: the length follows the sorted order; the suffix follows the sorted order.
LengthAtLoop(rec) == lenOffset + loop * LengthSize
LengthAt(rec) == lenOffset + rec.order * LengthSize
SuffixAtLoop(rec) == suffixOffset + loop * SuffixSize
SuffixAt(rec) == suffixOffset + rec.order * SuffixSize

WriteRecord ==
  /\ pc = "index" /\ loop < count
  /\ LET rec == prefixes[loop + 1]
         tuple == Write(Write(buff, pos, PrefixSize, Uint64(rec.prefix)),
                        pos + PrefixSize, PrefixTupleSize - PrefixSize, Uint32(rec.order))
     IN  IF ~Room(pos, PrefixSize) \/ ~Room(pos + PrefixSize, 4) \/ ~Room(LengthAt(rec), LengthSize)
         THEN Throw
         ELSE /\ buff' = Write(Write(tuple, LengthAt(rec), LengthSize, Uint32(rec.size)),
                               SuffixAt(rec), SuffixSize, Suffix(rec.hash))
              /\ pos' = pos + PrefixTupleSize
              /\ loop' = loop + 1
              /\ UNCHANGED <<totalUncompressed, prefixes, pc, base, currentOffset, chunks>>

IndexDone ==
  /\ pc = "index" /\ loop = count
  /\ pc' = "offsets" /\ loop' = 0 /\ currentOffset' = 0
  /\ UNCHANGED <<buff, pos, totalUncompressed, prefixes, base, chunks>>

\* An offset is the sum of the lengths read back before it.
WriteOffset ==
  /\ pc = "offsets" /\ loop < count
  /\ IF ~Room(offsetOffset + loop * OffsetSize, OffsetSize) \/ ~Room(lenOffset + loop * LengthSize, LengthSize)
     THEN Throw
     ELSE LET len == buff[lenOffset + loop * LengthSize][1][2]
          IN  /\ buff' = Write(buff, offsetOffset + loop * OffsetSize, OffsetSize, Uint32(currentOffset))
              /\ currentOffset' = (currentOffset + len) % IntWord
              /\ loop' = loop + 1
              /\ UNCHANGED <<pos, totalUncompressed, prefixes, pc, base, chunks>>

OffsetsDone ==
  /\ pc = "offsets" /\ loop = count
  /\ pc' = "footer"
  /\ pos' = suffixOffset + SuffixSize * count
  /\ UNCHANGED <<buff, totalUncompressed, prefixes, loop, base, currentOffset, chunks>>

WriteFooter ==
  /\ pc = "footer"
  /\ IF ~Room(pos, 4) \/ ~Room(pos + 4, 8) \/ ~Room(pos + 12, 8) THEN Throw
     ELSE /\ buff' = Write(Write(Write(buff, pos, 4, Uint32(count)), pos + 4, 8, Uint64(totalUncompressed)),
                           pos + 12, 8, Magic)
          /\ pos' = pos + FooterSize
          /\ pc' = "done"
          /\ UNCHANGED <<totalUncompressed, prefixes, loop, base, currentOffset, chunks>>

Next ==
  \/ \E h \in Hash, size \in Sizes : AddChunk(h, size)
  \/ /\ Sort \/ WriteRecord \/ IndexDone \/ WriteOffset \/ OffsetsDone \/ WriteFooter
     /\ UNCHANGED asked

Spec == Init /\ [][Next]_vars
=============================================================================
