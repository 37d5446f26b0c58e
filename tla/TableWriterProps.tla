-------------------------- MODULE TableWriterProps --------------------------
(***************************************************************************)
(* What a table promises its reader, over TableWriter.                     *)
(***************************************************************************)
EXTENDS TableWriter

\* The chunks are those the constructor was told of, or fewer and smaller ones, the
\* buffer is one an int can count, and the library expands no more than it has to.
AsDeclared ==
  /\ asked.number <= numChunks /\ asked.bytes <= totalData
  /\ 2 * maxTableSize < IntWord
  /\ totalData \div numChunks <= MaxInput /\ \A size \in Sizes : size <= MaxInput
  /\ Overhead <= 14

(***************************************************************************)
(* maxTableSize is enough: as long as the chunks are as declared, nothing  *)
(* throws and nothing is written beyond the buffer, although the average   *)
(* it works with is rounded down (lines 25-33), and suffixes are copied    *)
(* without a check (line 77).                                              *)
(***************************************************************************)
BufferSuffices == AsDeclared => pc # "threw" /\ \A p \in DOMAIN buff : p < maxTableSize

\* A reader, from the comment at the head of table_writer.cpp: it has the bytes up to
\* pos, and the number of chunks from the footer.
Footer == pos - FooterSize
Suffixes(m) == Footer - SuffixSize * m
Offsets(m) == Suffixes(m) - OffsetSize * m
Lengths(m) == Offsets(m) - LengthSize * m
Tuples(m) == Lengths(m) - PrefixTupleSize * m

\* The reader's records for address h: their ordinals.
Ordinals(m, h) ==
  {o \in 0..m - 1 : /\ \E j \in 0..m - 1 :
                        /\ Reads(buff, Tuples(m) + PrefixTupleSize * j, PrefixSize, Uint64(Prefix[h]))
                        /\ Reads(buff, Tuples(m) + PrefixTupleSize * j + PrefixSize, 4, Uint32(o))
                    /\ Reads(buff, Suffixes(m) + SuffixSize * o, SuffixSize, Suffix(h))}

(***************************************************************************)
(* A finished table holds every chunk where its index says: each address   *)
(* added leads, by its prefix, its ordinal and its suffix, to the offset   *)
(* and length of its own compressed bytes and of their checksum, whatever  *)
(* the sort did to equal prefixes.  (Offsets are right up to 4 GB.)        *)
(***************************************************************************)
EveryChunkIsFound ==
  pc = "done" /\ AsDeclared =>
    LET m == Len(chunks)
    IN  /\ Reads(buff, Footer, 4, Uint32(m))
        /\ Reads(buff, Footer + 4, 8, Uint64(totalUncompressed))
        /\ Reads(buff, Footer + 12, 8, Magic)
        /\ \A c \in 1..m :
             LET chunk == chunks[c]
             IN  /\ c - 1 \in Ordinals(m, chunk.hash)
                 /\ Reads(buff, Lengths(m) + LengthSize * (c - 1), LengthSize, Uint32(chunk.length + CheckSumSize))
                 /\ Reads(buff, Offsets(m) + OffsetSize * (c - 1), OffsetSize, Uint32(chunk.first))
                 /\ Reads(buff, chunk.first, chunk.length, Data(c - 1))
                 /\ Reads(buff, chunk.first + chunk.length, CheckSumSize, Crc(c - 1))

(***************************************************************************)
(* The other way round: whatever record a reader finds for an address is   *)
(* one of a chunk added under it.                                          *)
(***************************************************************************)
NothingElseIsFound ==
  pc = "done" /\ AsDeclared =>
    \A h \in Hash : \A o \in Ordinals(Len(chunks), h) : chunks[o + 1].hash = h

(***************************************************************************)
(* A reader may search the prefixes by halving: they are in order.         *)
(***************************************************************************)
PrefixesAreSorted ==
  pc = "done" /\ AsDeclared =>
    \A j, k \in 0..Len(chunks) - 1 : j < k =>
      buff[Tuples(Len(chunks)) + PrefixTupleSize * j][1][2]
        <= buff[Tuples(Len(chunks)) + PrefixTupleSize * k][1][2]
-----------------------------------------------------------------------------
(***************************************************************************)
(* The inductive invariant of the proofs: where everything written so far  *)
(* is, for as long as the chunks are as declared.                          *)
(***************************************************************************)
TypeOK ==
  /\ pos \in Nat /\ totalUncompressed \in Nat
  /\ loop \in Nat /\ base \in Nat
  /\ pc \in {"adding", "index", "offsets", "footer", "done", "threw"}
  /\ prefixes \in Seq([hash : Hash, prefix : Nat, order : Nat, size : Nat])
  /\ chunks \in Seq([hash : Hash, first : Nat, length : Nat])
  /\ asked \in [number : Nat, bytes : Nat]

EndOfData == IF pc = "adding" THEN pos ELSE base
EndOfFields == IF pc = "adding" THEN pos
               ELSE IF pc = "done" THEN base + 32 * count + FooterSize ELSE base + 32 * count

\* The compressed data grows by no more than its declaration leaves room for.
SizeInv ==
  /\ pc # "threw"
  /\ Len(chunks) = count /\ asked.number = count /\ asked.bytes = totalUncompressed
  /\ 255 * EndOfData <= 256 * totalUncompressed + 4590 * count
  /\ DOMAIN buff \subseteq 0..EndOfFields - 1
  /\ pc = "index" => loop <= count /\ pos = base + PrefixTupleSize * loop
  /\ pc = "offsets" => loop <= count /\ pos = base + PrefixTupleSize * count
  /\ pc \in {"footer", "done"} => pos = EndOfFields

\* The chunks follow each other from the start of the buffer.
ChunkInv ==
  /\ Len(chunks) > 0 => chunks[1].first = 0
  /\ Len(chunks) = 0 => EndOfData = 0
  /\ \A c \in 1..Len(chunks) :
       LET end == chunks[c].first + chunks[c].length + CheckSumSize
       IN  /\ end <= EndOfData
           /\ end = IF c = Len(chunks) THEN EndOfData ELSE chunks[c + 1].first
           /\ Reads(buff, chunks[c].first, chunks[c].length, Data(c - 1))
           /\ Reads(buff, chunks[c].first + chunks[c].length, CheckSumSize, Crc(c - 1))

\* There is one record for each chunk, whatever place the sort has given it.
RecordInv ==
  /\ \A j \in 1..count :
       LET rec == prefixes[j]
       IN  /\ rec.order < count
           /\ rec.hash = chunks[rec.order + 1].hash
           /\ rec.prefix = Prefix[rec.hash]
           /\ rec.size = (chunks[rec.order + 1].length + CheckSumSize) % IntWord
  /\ \A j, k \in 1..count : prefixes[j].order = prefixes[k].order => j = k
  /\ \A o \in 0..count - 1 : \E j \in 1..count : prefixes[j].order = o
  /\ pc # "adding" => Sorted(prefixes)

\* The fields of the j-th record are in the index.
Indexed(j) ==
  LET rec == prefixes[j] tuple == base + PrefixTupleSize * (j - 1)
  IN  /\ Reads(buff, tuple, PrefixSize, Uint64(rec.prefix))
      /\ Reads(buff, tuple + PrefixSize, 4, Uint32(rec.order))
      /\ Reads(buff, LengthAt(rec), LengthSize, Uint32(rec.size))
      /\ Reads(buff, SuffixAt(rec), SuffixSize, Suffix(rec.hash))
IndexInv == pc # "adding" => \A j \in 1..count : pc # "index" \/ j <= loop => Indexed(j)

OffsetInv ==
  /\ pc = "offsets" /\ loop < count => currentOffset = chunks[loop + 1].first
  /\ pc \in {"offsets", "footer", "done"} => \A o \in 0..count - 1 :
       pc # "offsets" \/ o < loop =>
         Reads(buff, offsetOffset + OffsetSize * o, OffsetSize, Uint32(chunks[o + 1].first))

FooterInv ==
  pc = "done" => /\ Reads(buff, base + 32 * count, 4, Uint32(count))
                 /\ Reads(buff, base + 32 * count + 4, 8, Uint64(totalUncompressed))
                 /\ Reads(buff, base + 32 * count + 12, 8, Magic)

Layout == SizeInv /\ ChunkInv /\ RecordInv /\ IndexInv /\ OffsetInv /\ FooterInv
IInv == TypeOK /\ (AsDeclared => Layout)
=============================================================================
