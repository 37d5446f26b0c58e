-------------------------- MODULE TableWriterProofs --------------------------
(***************************************************************************)
(* Proofs about TableWriter, for any declaration and any chunks that keep  *)
(* to it.  The fields of the index never meet: two lemmas about Write say  *)
(* all that the proofs need of the buffer.                                 *)
(***************************************************************************)
EXTENDS TableWriterProps, SequenceTheorems, TLAPS

\* A field is read back where it was written.
LEMMA WriteThere ==
  ASSUME NEW b, NEW at \in Int, NEW width \in Int, NEW value
  PROVE  Reads(Write(b, at, width, value), at, width, value)
<1> SUFFICES ASSUME NEW k \in 0..width - 1
             PROVE  /\ at + k \in DOMAIN Write(b, at, width, value)
                    /\ Write(b, at, width, value)[at + k] = <<value, k>>
  BY DEF Reads
<1>1. at + k \in at..at + width - 1 /\ at + k - at = k
  OBVIOUS
<1> QED
  BY <1>1 DEF Write

\* A field is not disturbed by a write before or after it.
LEMMA WriteElsewhere ==
  ASSUME NEW b, NEW at \in Int, NEW width \in Int, NEW value,
         NEW from \in Int, NEW length \in Int, NEW old,
         Reads(b, from, length, old),
         from + length <= at \/ at + width <= from
  PROVE  Reads(Write(b, at, width, value), from, length, old)
<1> SUFFICES ASSUME NEW k \in 0..length - 1
             PROVE  /\ from + k \in DOMAIN Write(b, at, width, value)
                    /\ Write(b, at, width, value)[from + k] = <<old, k>>
  BY DEF Reads
<1>1. from + k \notin at..at + width - 1
  OBVIOUS
<1>2. from + k \in DOMAIN b /\ b[from + k] = <<old, k>>
  BY DEF Reads
<1> QED
  BY <1>1, <1>2 DEF Write

\* A write below a bound leaves everything below it.
LEMMA WriteBelow ==
  ASSUME NEW b, NEW at \in Nat, NEW width \in Nat, NEW value, NEW bound \in Int,
         DOMAIN b \subseteq 0..bound - 1, at + width <= bound
  PROVE  DOMAIN Write(b, at, width, value) \subseteq 0..bound - 1
<1>1. DOMAIN Write(b, at, width, value) = DOMAIN b \cup at..at + width - 1
  BY DEF Write
<1>2. at..at + width - 1 \subseteq 0..bound - 1
  OBVIOUS
<1> QED
  BY <1>1, <1>2

\* An int that is not too large is passed on as it is.
LEMMA ToIntIsExact ==
  ASSUME NEW x \in Nat, 2 * x < IntWord
  PROVE  ToInt(x) = x
<1>1. x % IntWord = x
  BY Lz4Assumption
<1> QED
  BY <1>1 DEF ToInt

\* The part of AsDeclared that is about the constants.
Sane ==
  /\ 2 * maxTableSize < IntWord
  /\ totalData \div numChunks <= MaxInput
  /\ \A size \in Sizes : size <= MaxInput
  /\ Overhead <= 14

\* The average, rounded down, and what the library may add to it.
LEMMA SizeOfTable ==
  ASSUME Sane
  PROVE  /\ maxTableSize \in Nat
         /\ 255 * maxTableSize >= 12750 * numChunks + 256 * totalData + 5356
<1> DEFINE q == totalData \div numChunks
           r == q \div 255
<1>1. /\ numChunks \in Nat \ {0} /\ totalData \in Nat /\ IntWord \in Nat /\ MaxInput \in Nat
      /\ 2 * MaxInput < IntWord
  BY TableWriterAssumption, Lz4Assumption
<1>2. q \in Nat /\ numChunks * q <= totalData /\ totalData <= numChunks * q + numChunks - 1
  BY <1>1
<1>3. r \in Nat /\ 255 * r + 254 >= q
  BY <1>2
<1>4. ToInt(q) = q
  BY <1>1, <1>2, ToIntIsExact DEF Sane
<1>5. q <= MaxInput /\ r = q \div 255
  BY DEF Sane
<1> HIDE DEF q, r
<1>9. LZ4_compressBound(ToInt(q)) = q + r + 16
  BY <1>1, <1>2, <1>3, <1>4, <1>5 DEF LZ4_compressBound
<1>6. maxTableSize = numChunks * (q + r + 52) + 20
  BY <1>1, <1>2, <1>3, <1>9
     DEF maxTableSize, q, PrefixTupleSize, LengthSize, OffsetSize, SuffixSize, CheckSumSize, FooterSize
<1>7. numChunks * (q + r + 52) = numChunks * q + numChunks * r + 52 * numChunks
  BY <1>1, <1>2, <1>3
<1>8. /\ numChunks * q \in Nat /\ numChunks * r \in Nat
      /\ 255 * (numChunks * r) + 254 * numChunks >= numChunks * q
  <2>1. numChunks * (255 * r + 254) >= numChunks * q
    BY <1>1, <1>2, <1>3
  <2>2. numChunks * (255 * r + 254) = 255 * (numChunks * r) + 254 * numChunks
    BY <1>1, <1>3
  <2> QED
    BY <1>1, <1>2, <1>3, <2>1, <2>2
<1> QED
  BY <1>1, <1>2, <1>6, <1>7, <1>8

\* What has been written so far leaves room for the index and the footer.
LEMMA RoomForIndex ==
  ASSUME Sane, NEW k \in Nat, NEW t \in Nat, NEW end \in Nat, k <= numChunks, t <= totalData,
         255 * end <= 256 * t + 4590 * k
  PROVE  end + 32 * k + 20 <= maxTableSize
  BY SizeOfTable, TableWriterAssumption

-----------------------------------------------------------------------------
\* AsDeclared is about the constants and about what was asked.
LEMMA DeclaredIsSane ==
  AsDeclared <=> Sane /\ asked.number <= numChunks /\ asked.bytes <= totalData
  BY DEF AsDeclared, Sane

\* The client has not broken its declaration if it does not afterwards.
LEMMA DeclaredBefore ==
  ASSUME TypeOK, Next, AsDeclared'
  PROVE  AsDeclared
<1>1. asked'.number >= asked.number /\ asked'.bytes >= asked.bytes
  <2>1. ASSUME NEW h \in Hash, NEW size \in Sizes, AddChunk(h, size)
        PROVE  asked'.number >= asked.number /\ asked'.bytes >= asked.bytes
    BY <2>1, TableWriterAssumption DEF AddChunk, TypeOK
  <2>2. CASE UNCHANGED asked
    BY <2>2 DEF TypeOK
  <2> QED
    BY <2>1, <2>2 DEF Next
<1>2. Sane /\ asked'.number <= numChunks /\ asked'.bytes <= totalData
  BY DEF AsDeclared, Sane
<1>3. asked'.number \in Nat /\ asked'.bytes \in Nat /\ asked.number \in Nat /\ asked.bytes \in Nat
  <2>1. ASSUME NEW h \in Hash, NEW size \in Sizes, AddChunk(h, size)
        PROVE  asked'.number \in Nat /\ asked'.bytes \in Nat
    <3>1. asked' = [number |-> asked.number + 1, bytes |-> asked.bytes + size]
      BY <2>1 DEF AddChunk
    <3>2. size \in Nat
      BY TableWriterAssumption
    <3> QED
      BY <3>1, <3>2 DEF TypeOK
  <2> QED
    BY <2>1 DEF Next, TypeOK
<1>4. asked.number <= numChunks /\ asked.bytes <= totalData
  BY <1>1, <1>2, <1>3, TableWriterAssumption
<1> QED
  BY <1>2, <1>4, DeclaredIsSane

\* What is between the chunks and the end of the buffer.
LEMMA EndOfTable ==
  ASSUME TypeOK, AsDeclared, SizeInv
  PROVE  /\ count \in Nat /\ EndOfData \in Nat /\ maxTableSize \in Nat
         /\ EndOfData + 32 * count + 20 <= maxTableSize
         /\ 2 * maxTableSize < IntWord /\ IntWord \in Nat
<1>1. count \in Nat /\ EndOfData \in Nat
  BY DEF TypeOK, count, EndOfData
<1>2. count <= numChunks /\ totalUncompressed <= totalData /\ Sane
  BY DeclaredIsSane DEF SizeInv
<1>3. totalUncompressed \in Nat /\ 255 * EndOfData <= 256 * totalUncompressed + 4590 * count
  BY DEF SizeInv, TypeOK
<1>4. EndOfData + 32 * count + 20 <= maxTableSize
  BY <1>1, <1>2, <1>3, RoomForIndex
<1> QED
  BY <1>1, <1>2, <1>4, SizeOfTable, Lz4Assumption DEF Sane

\* A chunk of the declaration is compressed, and its checksum has its place.
LEMMA ChunkFits ==
  ASSUME TypeOK, AsDeclared, SizeInv, pc = "adding", NEW size \in Sizes, NEW c \in Compressed(size),
         asked.number + 1 <= numChunks, asked.bytes + size <= totalData
  PROVE  /\ c \in Nat /\ c # 0
         /\ Room(pos + c, CheckSumSize)
         /\ 255 * (pos + c + 4) <= 256 * (totalUncompressed + size) + 4590 * (count + 1)
<1>1. /\ size \in Nat /\ size # 0 /\ size <= MaxInput /\ 2 * size < IntWord
      /\ size \div 255 \in Nat /\ 255 * (size \div 255) <= size
  <2>1. size \in 1..MaxChunkSize /\ size <= MaxInput
    BY TableWriterAssumption DEF AsDeclared
  <2> QED
    BY <2>1, TableWriterAssumption, Lz4Assumption
<1>2. /\ pos + size + size \div 255 + 22 <= maxTableSize
      /\ maxTableSize \in Nat /\ 2 * maxTableSize < IntWord /\ pos \in Nat
  <2>1. /\ pos \in Nat /\ totalUncompressed \in Nat /\ count \in Nat
        /\ 255 * pos <= 256 * totalUncompressed + 4590 * count
        /\ count + 1 <= numChunks /\ totalUncompressed + size <= totalData
    BY DEF SizeInv, TypeOK, EndOfData, count
  <2>2. Sane
    BY DeclaredIsSane
  <2>3. pos + size + size \div 255 + 22 <= maxTableSize
    <3> DEFINE t == totalUncompressed k == count
    <3>1. /\ pos \in Nat /\ t \in Nat /\ k \in Nat /\ size \in Nat
          /\ 255 * pos <= 256 * t + 4590 * k /\ k + 1 <= numChunks /\ t + size <= totalData
      BY <1>1, <2>1
    <3> HIDE DEF t, k
    <3> QED
      BY <1>1, <2>2, <3>1, SizeOfTable, TableWriterAssumption
  <2> QED
    BY <2>1, <2>3, EndOfTable
<1>3. ToInt(size) = size /\ ToInt(maxTableSize - pos) = maxTableSize - pos
  <2>1. maxTableSize - pos \in Nat /\ 2 * (maxTableSize - pos) < IntWord
    BY <1>1, <1>2, Lz4Assumption
  <2> QED
    BY <1>1, <2>1, ToIntIsExact
<1>4. LZ4_compressBound(ToInt(size)) = size + size \div 255 + 16
  BY <1>1, <1>3, Lz4Assumption DEF LZ4_compressBound
<1>5. c \in LZ4_compress_default(size, maxTableSize - pos)
  BY <1>1, <1>2, <1>3, <1>4 DEF Compressed
<1>6. PICK l \in Outputs[size] : c = IF l <= maxTableSize - pos THEN l ELSE 0
  BY <1>1, <1>2, <1>5, Lz4Assumption DEF LZ4_compress_default
<1>7. l \in 1..size + size \div 255 + 14
  BY <1>1, <1>6, Lz4Assumption DEF Worst, AsDeclared
<1>8. c = l
  BY <1>1, <1>2, <1>6, <1>7
<1>9. Room(pos + c, CheckSumSize)
  BY <1>1, <1>2, <1>7, <1>8 DEF Room, CheckSumSize
<1>10. 255 * (pos + c + 4) <= 256 * (totalUncompressed + size) + 4590 * (count + 1)
  BY <1>1, <1>2, <1>7, <1>8 DEF SizeInv, TypeOK, EndOfData, count
<1> QED
  BY <1>7, <1>8, <1>9, <1>10
-----------------------------------------------------------------------------
\* What the two sequences hold.
LEMMA Elements ==
  ASSUME TypeOK
  PROVE  /\ Len(chunks) \in Nat /\ count \in Nat
         /\ \A c \in 1..Len(chunks) : chunks[c].first \in Nat /\ chunks[c].length \in Nat
         /\ \A j \in 1..count : prefixes[j] \in [hash : Hash, prefix : Nat, order : Nat, size : Nat]
<1> DEFINE C == [hash : Hash, first : Nat, length : Nat]
           P == [hash : Hash, prefix : Nat, order : Nat, size : Nat]
<1>1. chunks \in Seq(C) /\ prefixes \in Seq(P)
  BY DEF TypeOK
<1>2. \A c \in 1..Len(chunks) : chunks[c] \in C
  BY <1>1, ElementOfSeq
<1>3. \A j \in 1..count : prefixes[j] \in P
  BY <1>1, ElementOfSeq DEF count
<1> QED
  BY <1>1, <1>2, <1>3 DEF count

\* Where the parts of the index are.
LEMMA Positions ==
  ASSUME TypeOK
  PROVE  /\ count \in Nat /\ base \in Nat
         /\ lenOffset = base + 12 * count
         /\ offsetOffset = base + 16 * count
         /\ suffixOffset = base + 20 * count
         /\ \A j \in 1..count : /\ prefixes[j].order \in Nat
                               /\ LengthAt(prefixes[j]) = base + 12 * count + 4 * prefixes[j].order
                               /\ SuffixAt(prefixes[j]) = base + 20 * count + 12 * prefixes[j].order
<1>1. count \in Nat /\ base \in Nat /\ \A j \in 1..count : prefixes[j].order \in Nat
  <2>1. prefixes \in Seq([hash : Hash, prefix : Nat, order : Nat, size : Nat]) /\ base \in Nat
    BY DEF TypeOK
  <2>2. \A j \in 1..Len(prefixes) : prefixes[j] \in [hash : Hash, prefix : Nat, order : Nat, size : Nat]
    BY <2>1, ElementOfSeq
  <2> QED
    BY <2>1, <2>2 DEF count
<1>2. lenOffset = base + 12 * count
  BY <1>1 DEF lenOffset, PrefixTupleSize
<1>3. offsetOffset = base + 16 * count
  BY <1>1, <1>2 DEF offsetOffset, LengthSize
<1>4. suffixOffset = base + 20 * count
  BY <1>1, <1>3 DEF suffixOffset, OffsetSize
<1> QED
  BY <1>1, <1>2, <1>3, <1>4 DEF LengthAt, SuffixAt, LengthSize, SuffixSize

Apart(from, length, at, width) == from + length <= at \/ at + width <= from

\* The four fields of a record, the last two further on.
WithRecord(b, at, prefix, order, lengthAt, size, suffixAt, suffix) ==
  Write(Write(Write(Write(b, at, 8, prefix), at + 8, 4, order), lengthAt, 4, size), suffixAt, 12, suffix)

LEMMA RecordWrites ==
  ASSUME NEW b, NEW at \in Nat, NEW lengthAt \in Nat, NEW suffixAt \in Nat,
         NEW prefix, NEW order, NEW size, NEW suffix,
         at + 12 <= lengthAt, lengthAt + 4 <= suffixAt
  PROVE  LET after == WithRecord(b, at, prefix, order, lengthAt, size, suffixAt, suffix) IN
         /\ Reads(after, at, 8, prefix) /\ Reads(after, at + 8, 4, order)
         /\ Reads(after, lengthAt, 4, size) /\ Reads(after, suffixAt, 12, suffix)
         /\ \A from, length \in Int : \A old :
              /\ Reads(b, from, length, old)
              /\ Apart(from, length, at, 12) /\ Apart(from, length, lengthAt, 4)
              /\ Apart(from, length, suffixAt, 12)
              => Reads(after, from, length, old)
         /\ \A bound \in Int : DOMAIN b \subseteq 0..bound - 1 /\ suffixAt + 12 <= bound
                             => DOMAIN after \subseteq 0..bound - 1
<1> DEFINE after == WithRecord(b, at, prefix, order, lengthAt, size, suffixAt, suffix)
           b1 == Write(b, at, 8, prefix)
           b2 == Write(b1, at + 8, 4, order)
           b3 == Write(b2, lengthAt, 4, size)
<1>1. after = Write(b3, suffixAt, 12, suffix)
  BY DEF WithRecord
<1> HIDE DEF after
<1>2. Reads(b1, at, 8, prefix)
  BY WriteThere
<1>3. Reads(b2, at, 8, prefix) /\ Reads(b2, at + 8, 4, order)
  BY <1>2, WriteThere, WriteElsewhere
<1> HIDE DEF b1, b2
<1>4. Reads(b3, at, 8, prefix) /\ Reads(b3, at + 8, 4, order) /\ Reads(b3, lengthAt, 4, size)
  BY <1>3, WriteThere, WriteElsewhere
<1> HIDE DEF b3
<1>5. /\ Reads(after, at, 8, prefix) /\ Reads(after, at + 8, 4, order)
      /\ Reads(after, lengthAt, 4, size) /\ Reads(after, suffixAt, 12, suffix)
  BY <1>1, <1>4, WriteThere, WriteElsewhere
<1>6. ASSUME NEW from \in Int, NEW length \in Int, NEW old, Reads(b, from, length, old),
             Apart(from, length, at, 12), Apart(from, length, lengthAt, 4),
             Apart(from, length, suffixAt, 12)
      PROVE  Reads(after, from, length, old)
  <2>1. Reads(b1, from, length, old)
    BY <1>6, WriteElsewhere DEF Apart, b1
  <2>2. Reads(b2, from, length, old)
    BY <1>6, <2>1, WriteElsewhere DEF Apart, b2
  <2>3. Reads(b3, from, length, old)
    BY <1>6, <2>2, WriteElsewhere DEF Apart, b3
  <2> QED
    BY <1>1, <1>6, <2>3, WriteElsewhere DEF Apart
<1>7. ASSUME NEW bound \in Int, DOMAIN b \subseteq 0..bound - 1, suffixAt + 12 <= bound
      PROVE  DOMAIN after \subseteq 0..bound - 1
  <2>1. DOMAIN b1 \subseteq 0..bound - 1
    BY <1>7, WriteBelow DEF b1
  <2>2. DOMAIN b2 \subseteq 0..bound - 1
    BY <1>7, <2>1, WriteBelow DEF b2
  <2>3. DOMAIN b3 \subseteq 0..bound - 1
    BY <1>7, <2>2, WriteBelow DEF b3
  <2> QED
    BY <1>1, <1>7, <2>3, WriteBelow
<1> QED
  BY <1>5, <1>6, <1>7 DEF after

\* Three fields in a row: the footer.
WithFooter(b, at, number, total, magic) ==
  Write(Write(Write(b, at, 4, number), at + 4, 8, total), at + 12, 8, magic)

LEMMA FooterWrites ==
  ASSUME NEW b, NEW at \in Nat, NEW number, NEW total, NEW magic
  PROVE  LET after == WithFooter(b, at, number, total, magic) IN
         /\ Reads(after, at, 4, number) /\ Reads(after, at + 4, 8, total)
         /\ Reads(after, at + 12, 8, magic)
         /\ \A from, length \in Int : \A old :
              Reads(b, from, length, old) /\ from + length <= at => Reads(after, from, length, old)
         /\ DOMAIN b \subseteq 0..at - 1 => DOMAIN after \subseteq 0..at + 19
<1> DEFINE after == WithFooter(b, at, number, total, magic)
           b1 == Write(b, at, 4, number)
           b2 == Write(b1, at + 4, 8, total)
           bound == at + 20
<1> HIDE DEF bound
<1>1. after = Write(b2, at + 12, 8, magic)
  BY DEF WithFooter
<1> HIDE DEF after
<1>2. Reads(b2, at, 4, number) /\ Reads(b2, at + 4, 8, total)
  BY WriteThere, WriteElsewhere
<1>3. ASSUME NEW from \in Int, NEW length \in Int, NEW old, Reads(b, from, length, old), from + length <= at
      PROVE  Reads(b2, from, length, old)
  <2>1. Reads(b1, from, length, old)
    BY <1>3, WriteElsewhere
  <2> QED
    BY <1>3, <2>1, WriteElsewhere
<1>4. ASSUME DOMAIN b \subseteq 0..at - 1
      PROVE  DOMAIN b2 \subseteq 0..bound - 1
  <2>0. bound \in Int /\ at + 20 <= bound /\ at + 4 \in Nat /\ at + 4 + 8 <= bound
    BY DEF bound
  <2>1. DOMAIN b \subseteq 0..bound - 1
    BY <1>4 DEF bound
  <2>2. DOMAIN b1 \subseteq 0..bound - 1
    BY <2>0, <2>1, WriteBelow
  <2> HIDE DEF b1
  <2> QED
    BY <2>0, <2>2, WriteBelow
<1> HIDE DEF b2
<1>5. Reads(after, at, 4, number) /\ Reads(after, at + 4, 8, total) /\ Reads(after, at + 12, 8, magic)
  BY <1>1, <1>2, WriteThere, WriteElsewhere
<1>6. ASSUME NEW from \in Int, NEW length \in Int, NEW old, Reads(b, from, length, old), from + length <= at
      PROVE  Reads(after, from, length, old)
  BY <1>1, <1>3, <1>6, WriteElsewhere
<1>7. ASSUME DOMAIN b \subseteq 0..at - 1
      PROVE  DOMAIN after \subseteq 0..at + 19
  <2>1. bound \in Int /\ at + 12 \in Nat /\ at + 12 + 8 <= bound
    BY DEF bound
  <2>2. DOMAIN after \subseteq 0..bound - 1
    BY <1>1, <1>4, <1>7, <2>1, WriteBelow
  <2> QED
    BY <2>2 DEF bound
<1> QED
  BY <1>5, <1>6, <1>7 DEF after
-----------------------------------------------------------------------------
\* A chunk: its bytes and its checksum go where the others end.
LEMMA AddChunkStep ==
  ASSUME TypeOK, AsDeclared, Layout, AsDeclared',
         NEW h \in Hash, NEW size \in Sizes, AddChunk(h, size)
  PROVE  Layout'
<1>1. /\ pc = "adding" /\ pos \in Nat /\ count \in Nat /\ size \in Nat /\ EndOfData = pos
      /\ totalUncompressed \in Nat /\ asked' = [number |-> asked.number + 1, bytes |-> asked.bytes + size]
      /\ SizeInv /\ IntWord \in Nat \ {0}
  BY TableWriterAssumption, Lz4Assumption DEF AddChunk, TypeOK, Layout, EndOfData, count
<1>2. asked.number + 1 <= numChunks /\ asked.bytes + size <= totalData
  BY <1>1 DEF AsDeclared
<1>3. PICK c \in Compressed(size) :
        IF c = 0 THEN Throw
        ELSE LET data == Write(buff, pos, c, Data(Len(prefixes)))
             IN  /\ totalUncompressed' = totalUncompressed + size
                 /\ \/ /\ Room(pos + c, CheckSumSize)
                       /\ buff' = Write(data, pos + c, CheckSumSize, Crc(Len(prefixes)))
                       /\ pos' = pos + c + CheckSumSize
                       /\ prefixes' = Append(prefixes, Rec(h, Len(prefixes), c + CheckSumSize))
                       /\ chunks' = Append(chunks, [hash |-> h, first |-> pos, length |-> c])
                       /\ pc' = pc
                    \/ /\ ~Room(pos + c, CheckSumSize)
                       /\ buff' = data
                       /\ pos' = pos + c
                       /\ UNCHANGED <<prefixes, chunks>>
                       /\ pc' = "threw"
                 /\ UNCHANGED <<loop, base, currentOffset>>
  BY DEF AddChunk
<1>4. /\ c \in Nat /\ c # 0 /\ Room(pos + c, CheckSumSize)
      /\ 255 * (pos + c + 4) <= 256 * (totalUncompressed + size) + 4590 * (count + 1)
  BY <1>1, <1>2, ChunkFits
<1> DEFINE data == Write(buff, pos, c, Data(count))
<1>5. /\ totalUncompressed' = totalUncompressed + size
      /\ buff' = Write(data, pos + c, 4, Crc(count))
      /\ pos' = pos + c + 4
      /\ prefixes' = Append(prefixes, Rec(h, count, c + 4))
      /\ chunks' = Append(chunks, [hash |-> h, first |-> pos, length |-> c])
      /\ pc' = "adding"
  BY <1>1, <1>3, <1>4 DEF CheckSumSize, count
<1>6. /\ Len(chunks) = count /\ Len(chunks') = count + 1 /\ count' = count + 1
      /\ \A j \in 1..count : chunks'[j] = chunks[j] /\ prefixes'[j] = prefixes[j]
      /\ chunks'[count + 1] = [hash |-> h, first |-> pos, length |-> c]
      /\ prefixes'[count + 1] = Rec(h, count, c + 4)
      /\ EndOfData' = pos + c + 4
  <2> DEFINE C == [hash : Hash, first : Nat, length : Nat]
             P == [hash : Hash, prefix : Nat, order : Nat, size : Nat]
             chunk == [hash |-> h, first |-> pos, length |-> c]
             rec == Rec(h, count, c + 4)
  <2>1. chunks \in Seq(C) /\ prefixes \in Seq(P) /\ Len(chunks) = count /\ Len(prefixes) = count
    BY <1>1 DEF TypeOK, SizeInv, count
  <2>2. chunk \in C
    BY <1>1, <1>4
  <2>3. rec \in P
    BY <1>1, <1>4, TableWriterAssumption DEF Rec
  <2>4. chunks' = Append(chunks, chunk) /\ prefixes' = Append(prefixes, rec)
    BY <1>5
  <2> HIDE DEF C, P, chunk, rec
  <2>5. /\ Len(chunks') = count + 1 /\ chunks'[count + 1] = chunk
        /\ \A j \in 1..count : chunks'[j] = chunks[j]
    BY <2>1, <2>2, <2>4, AppendProperties
  <2>6. /\ Len(prefixes') = count + 1 /\ prefixes'[count + 1] = rec
        /\ \A j \in 1..count : prefixes'[j] = prefixes[j]
    BY <2>1, <2>3, <2>4, AppendProperties
  <2>7. count' = count + 1 /\ EndOfData' = pos + c + 4
    BY <1>5, <2>6 DEF count, EndOfData
  <2> QED
    BY <2>1, <2>5, <2>6, <2>7 DEF chunk, rec
<1>7. /\ Reads(buff', pos, c, Data(count)) /\ Reads(buff', pos + c, 4, Crc(count))
      /\ \A from, length \in Int : \A old :
           Reads(buff, from, length, old) /\ from + length <= pos => Reads(buff', from, length, old)
  <2>1. /\ Reads(data, pos, c, Data(count))
        /\ \A from, length \in Int : \A old :
             Reads(buff, from, length, old) /\ from + length <= pos => Reads(data, from, length, old)
    BY <1>1, <1>4, WriteThere, WriteElsewhere
  <2> HIDE DEF data
  <2>2. Reads(buff', pos, c, Data(count)) /\ Reads(buff', pos + c, 4, Crc(count))
    BY <1>1, <1>4, <1>5, <2>1, WriteThere, WriteElsewhere
  <2>3. ASSUME NEW from \in Int, NEW length \in Int, NEW old, Reads(buff, from, length, old), from + length <= pos
        PROVE  Reads(buff', from, length, old)
    <3>1. Reads(data, from, length, old) /\ from + length <= pos + c
      BY <1>1, <1>4, <2>1, <2>3
    <3> QED
      BY <1>1, <1>4, <1>5, <3>1, WriteElsewhere
  <2> QED
    BY <2>2, <2>3
<1>8. SizeInv'
  <2>1. DOMAIN buff' \subseteq 0..pos + c + 3
    <3> DEFINE bound == pos + c + 4
    <3>1. bound \in Int /\ pos + c <= bound /\ pos + c + 4 <= bound /\ pos + c \in Nat
      BY <1>1, <1>4
    <3>2. DOMAIN buff \subseteq 0..bound - 1
      BY <1>1, <1>4 DEF SizeInv, EndOfFields
    <3> HIDE DEF bound
    <3>3. DOMAIN data \subseteq 0..bound - 1
      BY <1>1, <1>4, <3>1, <3>2, WriteBelow
    <3> HIDE DEF data
    <3>4. DOMAIN buff' \subseteq 0..bound - 1
      BY <1>5, <3>1, <3>3, WriteBelow
    <3> QED
      BY <1>1, <1>4, <3>4 DEF bound
  <2>2. /\ pc' = "adding" /\ Len(chunks') = count' /\ EndOfFields' = pos + c + 4
        /\ count' = count + 1 /\ EndOfData' = pos + c + 4
    BY <1>5, <1>6 DEF EndOfFields
  <2>3. /\ asked'.number = count + 1 /\ asked'.bytes = totalUncompressed + size
        /\ totalUncompressed' = totalUncompressed + size
    BY <1>1, <1>5 DEF SizeInv
  <2>4. DOMAIN buff' \subseteq 0..EndOfFields' - 1
    <3>1. (pos + c + 4) - 1 = pos + c + 3
      BY <1>1, <1>4
    <3> QED
      BY <2>1, <2>2, <3>1
  <2> QED
    BY <1>4, <2>2, <2>3, <2>4 DEF SizeInv
<1>9. ChunkInv'
  <2>1. Len(chunks) = 0 => pos = 0
    BY <1>1 DEF Layout, ChunkInv
  <2>2. Len(chunks)' > 0 => chunks'[1].first = 0
    BY <1>1, <1>6, <2>1 DEF Layout, ChunkInv
  <2>3. ASSUME NEW d \in 1..count + 1
        PROVE  LET end == chunks'[d].first + chunks'[d].length + CheckSumSize
               IN  /\ end <= EndOfData'
                   /\ end = IF d = Len(chunks') THEN EndOfData' ELSE chunks'[d + 1].first
                   /\ Reads(buff', chunks'[d].first, chunks'[d].length, Data(d - 1))
                   /\ Reads(buff', chunks'[d].first + chunks'[d].length, CheckSumSize, Crc(d - 1))
    <3>1. CASE d = count + 1
      <4>1. d - 1 = count /\ d = Len(chunks') /\ pos + c + 4 <= EndOfData' /\ pos + c + 4 = EndOfData'
        <5>1. d - 1 = count /\ pos + c + 4 <= pos + c + 4
          BY <1>1, <1>4, <3>1
        <5>2. d = Len(chunks') /\ EndOfData' = pos + c + 4
          BY <1>6, <3>1
        <5> QED
          BY <5>1, <5>2
      <4>2. chunks'[d].first = pos /\ chunks'[d].length = c
        BY <1>6, <3>1
      <4> HIDE DEF data
      <4> QED
        BY <1>7, <4>1, <4>2 DEF CheckSumSize
    <3>2. CASE d \in 1..count
      <4>1. /\ chunks[d].first \in Nat /\ chunks[d].length \in Nat /\ chunks'[d] = chunks[d]
        BY <1>6, <3>2, Elements
      <4>2. /\ chunks[d].first + chunks[d].length + 4 <= pos
            /\ chunks[d].first + chunks[d].length + 4 = IF d = count THEN pos ELSE chunks[d + 1].first
            /\ Reads(buff, chunks[d].first, chunks[d].length, Data(d - 1))
            /\ Reads(buff, chunks[d].first + chunks[d].length, 4, Crc(d - 1))
        BY <1>1, <1>6, <3>2 DEF Layout, ChunkInv, CheckSumSize
      <4>3. /\ Reads(buff', chunks[d].first, chunks[d].length, Data(d - 1))
            /\ Reads(buff', chunks[d].first + chunks[d].length, 4, Crc(d - 1))
        BY <1>1, <1>7, <4>1, <4>2
      <4>4. chunks[d].first + chunks[d].length + 4 = chunks'[d + 1].first
        BY <1>1, <1>6, <3>2, <4>2
      <4>5. d # Len(chunks') /\ chunks[d].first + chunks[d].length + 4 <= EndOfData'
        <5>1. d # count + 1 /\ pos <= pos + c + 4
          BY <1>1, <1>4, <3>2
        <5>2. \A x \in Nat : x <= pos => x <= pos + c + 4
          BY <1>1, <1>4
        <5>3. chunks[d].first + chunks[d].length + 4 \in Nat
          BY <4>1
        <5> QED
          BY <1>6, <4>2, <5>1, <5>2, <5>3
      <4> QED
        BY <4>1, <4>3, <4>4, <4>5 DEF CheckSumSize
    <3> QED
      BY <1>1, <2>3, <3>1, <3>2
  <2>4. Len(chunks') # 0 /\ \A d \in 1..Len(chunks') : d \in 1..count + 1
    BY <1>1, <1>6
  <2> HIDE DEF data
  <2> QED
    BY ONLY <2>2, <2>3, <2>4 DEF ChunkInv
<1>10. RecordInv'
  <2> DEFINE rec == Rec(h, count, c + 4)
  <2>1. rec = [hash |-> h, prefix |-> Prefix[h], order |-> count, size |-> (c + 4) % IntWord]
    BY DEF Rec
  <2>2. ASSUME NEW j \in 1..count + 1
        PROVE  /\ prefixes'[j].order < count + 1
               /\ prefixes'[j].hash = chunks'[prefixes'[j].order + 1].hash
               /\ prefixes'[j].prefix = Prefix[prefixes'[j].hash]
               /\ prefixes'[j].size = (chunks'[prefixes'[j].order + 1].length + CheckSumSize) % IntWord
    <3>1. CASE j = count + 1
      BY <1>1, <1>6, <2>1, <3>1 DEF CheckSumSize
    <3>2. CASE j \in 1..count
      <4>1. /\ prefixes[j].order \in Nat /\ prefixes[j].order < count
            /\ prefixes[j].hash = chunks[prefixes[j].order + 1].hash
            /\ prefixes[j].prefix = Prefix[prefixes[j].hash]
            /\ prefixes[j].size = (chunks[prefixes[j].order + 1].length + CheckSumSize) % IntWord
        BY <3>2, Positions DEF Layout, RecordInv
      <4>2. prefixes[j].order + 1 \in 1..count
        BY <1>1, <4>1
      <4>3. prefixes'[j] = prefixes[j] /\ chunks'[prefixes[j].order + 1] = chunks[prefixes[j].order + 1]
        BY <1>6, <3>2, <4>2
      <4> QED
        BY <1>1, <4>1, <4>3
    <3> QED
      BY <1>1, <3>1, <3>2
  <2>3. \A j, k \in 1..count + 1 : prefixes'[j].order = prefixes'[k].order => j = k
    <3>1. \A j \in 1..count : prefixes'[j].order \in Nat /\ prefixes'[j].order < count
      BY <1>6, Positions DEF Layout, RecordInv
    <3>2. \A j, k \in 1..count : prefixes'[j].order = prefixes'[k].order => j = k
      BY <1>6 DEF Layout, RecordInv
    <3>3. prefixes'[count + 1].order = count
      BY <1>6, <2>1
    <3> QED
      BY <1>1, <3>1, <3>2, <3>3
  <2>4. \A o \in 0..count : \E j \in 1..count + 1 : prefixes'[j].order = o
    <3> SUFFICES ASSUME NEW o \in 0..count PROVE \E j \in 1..count + 1 : prefixes'[j].order = o
      OBVIOUS
    <3>1. CASE o = count
      BY <1>1, <1>6, <2>1, <3>1
    <3>2. CASE o \in 0..count - 1
      <4>1. PICK j \in 1..count : prefixes[j].order = o
        BY <3>2 DEF Layout, RecordInv
      <4> QED
        BY <1>1, <1>6, <4>1
    <3> QED
      BY <1>1, <3>1, <3>2
  <2>5. count' = count + 1 /\ (count + 1) - 1 = count /\ pc' = "adding"
    BY <1>1, <1>5, <1>6
  <2> QED
    BY <2>2, <2>3, <2>4, <2>5 DEF RecordInv
<1> QED
  BY <1>5, <1>8, <1>9, <1>10 DEF Layout, IndexInv, OffsetInv, FooterInv
-----------------------------------------------------------------------------
\* What finish leaves as it is: the chunks, before base, and the records.
LEMMA Frame ==
  ASSUME TypeOK, Layout, pc # "adding", pc' # "adding",
         UNCHANGED <<prefixes, base, chunks>>,
         \A from, length \in Int : \A old :
           Reads(buff, from, length, old) /\ from + length <= base => Reads(buff', from, length, old)
  PROVE  /\ ChunkInv' /\ RecordInv'
         /\ count' = count /\ EndOfData' = base /\ EndOfData = base /\ Len(chunks) = count
<1>1. /\ count' = count /\ EndOfData' = base /\ EndOfData = base /\ base \in Nat /\ Len(chunks) = count
      /\ Len(chunks') = Len(chunks)
  BY DEF EndOfData, count, TypeOK, Layout, SizeInv
<1>2. RecordInv'
  BY <1>1 DEF Layout, RecordInv, Sorted
<1>3. ASSUME NEW c \in 1..Len(chunks)
      PROVE  /\ Reads(buff', chunks[c].first, chunks[c].length, Data(c - 1))
             /\ Reads(buff', chunks[c].first + chunks[c].length, CheckSumSize, Crc(c - 1))
  <2>1. chunks[c].first \in Nat /\ chunks[c].length \in Nat
    BY Elements
  <2>2. /\ Reads(buff, chunks[c].first, chunks[c].length, Data(c - 1))
        /\ Reads(buff, chunks[c].first + chunks[c].length, 4, Crc(c - 1))
        /\ chunks[c].first + chunks[c].length + 4 <= base
    BY <1>1 DEF Layout, ChunkInv, CheckSumSize
  <2>3. Reads(buff', chunks[c].first, chunks[c].length, Data(c - 1))
    BY <1>1, <2>1, <2>2
  <2>4. Reads(buff', chunks[c].first + chunks[c].length, 4, Crc(c - 1))
    BY <1>1, <2>1, <2>2
  <2> QED
    BY <2>3, <2>4 DEF CheckSumSize
<1>4. ChunkInv'
  BY <1>1, <1>3 DEF Layout, ChunkInv, Data, Crc
<1> QED
  BY <1>1, <1>2, <1>4

\* The same for a step that writes nothing.
LEMMA FrameWithoutWrites ==
  ASSUME TypeOK, Layout, pc # "adding", pc' # "adding", UNCHANGED <<prefixes, base, chunks, buff>>
  PROVE  /\ ChunkInv' /\ RecordInv'
         /\ count' = count /\ EndOfData' = base /\ EndOfData = base /\ Len(chunks) = count
<1>1. \A from, length \in Int : \A old :
        Reads(buff, from, length, old) /\ from + length <= base => Reads(buff', from, length, old)
  OBVIOUS
<1> QED
  BY <1>1, Frame

\* Indexed, in numbers.
IndexedIn(b, j) ==
  /\ Reads(b, base + 12 * (j - 1), 8, Uint64(prefixes[j].prefix))
  /\ Reads(b, base + 12 * (j - 1) + 8, 4, Uint32(prefixes[j].order))
  /\ Reads(b, base + 12 * count + 4 * prefixes[j].order, 4, Uint32(prefixes[j].size))
  /\ Reads(b, base + 20 * count + 12 * prefixes[j].order, 12, Suffix(prefixes[j].hash))

LEMMA IndexedMeans ==
  ASSUME TypeOK, NEW j \in 1..count
  PROVE  /\ Indexed(j) <=> IndexedIn(buff, j)
         /\ UNCHANGED <<base, prefixes>> => (Indexed(j)' <=> IndexedIn(buff', j))
<1>1. Indexed(j) <=> IndexedIn(buff, j)
  BY Positions DEF Indexed, IndexedIn, PrefixSize, PrefixTupleSize, LengthSize, SuffixSize
<1>2. ASSUME UNCHANGED <<base, prefixes>>
      PROVE  Indexed(j)' <=> IndexedIn(buff', j)
  <2>1. /\ LengthAt(prefixes[j])' = LengthAt(prefixes[j]) /\ SuffixAt(prefixes[j])' = SuffixAt(prefixes[j])
    BY <1>2 DEF LengthAt, SuffixAt, suffixOffset, offsetOffset, lenOffset, count
  <2> QED
    BY <1>2, <2>1, Positions
       DEF Indexed, IndexedIn, PrefixSize, PrefixTupleSize, LengthSize, SuffixSize, Uint64, Uint32, Suffix
<1> QED
  BY <1>1, <1>2

\* Room there is for every field that ends with the table.
LEMMA RoomBelow ==
  ASSUME NEW at \in Nat, NEW width \in Nat, NEW end \in Nat, maxTableSize \in Nat,
         at + width <= end, end <= maxTableSize
  PROVE  Room(at, width)
  BY DEF Room

\* Sorting changes the places of the records and nothing else.
LEMMA SortStep ==
  ASSUME TypeOK, AsDeclared, Layout, Sort, UNCHANGED asked
  PROVE  Layout'
<1>1. /\ pc = "adding" /\ pc' = "index" /\ loop' = 0 /\ base' = pos /\ pos' = pos
      /\ UNCHANGED <<buff, totalUncompressed, currentOffset, chunks, asked>>
      /\ pos \in Nat /\ count \in Nat /\ Len(chunks) = count
  BY DEF Sort, TypeOK, Layout, SizeInv, count
<1>2. PICK f \in Bijection(1..count, 1..count) :
        prefixes' = [j \in 1..count |-> prefixes[f[j]]] /\ Sorted(prefixes')
  BY DEF Sort
<1>3. /\ f \in [1..count -> 1..count]
      /\ \A j, k \in 1..count : f[j] = f[k] => j = k
      /\ \A k \in 1..count : \E j \in 1..count : f[j] = k
  BY <1>2 DEF Bijection, Injection, Surjection, IsInjective
<1>4. count' = count
  <2> DEFINE P == [hash : Hash, prefix : Nat, order : Nat, size : Nat]
  <2>1. \A j \in 1..count : prefixes[f[j]] \in P
    BY <1>3, Elements
  <2> HIDE DEF P
  <2>2. prefixes' \in [1..count -> P]
    BY <1>2, <2>1
  <2>3. Len(prefixes') = count
    BY <1>1, <2>2, LenProperties, SeqDef
  <2> QED
    BY <2>3 DEF count
<1>5. EndOfData' = EndOfData /\ EndOfData = pos /\ EndOfFields = pos /\ EndOfFields' = pos + 32 * count
  BY <1>1, <1>4 DEF EndOfData, EndOfFields
<1>6. SizeInv'
  <2>1. DOMAIN buff' \subseteq 0..EndOfFields' - 1
    BY <1>1, <1>5 DEF Layout, SizeInv
  <2>2. pos' = base' + PrefixTupleSize * loop' /\ loop' <= count'
    BY <1>1, <1>4 DEF PrefixTupleSize
  <2> QED
    BY <1>1, <1>4, <1>5, <2>1, <2>2 DEF Layout, SizeInv
<1>7. ChunkInv'
  BY <1>1, <1>5 DEF Layout, ChunkInv, Reads, Data, Crc
<1>8. RecordInv'
  <2>1. \A j \in 1..count : prefixes'[j] = prefixes[f[j]] /\ f[j] \in 1..count
    BY <1>2, <1>3
  <2>2. \A j \in 1..count :
          LET rec == prefixes'[j]
          IN  /\ rec.order < count
              /\ rec.hash = chunks[rec.order + 1].hash
              /\ rec.prefix = Prefix[rec.hash]
              /\ rec.size = (chunks[rec.order + 1].length + CheckSumSize) % IntWord
    BY <2>1 DEF Layout, RecordInv
  <2>3. ASSUME NEW j \in 1..count, NEW k \in 1..count, prefixes'[j].order = prefixes'[k].order
        PROVE  j = k
    <3>1. f[j] = f[k]
      BY <2>1, <2>3 DEF Layout, RecordInv
    <3> QED
      BY <1>3, <3>1
  <2>4. \A o \in 0..count - 1 : \E j \in 1..count : prefixes'[j].order = o
    <3> SUFFICES ASSUME NEW o \in 0..count - 1 PROVE \E j \in 1..count : prefixes'[j].order = o
      OBVIOUS
    <3>1. PICK k \in 1..count : prefixes[k].order = o
      BY DEF Layout, RecordInv
    <3>2. PICK j \in 1..count : f[j] = k
      BY <1>3
    <3> QED
      BY <2>1, <3>1, <3>2
  <2>5. Sorted(prefixes)'
    BY <1>2 DEF Sorted
  <2> QED
    BY <1>1, <1>4, <2>2, <2>3, <2>4, <2>5 DEF RecordInv
<1>9. IndexInv' /\ OffsetInv' /\ FooterInv'
  BY <1>1, <1>4 DEF IndexInv, OffsetInv, FooterInv
<1> QED
  BY <1>6, <1>7, <1>8, <1>9 DEF Layout

\* A record's fields go where no other record's are.
LEMMA WriteRecordStep ==
  ASSUME TypeOK, AsDeclared, Layout, WriteRecord, UNCHANGED asked
  PROVE  Layout'
<1> DEFINE rec == prefixes[loop + 1]
           at == base + 12 * loop
           o == rec.order
           lengthAt == base + 12 * count + 4 * o
           suffixAt == base + 20 * count + 12 * o
<1>1. /\ pc = "index" /\ loop \in Nat /\ loop < count /\ pos = at /\ base \in Nat /\ count \in Nat
      /\ maxTableSize \in Nat /\ base + 32 * count + 20 <= maxTableSize
  BY EndOfTable DEF WriteRecord, TypeOK, Layout, SizeInv, PrefixTupleSize, EndOfData
<1>2. loop + 1 \in 1..count /\ o \in Nat /\ o < count /\ LengthAt(rec) = lengthAt /\ SuffixAt(rec) = suffixAt
  <2>1. loop + 1 \in 1..count
    BY <1>1
  <2> QED
    BY <2>1, Positions DEF Layout, RecordInv
<1> HIDE DEF o
<1>3. /\ at \in Nat /\ lengthAt \in Nat /\ suffixAt \in Nat
      /\ at + 12 <= lengthAt /\ lengthAt + 4 <= suffixAt /\ suffixAt + 12 <= base + 32 * count
  BY <1>1, <1>2
<1>4. Room(pos, PrefixSize) /\ Room(pos + PrefixSize, 4) /\ Room(LengthAt(rec), LengthSize)
  BY <1>1, <1>2, <1>3 DEF Room, PrefixSize, LengthSize
<1>5. /\ buff' = Write(Write(Write(Write(buff, at, 8, Uint64(rec.prefix)), at + 8, 4, Uint32(o)),
                            lengthAt, 4, Uint32(rec.size)),
                      suffixAt, 12, Suffix(rec.hash))
      /\ pos' = pos + 12 /\ loop' = loop + 1
      /\ UNCHANGED <<totalUncompressed, prefixes, pc, base, currentOffset, chunks>>
  <2>1. 12 - 8 = 4
    OBVIOUS
  <2> QED
    BY <1>1, <1>2, <1>4, <2>1 DEF WriteRecord, PrefixSize, PrefixTupleSize, LengthSize, SuffixSize, o
<1> HIDE DEF at, lengthAt, suffixAt
<1>6. /\ Reads(buff', at, 8, Uint64(rec.prefix)) /\ Reads(buff', at + 8, 4, Uint32(o))
      /\ Reads(buff', lengthAt, 4, Uint32(rec.size)) /\ Reads(buff', suffixAt, 12, Suffix(rec.hash))
      /\ \A from, length \in Int : \A old :
           /\ Reads(buff, from, length, old)
           /\ Apart(from, length, at, 12) /\ Apart(from, length, lengthAt, 4)
           /\ Apart(from, length, suffixAt, 12)
           => Reads(buff', from, length, old)
      /\ \A bound \in Int : DOMAIN buff \subseteq 0..bound - 1 /\ suffixAt + 12 <= bound
                          => DOMAIN buff' \subseteq 0..bound - 1
  <2> DEFINE after == WithRecord(buff, at, Uint64(rec.prefix), Uint32(o), lengthAt, Uint32(rec.size),
                                 suffixAt, Suffix(rec.hash))
  <2>1. buff' = after
    BY <1>5 DEF WithRecord
  <2>2. /\ Reads(after, at, 8, Uint64(rec.prefix)) /\ Reads(after, at + 8, 4, Uint32(o))
        /\ Reads(after, lengthAt, 4, Uint32(rec.size)) /\ Reads(after, suffixAt, 12, Suffix(rec.hash))
        /\ \A from, length \in Int : \A old :
             /\ Reads(buff, from, length, old)
             /\ Apart(from, length, at, 12) /\ Apart(from, length, lengthAt, 4)
             /\ Apart(from, length, suffixAt, 12)
             => Reads(after, from, length, old)
        /\ \A bound \in Int : DOMAIN buff \subseteq 0..bound - 1 /\ suffixAt + 12 <= bound
                            => DOMAIN after \subseteq 0..bound - 1
    BY <1>3, RecordWrites, Zenon
  <2> HIDE DEF after
  <2> QED
    BY <2>1, <2>2
<1>7. /\ ChunkInv' /\ RecordInv'
      /\ count' = count /\ EndOfData' = base /\ EndOfData = base /\ Len(chunks) = count
  <2>1. ASSUME NEW from \in Int, NEW length \in Int, NEW old,
               Reads(buff, from, length, old), from + length <= base
        PROVE  Reads(buff', from, length, old)
    <3>1. Apart(from, length, at, 12) /\ Apart(from, length, lengthAt, 4) /\ Apart(from, length, suffixAt, 12)
      BY <1>1, <1>2, <2>1 DEF Apart, at, lengthAt, suffixAt
    <3> QED
      BY <1>6, <2>1, <3>1
  <2> QED
    BY <1>1, <1>5, <2>1, Frame
<1>8. SizeInv'
  <2>1. EndOfFields = base + 32 * count /\ EndOfFields' = base + 32 * count
    BY <1>1, <1>5, <1>7 DEF EndOfFields
  <2>2. DOMAIN buff' \subseteq 0..EndOfFields' - 1
    <3>1. base + 32 * count \in Int /\ DOMAIN buff \subseteq 0..(base + 32 * count) - 1
      BY <1>1, <2>1 DEF Layout, SizeInv
    <3> QED
      BY <1>3, <1>6, <2>1, <3>1
  <2>3. loop' <= count' /\ pos' = base' + PrefixTupleSize * loop'
    BY <1>1, <1>5, <1>7 DEF PrefixTupleSize, at
  <2> QED
    BY <1>1, <1>5, <1>7, <2>2, <2>3 DEF Layout, SizeInv
<1>9. IndexInv'
  <2> SUFFICES ASSUME NEW j \in 1..count, j <= loop + 1 PROVE IndexedIn(buff', j)
    BY <1>1, <1>5, <1>7, IndexedMeans DEF IndexInv
  <2>1. CASE j = loop + 1
    <3>1. at = base + 12 * (j - 1)
      BY <1>1, <2>1 DEF at
    <3> QED
      BY <1>6, <2>1, <3>1 DEF IndexedIn, o, lengthAt, suffixAt
  <2>2. CASE j # loop + 1
    <3> DEFINE k == prefixes[j].order
    <3>1. IndexedIn(buff, j)
      BY <1>1, <2>2, IndexedMeans DEF Layout, IndexInv
    <3>2. k \in Nat /\ k < count /\ k # o
      BY <1>2, <2>2, Positions DEF Layout, RecordInv, o
    <3> HIDE DEF k
    <3>3. /\ Reads(buff, base + 12 * (j - 1), 8, Uint64(prefixes[j].prefix))
          /\ Reads(buff, base + 12 * (j - 1) + 8, 4, Uint32(prefixes[j].order))
          /\ Reads(buff, base + 12 * count + 4 * k, 4, Uint32(prefixes[j].size))
          /\ Reads(buff, base + 20 * count + 12 * k, 12, Suffix(prefixes[j].hash))
      BY <3>1 DEF IndexedIn, k
    <3>4. /\ base + 12 * (j - 1) \in Int /\ base + 12 * (j - 1) + 8 \in Int
          /\ base + 12 * count + 4 * k \in Int /\ base + 20 * count + 12 * k \in Int
      BY <1>1, <3>2
    <3>5. Reads(buff', base + 12 * (j - 1), 8, Uint64(prefixes[j].prefix))
      <4>1. /\ Apart(base + 12 * (j - 1), 8, at, 12) /\ Apart(base + 12 * (j - 1), 8, lengthAt, 4)
            /\ Apart(base + 12 * (j - 1), 8, suffixAt, 12)
        BY <1>1, <1>2, <2>2 DEF Apart, at, lengthAt, suffixAt
      <4> QED
        BY <1>6, <3>3, <3>4, <4>1
    <3>6. Reads(buff', base + 12 * (j - 1) + 8, 4, Uint32(prefixes[j].order))
      <4>1. /\ Apart(base + 12 * (j - 1) + 8, 4, at, 12) /\ Apart(base + 12 * (j - 1) + 8, 4, lengthAt, 4)
            /\ Apart(base + 12 * (j - 1) + 8, 4, suffixAt, 12)
        BY <1>1, <1>2, <2>2 DEF Apart, at, lengthAt, suffixAt
      <4> QED
        BY <1>6, <3>3, <3>4, <4>1
    <3>7. Reads(buff', base + 12 * count + 4 * k, 4, Uint32(prefixes[j].size))
      <4>1. /\ Apart(base + 12 * count + 4 * k, 4, at, 12) /\ Apart(base + 12 * count + 4 * k, 4, lengthAt, 4)
            /\ Apart(base + 12 * count + 4 * k, 4, suffixAt, 12)
        BY <1>1, <1>2, <3>2 DEF Apart, at, lengthAt, suffixAt
      <4> QED
        BY <1>6, <3>3, <3>4, <4>1
    <3>8. Reads(buff', base + 20 * count + 12 * k, 12, Suffix(prefixes[j].hash))
      <4>1. /\ Apart(base + 20 * count + 12 * k, 12, at, 12) /\ Apart(base + 20 * count + 12 * k, 12, lengthAt, 4)
            /\ Apart(base + 20 * count + 12 * k, 12, suffixAt, 12)
        BY <1>1, <1>2, <3>2 DEF Apart, at, lengthAt, suffixAt
      <4> QED
        BY <1>6, <3>3, <3>4, <4>1
    <3> QED
      BY <3>5, <3>6, <3>7, <3>8 DEF IndexedIn, k
  <2> QED
    BY <2>1, <2>2
<1>10. OffsetInv' /\ FooterInv'
  BY <1>1, <1>5 DEF OffsetInv, FooterInv
<1> QED
  BY <1>7, <1>8, <1>9, <1>10 DEF Layout

\* The sum of the lengths starts at the first chunk.
LEMMA IndexDoneStep ==
  ASSUME TypeOK, AsDeclared, Layout, IndexDone, UNCHANGED asked
  PROVE  Layout'
<1>1. /\ pc = "index" /\ loop = count /\ pc' = "offsets" /\ loop' = 0 /\ currentOffset' = 0 /\ count \in Nat
      /\ UNCHANGED <<buff, pos, totalUncompressed, prefixes, base, chunks, asked>>
  BY Elements DEF IndexDone
<1>2. /\ ChunkInv' /\ RecordInv'
      /\ count' = count /\ EndOfData' = base /\ EndOfData = base /\ Len(chunks) = count
  BY <1>1, FrameWithoutWrites
<1>3. SizeInv'
  BY <1>1, <1>2 DEF Layout, SizeInv, EndOfFields
<1>4. IndexInv'
  <2> SUFFICES ASSUME NEW j \in 1..count PROVE IndexedIn(buff, j)
    BY <1>1, <1>2, IndexedMeans DEF IndexInv
  <2> QED
    BY <1>1, IndexedMeans DEF Layout, IndexInv
<1>5. OffsetInv' /\ FooterInv'
  <2>1. \A o \in 0..count - 1 : ~(o < 0)
    OBVIOUS
  <2> QED
    BY <1>1, <1>2, <2>1 DEF Layout, ChunkInv, OffsetInv, FooterInv
<1> QED
  BY <1>2, <1>3, <1>4, <1>5 DEF Layout

\* The length read back is the one of the chunk whose turn it is.
LEMMA WriteOffsetStep ==
  ASSUME TypeOK, AsDeclared, Layout, WriteOffset, UNCHANGED asked
  PROVE  Layout'
<1> DEFINE at == base + 16 * count + 4 * loop
           len == buff[lenOffset + loop * LengthSize][1][2]
           total == chunks[loop + 1].length + 4
<1>1. /\ pc = "offsets" /\ loop \in Nat /\ loop < count /\ base \in Nat /\ count \in Nat
      /\ pos = base + 12 * count /\ Len(chunks) = count
      /\ maxTableSize \in Nat /\ base + 32 * count + 20 <= maxTableSize
      /\ IntWord \in Nat /\ base < IntWord /\ EndOfData = base
  <2>1. pc = "offsets" /\ loop \in Nat /\ loop < count /\ base \in Nat /\ SizeInv
    BY DEF WriteOffset, TypeOK, Layout
  <2>2. EndOfData = base /\ pos = base + 12 * count /\ Len(chunks) = count
    BY <2>1 DEF EndOfData, SizeInv, PrefixTupleSize
  <2>3. /\ count \in Nat /\ maxTableSize \in Nat /\ base + 32 * count + 20 <= maxTableSize
        /\ 2 * maxTableSize < IntWord /\ IntWord \in Nat
    BY <2>1, <2>2, EndOfTable
  <2>4. base < IntWord
    BY <2>1, <2>3
  <2> QED
    BY <2>1, <2>2, <2>3, <2>4
<1>2. /\ offsetOffset + loop * OffsetSize = at /\ lenOffset + loop * LengthSize = base + 12 * count + 4 * loop
      /\ at \in Nat /\ at + 4 <= base + 20 * count
  <2>1. offsetOffset = base + 16 * count /\ lenOffset = base + 12 * count
    BY Positions
  <2>2. loop * OffsetSize = 4 * loop /\ loop * LengthSize = 4 * loop
    BY <1>1 DEF OffsetSize, LengthSize
  <2> QED
    BY <1>1, <2>1, <2>2
<1>3. Room(at, OffsetSize) /\ Room(base + 12 * count + 4 * loop, LengthSize)
  BY <1>1 DEF Room, OffsetSize, LengthSize
<1>4. /\ buff' = Write(buff, at, 4, Uint32(currentOffset))
      /\ currentOffset' = (currentOffset + len) % IntWord
      /\ loop' = loop + 1
      /\ UNCHANGED <<pos, totalUncompressed, prefixes, pc, base, chunks>>
  BY <1>2, <1>3 DEF WriteOffset, OffsetSize
<1> HIDE DEF at
<1>5. /\ chunks[loop + 1].first \in Nat /\ total \in Nat /\ chunks[loop + 1].first + total <= base
      /\ loop + 1 # count => chunks[loop + 2].first = chunks[loop + 1].first + total
  <2> DEFINE c == loop + 1
  <2>1. c \in 1..Len(chunks) /\ loop + 2 = c + 1
    BY <1>1
  <2>2. chunks[c].first \in Nat /\ chunks[c].length \in Nat
    BY <2>1, Elements
  <2>3. /\ chunks[c].first + chunks[c].length + 4 <= base
        /\ c # count => chunks[c].first + chunks[c].length + 4 = chunks[c + 1].first
    BY <1>1, <2>1 DEF Layout, ChunkInv, CheckSumSize
  <2>4. chunks[c].first + chunks[c].length + 4 = chunks[c].first + (chunks[c].length + 4)
    BY <2>2
  <2> QED
    BY <2>1, <2>2, <2>3, <2>4
<1>6. len = total
  <2>1. PICK j \in 1..count : prefixes[j].order = loop
    BY <1>1 DEF Layout, RecordInv
  <2>2. Reads(buff, base + 12 * count + 4 * loop, 4, Uint32(prefixes[j].size))
    BY <1>1, <2>1, IndexedMeans DEF Layout, IndexInv, IndexedIn
  <2>3. buff[base + 12 * count + 4 * loop] = <<Uint32(prefixes[j].size), 0>>
    <3>1. 0 \in 0..4 - 1 /\ base + 12 * count + 4 * loop + 0 = base + 12 * count + 4 * loop
      BY <1>1
    <3> QED
      BY <2>2, <3>1 DEF Reads
  <2>4. prefixes[j].size = total % IntWord
    BY <1>1, <2>1 DEF Layout, RecordInv, CheckSumSize
  <2>5. total % IntWord = total /\ (total % IntWord) % IntWord = total
    <3>1. \A x \in Nat : x < IntWord => x % IntWord = x
      BY <1>1
    <3>2. total \in Nat /\ total < IntWord
      <4> HIDE DEF total
      <4> QED
        BY <1>1, <1>5
    <3> HIDE DEF total
    <3> QED
      BY <3>1, <3>2
  <2> QED
    BY <1>2, <2>3, <2>4, <2>5 DEF Uint32
<1> HIDE DEF len, total
<1>7. currentOffset = chunks[loop + 1].first
  BY <1>1 DEF Layout, OffsetInv
<1>8. currentOffset' = currentOffset + total
  <2>1. \A x \in Nat : x < IntWord => x % IntWord = x
    BY <1>1
  <2>2. currentOffset + total \in Nat /\ currentOffset + total < IntWord
    BY <1>1, <1>5, <1>7
  <2> QED
    BY <1>4, <1>6, <2>1, <2>2
<1>9. /\ Reads(buff', at, 4, Uint32(currentOffset))
      /\ \A from, length \in Int : \A old :
           Reads(buff, from, length, old) /\ Apart(from, length, at, 4) => Reads(buff', from, length, old)
  BY <1>2, <1>4, WriteThere, WriteElsewhere DEF Apart
<1>10. /\ ChunkInv' /\ RecordInv'
       /\ count' = count /\ EndOfData' = base /\ EndOfData = base
  <2>1. ASSUME NEW from \in Int, NEW length \in Int, NEW old,
               Reads(buff, from, length, old), from + length <= base
        PROVE  Reads(buff', from, length, old)
    <3>1. Apart(from, length, at, 4)
      BY <1>1, <2>1 DEF Apart, at
    <3> QED
      BY <1>9, <2>1, <3>1
  <2> QED
    BY <1>1, <1>4, <2>1, Frame
<1>11. SizeInv'
  <2>1. EndOfFields = base + 32 * count /\ EndOfFields' = base + 32 * count
    BY <1>1, <1>4, <1>10 DEF EndOfFields
  <2>2. DOMAIN buff' \subseteq 0..EndOfFields' - 1
    <3> DEFINE bound == base + 32 * count
    <3>1. bound \in Int /\ DOMAIN buff \subseteq 0..bound - 1 /\ at + 4 <= bound
      BY <1>1, <1>2, <2>1 DEF Layout, SizeInv
    <3>2. EndOfFields' = bound
      BY <2>1
    <3> HIDE DEF bound
    <3> QED
      BY <1>2, <1>4, <3>1, <3>2, WriteBelow
  <2>3. loop' <= count' /\ pos' = base' + PrefixTupleSize * count'
    BY <1>1, <1>4, <1>10 DEF PrefixTupleSize
  <2> QED
    BY <1>1, <1>4, <1>10, <2>2, <2>3 DEF Layout, SizeInv
<1>12. IndexInv'
  <2> SUFFICES ASSUME NEW j \in 1..count PROVE IndexedIn(buff', j)
    BY <1>1, <1>4, <1>10, IndexedMeans DEF IndexInv
  <2> DEFINE k == prefixes[j].order
  <2>1. k \in Nat /\ k < count
    BY Positions DEF Layout, RecordInv
  <2>2. IndexedIn(buff, j)
    BY <1>1, IndexedMeans DEF Layout, IndexInv
  <2> HIDE DEF k
  <2>3. /\ Reads(buff, base + 12 * (j - 1), 8, Uint64(prefixes[j].prefix))
        /\ Reads(buff, base + 12 * (j - 1) + 8, 4, Uint32(prefixes[j].order))
        /\ Reads(buff, base + 12 * count + 4 * k, 4, Uint32(prefixes[j].size))
        /\ Reads(buff, base + 20 * count + 12 * k, 12, Suffix(prefixes[j].hash))
    BY <2>2 DEF IndexedIn, k
  <2>4. /\ base + 12 * (j - 1) \in Int /\ base + 12 * (j - 1) + 8 \in Int
        /\ base + 12 * count + 4 * k \in Int /\ base + 20 * count + 12 * k \in Int
    BY <1>1, <2>1
  <2>5. /\ Apart(base + 12 * (j - 1), 8, at, 4) /\ Apart(base + 12 * (j - 1) + 8, 4, at, 4)
        /\ Apart(base + 12 * count + 4 * k, 4, at, 4) /\ Apart(base + 20 * count + 12 * k, 12, at, 4)
    BY <1>1, <2>1 DEF Apart, at
  <2>6. /\ Reads(buff', base + 12 * (j - 1), 8, Uint64(prefixes[j].prefix))
        /\ Reads(buff', base + 12 * (j - 1) + 8, 4, Uint32(prefixes[j].order))
    BY <1>9, <2>3, <2>4, <2>5
  <2>7. /\ Reads(buff', base + 12 * count + 4 * k, 4, Uint32(prefixes[j].size))
        /\ Reads(buff', base + 20 * count + 12 * k, 12, Suffix(prefixes[j].hash))
    BY <1>9, <2>3, <2>4, <2>5
  <2> QED
    BY <2>6, <2>7 DEF IndexedIn, k
<1>13. OffsetInv'
  <2>1. loop' < count => currentOffset' = chunks[loop' + 1].first
    <3>1. loop + 1 < count => loop + 1 # count /\ loop + 1 + 1 = loop + 2
      BY <1>1
    <3> QED
      BY <1>4, <1>5, <1>7, <1>8, <3>1
  <2>2. ASSUME NEW o \in 0..count - 1, o < loop + 1
        PROVE  Reads(buff', base + 16 * count + 4 * o, 4, Uint32(chunks[o + 1].first))
    <3>1. CASE o = loop
      BY <1>7, <1>9, <3>1 DEF at
    <3>2. CASE o < loop
      <4>1. Reads(buff, base + 16 * count + 4 * o, 4, Uint32(chunks[o + 1].first))
        BY <1>1, <3>2, Positions DEF Layout, OffsetInv, OffsetSize
      <4>2. Apart(base + 16 * count + 4 * o, 4, at, 4) /\ base + 16 * count + 4 * o \in Int
        BY <1>1, <3>2 DEF Apart, at
      <4> QED
        BY <1>9, <4>1, <4>2
    <3> QED
      BY <1>1, <2>2, <3>1, <3>2
  <2>3. offsetOffset' = base + 16 * count
    <3>1. offsetOffset' = offsetOffset
      BY <1>4, <1>10 DEF offsetOffset, lenOffset
    <3> QED
      BY <3>1, Positions
  <2> QED
    BY <1>1, <1>4, <1>10, <2>1, <2>2, <2>3 DEF OffsetInv, OffsetSize, Uint32
<1>14. FooterInv'
  BY <1>1, <1>4 DEF FooterInv
<1> QED
  BY <1>10, <1>11, <1>12, <1>13, <1>14 DEF Layout

\* After the last offset everything but the footer is there.
LEMMA OffsetsDoneStep ==
  ASSUME TypeOK, AsDeclared, Layout, OffsetsDone, UNCHANGED asked
  PROVE  Layout'
<1>1. /\ pc = "offsets" /\ loop = count /\ pc' = "footer" /\ pos' = base + 32 * count /\ count \in Nat
      /\ UNCHANGED <<buff, totalUncompressed, prefixes, loop, base, currentOffset, chunks, asked>>
  BY Positions DEF OffsetsDone, SuffixSize
<1>2. /\ ChunkInv' /\ RecordInv'
      /\ count' = count /\ EndOfData' = base /\ EndOfData = base /\ Len(chunks) = count
  BY <1>1, FrameWithoutWrites
<1>3. EndOfFields' = base + 32 * count /\ EndOfFields = base + 32 * count
  BY <1>1, <1>2 DEF EndOfFields
<1>4. SizeInv'
  BY <1>1, <1>2, <1>3 DEF Layout, SizeInv
<1>5. IndexInv'
  <2> SUFFICES ASSUME NEW j \in 1..count PROVE IndexedIn(buff, j)
    BY <1>1, <1>2, IndexedMeans DEF IndexInv
  <2> QED
    BY <1>1, IndexedMeans DEF Layout, IndexInv
<1>6. OffsetInv' /\ FooterInv'
  <2>1. \A o \in 0..count - 1 : Reads(buff, offsetOffset + OffsetSize * o, OffsetSize, Uint32(chunks[o + 1].first))
    <3>1. \A o \in 0..count - 1 : o < loop
      BY <1>1
    <3> QED
      BY <1>1, <3>1 DEF Layout, OffsetInv
  <2>2. offsetOffset' = offsetOffset
    BY <1>1, <1>2 DEF offsetOffset, lenOffset
  <2> QED
    BY <1>1, <1>2, <2>1, <2>2 DEF OffsetInv, FooterInv, Reads, Uint32
<1> QED
  BY <1>2, <1>4, <1>5, <1>6 DEF Layout

\* The footer goes after all of it.
LEMMA WriteFooterStep ==
  ASSUME TypeOK, AsDeclared, Layout, WriteFooter, UNCHANGED asked
  PROVE  Layout'
<1> DEFINE at == base + 32 * count
<1>1. /\ pc = "footer" /\ base \in Nat /\ count \in Nat /\ pos = at /\ Len(chunks) = count
      /\ maxTableSize \in Nat /\ at + 20 <= maxTableSize /\ EndOfData = base
  <2>1. pc = "footer" /\ base \in Nat /\ SizeInv /\ totalUncompressed \in Nat
    BY DEF WriteFooter, TypeOK, Layout
  <2>2. EndOfData = base /\ pos = at /\ Len(chunks) = count
    BY <2>1 DEF EndOfData, EndOfFields, SizeInv
  <2> QED
    BY <2>1, <2>2, EndOfTable
<1>2. Room(pos, 4) /\ Room(pos + 4, 8) /\ Room(pos + 12, 8)
  BY <1>1 DEF Room
<1>3. /\ buff' = WithFooter(buff, at, Uint32(count), Uint64(totalUncompressed), Magic)
      /\ pos' = at + 20 /\ pc' = "done"
      /\ UNCHANGED <<totalUncompressed, prefixes, loop, base, currentOffset, chunks>>
  BY <1>1, <1>2 DEF WriteFooter, WithFooter, FooterSize
<1>4. /\ Reads(buff', at, 4, Uint32(count)) /\ Reads(buff', at + 4, 8, Uint64(totalUncompressed))
      /\ Reads(buff', at + 12, 8, Magic)
      /\ \A from, length \in Int : \A old :
           Reads(buff, from, length, old) /\ from + length <= at => Reads(buff', from, length, old)
      /\ DOMAIN buff \subseteq 0..at - 1 => DOMAIN buff' \subseteq 0..at + 19
  <2> DEFINE after == WithFooter(buff, at, Uint32(count), Uint64(totalUncompressed), Magic)
  <2>1. at \in Nat
    BY <1>1
  <2> HIDE DEF at
  <2>2. /\ Reads(after, at, 4, Uint32(count)) /\ Reads(after, at + 4, 8, Uint64(totalUncompressed))
        /\ Reads(after, at + 12, 8, Magic)
        /\ \A from, length \in Int : \A old :
             Reads(buff, from, length, old) /\ from + length <= at => Reads(after, from, length, old)
        /\ DOMAIN buff \subseteq 0..at - 1 => DOMAIN after \subseteq 0..at + 19
    BY <2>1, FooterWrites, Zenon
  <2>3. buff' = after
    BY <1>3
  <2> HIDE DEF after
  <2> QED
    BY <2>2, <2>3
<1>5. /\ ChunkInv' /\ RecordInv'
      /\ count' = count /\ EndOfData' = base
  <2>1. \A from, length \in Int : \A old :
          Reads(buff, from, length, old) /\ from + length <= base => Reads(buff', from, length, old)
    BY <1>1, <1>4
  <2> QED
    BY <1>1, <1>3, <2>1, Frame
<1>6. SizeInv'
  <2>1. EndOfFields = at /\ EndOfFields' = at + 20
    BY <1>1, <1>3, <1>5 DEF EndOfFields, FooterSize
  <2>2. DOMAIN buff' \subseteq 0..EndOfFields' - 1
    <3>1. EndOfFields' - 1 = at + 19
      BY <1>1, <2>1
    <3> QED
      BY <1>4, <2>1, <3>1 DEF Layout, SizeInv
  <2> QED
    BY <1>1, <1>3, <1>5, <2>1, <2>2 DEF Layout, SizeInv
<1>7. IndexInv'
  <2> SUFFICES ASSUME NEW j \in 1..count PROVE IndexedIn(buff', j)
    BY <1>1, <1>3, <1>5, IndexedMeans DEF IndexInv
  <2> DEFINE k == prefixes[j].order
  <2>1. k \in Nat /\ k < count
    BY Positions DEF Layout, RecordInv
  <2>2. IndexedIn(buff, j)
    BY <1>1, IndexedMeans DEF Layout, IndexInv
  <2> HIDE DEF k
  <2>3. /\ base + 12 * (j - 1) \in Int /\ base + 12 * (j - 1) + 8 \in Int
        /\ base + 12 * count + 4 * k \in Int /\ base + 20 * count + 12 * k \in Int
        /\ base + 12 * (j - 1) + 8 <= at /\ base + 12 * (j - 1) + 8 + 4 <= at
        /\ base + 12 * count + 4 * k + 4 <= at /\ base + 20 * count + 12 * k + 12 <= at
    BY <1>1, <2>1
  <2> HIDE DEF at
  <2> QED
    BY <1>4, <2>2, <2>3 DEF IndexedIn, k
<1>8. OffsetInv'
  <2>1. ASSUME NEW o \in 0..count - 1
        PROVE  Reads(buff', offsetOffset + OffsetSize * o, OffsetSize, Uint32(chunks[o + 1].first))
    <3>1. Reads(buff, offsetOffset + OffsetSize * o, OffsetSize, Uint32(chunks[o + 1].first))
      BY <1>1 DEF Layout, OffsetInv
    <3>2. offsetOffset + OffsetSize * o \in Int /\ offsetOffset + OffsetSize * o + OffsetSize <= at
          /\ OffsetSize \in Int
      <4>1. offsetOffset = base + 16 * count /\ o \in Int /\ o <= count - 1
        BY <1>1, Positions
      <4> QED
        BY <1>1, <4>1 DEF OffsetSize
    <3> QED
      BY <1>4, <3>1, <3>2
  <2>2. offsetOffset' = offsetOffset
    BY <1>3, <1>5 DEF offsetOffset, lenOffset
  <2> QED
    BY <1>3, <1>5, <2>1, <2>2 DEF OffsetInv, Uint32
<1>9. FooterInv'
  BY <1>1, <1>3, <1>4, <1>5 DEF FooterInv, Uint32, Uint64, Magic
<1> QED
  BY <1>5, <1>6, <1>7, <1>8, <1>9 DEF Layout
-----------------------------------------------------------------------------
\* What the library returns is a length.
LEMMA CompressedIsLength ==
  ASSUME NEW size \in Sizes, NEW c \in Compressed(size)
  PROVE  c \in Nat
<1>1. size \in Nat /\ maxTableSize - pos = maxTableSize - pos
  BY TableWriterAssumption
<1>2. CASE c # 0
  <2> DEFINE n == ToInt(size) room == ToInt(maxTableSize - pos)
  <2>1. c \in LZ4_compress_default(n, room)
    BY <1>2 DEF Compressed
  <2>2. n \in Int
    BY <1>1, Lz4Assumption DEF ToInt
  <2> HIDE DEF n, room
  <2>3. n \in 0..MaxInput /\ c \in Outputs[n]
    BY <1>2, <2>1, <2>2, Lz4Assumption DEF LZ4_compress_default
  <2>4. c \in 1..Worst(n)
    BY <2>3, Lz4Assumption
  <2> QED
    BY <2>4
<1> QED
  BY <1>2

LEMMA TypeStep ==
  ASSUME TypeOK, [Next]_vars
  PROVE  TypeOK'
<1> DEFINE P == [hash : Hash, prefix : Nat, order : Nat, size : Nat]
<1>0. /\ count \in Nat /\ IntWord \in Nat \ {0} /\ Prefix \in [Hash -> Nat]
      /\ lenOffset \in Nat /\ suffixOffset \in Nat
  BY Elements, Positions, TableWriterAssumption, Lz4Assumption
<1>1. ASSUME NEW h \in Hash, NEW size \in Sizes, AddChunk(h, size)
      PROVE  TypeOK'
  <2>1. PICK c \in Compressed(size) :
          \/ Throw
          \/ /\ totalUncompressed' = totalUncompressed + size
             /\ \/ /\ pos' = pos + c + CheckSumSize
                   /\ prefixes' = Append(prefixes, Rec(h, Len(prefixes), c + CheckSumSize))
                   /\ chunks' = Append(chunks, [hash |-> h, first |-> pos, length |-> c])
                   /\ pc' = pc
                \/ /\ pos' = pos + c
                   /\ UNCHANGED <<prefixes, chunks>>
                   /\ pc' = "threw"
             /\ UNCHANGED <<loop, base, currentOffset>>
    BY <1>1 DEF AddChunk
  <2>2. c \in Nat /\ size \in Nat
    BY CompressedIsLength, TableWriterAssumption
  <2>3. asked' \in [number : Nat, bytes : Nat]
    <3>1. asked' = [number |-> asked.number + 1, bytes |-> asked.bytes + size]
      BY <1>1 DEF AddChunk
    <3> QED
      BY <2>2, <3>1 DEF TypeOK
  <2>4. Rec(h, Len(prefixes), c + CheckSumSize) \in P
    BY <1>0, <2>2 DEF Rec, CheckSumSize, count
  <2>5. [hash |-> h, first |-> pos, length |-> c] \in [hash : Hash, first : Nat, length : Nat]
    BY <2>2 DEF TypeOK
  <2>6. CASE Throw
    BY <2>3, <2>6 DEF TypeOK, Throw
  <2>7. CASE ~Throw
    <3> DEFINE C == [hash : Hash, first : Nat, length : Nat]
               rec == Rec(h, Len(prefixes), c + CheckSumSize)
               chunk == [hash |-> h, first |-> pos, length |-> c]
    <3>0. /\ totalUncompressed' = totalUncompressed + size
          /\ pos' \in {pos + c + CheckSumSize, pos + c} /\ pc' \in {pc, "threw"}
          /\ prefixes' \in {prefixes, Append(prefixes, rec)} /\ chunks' \in {chunks, Append(chunks, chunk)}
          /\ UNCHANGED <<loop, base>>
      BY <2>1, <2>7
    <3>4. prefixes \in Seq(P) /\ chunks \in Seq(C) /\ rec \in P /\ chunk \in C
      BY <2>4, <2>5 DEF TypeOK
    <3> HIDE DEF P, C, rec, chunk
    <3>1. prefixes' \in Seq(P)
      BY <3>0, <3>4, AppendProperties
    <3>2. chunks' \in Seq(C)
      BY <3>0, <3>4, AppendProperties
    <3>3. /\ pos' \in Nat /\ totalUncompressed' \in Nat /\ loop' \in Nat /\ base' \in Nat
          /\ pc' \in {"adding", "index", "offsets", "footer", "done", "threw"}
      BY <2>2, <3>0 DEF TypeOK, CheckSumSize
    <3> USE DEF P, C
    <3> QED
      BY <2>3, <3>1, <3>2, <3>3 DEF TypeOK
  <2> QED
    BY <2>6, <2>7
<1>2. ASSUME Sort, UNCHANGED asked
      PROVE  TypeOK'
  <2>1. PICK f \in Bijection(1..count, 1..count) : prefixes' = [j \in 1..count |-> prefixes[f[j]]]
    BY <1>2 DEF Sort
  <2>2. f \in [1..count -> 1..count]
    BY <2>1 DEF Bijection, Injection
  <2>3. \A j \in 1..count : prefixes[f[j]] \in P
    BY <2>2, Elements
  <2> HIDE DEF P
  <2>4. prefixes' \in Seq(P)
    BY <1>0, <2>1, <2>3, SeqDef
  <2> QED
    BY <1>2, <2>4 DEF Sort, TypeOK, P
<1>3. ASSUME WriteRecord, UNCHANGED asked
      PROVE  TypeOK'
  <2>1. /\ pc' \in {pc, "threw"} /\ loop' \in {loop, loop + 1} /\ pos' \in {pos, pos + 12}
        /\ UNCHANGED <<totalUncompressed, prefixes, base, chunks>>
    BY <1>3 DEF WriteRecord, Throw, PrefixTupleSize
  <2> QED
    BY <1>3, <2>1 DEF TypeOK
<1>4. ASSUME IndexDone, UNCHANGED asked
      PROVE  TypeOK'
  BY <1>4 DEF IndexDone, TypeOK
<1>5. ASSUME WriteOffset, UNCHANGED asked
      PROVE  TypeOK'
  <2>1. /\ pc' \in {pc, "threw"} /\ loop' \in {loop, loop + 1}
        /\ UNCHANGED <<pos, totalUncompressed, prefixes, base, chunks>>
    BY <1>5 DEF WriteOffset, Throw
  <2> QED
    BY <1>5, <2>1 DEF TypeOK
<1>6. ASSUME OffsetsDone, UNCHANGED asked
      PROVE  TypeOK'
  <2>1. pos' \in Nat
    BY <1>0, <1>6 DEF OffsetsDone, SuffixSize
  <2> QED
    BY <1>6, <2>1 DEF OffsetsDone, TypeOK
<1>7. ASSUME WriteFooter, UNCHANGED asked
      PROVE  TypeOK'
  BY <1>7 DEF WriteFooter, Throw, TypeOK, FooterSize
<1>8. ASSUME UNCHANGED vars
      PROVE  TypeOK'
  BY <1>8 DEF vars, TypeOK
<1> QED
  BY <1>1, <1>2, <1>3, <1>4, <1>5, <1>6, <1>7, <1>8 DEF Next

(***************************************************************************)
(* Everything written is where it should be, for as long as the chunks are *)
(* as declared (addChunk, writeIndex and writeFooter, lines 37 to 102).    *)
(***************************************************************************)
THEOREM Invariance == Spec => []IInv
<1>1. Init => IInv
  <2> SUFFICES ASSUME Init PROVE IInv
    OBVIOUS
  <2>1. TypeOK
    <3>1. asked \in [number : Nat, bytes : Nat]
      BY DEF Init
    <3> QED
      BY <3>1 DEF Init, TypeOK
  <2>2. /\ count = 0 /\ Len(chunks) = 0 /\ pc = "adding" /\ pos = 0 /\ totalUncompressed = 0
        /\ asked.number = 0 /\ asked.bytes = 0 /\ DOMAIN buff = {}
    BY DEF Init, count
  <2>3. SizeInv
    BY <2>2 DEF SizeInv, EndOfData, EndOfFields
  <2>4. ChunkInv /\ RecordInv
    BY <2>2 DEF ChunkInv, RecordInv, EndOfData
  <2>5. IndexInv /\ OffsetInv /\ FooterInv
    BY <2>2 DEF IndexInv, OffsetInv, FooterInv
  <2> QED
    BY <2>1, <2>3, <2>4, <2>5 DEF IInv, Layout
<1>2. IInv /\ [Next]_vars => IInv'
  <2> SUFFICES ASSUME IInv, [Next]_vars PROVE IInv'
    OBVIOUS
  <2>1. TypeOK /\ TypeOK'
    BY TypeStep DEF IInv
  <2>2. ASSUME Next, AsDeclared'
        PROVE  Layout'
    <3>1. AsDeclared /\ Layout
      BY <2>1, <2>2, DeclaredBefore DEF IInv
    <3>2. ASSUME NEW h \in Hash, NEW size \in Sizes, AddChunk(h, size)
          PROVE  Layout'
      BY <2>1, <2>2, <3>1, <3>2, AddChunkStep
    <3>3. ASSUME Sort \/ WriteRecord \/ IndexDone \/ WriteOffset \/ OffsetsDone \/ WriteFooter, UNCHANGED asked
          PROVE  Layout'
      BY <2>1, <3>1, <3>3, SortStep, WriteRecordStep, IndexDoneStep, WriteOffsetStep, OffsetsDoneStep,
         WriteFooterStep
    <3> QED
      BY <2>2, <3>2, <3>3 DEF Next
  <2>3. CASE UNCHANGED vars
    <3>1. IInv' <=> IInv
      BY <2>3 DEF vars, IInv, TypeOK, AsDeclared, Layout, SizeInv, ChunkInv, RecordInv, IndexInv,
         OffsetInv, FooterInv, EndOfData, EndOfFields, Sorted, Indexed, LengthAt, SuffixAt, lenOffset,
         offsetOffset, suffixOffset, count, Reads, Uint32, Uint64, Suffix, Data, Crc, Magic
    <3> QED
      BY <3>1
  <2> QED
    BY <2>1, <2>2, <2>3 DEF IInv
<1> QED
  BY <1>1, <1>2, PTL DEF Spec

(***************************************************************************)
(* The buffer of the constructor holds whatever was declared.              *)
(***************************************************************************)
THEOREM BufferIsSufficient == Spec => []BufferSuffices
<1>1. IInv => BufferSuffices
  <2> SUFFICES ASSUME IInv, AsDeclared PROVE pc # "threw" /\ \A p \in DOMAIN buff : p < maxTableSize
    BY DEF BufferSuffices
  <2>1. TypeOK /\ SizeInv
    BY DEF IInv, Layout
  <2>2. /\ count \in Nat /\ EndOfData \in Nat /\ maxTableSize \in Nat
        /\ EndOfData + 32 * count + 20 <= maxTableSize
    BY <2>1, EndOfTable
  <2>3. EndOfFields \in Nat /\ EndOfFields <= maxTableSize
    BY <2>1, <2>2 DEF EndOfFields, EndOfData, FooterSize, TypeOK
  <2>4. pc # "threw" /\ DOMAIN buff \subseteq 0..EndOfFields - 1
    BY <2>1 DEF SizeInv
  <2> QED
    BY <2>2, <2>3, <2>4
<1> QED
  BY <1>1, Invariance, PTL

\* Where a reader looks is where the writer wrote.
LEMMA ReaderPositions ==
  ASSUME IInv, AsDeclared, pc = "done"
  PROVE  /\ TypeOK /\ Layout /\ Len(chunks) = count /\ count \in Nat /\ base \in Nat
         /\ Footer = base + 32 * count /\ Suffixes(count) = suffixOffset
         /\ Offsets(count) = offsetOffset /\ Lengths(count) = base + 12 * count /\ Tuples(count) = base
<1>1. TypeOK /\ Layout /\ Len(chunks) = count /\ count \in Nat /\ base \in Nat
  <2>1. TypeOK /\ Layout
    BY DEF IInv
  <2>2. Len(chunks) = count
    BY <2>1 DEF Layout, SizeInv
  <2> QED
    BY <2>1, <2>2, Elements DEF TypeOK
<1>2. pos = base + 32 * count + 20
  BY <1>1 DEF Layout, SizeInv, EndOfFields, FooterSize
<1>3. Footer = base + 32 * count
  BY <1>1, <1>2 DEF Footer, FooterSize
<1>4. Suffixes(count) = base + 20 * count
  BY <1>1, <1>3 DEF Suffixes, SuffixSize
<1>5. Offsets(count) = base + 16 * count
  BY <1>1, <1>4 DEF Offsets, OffsetSize
<1>6. Lengths(count) = base + 12 * count
  BY <1>1, <1>5 DEF Lengths, LengthSize
<1>7. Tuples(count) = base
  BY <1>1, <1>6 DEF Tuples, PrefixTupleSize
<1> QED
  BY <1>1, <1>3, <1>4, <1>5, <1>6, <1>7, Positions

\* The record of a chunk, in numbers and where the reader looks.
LEMMA ReaderRecord ==
  ASSUME IInv, AsDeclared, pc = "done", NEW j \in 1..count
  PROVE  LET o == prefixes[j].order IN
         /\ o \in 0..count - 1 /\ o + 1 \in 1..Len(chunks)
         /\ prefixes[j].hash = chunks[o + 1].hash /\ prefixes[j].hash \in Hash
         /\ Reads(buff, Tuples(count) + PrefixTupleSize * (j - 1), PrefixSize, Uint64(Prefix[prefixes[j].hash]))
         /\ Reads(buff, Tuples(count) + PrefixTupleSize * (j - 1) + PrefixSize, 4, Uint32(o))
         /\ Reads(buff, Lengths(count) + LengthSize * o, LengthSize, Uint32(prefixes[j].size))
         /\ Reads(buff, Suffixes(count) + SuffixSize * o, SuffixSize, Suffix(prefixes[j].hash))
<1> DEFINE o == prefixes[j].order
<1>1. TypeOK /\ Layout /\ count \in Nat
  BY ReaderPositions
<1>2. /\ o \in Nat /\ o < count /\ prefixes[j].hash = chunks[o + 1].hash
      /\ prefixes[j].prefix = Prefix[prefixes[j].hash] /\ prefixes[j].hash \in Hash
  BY <1>1, Elements DEF Layout, RecordInv
<1>3. o \in 0..count - 1 /\ o + 1 \in 1..Len(chunks)
  BY <1>1, <1>2, ReaderPositions
<1>4. IndexedIn(buff, j)
  BY <1>1, IndexedMeans DEF Layout, IndexInv
<1>5. /\ Tuples(count) = base /\ Lengths(count) = base + 12 * count /\ Suffixes(count) = base + 20 * count
  BY <1>1, ReaderPositions, Positions
<1> QED
  BY <1>2, <1>3, <1>4, <1>5 DEF IndexedIn, PrefixTupleSize, PrefixSize, LengthSize, SuffixSize

(***************************************************************************)
(* Every chunk can be found in a finished table.                           *)
(***************************************************************************)
THEOREM Finding == Spec => []EveryChunkIsFound
<1>1. IInv => EveryChunkIsFound
  <2> SUFFICES ASSUME IInv, pc = "done", AsDeclared
               PROVE  /\ Reads(buff, Footer, 4, Uint32(count))
                      /\ Reads(buff, Footer + 4, 8, Uint64(totalUncompressed))
                      /\ Reads(buff, Footer + 12, 8, Magic)
                      /\ \A c \in 1..count :
                           LET chunk == chunks[c]
                           IN  /\ c - 1 \in Ordinals(count, chunk.hash)
                               /\ Reads(buff, Lengths(count) + LengthSize * (c - 1), LengthSize,
                                        Uint32(chunk.length + CheckSumSize))
                               /\ Reads(buff, Offsets(count) + OffsetSize * (c - 1), OffsetSize, Uint32(chunk.first))
                               /\ Reads(buff, chunk.first, chunk.length, Data(c - 1))
                               /\ Reads(buff, chunk.first + chunk.length, CheckSumSize, Crc(c - 1))
    BY ReaderPositions DEF EveryChunkIsFound
  <2>1. /\ TypeOK /\ Layout /\ Len(chunks) = count /\ count \in Nat /\ base \in Nat
        /\ Footer = base + 32 * count
    BY ReaderPositions
  <2>2. /\ Reads(buff, Footer, 4, Uint32(count)) /\ Reads(buff, Footer + 4, 8, Uint64(totalUncompressed))
        /\ Reads(buff, Footer + 12, 8, Magic)
    BY <2>1 DEF Layout, FooterInv
  <2>3. ASSUME NEW c \in 1..count
        PROVE  LET chunk == chunks[c]
               IN  /\ c - 1 \in Ordinals(count, chunk.hash)
                   /\ Reads(buff, Lengths(count) + LengthSize * (c - 1), LengthSize,
                            Uint32(chunk.length + CheckSumSize))
                   /\ Reads(buff, Offsets(count) + OffsetSize * (c - 1), OffsetSize, Uint32(chunk.first))
                   /\ Reads(buff, chunk.first, chunk.length, Data(c - 1))
                   /\ Reads(buff, chunk.first + chunk.length, CheckSumSize, Crc(c - 1))
    <3> DEFINE o == c - 1 chunk == chunks[c]
    <3>1. o \in 0..count - 1 /\ o + 1 = c
      BY <2>1
    <3>2. PICK j \in 1..count : prefixes[j].order = o
      BY <2>1, <3>1 DEF Layout, RecordInv
    <3>3. /\ prefixes[j].hash = chunk.hash
          /\ Reads(buff, Tuples(count) + PrefixTupleSize * (j - 1), PrefixSize, Uint64(Prefix[chunk.hash]))
          /\ Reads(buff, Tuples(count) + PrefixTupleSize * (j - 1) + PrefixSize, 4, Uint32(o))
          /\ Reads(buff, Lengths(count) + LengthSize * o, LengthSize, Uint32(prefixes[j].size))
          /\ Reads(buff, Suffixes(count) + SuffixSize * o, SuffixSize, Suffix(chunk.hash))
      BY <3>1, <3>2, ReaderRecord
    <3>4. o \in Ordinals(count, chunk.hash)
      <4>1. j - 1 \in 0..count - 1
        BY <2>1
      <4> QED
        BY <3>1, <3>3, <4>1 DEF Ordinals
    <3>5. Uint32(prefixes[j].size) = Uint32(chunk.length + CheckSumSize)
      <4>1. prefixes[j].size = (chunk.length + CheckSumSize) % IntWord
        BY <2>1, <3>1, <3>2 DEF Layout, RecordInv
      <4>2. chunk.length + CheckSumSize \in Nat /\ IntWord \in Nat \ {0}
        BY <2>1, Elements, Lz4Assumption DEF CheckSumSize
      <4>3. \A x \in Nat : (x % IntWord) % IntWord = x % IntWord
        BY <4>2
      <4> QED
        BY <4>1, <4>2, <4>3 DEF Uint32
    <3>6. Reads(buff, Offsets(count) + OffsetSize * o, OffsetSize, Uint32(chunk.first))
      BY <2>1, <3>1, ReaderPositions DEF Layout, OffsetInv
    <3>7. /\ Reads(buff, chunk.first, chunk.length, Data(o))
          /\ Reads(buff, chunk.first + chunk.length, CheckSumSize, Crc(o))
      BY <2>1 DEF Layout, ChunkInv
    <3> QED
      BY <3>3, <3>4, <3>5, <3>6, <3>7
  <2> QED
    BY <2>2, <2>3
<1> QED
  BY <1>1, Invariance, PTL

(***************************************************************************)
(* No address leads to a chunk of another.                                 *)
(***************************************************************************)
THEOREM FindingNothingElse == Spec => []NothingElseIsFound
<1>1. IInv => NothingElseIsFound
  <2> SUFFICES ASSUME IInv, pc = "done", AsDeclared, NEW h \in Hash, NEW o \in Ordinals(count, h)
               PROVE  chunks[o + 1].hash = h
    BY ReaderPositions DEF NothingElseIsFound
  <2>1. count \in Nat /\ o \in 0..count - 1 /\ IntWord \in Nat /\ count < IntWord
    <3>1. TypeOK /\ SizeInv /\ o \in 0..count - 1
      BY DEF IInv, Layout, Ordinals
    <3> QED
      BY <3>1, EndOfTable
  <2>2. PICK i \in 0..count - 1 :
          /\ Reads(buff, Tuples(count) + PrefixTupleSize * i, PrefixSize, Uint64(Prefix[h]))
          /\ Reads(buff, Tuples(count) + PrefixTupleSize * i + PrefixSize, 4, Uint32(o))
    BY DEF Ordinals
  <2>3. Reads(buff, Suffixes(count) + SuffixSize * o, SuffixSize, Suffix(h))
    BY DEF Ordinals
  <2> DEFINE j == i + 1
             p == prefixes[j].order
             g == prefixes[j].hash
  <2>4. j \in 1..count /\ j - 1 = i
    BY <2>1
  <2>5. /\ p \in 0..count - 1 /\ g = chunks[p + 1].hash /\ g \in Hash
        /\ Reads(buff, Tuples(count) + PrefixTupleSize * i, PrefixSize, Uint64(Prefix[g]))
        /\ Reads(buff, Tuples(count) + PrefixTupleSize * i + PrefixSize, 4, Uint32(p))
        /\ Reads(buff, Suffixes(count) + SuffixSize * p, SuffixSize, Suffix(g))
    BY <2>4, ReaderRecord
  <2> HIDE DEF p, g
  <2>6. \A at, width, v, w : 0 \in 0..width - 1 /\ Reads(buff, at, width, v) /\ Reads(buff, at, width, w) => v = w
    BY DEF Reads
  <2>7. 0 \in 0..PrefixSize - 1 /\ 0 \in 0..4 - 1 /\ 0 \in 0..SuffixSize - 1
    BY DEF PrefixSize, SuffixSize
  <2>8. Prefix[h] = Prefix[g]
    <3>1. Uint64(Prefix[h]) = Uint64(Prefix[g])
      BY <2>2, <2>5, <2>6, <2>7
    <3> QED
      BY <3>1 DEF Uint64
  <2>9. o = p
    <3>1. Uint32(o) = Uint32(p)
      BY <2>2, <2>5, <2>6, <2>7
    <3>2. o % IntWord = o /\ p % IntWord = p
      BY <2>1, <2>5
    <3> QED
      BY <3>1, <3>2 DEF Uint32
  <2>10. SuffixOf[h] = SuffixOf[g]
    <3>1. Suffix(h) = Suffix(g)
      BY <2>3, <2>5, <2>6, <2>7, <2>9
    <3> QED
      BY <3>1 DEF Suffix
  <2> QED
    BY <2>5, <2>8, <2>9, <2>10, TableWriterAssumption
<1> QED
  BY <1>1, Invariance, PTL

(***************************************************************************)
(* The prefixes of a finished table are in order.                          *)
(***************************************************************************)
THEOREM Sorting == Spec => []PrefixesAreSorted
<1>1. IInv => PrefixesAreSorted
  <2> SUFFICES ASSUME IInv, pc = "done", AsDeclared,
                      NEW i \in 0..count - 1, NEW k \in 0..count - 1, i < k
               PROVE  buff[Tuples(count) + PrefixTupleSize * i][1][2]
                        <= buff[Tuples(count) + PrefixTupleSize * k][1][2]
    BY ReaderPositions DEF PrefixesAreSorted
  <2>1. count \in Nat /\ base \in Nat /\ Tuples(count) = base /\ Layout
    BY ReaderPositions
  <2>2. ASSUME NEW l \in 0..count - 1
        PROVE  buff[Tuples(count) + PrefixTupleSize * l][1][2] = prefixes[l + 1].prefix
    <3>1. l + 1 \in 1..count /\ (l + 1) - 1 = l
      BY <2>1
    <3>2. Prefix[prefixes[l + 1].hash] = prefixes[l + 1].prefix
      BY <2>1, <3>1 DEF Layout, RecordInv
    <3>3. Reads(buff, Tuples(count) + PrefixTupleSize * l, PrefixSize, Uint64(prefixes[l + 1].prefix))
      BY <3>1, <3>2, ReaderRecord
    <3>4. 0 \in 0..PrefixSize - 1 /\ Tuples(count) + PrefixTupleSize * l + 0 = Tuples(count) + PrefixTupleSize * l
      BY <2>1 DEF PrefixSize, PrefixTupleSize
    <3> QED
      BY <3>3, <3>4 DEF Reads, Uint64
  <2>3. prefixes[i + 1].prefix <= prefixes[k + 1].prefix
    <3>1. i + 1 \in 1..count /\ k + 1 \in 1..count /\ i + 1 < k + 1
      BY <2>1
    <3>2. Sorted(prefixes)
      BY <2>1 DEF Layout, RecordInv
    <3>3. DOMAIN prefixes = 1..count
      BY DEF IInv, TypeOK, count
    <3> QED
      BY <3>1, <3>2, <3>3 DEF Sorted
  <2> QED
    BY <2>2, <2>3
<1> QED
  BY <1>1, Invariance, PTL
=============================================================================
