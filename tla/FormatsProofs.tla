---------------------------- MODULE FormatsProofs ----------------------------
(***************************************************************************)
(* Proofs about Compression, ChunkStream, Base32, BigEndian and Crc32, for *)
(* any sizes, chunks, buffers, widths and bytes.                           *)
(***************************************************************************)
EXTENDS Formats, SequenceTheorems, WellFoundedInduction, TLAPS

-----------------------------------------------------------------------------
(***************************************************************************)
(* Compression: what the library covered is the size as the int it was     *)
(* told, and one it takes is no negative int.                              *)
(***************************************************************************)
PackingInv ==
  /\ size \in Nat /\ covers \in Nat /\ length \in Nat
  /\ step \in {"source", "threw", "packed", "unpacked"}
  /\ step \in {"packed", "unpacked"} =>
       IF length = 0 THEN size = 0 ELSE covers = Packing!ToInt(size)
  /\ step = "unpacked" => restored = (IF length = 0 THEN 0 ELSE covers)

\* An int that is not negative, of a size of less than 4 GB, is that size.
LEMMA ToIntIsSize ==
  ASSUME NEW n \in Nat, n < IntWord, Packing!ToInt(n) >= 0
  PROVE  Packing!ToInt(n) = n
<1>1. IntWord \in Nat \ {0}
  BY Lz4Assumption
<1>2. n % IntWord = n
  BY <1>1
<1>3. Packing!ToInt(n) = IF 2 * n < IntWord THEN n ELSE n - IntWord
  BY <1>2 DEF Packing!ToInt
<1> QED
  BY <1>1, <1>3

\* A size LZ4 takes is passed on as it is.
LEMMA ToIntOfSmall ==
  ASSUME NEW n \in Nat, 2 * n < IntWord
  PROVE  Packing!ToInt(n) = n
<1>1. IntWord \in Nat \ {0}
  BY Lz4Assumption
<1>2. n % IntWord = n
  BY <1>1
<1> QED
  BY <1>2 DEF Packing!ToInt

\* Outputs are of sizes the library takes, and have a length.
LEMMA OutputsArePositive ==
  ASSUME NEW n, NEW capacity, NEW c \in Packing!LZ4_compress_default(n, capacity), c > 0, n \in Int
  PROVE  n \in Nat /\ c \in Nat \ {0}
<1>1. ~(n < 0 \/ n > MaxInput \/ capacity <= 0)
  BY DEF Packing!LZ4_compress_default
<1>2. n \in 0..MaxInput
  BY <1>1, Lz4Assumption
<1>3. \E d \in Outputs[n] : c = d \/ c = 0
  BY <1>1 DEF Packing!LZ4_compress_default
<1>4. PICK d \in Outputs[n] : c = d
  BY <1>3
<1>5. Worst(n) \in Int
  BY <1>2, Lz4Assumption DEF Worst
<1> QED
  BY <1>2, <1>4, <1>5, Lz4Assumption

LEMMA ToIntIsAnInt ==
  ASSUME NEW n \in Nat
  PROVE  Packing!ToInt(n) \in Int
<1>1. IntWord \in Nat \ {0}
  BY Lz4Assumption
<1>2. n % IntWord \in Int
  BY <1>1
<1> QED
  BY <1>1, <1>2 DEF Packing!ToInt

LEMMA CheckedStep ==
  ASSUME PackingInv, size # 0, NEW capacity,
         NEW c \in Packing!LZ4_compress_default(Packing!ToInt(size), capacity),
         Packing!Checked(Packing!ToInt(size), c), c \in Int
  PROVE  PackingInv'
<1>1. CASE c <= 0
  BY <1>1 DEF Packing!Checked, Packing!Throw, PackingInv
<1>2. CASE c > 0
  <2>1. Packing!ToInt(size) \in Nat /\ c \in Nat \ {0}
    BY <1>2, OutputsArePositive, ToIntIsAnInt DEF PackingInv
  <2>2. step' = "packed" /\ covers' = Packing!ToInt(size) /\ length' = c /\ size' = size /\ restored' = restored
    BY <1>2 DEF Packing!Checked, Packing!Packed
  <2> QED
    BY <2>1, <2>2 DEF PackingInv
<1> QED
  BY <1>1, <1>2

\* The library returns an int.
LEMMA CompressReturnsInt ==
  ASSUME NEW n \in Int, NEW capacity, NEW c \in Packing!LZ4_compress_default(n, capacity)
  PROVE  c \in Int
<1>1. CASE n < 0 \/ n > MaxInput \/ capacity <= 0
  BY <1>1 DEF Packing!LZ4_compress_default
<1>2. CASE ~(n < 0 \/ n > MaxInput \/ capacity <= 0)
  <2>1. n \in 0..MaxInput
    BY <1>2, Lz4Assumption
  <2>2. \E d \in Outputs[n] : c = d \/ c = 0
    BY <1>2 DEF Packing!LZ4_compress_default
  <2>3. Outputs[n] \subseteq Int
    BY <2>1, Lz4Assumption
  <2> QED
    BY <2>2, <2>3
<1> QED
  BY <1>1, <1>2

LEMMA PackingStep ==
  ASSUME PackingInv, [Packing!Next]_(Packing!vars)
  PROVE  PackingInv'
<1>1. CASE Packing!Compress
  <2>1. CASE size = 0 /\ Packing!Packed(0, 0)
    BY <2>1 DEF Packing!Packed, PackingInv
  <2>2. CASE size # 0 /\ \E c \in Packing!LZ4_compress_default(
                                     Packing!ToInt(size), Packing!LZ4_compressBound(Packing!ToInt(size))) :
                           Packing!Checked(Packing!ToInt(size), c)
    <3>1. Packing!ToInt(size) \in Int
      BY ToIntIsAnInt DEF PackingInv
    <3> QED
      BY <2>2, <3>1, CompressReturnsInt, CheckedStep
  <2> QED
    BY <1>1, <2>1, <2>2 DEF Packing!Compress
<1>2. ASSUME NEW dest \in SourceSizes, Packing!CompressInplace(dest) PROVE PackingInv'
  <2>1. CASE size = 0 /\ Packing!Packed(0, 0)
    BY <2>1 DEF Packing!Packed, PackingInv
  <2>2. CASE Packing!Throw
    BY <2>2 DEF Packing!Throw, PackingInv
  <2>3. CASE size # 0 /\ \E c \in Packing!LZ4_compress_default(Packing!ToInt(size), Packing!ToInt(dest)) :
                           Packing!Checked(Packing!ToInt(size), c)
    <3>1. Packing!ToInt(size) \in Int
      BY ToIntIsAnInt DEF PackingInv
    <3> QED
      BY <2>3, <3>1, CompressReturnsInt, CheckedStep
  <2> QED
    BY <1>2, <2>1, <2>2, <2>3 DEF Packing!CompressInplace
<1>3. ASSUME NEW capacity \in SourceSizes, Packing!Unpack(capacity) PROVE PackingInv'
  <2>1. PICK n : /\ n = IF length = 0 THEN 0 ELSE Packing!LZ4_decompress_safe(covers, Packing!ToInt(capacity))
                 /\ IF n < 0 THEN Packing!Throw
                    ELSE step' = "unpacked" /\ restored' = n /\ UNCHANGED <<size, covers, length>>
    BY <1>3 DEF Packing!Unpack
  <2>2. step = "packed"
    BY <1>3 DEF Packing!Unpack
  <2>3. CASE Packing!Throw
    BY <2>3 DEF Packing!Throw, PackingInv
  <2>4. CASE ~(n < 0) /\ step' = "unpacked" /\ restored' = n /\ UNCHANGED <<size, covers, length>>
    <3>1. n = IF length = 0 THEN 0 ELSE covers
      BY <2>1, <2>4 DEF Packing!LZ4_decompress_safe
    <3> QED
      BY <2>2, <2>4, <3>1 DEF PackingInv
  <2> QED
    BY <2>1, <2>3, <2>4
<1>4. CASE UNCHANGED <<size, step, covers, length, restored>>
  BY <1>4 DEF PackingInv
<1> QED
  BY <1>1, <1>2, <1>3, <1>4 DEF Packing!Next, Packing!vars

\* compress has room for the longest output of a source LZ4 can take, and so has a destination of
\* the bound.
LEMMA BoundIsEnough ==
  ASSUME NEW n \in Nat, n # 0, n <= MaxInput, NEW room \in Int, room >= Packing!LZ4_compressBound(n)
  PROVE  \A c \in Packing!LZ4_compress_default(n, room) : c \in Nat \ {0}
<1>1. n \in 0..MaxInput /\ n \div 255 \in Nat /\ Overhead \in 1..16
  BY Lz4Assumption
<1>2. Packing!LZ4_compressBound(n) = n + n \div 255 + 16
  BY <1>1, Lz4Assumption DEF Packing!LZ4_compressBound
<1>3. Packing!LZ4_compress_default(n, room) = {IF c <= room THEN c ELSE 0 : c \in Outputs[n]}
  <2>1. ~(n < 0) /\ ~(n > MaxInput) /\ ~(room <= 0)
    BY <1>1, <1>2, Lz4Assumption
  <2> QED
    BY <2>1 DEF Packing!LZ4_compress_default
<1>4. \A c \in Outputs[n] : c \in Nat \ {0} /\ c <= room
  <2>1. Outputs[n] \subseteq 1..n + n \div 255 + Overhead
    BY <1>1, Lz4Assumption DEF Worst
  <2> QED
    BY <1>1, <1>2, <2>1
<1> QED
  BY <1>3, <1>4

\* What comes out is what went in, or an exception; and where there is room for the bound there is none.
THEOREM CompressionLosesNothing == Packing!Spec => CompressionIsLossless
<1>1. Packing!Init => PackingInv
  BY CompressionAssumption DEF Packing!CompressionAssumption, Packing!Init, PackingInv
<1>2. PackingInv /\ [Packing!Next]_(Packing!vars) => PackingInv'
  BY PackingStep
<1>3. PackingInv => Packing!RoundTrip
  <2> SUFFICES ASSUME PackingInv, step = "unpacked", size < IntWord PROVE restored = size
    BY DEF Packing!RoundTrip
  <2> QED
    BY ToIntIsSize DEF PackingInv
<1>4. PackingInv /\ [Packing!Next]_(Packing!vars) =>
        [/\ size <= MaxInput /\ Packing!Compress => step' = "packed"
         /\ \A dest \in SourceSizes :
              /\ size <= MaxInput /\ dest >= Packing!LZ4_compressBound(size) /\ 2 * dest < IntWord
              /\ Packing!CompressInplace(dest)
              => step' = "packed"]_(Packing!vars)
  <2> SUFFICES ASSUME PackingInv, size <= MaxInput
               PROVE  /\ Packing!Compress => step' = "packed"
                      /\ \A dest \in SourceSizes :
                           /\ dest >= Packing!LZ4_compressBound(size) /\ 2 * dest < IntWord
                           /\ Packing!CompressInplace(dest)
                           => step' = "packed"
    OBVIOUS
  <2>1. size \in Nat /\ Packing!ToInt(size) = size
    <3>1. size \in Nat /\ 2 * size < IntWord
      <4>1. MaxInput \div 255 \in Nat /\ MaxInput \in Nat /\ IntWord \in Nat
        BY Lz4Assumption
      <4> QED
        BY <4>1, Lz4Assumption DEF PackingInv
    <3> QED
      BY <3>1, ToIntOfSmall
  <2>2. ASSUME NEW c \in Nat \ {0}, Packing!Checked(size, c) PROVE step' = "packed"
    BY <2>2 DEF Packing!Checked, Packing!Packed
  <2>3. Packing!LZ4_compressBound(size) \in Int
    BY <2>1 DEF Packing!LZ4_compressBound
  <2>4. ASSUME Packing!Compress PROVE step' = "packed"
    <3>1. CASE size = 0
      BY <2>4, <3>1 DEF Packing!Compress, Packing!Packed
    <3>2. CASE size # 0
      <4>1. PICK c \in Packing!LZ4_compress_default(size, Packing!LZ4_compressBound(size)) : Packing!Checked(size, c)
        BY <2>1, <2>4, <3>2 DEF Packing!Compress
      <4>2. c \in Nat \ {0}
        BY <2>1, <2>3, <3>2, BoundIsEnough
      <4> QED
        BY <2>2, <4>1, <4>2
    <3> QED
      BY <3>1, <3>2
  <2>5. ASSUME NEW dest \in SourceSizes, dest >= Packing!LZ4_compressBound(size), 2 * dest < IntWord,
               Packing!CompressInplace(dest)
        PROVE  step' = "packed"
    <3>1. CASE size = 0
      BY <2>5, <3>1 DEF Packing!CompressInplace, Packing!Packed
    <3>2. CASE size # 0
      <4>1. dest \in Nat /\ Packing!ToInt(dest) = dest
        BY <2>5, CompressionAssumption, ToIntOfSmall DEF Packing!CompressionAssumption
      <4>2. ~(dest < Packing!LZ4_compressBound(size))
        BY <2>3, <2>5, <4>1
      <4>3. PICK c \in Packing!LZ4_compress_default(size, dest) : Packing!Checked(size, c)
        BY <2>1, <2>5, <3>2, <4>1, <4>2 DEF Packing!CompressInplace
      <4>4. c \in Nat \ {0}
        BY <2>1, <2>5, <3>2, <4>1, BoundIsEnough
      <4> QED
        BY <2>2, <4>3, <4>4
    <3> QED
      BY <3>1, <3>2
  <2> QED
    BY <2>4, <2>5
<1> QED
  BY <1>1, <1>2, <1>3, <1>4, PTL DEF Packing!Spec, CompressionIsLossless, Packing!EnoughRoom

-----------------------------------------------------------------------------
(***************************************************************************)
(* What FlattenSeq gives.  It takes the value of a recursive function,     *)
(* which is a choice until there is shown to be one function to choose.    *)
(***************************************************************************)
\* Every set of natural numbers but the empty one has a least element.
LEMMA LeastOf ==
  ASSUME NEW N \in SUBSET Nat, N # {}
  PROVE  \E n \in N : \A m \in N : n <= m
<1>1. IsWellFoundedOn(OpToRel(<, Nat), Nat)
  BY NatLessThanWellFounded, Zenon
<1>2. PICK n \in N : \A m \in N : ~ (<<m, n>> \in OpToRel(<, Nat))
  BY <1>1, WFMin, Zenon
<1>3. \A m \in N : ~(m < n)
  BY <1>2 DEF OpToRel
<1> QED
  BY <1>3

\* One time more.
LEMMA OneTimeMore ==
  ASSUME NEW w \in Nat, NEW n \in Nat \ {0}
  PROVE  w * n = w * (n - 1) + w /\ w * (n - 1) \in Nat
OBVIOUS

\* What the first sequences of q give when they are joined, up to each number of them.
Joins(f, q) == f = [i \in 1..Len(q) |-> IF i = 1 THEN q[i] ELSE f[i - 1] \o q[i]]
FirstJoined(f, q, n) ==
  /\ DOMAIN f = 1..n
  /\ \A i \in 1..n : f[i] = IF i = 1 THEN q[i] ELSE f[i - 1] \o q[i]

LEMMA JoinsExtend ==
  ASSUME NEW q, NEW n \in Nat, NEW f, FirstJoined(f, q, n)
  PROVE  \E g : FirstJoined(g, q, n + 1)
<1> DEFINE new == IF n = 0 THEN q[1] ELSE f[n] \o q[n + 1]
           g == [i \in 1..(n + 1) |-> IF i <= n THEN f[i] ELSE new]
<1>1. ASSUME NEW i \in 1..(n + 1) PROVE g[i] = IF i = 1 THEN q[i] ELSE g[i - 1] \o q[i]
  <2>1. CASE i <= n
    <3>1. i \in 1..n /\ g[i] = f[i]
      BY <2>1
    <3>2. i # 1 => g[i - 1] = f[i - 1]
      BY <2>1
    <3> QED
      BY <3>1, <3>2 DEF FirstJoined
  <2>2. CASE i = n + 1
    <3>1. g[i] = new
      BY <2>2
    <3>2. i # 1 => n # 0 /\ g[i - 1] = f[n]
      BY <2>2
    <3>3. i = 1 => n = 0
      BY <2>2
    <3> HIDE DEF g
    <3> QED
      BY <2>2, <3>1, <3>2, <3>3
  <2> QED
    BY <2>1, <2>2
<1>2. DOMAIN g = 1..(n + 1)
  OBVIOUS
<1> HIDE DEF g
<1> QED
  BY <1>1, <1>2 DEF FirstJoined

LEMMA JoinsExist ==
  ASSUME NEW q, Len(q) \in Nat
  PROVE  \E f : Joins(f, q)
<1> DEFINE Bad == {n \in Nat : ~ \E f : FirstJoined(f, q, n)}
<1>1. Bad = {}
  <2> SUFFICES ASSUME Bad # {} PROVE FALSE
    OBVIOUS
  <2>1. PICK n \in Bad : \A m \in Bad : n <= m
    <3>1. Bad \in SUBSET Nat
      OBVIOUS
    <3> HIDE DEF Bad
    <3> QED
      BY <3>1, LeastOf
  <2>2. CASE n = 0
    <3>1. FirstJoined([i \in 1..0 |-> q[i]], q, 0)
      BY DEF FirstJoined
    <3> QED
      BY <2>2, <3>1
  <2>3. CASE n # 0
    <3>1. n - 1 \in Nat /\ n - 1 \notin Bad /\ (n - 1) + 1 = n
      BY <2>1, <2>3
    <3>2. PICK f : FirstJoined(f, q, n - 1)
      BY <3>1
    <3>3. \E g : FirstJoined(g, q, (n - 1) + 1)
      BY <3>1, <3>2, JoinsExtend
    <3> QED
      BY <3>1, <3>3
  <2> QED
    BY <2>2, <2>3
<1>2. PICK f : FirstJoined(f, q, Len(q))
  BY <1>1
<1> DEFINE g == [i \in 1..Len(q) |-> f[i]]
<1>3. ASSUME NEW i \in 1..Len(q) PROVE g[i] = IF i = 1 THEN q[i] ELSE g[i - 1] \o q[i]
  <2>1. i # 1 => i - 1 \in 1..Len(q)
    OBVIOUS
  <2> QED
    BY <1>2, <2>1 DEF FirstJoined
<1>4. g = [i \in 1..Len(q) |-> IF i = 1 THEN q[i] ELSE g[i - 1] \o q[i]]
  <2>1. g = [i \in 1..Len(q) |-> g[i]]
    OBVIOUS
  <2> HIDE DEF g
  <2> QED
    BY <1>3, <2>1, Zenon
<1> HIDE DEF g
<1> QED
  BY <1>4 DEF Joins

LEMMA FlattenJoins ==
  ASSUME NEW q, Len(q) \in Nat \ {0}
  PROVE  \E f : Joins(f, q) /\ Streams!FlattenSeq(q) = f[Len(q)]
<1>1. \E f : Joins(f, q)
  BY JoinsExist
<1>2. Joins(CHOOSE f : Joins(f, q), q)
  BY <1>1, Zenon
<1>3. Streams!FlattenSeq(q) = (CHOOSE f : Joins(f, q))[Len(q)]
  BY Zenon DEF Streams!FlattenSeq, Joins
<1> QED
  BY <1>2, <1>3

\* Bytes: what they are of, which, and where in it.
Byte == {"hash", "length", "data"} \X (StreamChunks \cup Nat) \X Nat

LEMMA FieldIsBytes ==
  ASSUME NEW kind \in {"hash", "length", "data"}, NEW c \in StreamChunks \cup Nat, NEW n \in Nat
  PROVE  /\ Streams!Field(kind, c, n) \in Seq(Byte) /\ Len(Streams!Field(kind, c, n)) = n
         /\ \A k \in 1..n : Streams!Field(kind, c, n)[k] = <<kind, c, k>>
<1>1. \A k \in 1..n : <<kind, c, k>> \in Byte
  BY DEF Byte
<1>2. [k \in 1..n |-> <<kind, c, k>>] \in [1..n -> Byte]
  BY <1>1
<1> QED
  BY <1>2 DEF Streams!Field

\* The three fields of a chunk, and where they are in its bytes.
LEMMA ChunkFields ==
  ASSUME NEW c \in StreamChunks
  PROVE  /\ ChunkSize[c] \in Nat
         /\ Streams!HashBytes(c) \in Seq(Byte) /\ Len(Streams!HashBytes(c)) = 20
         /\ Streams!LengthBytes(c) \in Seq(Byte) /\ Len(Streams!LengthBytes(c)) = 4
         /\ Streams!DataBytes(c) \in Seq(Byte) /\ Len(Streams!DataBytes(c)) = ChunkSize[c]
         /\ Streams!ChunkBytes(c) \in Seq(Byte) /\ Len(Streams!ChunkBytes(c)) = 24 + ChunkSize[c]
<1>1. ChunkSize[c] \in Nat
  BY StreamAssumption DEF Streams!ChunkStreamAssumption
<1>2. Streams!HashBytes(c) \in Seq(Byte) /\ Len(Streams!HashBytes(c)) = 20
  <2>1. Streams!ByteLen \in Nat /\ Streams!ByteLen = 20
    BY DEF Streams!ByteLen
  <2> QED
    BY <2>1, FieldIsBytes, ZenonT(40) DEF Streams!HashBytes
<1>3. Streams!LengthBytes(c) \in Seq(Byte) /\ Len(Streams!LengthBytes(c)) = 4
  <2>1. Streams!Uint32Size \in Nat /\ Streams!Uint32Size = 4
    BY DEF Streams!Uint32Size
  <2> QED
    BY <1>1, <2>1, FieldIsBytes DEF Streams!LengthBytes
<1>4. Streams!DataBytes(c) \in Seq(Byte) /\ Len(Streams!DataBytes(c)) = ChunkSize[c]
  BY <1>1, FieldIsBytes DEF Streams!DataBytes
<1>5. /\ Streams!HashBytes(c) \o Streams!LengthBytes(c) \in Seq(Byte)
      /\ Len(Streams!HashBytes(c) \o Streams!LengthBytes(c)) = 24
  <2>1. Len(Streams!HashBytes(c) \o Streams!LengthBytes(c)) = Len(Streams!HashBytes(c)) + Len(Streams!LengthBytes(c))
    BY <1>2, <1>3, ConcatProperties
  <2> QED
    BY <1>2, <1>3, <2>1, ConcatProperties
<1>6. /\ Streams!ChunkBytes(c) \in Seq(Byte)
      /\ Len(Streams!ChunkBytes(c)) = 24 + ChunkSize[c]
  BY <1>1, <1>4, <1>5, ConcatProperties DEF Streams!ChunkBytes
<1> QED
  BY <1>1, <1>2, <1>3, <1>4, <1>6

LEMMA ChunkPlaces ==
  ASSUME NEW c \in StreamChunks
  PROVE  /\ \A i \in 1..20 : Streams!ChunkBytes(c)[i] = Streams!HashBytes(c)[i]
         /\ \A i \in 1..4 : Streams!ChunkBytes(c)[20 + i] = Streams!LengthBytes(c)[i]
         /\ \A i \in 1..ChunkSize[c] : Streams!ChunkBytes(c)[24 + i] = Streams!DataBytes(c)[i]
<1> DEFINE header == Streams!HashBytes(c) \o Streams!LengthBytes(c)
<1>1. /\ header \in Seq(Byte) /\ Len(header) = 24
      /\ \A i \in 1..24 : header[i] = IF i <= 20 THEN Streams!HashBytes(c)[i] ELSE Streams!LengthBytes(c)[i - 20]
  <2>1. /\ Streams!HashBytes(c) \in Seq(Byte) /\ Len(Streams!HashBytes(c)) = 20
        /\ Streams!LengthBytes(c) \in Seq(Byte) /\ Len(Streams!LengthBytes(c)) = 4
    BY ChunkFields
  <2>2. /\ header \in Seq(Byte) /\ Len(header) = Len(Streams!HashBytes(c)) + Len(Streams!LengthBytes(c))
        /\ \A i \in 1..(Len(Streams!HashBytes(c)) + Len(Streams!LengthBytes(c))) :
             header[i] = IF i <= Len(Streams!HashBytes(c)) THEN Streams!HashBytes(c)[i]
                         ELSE Streams!LengthBytes(c)[i - Len(Streams!HashBytes(c))]
    BY <2>1, ConcatProperties
  <2> HIDE DEF header
  <2> QED
    BY <2>1, <2>2
<1>2. Streams!ChunkBytes(c) = header \o Streams!DataBytes(c)
  BY DEF Streams!ChunkBytes
<1> HIDE DEF header
<1>3. \A i \in 1..(24 + ChunkSize[c]) :
         Streams!ChunkBytes(c)[i] = IF i <= 24 THEN header[i] ELSE Streams!DataBytes(c)[i - 24]
  <2>1. /\ Streams!DataBytes(c) \in Seq(Byte) /\ Len(Streams!DataBytes(c)) = ChunkSize[c]
        /\ ChunkSize[c] \in Nat
    BY ChunkFields
  <2>2. \A i \in 1..(Len(header) + Len(Streams!DataBytes(c))) :
          (header \o Streams!DataBytes(c))[i] = IF i <= Len(header) THEN header[i]
                                                ELSE Streams!DataBytes(c)[i - Len(header)]
    BY <1>1, <2>1, ConcatProperties
  <2> QED
    BY <1>1, <1>2, <2>1, <2>2
<1>4. ChunkSize[c] \in Nat
  BY ChunkFields
<1>5. ASSUME NEW i \in 1..20 PROVE Streams!ChunkBytes(c)[i] = Streams!HashBytes(c)[i]
  <2>1. i \in 1..24 /\ i \in 1..(24 + ChunkSize[c]) /\ i <= 20 /\ i <= 24
    BY <1>4
  <2> QED
    BY <1>1, <1>3, <2>1
<1>6. ASSUME NEW i \in 1..4 PROVE Streams!ChunkBytes(c)[20 + i] = Streams!LengthBytes(c)[i]
  <2>1. /\ 20 + i \in 1..24 /\ 20 + i \in 1..(24 + ChunkSize[c])
        /\ ~(20 + i <= 20) /\ 20 + i <= 24 /\ (20 + i) - 20 = i
    BY <1>4
  <2> QED
    BY <1>1, <1>3, <2>1
<1>7. ASSUME NEW i \in 1..ChunkSize[c] PROVE Streams!ChunkBytes(c)[24 + i] = Streams!DataBytes(c)[i]
  BY <1>3, <1>4
<1> QED
  BY <1>5, <1>6, <1>7

\* The length says the size: two chunks with the same length field have the same size.
LEMMA LengthSaysSize ==
  ASSUME NEW c \in StreamChunks
  PROVE  Streams!Lengths(Streams!LengthBytes(c)) = {ChunkSize[c]}
<1>1. ASSUME NEW d \in StreamChunks, Streams!LengthBytes(c) = Streams!LengthBytes(d)
      PROVE  ChunkSize[c] = ChunkSize[d]
  <2>1. ChunkSize[c] \in Nat /\ ChunkSize[d] \in Nat
    BY ChunkFields
  <2>2. /\ Streams!LengthBytes(c)[1] = <<"length", ChunkSize[c], 1>>
        /\ Streams!LengthBytes(d)[1] = <<"length", ChunkSize[d], 1>>
    <3>1. Streams!Uint32Size \in Nat /\ 1 \in 1..Streams!Uint32Size
      BY DEF Streams!Uint32Size
    <3> QED
      BY <2>1, <3>1, FieldIsBytes, ZenonT(40) DEF Streams!LengthBytes
  <2> QED
    BY <1>1, <2>2
<1> QED
  BY <1>1 DEF Streams!Lengths
-----------------------------------------------------------------------------
(***************************************************************************)
(* Streams of chunks: none is empty, one more adds its bytes at the end,   *)
(* and so every chunk is where those before it end.                        *)
(***************************************************************************)
LEMMA StreamOfNone == Streams!Stream(<<>>) = <<>>
<1>1. [i \in DOMAIN <<>> |-> Streams!ChunkBytes(<<>>[i])] = <<>>
  OBVIOUS
<1> QED
  BY <1>1 DEF Streams!Stream, Streams!FlattenSeq

LEMMA StreamJoins ==
  ASSUME NEW s \in Seq(StreamChunks), s # <<>>
  PROVE  \E f : /\ Streams!Stream(s) = f[Len(s)]
                /\ \A i \in 1..Len(s) : f[i] = IF i = 1 THEN Streams!ChunkBytes(s[i])
                                               ELSE f[i - 1] \o Streams!ChunkBytes(s[i])
<1> DEFINE q == [i \in DOMAIN s |-> Streams!ChunkBytes(s[i])]
<1>1. Len(s) \in Nat \ {0} /\ DOMAIN s = 1..Len(s)
  OBVIOUS
<1>2. Len(q) = Len(s) /\ \A i \in 1..Len(s) : q[i] = Streams!ChunkBytes(s[i])
  BY <1>1
<1>3. Streams!Stream(s) = Streams!FlattenSeq(q)
  BY DEF Streams!Stream
<1> HIDE DEF q
<1>4. PICK f : Joins(f, q) /\ Streams!FlattenSeq(q) = f[Len(q)]
  BY <1>1, <1>2, FlattenJoins
<1>5. ASSUME NEW i \in 1..Len(s)
      PROVE  f[i] = IF i = 1 THEN Streams!ChunkBytes(s[i]) ELSE f[i - 1] \o Streams!ChunkBytes(s[i])
  BY <1>2, <1>4 DEF Joins
<1> QED
  BY <1>2, <1>3, <1>4, <1>5

\* The bytes up to each chunk of s are f's.
JoinsChunks(f, s) ==
  \A i \in 1..Len(s) : f[i] = IF i = 1 THEN Streams!ChunkBytes(s[i]) ELSE f[i - 1] \o Streams!ChunkBytes(s[i])

LEMMA JoinsAgree ==
  ASSUME NEW s \in Seq(StreamChunks), NEW t \in Seq(StreamChunks), NEW f, NEW g,
         JoinsChunks(f, s), JoinsChunks(g, t), Len(s) <= Len(t), \A i \in 1..Len(s) : t[i] = s[i]
  PROVE  \A i \in 1..Len(s) : f[i] = g[i]
<1> DEFINE Bad == {i \in 1..Len(s) : f[i] # g[i]}
<1> SUFFICES ASSUME Bad # {} PROVE FALSE
  OBVIOUS
<1>1. PICK n \in Bad : \A m \in Bad : n <= m
  <2>1. Bad \in SUBSET Nat
    OBVIOUS
  <2> HIDE DEF Bad
  <2> QED
    BY <2>1, LeastOf
<1>2. n \in 1..Len(s) /\ n \in 1..Len(t) /\ t[n] = s[n]
  OBVIOUS
<1>3. CASE n = 1
  BY <1>2, <1>3 DEF JoinsChunks
<1>4. CASE n # 1
  <2>1. n - 1 \in 1..Len(s) /\ n - 1 \notin Bad
    BY <1>1, <1>4
  <2>2. f[n - 1] = g[n - 1]
    BY <2>1
  <2>3. f[n] = f[n - 1] \o Streams!ChunkBytes(s[n]) /\ g[n] = g[n - 1] \o Streams!ChunkBytes(t[n])
    BY <1>2, <1>4 DEF JoinsChunks
  <2> QED
    BY <1>2, <2>2, <2>3
<1> QED
  BY <1>3, <1>4

LEMMA JoinsAreBytes ==
  ASSUME NEW s \in Seq(StreamChunks), NEW f, JoinsChunks(f, s)
  PROVE  \A i \in 1..Len(s) : f[i] \in Seq(Byte)
<1> DEFINE Bad == {i \in 1..Len(s) : f[i] \notin Seq(Byte)}
<1> SUFFICES ASSUME Bad # {} PROVE FALSE
  OBVIOUS
<1>1. PICK n \in Bad : \A m \in Bad : n <= m
  <2>1. Bad \in SUBSET Nat
    OBVIOUS
  <2> HIDE DEF Bad
  <2> QED
    BY <2>1, LeastOf
<1>2. n \in 1..Len(s) /\ Streams!ChunkBytes(s[n]) \in Seq(Byte)
  BY ChunkFields
<1>3. CASE n = 1
  BY <1>2, <1>3 DEF JoinsChunks
<1>4. CASE n # 1
  <2>1. n - 1 \in 1..Len(s) /\ n - 1 \notin Bad
    BY <1>1, <1>4
  <2>2. f[n - 1] \in Seq(Byte)
    BY <2>1
  <2>3. f[n] = f[n - 1] \o Streams!ChunkBytes(s[n])
    BY <1>2, <1>4 DEF JoinsChunks
  <2> QED
    BY <1>2, <2>2, <2>3, ConcatProperties
<1> QED
  BY <1>3, <1>4

LEMMA StreamIsBytes ==
  ASSUME NEW s \in Seq(StreamChunks)
  PROVE  Streams!Stream(s) \in Seq(Byte)
<1>1. CASE s = <<>>
  <2>1. <<>> \in Seq(Byte)
    OBVIOUS
  <2> QED
    BY <1>1, <2>1, StreamOfNone
<1>2. CASE s # <<>>
  <2>1. PICK f : Streams!Stream(s) = f[Len(s)] /\ JoinsChunks(f, s)
    BY <1>2, StreamJoins DEF JoinsChunks
  <2>2. Len(s) \in 1..Len(s)
    BY <1>2
  <2> QED
    BY <2>1, <2>2, JoinsAreBytes
<1> QED
  BY <1>1, <1>2

LEMMA StreamOfOneMore ==
  ASSUME NEW s \in Seq(StreamChunks), NEW c \in StreamChunks
  PROVE  Streams!Stream(Append(s, c)) = Streams!Stream(s) \o Streams!ChunkBytes(c)
<1> DEFINE t == Append(s, c)
<1>1. /\ t \in Seq(StreamChunks) /\ Len(t) = Len(s) + 1 /\ t # <<>> /\ Len(s) \in Nat
      /\ t[Len(s) + 1] = c /\ \A i \in 1..Len(s) : t[i] = s[i]
  OBVIOUS
<1> HIDE DEF t
<1>2. PICK g : Streams!Stream(t) = g[Len(t)] /\ JoinsChunks(g, t)
  BY <1>1, StreamJoins DEF JoinsChunks
<1>3. CASE s = <<>>
  <2>1. Len(t) = 1 /\ t[1] = c /\ 1 \in 1..Len(t)
    BY <1>1, <1>3
  <2>2. Streams!Stream(t) = Streams!ChunkBytes(c)
    BY <1>2, <2>1 DEF JoinsChunks
  <2>3. <<>> \o Streams!ChunkBytes(c) = Streams!ChunkBytes(c)
    BY ChunkFields, ConcatEmptySeq
  <2> QED
    BY <1>3, <2>2, <2>3, StreamOfNone DEF t
<1>4. CASE s # <<>>
  <2>1. PICK f : Streams!Stream(s) = f[Len(s)] /\ JoinsChunks(f, s)
    BY <1>4, StreamJoins DEF JoinsChunks
  <2>2. Len(s) \in 1..Len(s) /\ Len(s) + 1 \in 1..Len(t) /\ Len(s) + 1 # 1 /\ (Len(s) + 1) - 1 = Len(s)
    BY <1>1, <1>4
  <2>3. Len(s) <= Len(t)
    BY <1>1
  <2>4. f[Len(s)] = g[Len(s)]
    BY <1>1, <1>2, <2>1, <2>2, <2>3, JoinsAgree
  <2>5. g[Len(t)] = g[Len(s)] \o Streams!ChunkBytes(c)
    BY <1>1, <1>2, <2>2 DEF JoinsChunks
  <2> QED
    BY <1>2, <2>1, <2>4, <2>5 DEF t
<1> QED
  BY <1>3, <1>4

\* The first chunks of a stream are a stream, with which it begins.
Begins(x, y) == Len(x) <= Len(y) /\ \A i \in 1..Len(x) : y[i] = x[i]

LEMMA BeginsJoined ==
  ASSUME NEW T, NEW x \in Seq(T), NEW y \in Seq(T)
  PROVE  Begins(x, x \o y)
BY ConcatProperties DEF Begins

LEMMA StreamBegins ==
  ASSUME NEW s \in Seq(StreamChunks), NEW k \in 0..Len(s)
  PROVE  Begins(Streams!Stream(SubSeq(s, 1, k)), Streams!Stream(s))
<1> DEFINE First(n) == SubSeq(s, 1, n)
           Bad == {n \in k..Len(s) : ~Begins(Streams!Stream(First(k)), Streams!Stream(First(n)))}
<1>1. ASSUME NEW n \in 0..Len(s) PROVE First(n) \in Seq(StreamChunks) /\ Streams!Stream(First(n)) \in Seq(Byte)
  <2>1. First(n) \in Seq(StreamChunks)
    OBVIOUS
  <2> QED
    BY <2>1, StreamIsBytes
<1>2. Bad = {}
  <2> SUFFICES ASSUME Bad # {} PROVE FALSE
    OBVIOUS
  <2>1. PICK n \in Bad : \A m \in Bad : n <= m
    <3>1. Bad \in SUBSET Nat
      OBVIOUS
    <3> HIDE DEF Bad
    <3> QED
      BY <3>1, LeastOf
  <2>2. n \in k..Len(s) /\ n \in Nat /\ k \in Nat
    OBVIOUS
  <2>3. CASE n = k
    BY <1>1, <2>1, <2>3 DEF Begins
  <2>4. CASE n # k
    <3>1. n - 1 \in k..Len(s) /\ n - 1 \in 0..Len(s) /\ n \in 1..Len(s) /\ n - 1 \notin Bad
      BY <2>1, <2>2, <2>4
    <3>2. First(n) = Append(First(n - 1), s[n]) /\ s[n] \in StreamChunks
      BY <3>1
    <3>3. Streams!Stream(First(n)) = Streams!Stream(First(n - 1)) \o Streams!ChunkBytes(s[n])
      BY <1>1, <3>1, <3>2, StreamOfOneMore
    <3>4. Begins(Streams!Stream(First(n - 1)), Streams!Stream(First(n)))
      <4>1. Streams!Stream(First(n - 1)) \in Seq(Byte) /\ Streams!ChunkBytes(s[n]) \in Seq(Byte)
        BY <1>1, <3>1, <3>2, ChunkFields
      <4> HIDE DEF First
      <4> QED
        BY <3>3, <4>1, BeginsJoined
    <3>5. Begins(Streams!Stream(First(k)), Streams!Stream(First(n - 1)))
      BY <3>1
    <3>6. Len(Streams!Stream(First(k))) \in Nat
      BY <1>1
    <3>7. Len(Streams!Stream(First(n - 1))) \in Nat /\ Len(Streams!Stream(First(n))) \in Nat
      BY <1>1, <3>1
    <3> HIDE DEF First
    <3>8. Begins(Streams!Stream(First(k)), Streams!Stream(First(n)))
      BY <3>4, <3>5, <3>6, <3>7 DEF Begins
    <3> QED
      BY <2>1, <3>8
  <2> QED
    BY <2>3, <2>4
<1>3. First(Len(s)) = s /\ Len(s) \in k..Len(s)
  OBVIOUS
<1> QED
  BY <1>2, <1>3

\* The next chunk of a stream is where the first k end.
LEMMA NextChunk ==
  ASSUME NEW s \in Seq(StreamChunks), NEW k \in 0..Len(s), k < Len(s),
         NEW from, from = Len(Streams!Stream(SubSeq(s, 1, k)))
  PROVE  /\ s[k + 1] \in StreamChunks /\ from \in Nat
         /\ from + 24 + ChunkSize[s[k + 1]] = Len(Streams!Stream(SubSeq(s, 1, k + 1)))
         /\ from + 24 + ChunkSize[s[k + 1]] <= Len(Streams!Stream(s))
         /\ \A i \in 1..(24 + ChunkSize[s[k + 1]]) : Streams!Stream(s)[from + i] = Streams!ChunkBytes(s[k + 1])[i]
<1> DEFINE c == s[k + 1]
           x == Streams!Stream(SubSeq(s, 1, k))
           y == Streams!Stream(SubSeq(s, 1, k + 1))
<1>1. /\ SubSeq(s, 1, k) \in Seq(StreamChunks) /\ c \in StreamChunks /\ k + 1 \in 0..Len(s)
      /\ SubSeq(s, 1, k + 1) = Append(SubSeq(s, 1, k), c)
  OBVIOUS
<1>2. /\ x \in Seq(Byte) /\ Streams!ChunkBytes(c) \in Seq(Byte)
      /\ Len(Streams!ChunkBytes(c)) = 24 + ChunkSize[c] /\ ChunkSize[c] \in Nat
  BY <1>1, StreamIsBytes, ChunkFields
<1>3. y = x \o Streams!ChunkBytes(c)
  BY <1>1, StreamOfOneMore
<1>4. Begins(y, Streams!Stream(s)) /\ Streams!Stream(s) \in Seq(Byte)
  BY <1>1, StreamBegins, StreamIsBytes
<1> HIDE DEF x, y, c
<1>5. /\ Len(y) = Len(x) + Len(Streams!ChunkBytes(c))
      /\ \A i \in 1..(Len(x) + Len(Streams!ChunkBytes(c))) :
           y[i] = IF i <= Len(x) THEN x[i] ELSE Streams!ChunkBytes(c)[i - Len(x)]
  BY <1>2, <1>3, ConcatProperties
<1>6. from = Len(x) /\ from \in Nat
  BY <1>2 DEF x
<1>7. Len(y) = from + 24 + ChunkSize[c] /\ Len(y) <= Len(Streams!Stream(s))
  <2>1. Len(y) = Len(x) + (24 + ChunkSize[c])
    BY <1>2, <1>5
  <2>2. Len(y) <= Len(Streams!Stream(s))
    BY <1>4 DEF Begins
  <2>3. ASSUME NEW n \in Nat PROVE from + (24 + n) = from + 24 + n
    BY <1>6
  <2> QED
    BY <1>2, <1>6, <2>1, <2>2, <2>3
<1>8. ASSUME NEW i \in 1..(24 + ChunkSize[c])
      PROVE  Streams!Stream(s)[from + i] = Streams!ChunkBytes(c)[i]
  <2>0. ChunkSize[c] \in Nat /\ i \in Nat
    BY <1>2
  <2>1. from + i \in 1..Len(y) /\ ~(from + i <= Len(x)) /\ (from + i) - Len(x) = i
    BY <1>6, <1>7, <2>0, SMTT(30)
  <2>2. y[from + i] = Streams!ChunkBytes(c)[i]
    <3>1. Len(x) + Len(Streams!ChunkBytes(c)) = Len(y)
      BY <1>5
    <3> QED
      BY <1>5, <2>1, <3>1
  <2> QED
    BY <1>4, <2>1, <2>2 DEF Begins
<1> QED
  BY <1>1, <1>6, <1>7, <1>8 DEF c, y
-----------------------------------------------------------------------------
(***************************************************************************)
(* The stream.  Unless a header came short: what is written and what has   *)
(* been taken are the bytes of what was serialized, or begin them if data  *)
(* came short; the source begins them too; and the reader stands where the *)
(* last chunk it returned ends.                                            *)
(***************************************************************************)
Beginning == {"writing", "failed"}

StreamTypeOK ==
  /\ serialized \in Seq(StreamChunks) /\ buffer \in Seq(Byte) /\ taken \in Seq(Byte) /\ source \in Seq(Byte)
  /\ position \in Nat /\ got \in Seq([hash : Seq(Byte), data : Seq(Byte)])
  /\ mode \in {"writing", "failed", "reading", "eof", "threw"} /\ short \in {"none", "data", "header"}

WrittenInv ==
  /\ short = "none" => taken \o buffer = Streams!Stream(serialized)
  /\ short = "data" => /\ mode # "writing" /\ Begins(taken \o buffer, Streams!Stream(serialized))
                       /\ Len(taken \o buffer) < Len(Streams!Stream(serialized))

SourceInv == mode \notin Beginning /\ short # "header" =>
  /\ Begins(source, Streams!Stream(serialized))
  /\ short = "data" => Len(source) < Len(Streams!Stream(serialized))

PlaceInv ==
  /\ position <= Len(source)
  /\ mode \in Beginning => got = <<>> /\ source = <<>>
  /\ mode = "eof" => position = Len(source)

ReaderInv == short # "header" =>
  Streams!RoundTrip /\ position = Len(Streams!Stream(SubSeq(serialized, 1, Len(got))))

StreamInv == StreamTypeOK /\ WrittenInv /\ SourceInv /\ PlaceInv /\ ReaderInv

\* A writer takes no more than it is given.
LEMMA TakesWithin ==
  ASSUME NEW n \in Nat, NEW h \in Streams!Takes(n)
  PROVE  h \in 0..n
BY StreamAssumption DEF Streams!Takes, Streams!ChunkStreamAssumption

\* What begins a sequence begins it behind another, too.
LEMMA BeginsAfter ==
  ASSUME NEW T, NEW x \in Seq(T), NEW p \in Seq(T), NEW q \in Seq(T), Begins(p, q)
  PROVE  Begins(x \o p, x \o q) /\ (Len(p) < Len(q) => Len(x \o p) < Len(x \o q))
<1>1. /\ Len(x \o p) = Len(x) + Len(p) /\ Len(x \o q) = Len(x) + Len(q)
      /\ Len(x) \in Nat /\ Len(p) \in Nat /\ Len(q) \in Nat
  BY ConcatProperties
<1>2. Len(p) <= Len(q)
  BY DEF Begins
<1>3. ASSUME NEW i \in 1..(Len(x) + Len(p)) PROVE (x \o q)[i] = (x \o p)[i]
  <2>1. i \in 1..(Len(x) + Len(q))
    BY <1>1, <1>2
  <2>2. /\ (x \o p)[i] = IF i <= Len(x) THEN x[i] ELSE p[i - Len(x)]
        /\ (x \o q)[i] = IF i <= Len(x) THEN x[i] ELSE q[i - Len(x)]
    BY <2>1, ConcatProperties
  <2>3. CASE i <= Len(x)
    BY <2>2, <2>3
  <2>4. CASE ~(i <= Len(x))
    <3>1. i - Len(x) \in 1..Len(p)
      BY <1>1, <2>4
    <3> QED
      BY <2>2, <2>4, <3>1 DEF Begins
  <2> QED
    BY <2>3, <2>4
<1> QED
  BY <1>1, <1>2, <1>3 DEF Begins

\* What is behind the stream if the header was written and d bytes of the data.
LEMMA WrittenBehind ==
  ASSUME StreamInv, NEW c \in StreamChunks, NEW d \in 0..ChunkSize[c],
         taken' = taken, short = "none", serialized' = Append(serialized, c),
         buffer' = buffer \o SubSeq(Streams!HashBytes(c), 1, 20) \o SubSeq(Streams!LengthBytes(c), 1, 4)
                          \o SubSeq(Streams!DataBytes(c), 1, d)
  PROVE  /\ d = ChunkSize[c] => taken' \o buffer' = Streams!Stream(serialized)'
         /\ d # ChunkSize[c] => /\ Begins(taken' \o buffer', Streams!Stream(serialized)')
                                /\ Len(taken' \o buffer') < Len(Streams!Stream(serialized)')
<1> DEFINE h == Streams!HashBytes(c)
           l == Streams!LengthBytes(c)
           data == Streams!DataBytes(c)
           p == SubSeq(data, 1, d)
           all == Streams!Stream(serialized)
<1>1. /\ h \in Seq(Byte) /\ l \in Seq(Byte) /\ data \in Seq(Byte) /\ Len(data) = ChunkSize[c] /\ ChunkSize[c] \in Nat
      /\ SubSeq(h, 1, 20) = h /\ SubSeq(l, 1, 4) = l
  BY ChunkFields, SubSeqFull
<1>2. /\ taken \in Seq(Byte) /\ buffer \in Seq(Byte) /\ serialized \in Seq(StreamChunks)
      /\ taken \o buffer = all /\ all \in Seq(Byte)
  BY StreamIsBytes DEF StreamInv, StreamTypeOK, WrittenInv
<1>3. p \in Seq(Byte) /\ Len(p) = d /\ Begins(p, data) /\ (d = ChunkSize[c] => p = data)
  <2>1. p \in Seq(Byte) /\ Len(p) = d /\ \A i \in 1..d : data[i] = p[i]
    BY <1>1
  <2>2. d = ChunkSize[c] => p = data
    BY <1>1, SubSeqFull
  <2> HIDE DEF p, data
  <2> QED
    BY <1>1, <2>1, <2>2 DEF Begins
<1>4. buffer' = ((buffer \o h) \o l) \o p
  BY <1>1
<1>5. Streams!Stream(serialized)' = all \o ((h \o l) \o data)
  <2>1. Streams!Stream(serialized)' = Streams!Stream(serialized')
    BY DEF Streams!Stream
  <2>2. Streams!Stream(serialized') = all \o Streams!ChunkBytes(c)
    BY <1>2, StreamOfOneMore
  <2> QED
    BY <2>1, <2>2 DEF Streams!ChunkBytes
<1> HIDE DEF h, l, p, data, all
<1>6. taken' \o buffer' = all \o ((h \o l) \o p)
  <2>1. taken \o (((buffer \o h) \o l) \o p) = (taken \o buffer) \o ((h \o l) \o p)
    <3>1. taken \in Seq(Byte) /\ buffer \in Seq(Byte) /\ h \in Seq(Byte) /\ l \in Seq(Byte) /\ p \in Seq(Byte)
      BY <1>1, <1>2, <1>3
    <3>2. (buffer \o h) \o l = buffer \o (h \o l) /\ h \o l \in Seq(Byte) /\ buffer \o (h \o l) \in Seq(Byte)
      BY <3>1, ConcatAssociative, ConcatProperties, SMTT(30)
    <3>3. (buffer \o (h \o l)) \o p = buffer \o ((h \o l) \o p) /\ (h \o l) \o p \in Seq(Byte)
      BY <3>1, <3>2, ConcatAssociative, ConcatProperties, SMTT(30)
    <3>4. taken \o (buffer \o ((h \o l) \o p)) = (taken \o buffer) \o ((h \o l) \o p)
      BY <3>1, <3>3, ConcatAssociative, SMTT(30)
    <3> QED
      BY <3>2, <3>3, <3>4
  <2> QED
    BY <1>2, <1>4, <2>1, Zenon
<1>7. h \o l \in Seq(Byte) /\ (h \o l) \o p \in Seq(Byte) /\ (h \o l) \o data \in Seq(Byte)
  BY <1>1, <1>3, ConcatProperties
<1>8. Begins((h \o l) \o p, (h \o l) \o data) /\ (Len(p) < Len(data) => Len((h \o l) \o p) < Len((h \o l) \o data))
  BY <1>1, <1>3, <1>7, BeginsAfter
<1>9. /\ Begins(all \o ((h \o l) \o p), all \o ((h \o l) \o data))
      /\ Len(p) < Len(data) => Len(all \o ((h \o l) \o p)) < Len(all \o ((h \o l) \o data))
  BY <1>2, <1>7, <1>8, BeginsAfter
<1>10. d # ChunkSize[c] => Len(p) < Len(data)
  BY <1>1, <1>3
<1> QED
  BY <1>3, <1>5, <1>6, <1>9, <1>10

LEMMA SerializeKeepsStream ==
  ASSUME StreamInv, NEW c \in StreamChunks, Streams!Serialize(c)
  PROVE  StreamInv'
<1>1. /\ mode = "writing" /\ short \in {"none", "header"} /\ got = <<>> /\ source = <<>>
      /\ serialized' = Append(serialized, c) /\ UNCHANGED <<taken, source, position, got>>
  BY DEF Streams!Serialize, StreamInv, StreamTypeOK, WrittenInv, PlaceInv, Beginning
<1>2. PICK h \in Streams!Takes(20), l \in Streams!Takes(4), d \in Streams!Takes(ChunkSize[c]) :
        /\ buffer' = buffer \o SubSeq(Streams!HashBytes(c), 1, h) \o SubSeq(Streams!LengthBytes(c), 1, l)
                            \o SubSeq(Streams!DataBytes(c), 1, d)
        /\ short' = IF short = "header" \/ h # 20 \/ l # 4 THEN "header"
                    ELSE IF d # ChunkSize[c] THEN "data" ELSE short
        /\ mode' = IF d # ChunkSize[c] THEN "failed" ELSE mode
  BY DEF Streams!Serialize, Streams!CameShort, Streams!ByteLen, Streams!Uint32Size
<1>3. h \in 0..20 /\ l \in 0..4 /\ d \in 0..ChunkSize[c] /\ ChunkSize[c] \in Nat
  BY ChunkFields, TakesWithin
<1>4. StreamTypeOK'
  <2>1. /\ SubSeq(Streams!HashBytes(c), 1, h) \in Seq(Byte) /\ SubSeq(Streams!LengthBytes(c), 1, l) \in Seq(Byte)
        /\ SubSeq(Streams!DataBytes(c), 1, d) \in Seq(Byte)
    <3>1. ASSUME NEW T, NEW s \in Seq(T), NEW n \in 0..Len(s) PROVE SubSeq(s, 1, n) \in Seq(T)
      OBVIOUS
    <3>2. /\ h \in 0..Len(Streams!HashBytes(c)) /\ l \in 0..Len(Streams!LengthBytes(c))
          /\ d \in 0..Len(Streams!DataBytes(c))
      BY <1>3, ChunkFields, Zenon
    <3> QED
      BY <3>1, <3>2, ChunkFields, Zenon
  <2>2. buffer \in Seq(Byte) /\ serialized \in Seq(StreamChunks)
    BY DEF StreamInv, StreamTypeOK
  <2>3. buffer' \in Seq(Byte)
    BY <1>2, <2>1, <2>2, ConcatProperties
  <2>4. serialized' \in Seq(StreamChunks)
    BY <1>1, <2>2
  <2>5. mode' \in {"writing", "failed"} /\ short' \in {"none", "data", "header"}
    BY <1>1, <1>2
  <2> QED
    BY <1>1, <2>3, <2>4, <2>5 DEF StreamInv, StreamTypeOK
<1>5. PlaceInv' /\ mode' \in Beginning
  BY <1>1, <1>2 DEF StreamInv, PlaceInv, Beginning
<1>6. SourceInv'
  BY <1>5 DEF SourceInv
<1>7. WrittenInv'
  <2>1. CASE short' = "header"
    BY <2>1 DEF WrittenInv
  <2>2. CASE short' # "header"
    <3>1. h = 20 /\ l = 4 /\ short = "none"
      BY <1>1, <1>2, <2>2
    <3>2. /\ d = ChunkSize[c] => taken' \o buffer' = Streams!Stream(serialized)'
          /\ d # ChunkSize[c] => /\ Begins(taken' \o buffer', Streams!Stream(serialized)')
                                 /\ Len(taken' \o buffer') < Len(Streams!Stream(serialized)')
      BY <1>1, <1>2, <1>3, <3>1, WrittenBehind
    <3>3. (short' = "none" => d = ChunkSize[c]) /\ (short' = "data" => d # ChunkSize[c] /\ mode' # "writing")
      BY <1>2, <3>1
    <3> QED
      BY <3>2, <3>3 DEF WrittenInv, Begins
  <2> QED
    BY <2>1, <2>2
<1>8. ReaderInv'
  <2> SUFFICES ASSUME short' # "header" PROVE Streams!RoundTrip' /\ position' = Len(Streams!Stream(SubSeq(serialized, 1, Len(got))))'
    BY DEF ReaderInv
  <2>1. short # "header"
    BY <1>1, <1>2
  <2>2. SubSeq(serialized, 1, Len(got)) = <<>> /\ SubSeq(serialized', 1, Len(got')) = <<>>
    <3>1. Len(got) = 0 /\ Len(got') = 0
      BY <1>1
    <3> QED
      BY <3>1, SubSeqEmpty
  <2>3. position' = Len(Streams!Stream(SubSeq(serialized', 1, Len(got'))))
    <3>1. position = Len(Streams!Stream(SubSeq(serialized, 1, Len(got))))
      BY <2>1 DEF StreamInv, ReaderInv
    <3> QED
      BY <1>1, <2>2, <3>1
  <2>4. Streams!Stream(SubSeq(serialized, 1, Len(got)))' = Streams!Stream(SubSeq(serialized', 1, Len(got')))
    BY DEF Streams!Stream
  <2>5. Streams!RoundTrip'
    <3>1. Len(serialized') \in Nat \ {0} /\ Len(got') = 0 /\ DOMAIN got' = {}
      <4>1. serialized \in Seq(StreamChunks)
        BY DEF StreamInv, StreamTypeOK
      <4> QED
        BY <1>1, <4>1
    <3> QED
      BY <3>1 DEF Streams!RoundTrip, Streams!Returned
  <2> QED
    BY <2>3, <2>4, <2>5
<1> QED
  BY <1>4, <1>5, <1>6, <1>7, <1>8 DEF StreamInv

LEMMA GetChunkKeepsStream ==
  ASSUME StreamInv, Streams!GetChunk
  PROVE  StreamInv'
<1>1. /\ taken' = taken \o buffer /\ buffer' = <<>>
      /\ UNCHANGED <<serialized, short, source, position, got, mode>>
  BY DEF Streams!GetChunk, Streams!Clear
<1>2. taken \o buffer \in Seq(Byte) /\ <<>> \in Seq(Byte)
  <2>1. taken \in Seq(Byte) /\ buffer \in Seq(Byte)
    BY DEF StreamInv, StreamTypeOK
  <2> QED
    BY <2>1, ConcatProperties
<1>3. StreamTypeOK'
  BY <1>1, <1>2 DEF StreamInv, StreamTypeOK
<1>4. WrittenInv'
  <2>1. taken' \o buffer' = taken \o buffer
    BY <1>1, <1>2, ConcatEmptySeq
  <2>2. Streams!Stream(serialized)' = Streams!Stream(serialized)
    BY <1>1 DEF Streams!Stream
  <2> QED
    BY <1>1, <2>1, <2>2 DEF StreamInv, WrittenInv, Begins
<1>5. SourceInv' /\ PlaceInv' /\ ReaderInv'
  BY <1>1 DEF StreamInv, SourceInv, PlaceInv, ReaderInv, Begins, Streams!RoundTrip, Streams!Returned, Streams!Stream
<1> QED
  BY <1>3, <1>4, <1>5 DEF StreamInv

LEMMA OpenKeepsStream ==
  ASSUME StreamInv, Streams!Open
  PROVE  StreamInv'
<1>1. PICK n \in 0..Len(taken) : source' = SubSeq(taken, 1, n)
  BY DEF Streams!Open
<1>2. /\ mode \in Beginning /\ mode' = "reading" /\ UNCHANGED <<buffer, taken, serialized, short, position, got>>
      /\ got = <<>> /\ source = <<>>
  BY DEF Streams!Open, StreamInv, PlaceInv, Beginning
<1>3. taken \in Seq(Byte) /\ buffer \in Seq(Byte) /\ serialized \in Seq(StreamChunks)
  BY DEF StreamInv, StreamTypeOK
<1>4. /\ source' \in Seq(Byte) /\ Len(source') = n /\ n \in Nat /\ n <= Len(taken)
      /\ \A i \in 1..n : source'[i] = taken[i]
  BY <1>1, <1>3
<1>5. StreamTypeOK'
  BY <1>2, <1>4 DEF StreamInv, StreamTypeOK
<1>6. WrittenInv'
  BY <1>2 DEF StreamInv, WrittenInv, Begins, Streams!Stream
<1>7. SourceInv'
  <2> DEFINE written == taken \o buffer
             all == Streams!Stream(serialized)
  <2>1. Begins(taken, written) /\ written \in Seq(Byte) /\ all \in Seq(Byte)
    BY <1>3, BeginsJoined, ConcatProperties, StreamIsBytes
  <2>2. Streams!Stream(serialized)' = all
    BY <1>2 DEF Streams!Stream
  <2> SUFFICES ASSUME short # "header"
               PROVE  Begins(source', all) /\ (short = "data" => Len(source') < Len(all))
    BY <1>2, <2>2 DEF SourceInv, Begins
  <2>3. Begins(written, all) /\ (short = "data" => Len(written) < Len(all))
    BY DEF StreamInv, StreamTypeOK, WrittenInv, Begins
  <2> HIDE DEF written, all
  <2>4. Len(written) \in Nat /\ Len(all) \in Nat /\ Len(taken) \in Nat
    BY <1>3, <2>1
  <2> QED
    BY <1>4, <2>1, <2>3, <2>4 DEF Begins
<1>8. PlaceInv'
  <2>1. position = 0
    BY <1>2 DEF StreamInv, StreamTypeOK, PlaceInv
  <2> QED
    BY <1>2, <1>4, <2>1 DEF PlaceInv, Beginning
<1>9. ReaderInv'
  BY <1>2 DEF StreamInv, ReaderInv, Streams!RoundTrip, Streams!Returned, Streams!Stream
<1> QED
  BY <1>5, <1>6, <1>7, <1>8, <1>9 DEF StreamInv

\* What a reader gives is within what is left, and nothing only at the end.
LEMMA GivesWithin ==
  ASSUME NEW n \in Nat, NEW rest \in Nat, NEW h \in Streams!Gives(n, rest)
  PROVE  h \in Nat /\ h <= rest /\ (h = 0 => n = 0 \/ rest = 0)
BY DEF Streams!Gives

\* A part of the source, as long as what it is compared with.
LEMMA PartIs ==
  ASSUME NEW from \in Nat, NEW b \in Seq(Byte), source \in Seq(Byte), from + Len(b) <= Len(source),
         \A i \in 1..Len(b) : source[from + i] = b[i]
  PROVE  Streams!Part(from, Len(b)) = b
<1> DEFINE p == SubSeq(source, from + 1, from + Len(b))
<1>1. /\ p \in Seq(Byte) /\ Len(p) = Len(b)
      /\ \A i \in 1..Len(b) : p[i] = source[from + i]
  OBVIOUS
<1> HIDE DEF p
<1>2. p = b
  BY <1>1, SeqEqual
<1> QED
  BY <1>2 DEF Streams!Part, p

\* A read of a whole chunk: it is the next that was serialized.
LEMMA ReadIsNextChunk ==
  ASSUME StreamInv, mode = "reading", short # "header", NEW sz \in Streams!Lengths(Streams!Part(position + 20, 4)),
         position + 24 <= Len(source), sz \in Nat => position + 24 + sz <= Len(source)
  PROVE  /\ Len(got) < Streams!Returned
         /\ sz = ChunkSize[serialized[Len(got) + 1]]
         /\ Streams!Part(position, 20) = Streams!HashBytes(serialized[Len(got) + 1])
         /\ Streams!Part(position + 24, sz) = Streams!DataBytes(serialized[Len(got) + 1])
<1> DEFINE k == Len(got)
           c == serialized[k + 1]
<1>1. /\ serialized \in Seq(StreamChunks) /\ k \in 0..Len(serialized) /\ position \in Nat /\ source \in Seq(Byte)
      /\ position = Len(Streams!Stream(SubSeq(serialized, 1, k)))
  BY DEF StreamInv, StreamTypeOK, ReaderInv, Streams!RoundTrip, Streams!Returned
<1>2. /\ Begins(source, Streams!Stream(serialized)) /\ Streams!Stream(serialized) \in Seq(Byte)
      /\ short = "data" => Len(source) < Len(Streams!Stream(serialized))
  BY <1>1, StreamIsBytes DEF StreamInv, SourceInv, Beginning
<1>3. k < Len(serialized)
  <2> SUFFICES ASSUME k = Len(serialized) PROVE FALSE
    BY <1>1
  <2>1. SubSeq(serialized, 1, k) = serialized
    BY <1>1, SubSeqFull
  <2>2. Len(source) <= position
    BY <1>1, <1>2, <2>1 DEF Begins
  <2> QED
    BY <1>1, <2>2
<1> HIDE DEF k
<1>4. /\ c \in StreamChunks
      /\ \A i \in 1..(24 + ChunkSize[c]) : Streams!Stream(serialized)[position + i] = Streams!ChunkBytes(c)[i]
  BY <1>1, <1>3, NextChunk
<1>5. ASSUME position + 24 + ChunkSize[c] <= Len(source) PROVE k < Streams!Returned
  <2>1. position + 24 + ChunkSize[c] = Len(Streams!Stream(SubSeq(serialized, 1, k + 1)))
    BY <1>1, <1>3, NextChunk
  <2>2. ASSUME short = "data", k + 1 = Len(serialized) PROVE FALSE
    <3>1. SubSeq(serialized, 1, k + 1) = serialized
      BY <1>1, <2>2, SubSeqFull
    <3>2. Len(source) \in Nat /\ Len(Streams!Stream(serialized)) \in Nat
      BY <1>1, <1>2
    <3>3. Len(Streams!Stream(serialized)) <= Len(source)
      BY <1>5, <2>1, <3>1, Zenon
    <3>4. Len(source) < Len(Streams!Stream(serialized))
      BY <1>2, <2>2
    <3> QED
      BY <3>2, <3>3, <3>4
  <2> QED
    BY <1>1, <1>3, <2>2 DEF Streams!Returned
<1> HIDE DEF c
<1>6. ChunkSize[c] \in Nat
  BY <1>4, ChunkFields
<1>7. ASSUME NEW i \in 1..(24 + ChunkSize[c]), position + i <= Len(source)
      PROVE  source[position + i] = Streams!ChunkBytes(c)[i]
  <2>1. position + i \in 1..Len(source)
    BY <1>1, <1>7
  <2> QED
    BY <1>2, <1>4, <1>7, <2>1 DEF Begins
<1>8. Streams!Part(position, 20) = Streams!HashBytes(c)
  <2>1. Streams!HashBytes(c) \in Seq(Byte) /\ Len(Streams!HashBytes(c)) = 20
    BY <1>4, ChunkFields
  <2>2. ASSUME NEW i \in 1..20 PROVE source[position + i] = Streams!HashBytes(c)[i]
    <3>1. i \in 1..(24 + ChunkSize[c]) /\ position + i <= Len(source)
      BY <1>1, <1>6
    <3> QED
      BY <1>4, <1>7, <3>1, ChunkPlaces
  <2>3. position + Len(Streams!HashBytes(c)) <= Len(source)
    BY <1>1, <2>1
  <2> QED
    BY <1>1, <2>1, <2>2, <2>3, PartIs
<1>9. Streams!Part(position + 20, 4) = Streams!LengthBytes(c)
  <2>1. Streams!LengthBytes(c) \in Seq(Byte) /\ Len(Streams!LengthBytes(c)) = 4
    BY <1>4, ChunkFields
  <2>2. ASSUME NEW i \in 1..4 PROVE source[(position + 20) + i] = Streams!LengthBytes(c)[i]
    <3>1. /\ 20 + i \in 1..(24 + ChunkSize[c]) /\ position + (20 + i) <= Len(source)
          /\ (position + 20) + i = position + (20 + i)
      BY <1>1, <1>6
    <3>2. source[position + (20 + i)] = Streams!ChunkBytes(c)[20 + i]
      BY <1>7, <3>1
    <3> QED
      BY <1>4, <3>1, <3>2, ChunkPlaces
  <2>3. (position + 20) + Len(Streams!LengthBytes(c)) <= Len(source) /\ position + 20 \in Nat
    BY <1>1, <2>1
  <2> QED
    BY <1>1, <2>1, <2>2, <2>3, PartIs
<1>10. sz = ChunkSize[c]
  BY <1>4, <1>9, LengthSaysSize
<1>11. Streams!Part(position + 24, sz) = Streams!DataBytes(c)
  <2>1. Streams!DataBytes(c) \in Seq(Byte) /\ Len(Streams!DataBytes(c)) = ChunkSize[c]
    BY <1>4, ChunkFields
  <2>2. ASSUME NEW i \in 1..ChunkSize[c] PROVE source[(position + 24) + i] = Streams!DataBytes(c)[i]
    <3>1. /\ 24 + i \in 1..(24 + ChunkSize[c]) /\ position + (24 + i) <= Len(source)
          /\ (position + 24) + i = position + (24 + i)
      BY <1>1, <1>6, <1>10
    <3>2. source[position + (24 + i)] = Streams!ChunkBytes(c)[24 + i]
      BY <1>7, <3>1
    <3> QED
      BY <1>4, <3>1, <3>2, ChunkPlaces
  <2>3. (position + 24) + Len(Streams!DataBytes(c)) <= Len(source) /\ position + 24 \in Nat
    BY <1>1, <1>6, <1>10, <2>1
  <2> QED
    BY <1>1, <1>10, <2>1, <2>2, <2>3, PartIs
<1>12. k < Streams!Returned
  BY <1>6, <1>10, <1>5
<1> QED
  BY <1>8, <1>10, <1>11, <1>12 DEF c, k

LEMMA ReturnKeepsStream ==
  ASSUME StreamInv, mode = "reading", short # "header", Len(got) < Streams!Returned,
         NEW c, c = serialized[Len(got) + 1],
         got' = Append(got, [hash |-> Streams!HashBytes(c), data |-> Streams!DataBytes(c)]),
         position' = position + 24 + ChunkSize[c], position' <= Len(source),
         UNCHANGED <<buffer, taken, serialized, short, source, mode>>
  PROVE  StreamInv'
<1>1. /\ serialized \in Seq(StreamChunks) /\ Len(got) \in 0..Len(serialized) /\ Len(got) < Len(serialized)
      /\ position = Len(Streams!Stream(SubSeq(serialized, 1, Len(got))))
      /\ got \in Seq([hash : Seq(Byte), data : Seq(Byte)]) /\ position \in Nat
  BY DEF StreamInv, StreamTypeOK, ReaderInv, Streams!RoundTrip, Streams!Returned
<1>2. c \in StreamChunks /\ position' = Len(Streams!Stream(SubSeq(serialized, 1, Len(got) + 1)))
  BY <1>1, NextChunk
<1>3. ChunkSize[c] \in Nat /\ Streams!HashBytes(c) \in Seq(Byte) /\ Streams!DataBytes(c) \in Seq(Byte)
  BY <1>2, ChunkFields
<1>4. [hash |-> Streams!HashBytes(c), data |-> Streams!DataBytes(c)] \in [hash : Seq(Byte), data : Seq(Byte)]
  BY <1>3
<1>5. /\ got' \in Seq([hash : Seq(Byte), data : Seq(Byte)]) /\ Len(got') = Len(got) + 1
      /\ \A i \in 1..Len(got) : got'[i] = got[i]
      /\ got'[Len(got) + 1] = [hash |-> Streams!HashBytes(c), data |-> Streams!DataBytes(c)]
  BY <1>1, <1>4
<1>6. StreamTypeOK'
  <2>1. position' \in Nat
    BY <1>1, <1>3
  <2> QED
    BY <1>5, <2>1 DEF StreamInv, StreamTypeOK
<1>7. WrittenInv' /\ SourceInv' /\ PlaceInv'
  BY DEF StreamInv, WrittenInv, SourceInv, PlaceInv, Beginning, Begins, Streams!Stream
<1>8. Streams!RoundTrip'
  <2>1. Len(got') <= Streams!Returned' /\ DOMAIN got' = 1..Len(got') /\ DOMAIN got = 1..Len(got)
    <3>1. Streams!Returned' = Streams!Returned /\ Streams!Returned \in Int
      BY <1>1 DEF Streams!Returned
    <3> QED
      BY <1>1, <1>5, <3>1
  <2>2. ASSUME NEW i \in 1..Len(got')
        PROVE  got'[i] = [hash |-> Streams!HashBytes(serialized[i]), data |-> Streams!DataBytes(serialized[i])]
    <3>1. CASE i = Len(got) + 1
      BY <1>5, <3>1
    <3>2. CASE i \in 1..Len(got)
      BY <1>5, <2>1, <3>2 DEF StreamInv, ReaderInv, Streams!RoundTrip
    <3>3. i = Len(got) + 1 \/ i \in 1..Len(got)
      BY <1>1, <1>5
    <3> QED
      BY <3>1, <3>2, <3>3
  <2>3. ASSUME NEW i \in DOMAIN got'
        PROVE  got'[i] = [hash |-> Streams!HashBytes(serialized[i]), data |-> Streams!DataBytes(serialized[i])]'
    BY <2>1, <2>2 DEF Streams!HashBytes, Streams!DataBytes
  <2> QED
    BY <2>1, <2>3 DEF Streams!RoundTrip
<1>9. ReaderInv'
  <2>1. position' = Len(Streams!Stream(SubSeq(serialized, 1, Len(got))))'
    BY <1>2, <1>5 DEF Streams!Stream
  <2> QED
    BY <1>8, <2>1 DEF ReaderInv
<1> QED
  BY <1>6, <1>7, <1>9 DEF StreamInv

LEMMA ThrowKeepsStream ==
  ASSUME StreamInv, mode \notin Beginning, Streams!Throw, UNCHANGED <<buffer, taken, serialized, short, source>>
  PROVE  StreamInv'
<1>1. mode' = "threw" /\ UNCHANGED <<buffer, taken, serialized, short, source, position, got>>
  BY DEF Streams!Throw
<1>2. StreamTypeOK' /\ WrittenInv' /\ SourceInv'
  BY <1>1 DEF StreamInv, StreamTypeOK, WrittenInv, SourceInv, Beginning, Begins, Streams!Stream
<1>3. PlaceInv' /\ ReaderInv'
  BY <1>1 DEF StreamInv, PlaceInv, ReaderInv, Beginning, Streams!RoundTrip, Streams!Returned, Streams!Stream
<1> QED
  BY <1>2, <1>3 DEF StreamInv

LEMMA DeserializeKeepsStream ==
  ASSUME StreamInv, Streams!Deserialize
  PROVE  StreamInv'
<1>1. mode = "reading" /\ mode \notin Beginning /\ UNCHANGED <<buffer, taken, serialized, short, source>>
  BY DEF Streams!Deserialize, Beginning
<1>2. /\ position \in Nat /\ Len(source) \in Nat /\ position <= Len(source) /\ source \in Seq(Byte)
      /\ Len(source) - position \in Nat
  <2>1. position \in Nat /\ Len(source) \in Nat /\ position <= Len(source) /\ source \in Seq(Byte)
    BY DEF StreamInv, StreamTypeOK, PlaceInv
  <2> QED
    BY <2>1
<1>3. PICK h \in Streams!Gives(20, Len(source) - position) :
        IF h = 0 THEN mode' = "eof" /\ UNCHANGED <<position, got>>
        ELSE IF h # 20 THEN Streams!Throw
        ELSE \E l \in Streams!Gives(4, Len(source) - (position + h)) :
               IF l # 4 THEN Streams!Throw
               ELSE \E n \in Streams!Lengths(Streams!Part(position + h, 4)) :
                      \E d \in Streams!Gives(n, Len(source) - (position + h + 4)) :
                        IF d # n THEN Streams!Throw
                        ELSE /\ got' = Append(got, [hash |-> Streams!Part(position, 20),
                                                    data |-> Streams!Part(position + h + 4, d)])
                             /\ position' = position + h + 4 + d
                             /\ UNCHANGED mode
  BY DEF Streams!Deserialize, Streams!AtEnd, Streams!Complete, Streams!ByteLen, Streams!Uint32Size
<1>4. h \in Nat /\ h <= Len(source) - position /\ (h = 0 => position = Len(source))
  <2>1. 20 \in Nat /\ 20 # 0
    OBVIOUS
  <2>2. h \in Nat /\ h <= Len(source) - position /\ (h = 0 => 20 = 0 \/ Len(source) - position = 0)
    BY <1>2, <2>1, GivesWithin
  <2> QED
    BY <1>2, <2>1, <2>2
<1>5. CASE h = 0
  <2>1. mode' = "eof" /\ UNCHANGED <<buffer, taken, serialized, source, position, got>> /\ position = Len(source)
    BY <1>1, <1>3, <1>4, <1>5
  <2>2. StreamTypeOK' /\ WrittenInv' /\ SourceInv'
    BY <1>1, <2>1 DEF StreamInv, StreamTypeOK, WrittenInv, SourceInv, Beginning, Begins, Streams!Stream
  <2>3. PlaceInv' /\ ReaderInv'
    BY <1>1, <2>1 DEF StreamInv, PlaceInv, ReaderInv, Beginning, Streams!RoundTrip, Streams!Returned, Streams!Stream
  <2> QED
    BY <2>2, <2>3 DEF StreamInv
<1>6. CASE Streams!Throw
  BY <1>1, <1>6, ThrowKeepsStream
<1>7. CASE h # 0 /\ ~Streams!Throw
  <2>1. h = 20
    BY <1>3, <1>7
  <2>2. PICK l \in Streams!Gives(4, Len(source) - (position + 20)) :
          IF l # 4 THEN Streams!Throw
          ELSE \E n \in Streams!Lengths(Streams!Part(position + 20, 4)) :
                 \E d \in Streams!Gives(n, Len(source) - (position + 20 + 4)) :
                   IF d # n THEN Streams!Throw
                   ELSE /\ got' = Append(got, [hash |-> Streams!Part(position, 20),
                                               data |-> Streams!Part(position + 20 + 4, d)])
                        /\ position' = position + 20 + 4 + d
                        /\ UNCHANGED mode
    BY <1>3, <1>7, <2>1
  <2>3. l = 4
    BY <1>7, <2>2
  <2>4. position + 24 <= Len(source) /\ Len(source) - (position + 24) \in Nat /\ position + 20 + 4 = position + 24
    <3>1. Len(source) - (position + 20) \in Nat
      BY <1>2, <1>4, <2>1
    <3>2. 4 \in Nat
      OBVIOUS
    <3>3. l <= Len(source) - (position + 20)
      BY <3>1, <3>2, GivesWithin
    <3> QED
      BY <1>2, <2>3, <3>3
  <2>5. PICK n \in Streams!Lengths(Streams!Part(position + 20, 4)) :
          \E d \in Streams!Gives(n, Len(source) - (position + 24)) :
            /\ d = n
            /\ got' = Append(got, [hash |-> Streams!Part(position, 20), data |-> Streams!Part(position + 24, n)])
            /\ position' = position + 24 + n
            /\ UNCHANGED mode
    BY <1>7, <2>2, <2>3, <2>4
  <2>6. n \in Nat => position + 24 + n <= Len(source)
    <3> SUFFICES ASSUME n \in Nat PROVE position + 24 + n <= Len(source)
      OBVIOUS
    <3>1. n <= Len(source) - (position + 24)
      BY <2>4, <2>5, GivesWithin
    <3> QED
      BY <1>2, <3>1
  <2>7. CASE short # "header"
    <3> DEFINE c == serialized[Len(got) + 1]
    <3>1. /\ Len(got) < Streams!Returned /\ n = ChunkSize[c]
          /\ Streams!Part(position, 20) = Streams!HashBytes(c) /\ Streams!Part(position + 24, n) = Streams!DataBytes(c)
      BY <1>1, <2>4, <2>6, <2>7, ReadIsNextChunk
    <3>2. c \in StreamChunks /\ ChunkSize[c] \in Nat
      <4>1. serialized \in Seq(StreamChunks) /\ Len(got) + 1 \in 1..Len(serialized)
        BY <3>1 DEF StreamInv, StreamTypeOK, Streams!Returned
      <4> QED
        BY <4>1, ChunkFields, SMTT(30)
    <3>3. /\ got' = Append(got, [hash |-> Streams!HashBytes(c), data |-> Streams!DataBytes(c)])
          /\ position' = position + 24 + ChunkSize[c] /\ position' <= Len(source) /\ mode' = mode
      BY <2>5, <2>6, <3>1, <3>2
    <3> QED
      BY <1>1, <2>7, <3>1, <3>3, ReturnKeepsStream
  <2>8. CASE short = "header"
    <3>1. n \in Nat
      <4>1. Uint32Values \subseteq Nat /\ \A d \in StreamChunks : ChunkSize[d] \in Nat
        BY StreamAssumption DEF Streams!ChunkStreamAssumption
      <4> QED
        BY <2>5, <4>1 DEF Streams!Lengths
    <3>2. position + 24 + n <= Len(source)
      BY <2>6, <3>1
    <3>3. Streams!Part(position, 20) \in Seq(Byte) /\ Streams!Part(position + 24, n) \in Seq(Byte)
      BY <1>2, <3>1, <3>2 DEF Streams!Part
    <3>4. StreamTypeOK'
      BY <1>1, <1>2, <2>5, <3>1, <3>3 DEF StreamInv, StreamTypeOK
    <3>5. PlaceInv'
      BY <1>1, <2>5, <3>2 DEF PlaceInv
    <3>6. WrittenInv' /\ SourceInv' /\ ReaderInv'
      BY <1>1, <2>8 DEF WrittenInv, SourceInv, ReaderInv
    <3> QED
      BY <3>4, <3>5, <3>6 DEF StreamInv
  <2> QED
    BY <2>7, <2>8
<1> QED
  BY <1>5, <1>6, <1>7

LEMMA StreamInvHolds == Streams!Spec => []StreamInv
<1>1. Streams!Init => StreamInv
  <2> SUFFICES ASSUME Streams!Init PROVE StreamInv
    OBVIOUS
  <2>1. /\ buffer = <<>> /\ taken = <<>> /\ serialized = <<>> /\ source = <<>> /\ position = 0 /\ got = <<>>
        /\ mode = "writing" /\ short = "none"
    BY DEF Streams!Init
  <2>2. StreamTypeOK
    BY <2>1 DEF StreamTypeOK
  <2>3. Streams!Stream(serialized) = <<>> /\ SubSeq(serialized, 1, Len(got)) = <<>>
    BY <2>1, StreamOfNone, SubSeqEmpty
  <2>4. WrittenInv
    BY <2>1, <2>3 DEF WrittenInv
  <2>5. SourceInv
    BY <2>1 DEF SourceInv, Beginning
  <2>6. PlaceInv /\ ReaderInv
    <3>1. Streams!RoundTrip
      BY <2>1 DEF Streams!RoundTrip, Streams!Returned
    <3>2. position = Len(Streams!Stream(SubSeq(serialized, 1, Len(got)))) /\ position <= Len(source)
      <4>1. Streams!Stream(SubSeq(serialized, 1, Len(got))) = <<>>
        BY <2>3, StreamOfNone, Zenon
      <4>2. Len(<<>>) = 0 /\ 0 <= Len(source)
        BY <2>1
      <4> QED
        BY <2>1, <4>1, <4>2, Zenon
    <3> QED
      BY <2>1, <3>1, <3>2 DEF PlaceInv, ReaderInv
  <2> QED
    BY <2>2, <2>4, <2>5, <2>6 DEF StreamInv
<1>2. StreamInv /\ [Streams!Next]_(Streams!vars) => StreamInv'
  <2> SUFFICES ASSUME StreamInv, [Streams!Next]_(Streams!vars) PROVE StreamInv'
    OBVIOUS
  <2>1. CASE UNCHANGED Streams!vars
    BY <2>1 DEF Streams!vars, StreamInv, StreamTypeOK, WrittenInv, SourceInv, PlaceInv, ReaderInv, Begins,
                Streams!RoundTrip, Streams!Returned, Streams!Stream
  <2>2. CASE Streams!Next
    BY <2>2, SerializeKeepsStream, GetChunkKeepsStream, OpenKeepsStream, DeserializeKeepsStream DEF Streams!Next
  <2> QED
    BY <2>1, <2>2
<1> QED
  BY <1>1, <1>2, PTL DEF Streams!Spec

\* Whatever has been serialized is in the stream, byte for byte, and the same chunks are
\* deserialized from it, in their order, also from a stream that was cut, whose writer took
\* too little of the data, or which gives little at a time; one that ends inside a chunk never
\* passes for complete: as long as no write of a hash or a length came short (chunk.cpp:17-50).
THEOREM StreamsKeepTheirChunks == Streams!Spec => []StreamsKeepChunks
<1>1. StreamInv => StreamsKeepChunks
  <2> SUFFICES ASSUME StreamInv PROVE StreamsKeepChunks
    OBVIOUS
  <2>1. Streams!Delivered /\ Streams!RoundTrip
    BY DEF StreamInv, WrittenInv, ReaderInv, Streams!Delivered, Streams!RoundTrip
  <2>2. ASSUME mode = "eof", short # "header" PROVE source = Streams!Stream(SubSeq(serialized, 1, Len(got)))
    <3> DEFINE s == Streams!Stream(SubSeq(serialized, 1, Len(got)))
    <3>1. /\ serialized \in Seq(StreamChunks) /\ Len(got) \in 0..Len(serialized)
          /\ SubSeq(serialized, 1, Len(got)) \in Seq(StreamChunks)
          /\ source \in Seq(Byte) /\ Len(source) = Len(s)
      BY <2>2 DEF StreamInv, StreamTypeOK, PlaceInv, ReaderInv, Streams!RoundTrip, Streams!Returned
    <3>2. s \in Seq(Byte) /\ Begins(s, Streams!Stream(serialized)) /\ Begins(source, Streams!Stream(serialized))
      BY <2>2, <3>1, StreamIsBytes, StreamBegins DEF StreamInv, SourceInv, Beginning
    <3> HIDE DEF s
    <3>3. source = s
      BY <3>1, <3>2, SeqEqual DEF Begins
    <3> QED
      BY <3>3 DEF s
  <2> QED
    BY <2>1, <2>2 DEF StreamsKeepChunks, Streams!EndIsNoticed
<1> QED
  BY <1>1, StreamInvHolds, PTL

-----------------------------------------------------------------------------
(***************************************************************************)
(* Groups: a sequence of whole groups of w, cut and joined.                *)
(***************************************************************************)
\* Member j of group g of w is at w * (g - 1) + j, which is within the first i groups if g is.
LEMMA PlaceInGroups ==
  ASSUME NEW w \in Nat \ {0}, NEW i \in Nat, NEW g \in 1..i, NEW j \in 1..w
  PROVE  w * (g - 1) + j \in 1..(w * i)
<1>1. w * (i - g) >= 0 /\ w * (g - 1) >= 0
  OBVIOUS
<1>2. w * i = w * (g - 1) + w + w * (i - g)
  OBVIOUS
<1>3. w * (g - 1) \in Int /\ w * (i - g) \in Int /\ w * i \in Int
  OBVIOUS
<1> QED
  BY <1>1, <1>2, <1>3

\* Every place is in a group.
LEMMA GroupOfPlace ==
  ASSUME NEW w \in Nat \ {0}, NEW m \in Nat, NEW p \in 1..(w * m)
  PROVE  \E g \in 1..m, j \in 1..w : p = w * (g - 1) + j
<1> DEFINE Reaching == {i \in Nat : p <= w * i}
<1>1. m \in Reaching
  OBVIOUS
<1>2. PICK g \in Reaching : \A i \in Reaching : g <= i
  <2>1. Reaching \in SUBSET Nat /\ Reaching # {}
    BY <1>1
  <2> HIDE DEF Reaching
  <2> QED
    BY <2>1, LeastOf
<1>3. g \in 1..m /\ p <= w * g
  <2>1. p >= 1 /\ w * 0 = 0
    OBVIOUS
  <2>2. g # 0
    BY <1>2, <2>1
  <2> QED
    BY <1>1, <1>2, <2>2
<1>4. ~(p <= w * (g - 1))
  <2>1. g - 1 \in Nat /\ g - 1 \notin Reaching
    BY <1>2, <1>3
  <2> QED
    BY <2>1
<1>5. w * g = w * (g - 1) + w /\ w * (g - 1) \in Int
  BY <1>3
<1>6. p - w * (g - 1) \in 1..w /\ p = w * (g - 1) + (p - w * (g - 1))
  BY <1>3, <1>4, <1>5
<1> QED
  BY <1>3, <1>6

\* What sequences of w each give when they are joined.
LEMMA FlattenGroups ==
  ASSUME NEW T, NEW w \in Nat \ {0}, NEW m \in Nat, NEW q, Len(q) = m, q = <<>> \/ m # 0,
         \A g \in 1..m : q[g] \in Seq(T) /\ Len(q[g]) = w
  PROVE  /\ Strings!FlattenSeq(q) \in Seq(T) /\ Len(Strings!FlattenSeq(q)) = w * m
         /\ \A g \in 1..m, j \in 1..w : Strings!FlattenSeq(q)[w * (g - 1) + j] = q[g][j]
<1>1. CASE m = 0
  <2>1. q = <<>> /\ w * m = 0
    BY <1>1
  <2>2. Strings!FlattenSeq(q) = <<>>
    BY <1>1, <2>1 DEF Strings!FlattenSeq
  <2>3. <<>> \in Seq(T) /\ Len(<<>>) = 0 /\ 1..m = {}
    BY <1>1
  <2> QED
    BY <2>1, <2>2, <2>3
<1>2. CASE m # 0
  <2>1. PICK f : Joins(f, q) /\ Strings!FlattenSeq(q) = f[m]
    <3>1. Len(q) \in Nat \ {0}
      BY <1>2
    <3>2. PICK f : Joins(f, q) /\ Streams!FlattenSeq(q) = f[Len(q)]
      BY <3>1, FlattenJoins
    <3>3. Strings!FlattenSeq(q) = Streams!FlattenSeq(q)
      BY Zenon DEF Strings!FlattenSeq, Streams!FlattenSeq
    <3> QED
      BY <3>2, <3>3
  <2> DEFINE Grouped(i) == /\ f[i] \in Seq(T) /\ Len(f[i]) = w * i
                           /\ \A g \in 1..i, j \in 1..w : f[i][w * (g - 1) + j] = q[g][j]
             Bad == {i \in 1..m : ~Grouped(i)}
  <2>2. Bad = {}
    <3> SUFFICES ASSUME Bad # {} PROVE FALSE
      OBVIOUS
    <3>1. PICK n \in Bad : \A i \in Bad : n <= i
      <4>1. Bad \in SUBSET Nat
        OBVIOUS
      <4> HIDE DEF Bad
      <4> QED
        BY <4>1, LeastOf
    <3>2. n \in 1..m /\ ~Grouped(n)
      OBVIOUS
    <3>3. f[n] = IF n = 1 THEN q[n] ELSE f[n - 1] \o q[n]
      BY <2>1, <3>2 DEF Joins
    <3>4. CASE n = 1
      <4>1. w * 1 = w /\ \A j \in 1..w : w * (1 - 1) + j = j
        OBVIOUS
      <4>2. \A g \in 1..1 : g = 1
        OBVIOUS
      <4> QED
        BY <3>2, <3>3, <3>4, <4>1, <4>2
    <3>5. CASE n # 1
      <4>1. n - 1 \in 1..m /\ n - 1 \notin Bad
        <5>1. n \in Nat /\ n - 1 \in 1..m
          BY <3>2, <3>5
        <5> HIDE DEF Bad
        <5> QED
          BY <3>1, <5>1
      <4>2. Grouped(n - 1)
        BY <4>1
      <4> HIDE DEF Bad
      <4>3. w * n = w * (n - 1) + w /\ w * (n - 1) \in Nat
        <5>1. w \in Nat /\ n \in Nat \ {0}
          BY <3>2
        <5> QED
          BY <5>1, OneTimeMore
      <4>4. q[n] \in Seq(T) /\ Len(q[n]) = w /\ f[n] = f[n - 1] \o q[n]
        BY <3>2, <3>3, <3>5
      <4>5. /\ f[n] \in Seq(T) /\ Len(f[n]) = Len(f[n - 1]) + Len(q[n])
            /\ \A p \in 1..(Len(f[n - 1]) + Len(q[n])) :
                 f[n][p] = IF p <= Len(f[n - 1]) THEN f[n - 1][p] ELSE q[n][p - Len(f[n - 1])]
        <5>1. f[n - 1] \in Seq(T) /\ q[n] \in Seq(T) /\ f[n] = f[n - 1] \o q[n]
          BY <4>2, <4>4
        <5> HIDE DEF Grouped
        <5>2. LET joined == f[n - 1] \o q[n]
              IN  /\ joined \in Seq(T) /\ Len(joined) = Len(f[n - 1]) + Len(q[n])
                  /\ \A p \in 1..(Len(f[n - 1]) + Len(q[n])) :
                       joined[p] = IF p <= Len(f[n - 1]) THEN f[n - 1][p] ELSE q[n][p - Len(f[n - 1])]
          BY <5>1, ConcatProperties, ZenonT(40)
        <5> QED
          BY <5>1, <5>2, Zenon
      <4>6. Len(f[n]) = w * n /\ Len(f[n - 1]) = w * (n - 1)
        BY <4>2, <4>3, <4>4, <4>5
      <4>7. ASSUME NEW g \in 1..n, NEW j \in 1..w PROVE f[n][w * (g - 1) + j] = q[g][j]
        <5>1. w * (g - 1) + j \in 1..Len(f[n])
          <6>1. n \in Nat
            BY <3>2
          <6>2. w * (g - 1) + j \in 1..(w * n)
            BY <6>1, PlaceInGroups
          <6> QED
            BY <4>6, <6>2
        <5>2. CASE g = n
          <6>1. ~(w * (n - 1) + j <= w * (n - 1)) /\ (w * (n - 1) + j) - w * (n - 1) = j
            BY <4>3
          <6> QED
            BY <4>5, <4>6, <5>1, <5>2, <6>1
        <5>3. CASE g # n
          <6>1. g \in 1..(n - 1) /\ n - 1 \in Nat
            BY <3>2, <5>3
          <6>2. w * (g - 1) + j \in 1..(w * (n - 1))
            BY <6>1, PlaceInGroups
          <6>3. w * (g - 1) + j <= Len(f[n - 1])
            BY <4>3, <4>6, <6>2
          <6> QED
            BY <4>2, <4>5, <5>1, <6>1, <6>3
        <5> QED
          BY <5>2, <5>3
      <4> QED
        BY <3>2, <4>5, <4>6, <4>7
    <3> QED
      BY <3>4, <3>5
  <2>3. m \in 1..m
    BY <1>2
  <2>4. Grouped(m)
    <3> HIDE DEF Grouped
    <3>1. m \in 1..m /\ {i \in 1..m : ~Grouped(i)} = {}
      BY <2>2, <2>3
    <3> HIDE DEF Bad
    <3> QED
      BY <3>1, Zenon
  <2> QED
    BY <2>1, <2>4
<1> QED
  BY <1>1, <1>2

\* Two sequences of the same groups are the same.
LEMMA EqualGroups ==
  ASSUME NEW T, NEW w \in Nat \ {0}, NEW m \in Nat, NEW s \in Seq(T), NEW t \in Seq(T),
         Len(s) = w * m, Len(t) = w * m,
         \A g \in 1..m, j \in 1..w : s[w * (g - 1) + j] = t[w * (g - 1) + j]
  PROVE  s = t
<1>1. ASSUME NEW p \in 1..Len(s) PROVE s[p] = t[p]
  <2>1. p \in 1..(w * m)
    OBVIOUS
  <2>2. \E g \in 1..m, j \in 1..w : p = w * (g - 1) + j
    BY <2>1, GroupOfPlace, Zenon
  <2> QED
    BY <2>2
<1> QED
  BY <1>1, SeqEqual

\* The groups of a sequence of whole groups.
LEMMA GroupsOf ==
  ASSUME NEW T, NEW w \in {5, 8}, NEW m \in Nat, NEW s \in Seq(T), Len(s) = w * m
  PROVE  /\ DOMAIN Strings!Groups(s, w) = 1..m /\ Len(Strings!Groups(s, w)) = m
         /\ \A g \in 1..m : Strings!Groups(s, w)[g] = SubSeq(s, w * (g - 1) + 1, w * g)
<1>1. Len(s) \div w = m
  BY SMT
<1> QED
  BY <1>1 DEF Strings!Groups

\* One of them.
LEMMA GroupOf ==
  ASSUME NEW T, NEW w \in {5, 8}, NEW m \in Nat, NEW s \in Seq(T), Len(s) = w * m, NEW g \in 1..m
  PROVE  LET part == Strings!Groups(s, w)[g]
         IN  part \in Seq(T) /\ Len(part) = w /\ \A j \in 1..w : part[j] = s[w * (g - 1) + j]
<1> DEFINE group == SubSeq(s, w * (g - 1) + 1, w * g)
           a == w * (g - 1)
<1>1. a \in Nat /\ w * g = a + w /\ w \in Nat \ {0}
  OBVIOUS
<1>2. \A j \in 1..w : a + j \in 1..Len(s)
  BY PlaceInGroups
<1> HIDE DEF a, group
<1>3. \A i \in (a + 1)..(a + w) : s[i] \in T
  <2> SUFFICES ASSUME NEW i \in (a + 1)..(a + w) PROVE s[i] \in T
    OBVIOUS
  <2>1. i - a \in 1..w /\ a + (i - a) = i
    BY <1>1
  <2> QED
    BY <1>2, <2>1
<1>4. LET sub == SubSeq(s, a + 1, a + w)
      IN  sub \in Seq(T) /\ Len(sub) = w /\ \A j \in 1..w : sub[j] = s[a + j]
  <2>1. a + 1 \in Int /\ a + w \in Int /\ a + 1 <= a + w /\ (a + w) - (a + 1) + 1 = w
    BY <1>1
  <2>2. /\ SubSeq(s, a + 1, a + w) \in Seq(T) /\ Len(SubSeq(s, a + 1, a + w)) = w
        /\ \A j \in 1..w : SubSeq(s, a + 1, a + w)[j] = s[(a + 1) + j - 1]
    BY <1>3, <2>1, SubSeqProperties
  <2>3. \A j \in 1..w : (a + 1) + j - 1 = a + j
    BY <1>1
  <2> QED
    BY <2>2, <2>3
<1>5. group = SubSeq(s, a + 1, a + w)
  BY <1>1 DEF a, group
<1>6. Strings!Groups(s, w)[g] = group
  <2>1. Len(s) \div w = m
    BY SMT
  <2> QED
    BY <2>1 DEF Strings!Groups, group
<1> QED
  BY <1>4, <1>5, <1>6 DEF a

-----------------------------------------------------------------------------
(***************************************************************************)
(* Base32: five bytes and eight values of five bits are the same 40 bits.  *)
(***************************************************************************)
\* What a char keeps of a value of five bits that is shifted.
LEMMA ShiftsAre ==
  ASSUME NEW x \in 0..31
  PROVE  /\ Strings!Shl(x, 1) = x * 2 /\ Strings!Shl(x, 2) = x * 4 /\ Strings!Shl(x, 3) = x * 8
         /\ Strings!Shl(x, 4) = (x % 16) * 16 /\ Strings!Shl(x, 5) = (x % 8) * 32
         /\ Strings!Shl(x, 6) = (x % 4) * 64 /\ Strings!Shl(x, 7) = (x % 2) * 128
<1>1. Strings!Shl(x, 1) = x * 2 /\ Strings!Shl(x, 2) = x * 4 /\ Strings!Shl(x, 3) = x * 8
  BY DEF Strings!Shl
<1>2. Strings!Shl(x, 4) = (x % 16) * 16
  BY DEF Strings!Shl
<1>3. Strings!Shl(x, 5) = (x % 8) * 32
  BY DEF Strings!Shl
<1>4. Strings!Shl(x, 6) = (x % 4) * 64
  BY DEF Strings!Shl
<1>5. Strings!Shl(x, 7) = (x % 2) * 128
  BY DEF Strings!Shl
<1> QED
  BY <1>1, <1>2, <1>3, <1>4, <1>5

\* Five bytes are encoded as eight values of five bits.
LEMMA EncodedAreValues ==
  ASSUME NEW d, d[1] \in 0..255, d[2] \in 0..255, d[3] \in 0..255, d[4] \in 0..255, d[5] \in 0..255
  PROVE  /\ Strings!EncodeGroup(d) \in Seq(0..31) /\ Len(Strings!EncodeGroup(d)) = 8
         /\ \A i \in 1..8 : Strings!EncodeGroup(d)[i] \in 0..31
<1> DEFINE v == Strings!EncodeGroup(d)
<1>1. Len(v) = 8 /\ DOMAIN v = 1..8
  BY DEF Strings!EncodeGroup
<1>2. v[1] \in 0..31
  BY DEF Strings!EncodeGroup
<1>3. v[2] \in 0..31
  BY DEF Strings!EncodeGroup
<1>4. v[3] \in 0..31
  BY DEF Strings!EncodeGroup
<1>5. v[4] \in 0..31
  BY DEF Strings!EncodeGroup
<1>6. v[5] \in 0..31
  BY DEF Strings!EncodeGroup
<1>7. v[6] \in 0..31
  BY DEF Strings!EncodeGroup
<1>8. v[7] \in 0..31
  BY DEF Strings!EncodeGroup
<1>9. v[8] \in 0..31
  BY DEF Strings!EncodeGroup
<1>10. \A i \in 1..8 : v[i] \in 0..31
  <2> HIDE DEF v
  <2> QED
    BY <1>2, <1>3, <1>4, <1>5, <1>6, <1>7, <1>8, <1>9
<1>11. v \in Seq(0..31)
  <2>1. v = [i \in 1..8 |-> v[i]]
    BY SMT DEF Strings!EncodeGroup
  <2> HIDE DEF v
  <2>2. [i \in 1..8 |-> v[i]] \in Seq(0..31)
    BY <1>10
  <2> QED
    BY <2>1, <2>2
<1> QED
  BY <1>1, <1>10, <1>11

\* The bytes of a group come back.
LEMMA DecodeUndoesEncode ==
  ASSUME NEW d, d[1] \in 0..255, d[2] \in 0..255, d[3] \in 0..255, d[4] \in 0..255, d[5] \in 0..255,
         NEW v, \A i \in 1..8 : v[i] = Strings!EncodeGroup(d)[i]
  PROVE  \A c \in 1..5 : Strings!DecodeGroup(v)[c] = d[c]
<1> DEFINE b == Strings!DecodeGroup(v)
<1>1. \A i \in 1..8 : v[i] \in 0..31
  <2>1. \A i \in 1..8 : Strings!EncodeGroup(d)[i] \in 0..31
    BY EncodedAreValues, ZenonT(40)
  <2> QED
    BY <2>1
<1>2. /\ v[1] = d[1] \div 8 /\ v[2] = (d[1] % 8) * 4 + d[2] \div 64 /\ v[3] = (d[2] \div 2) % 32
      /\ v[4] = (d[2] % 2) * 16 + d[3] \div 16 /\ v[5] = (d[3] % 16) * 2 + d[4] \div 128
      /\ v[6] = (d[4] \div 4) % 32 /\ v[7] = (d[4] % 4) * 8 + d[5] \div 32 /\ v[8] = d[5] % 32
  BY DEF Strings!EncodeGroup
<1>3. /\ b[1] = Strings!Shl(v[1], 3) + v[2] \div 4
      /\ b[2] = Strings!Shl(v[2], 6) + Strings!Shl(v[3], 1) + v[4] \div 16
      /\ b[3] = Strings!Shl(v[4], 4) + v[5] \div 2
      /\ b[4] = Strings!Shl(v[5], 7) + Strings!Shl(v[6], 2) + v[7] \div 8
      /\ b[5] = Strings!Shl(v[7], 5) + v[8]
  BY DEF Strings!DecodeGroup
<1>4. /\ b[1] = v[1] * 8 + v[2] \div 4
      /\ b[2] = (v[2] % 4) * 64 + v[3] * 2 + v[4] \div 16
      /\ b[3] = (v[4] % 16) * 16 + v[5] \div 2
      /\ b[4] = (v[5] % 2) * 128 + v[6] * 4 + v[7] \div 8
      /\ b[5] = (v[7] % 8) * 32 + v[8]
  BY <1>1, <1>3, ShiftsAre
<1> HIDE DEF b
<1>5. b[1] = d[1]
  BY <1>2, <1>4, SMTT(60)
<1>6. b[2] = d[2]
  BY <1>2, <1>4, SMTT(60)
<1>7. b[3] = d[3]
  BY <1>2, <1>4, SMTT(60)
<1>8. b[4] = d[4]
  BY <1>2, <1>4, SMTT(60)
<1>9. b[5] = d[5]
  BY <1>2, <1>4, SMTT(60)
<1> QED
  BY <1>5, <1>6, <1>7, <1>8, <1>9 DEF b

\* Eight values of five bits are decoded as five bytes.
LEMMA DecodedAreBytes ==
  ASSUME NEW v, \A i \in 1..8 : v[i] \in 0..31
  PROVE  /\ Strings!DecodeGroup(v) \in Seq(0..255) /\ Len(Strings!DecodeGroup(v)) = 5
         /\ \A i \in 1..5 : Strings!DecodeGroup(v)[i] \in 0..255
         /\ LET b == Strings!DecodeGroup(v)
            IN  /\ b[1] = v[1] * 8 + v[2] \div 4
                /\ b[2] = (v[2] % 4) * 64 + v[3] * 2 + v[4] \div 16
                /\ b[3] = (v[4] % 16) * 16 + v[5] \div 2
                /\ b[4] = (v[5] % 2) * 128 + v[6] * 4 + v[7] \div 8
                /\ b[5] = (v[7] % 8) * 32 + v[8]
<1> DEFINE b == Strings!DecodeGroup(v)
<1>1. /\ b[1] = Strings!Shl(v[1], 3) + v[2] \div 4
      /\ b[2] = Strings!Shl(v[2], 6) + Strings!Shl(v[3], 1) + v[4] \div 16
      /\ b[3] = Strings!Shl(v[4], 4) + v[5] \div 2
      /\ b[4] = Strings!Shl(v[5], 7) + Strings!Shl(v[6], 2) + v[7] \div 8
      /\ b[5] = Strings!Shl(v[7], 5) + v[8]
  BY DEF Strings!DecodeGroup
<1>2. /\ b[1] = v[1] * 8 + v[2] \div 4
      /\ b[2] = (v[2] % 4) * 64 + v[3] * 2 + v[4] \div 16
      /\ b[3] = (v[4] % 16) * 16 + v[5] \div 2
      /\ b[4] = (v[5] % 2) * 128 + v[6] * 4 + v[7] \div 8
      /\ b[5] = (v[7] % 8) * 32 + v[8]
  BY <1>1, ShiftsAre
<1>3. Len(b) = 5 /\ b = [i \in 1..5 |-> b[i]]
  BY SMT DEF Strings!DecodeGroup
<1> HIDE DEF b
<1>4. b[1] \in 0..255 /\ b[2] \in 0..255 /\ b[3] \in 0..255 /\ b[4] \in 0..255 /\ b[5] \in 0..255
  BY <1>2
<1>5. \A i \in 1..5 : b[i] \in 0..255
  BY <1>4
<1>6. [i \in 1..5 |-> b[i]] \in Seq(0..255)
  BY <1>5
<1> QED
  BY <1>2, <1>3, <1>5, <1>6 DEF b

\* The values of a group come back.
LEMMA EncodeUndoesDecode ==
  ASSUME NEW v, \A i \in 1..8 : v[i] \in 0..31,
         NEW d, \A c \in 1..5 : d[c] = Strings!DecodeGroup(v)[c]
  PROVE  \A i \in 1..8 : Strings!EncodeGroup(d)[i] = v[i]
<1> DEFINE u == Strings!EncodeGroup(d)
<1>1. /\ d[1] = v[1] * 8 + v[2] \div 4
      /\ d[2] = (v[2] % 4) * 64 + v[3] * 2 + v[4] \div 16
      /\ d[3] = (v[4] % 16) * 16 + v[5] \div 2
      /\ d[4] = (v[5] % 2) * 128 + v[6] * 4 + v[7] \div 8
      /\ d[5] = (v[7] % 8) * 32 + v[8]
  BY DecodedAreBytes
<1>2. /\ u[1] = d[1] \div 8 /\ u[2] = (d[1] % 8) * 4 + d[2] \div 64 /\ u[3] = (d[2] \div 2) % 32
      /\ u[4] = (d[2] % 2) * 16 + d[3] \div 16 /\ u[5] = (d[3] % 16) * 2 + d[4] \div 128
      /\ u[6] = (d[4] \div 4) % 32 /\ u[7] = (d[4] % 4) * 8 + d[5] \div 32 /\ u[8] = d[5] % 32
  BY DEF Strings!EncodeGroup
<1> HIDE DEF u
<1>3. u[1] = v[1]
  BY <1>1, <1>2
<1>4. u[2] = v[2]
  BY <1>1, <1>2
<1>5. u[3] = v[3]
  BY <1>1, <1>2
<1>6. u[4] = v[4]
  BY <1>1, <1>2
<1>7. u[5] = v[5]
  BY <1>1, <1>2
<1>8. u[6] = v[6]
  BY <1>1, <1>2
<1>9. u[7] = v[7]
  BY <1>1, <1>2
<1>10. u[8] = v[8]
  BY <1>1, <1>2
<1> QED
  BY <1>3, <1>4, <1>5, <1>6, <1>7, <1>8, <1>9, <1>10 DEF u

\* The bits of a value of five bits and of a byte, the highest first.
LEMMA BitsOfValue ==
  ASSUME NEW x \in 0..31
  PROVE  /\ Strings!Bit(x, 5, 1) = (x \div 16) % 2 /\ Strings!Bit(x, 5, 2) = (x \div 8) % 2
         /\ Strings!Bit(x, 5, 3) = (x \div 4) % 2 /\ Strings!Bit(x, 5, 4) = (x \div 2) % 2
         /\ Strings!Bit(x, 5, 5) = x % 2
<1>1. 5 - 1 = 4 /\ 5 - 2 = 3 /\ 5 - 3 = 2 /\ 5 - 4 = 1 /\ 5 - 5 = 0
  OBVIOUS
<1>2. 2 ^ 0 = 1 /\ 2 ^ 1 = 2 /\ 2 ^ 2 = 4 /\ 2 ^ 3 = 8 /\ 2 ^ 4 = 16
  OBVIOUS
<1> QED
  BY <1>1, <1>2 DEF Strings!Bit

LEMMA BitsOfByte ==
  ASSUME NEW x \in 0..255
  PROVE  /\ Strings!Bit(x, 8, 1) = (x \div 128) % 2 /\ Strings!Bit(x, 8, 2) = (x \div 64) % 2
         /\ Strings!Bit(x, 8, 3) = (x \div 32) % 2 /\ Strings!Bit(x, 8, 4) = (x \div 16) % 2
         /\ Strings!Bit(x, 8, 5) = (x \div 8) % 2 /\ Strings!Bit(x, 8, 6) = (x \div 4) % 2
         /\ Strings!Bit(x, 8, 7) = (x \div 2) % 2 /\ Strings!Bit(x, 8, 8) = x % 2
<1>1. 8 - 1 = 7 /\ 8 - 2 = 6 /\ 8 - 3 = 5 /\ 8 - 4 = 4 /\ 8 - 5 = 3 /\ 8 - 6 = 2 /\ 8 - 7 = 1 /\ 8 - 8 = 0
  OBVIOUS
<1>2. /\ 2 ^ 0 = 1 /\ 2 ^ 1 = 2 /\ 2 ^ 2 = 4 /\ 2 ^ 3 = 8
      /\ 2 ^ 4 = 16 /\ 2 ^ 5 = 32 /\ 2 ^ 6 = 64 /\ 2 ^ 7 = 128
  OBVIOUS
<1> QED
  BY <1>1, <1>2 DEF Strings!Bit

LEMMA BitsAreBits ==
  /\ \A x \in 0..31, k \in 1..5 : Strings!Bit(x, 5, k) \in 0..1
  /\ \A x \in 0..255, k \in 1..8 : Strings!Bit(x, 8, k) \in 0..1
<1>1. ASSUME NEW x \in 0..31, NEW k \in 1..5 PROVE Strings!Bit(x, 5, k) \in 0..1
  BY BitsOfValue
<1>2. ASSUME NEW x \in 0..255, NEW k \in 1..8 PROVE Strings!Bit(x, 8, k) \in 0..1
  BY BitsOfByte
<1> QED
  BY <1>1, <1>2

\* Bit k of value a of a group is bit l of byte c that is as far from the start.
LEMMA BitsOfGroup ==
  ASSUME NEW d, d[1] \in 0..255, d[2] \in 0..255, d[3] \in 0..255, d[4] \in 0..255, d[5] \in 0..255,
         NEW a \in 1..8, NEW k \in 1..5, NEW c \in 1..5, NEW l \in 1..8, 5 * (a - 1) + k = 8 * (c - 1) + l
  PROVE  Strings!Bit(Strings!EncodeGroup(d)[a], 5, k) = Strings!Bit(d[c], 8, l)
<1> DEFINE v == Strings!EncodeGroup(d)
<1>1. /\ v[1] = d[1] \div 8 /\ v[2] = (d[1] % 8) * 4 + d[2] \div 64 /\ v[3] = (d[2] \div 2) % 32
      /\ v[4] = (d[2] % 2) * 16 + d[3] \div 16 /\ v[5] = (d[3] % 16) * 2 + d[4] \div 128
      /\ v[6] = (d[4] \div 4) % 32 /\ v[7] = (d[4] % 4) * 8 + d[5] \div 32 /\ v[8] = d[5] % 32
  BY DEF Strings!EncodeGroup
<1> HIDE DEF v
<1>2. /\ (v[1] \div 16) % 2 = (d[1] \div 128) % 2 /\ (v[1] \div 8) % 2 = (d[1] \div 64) % 2
      /\ (v[1] \div 4) % 2 = (d[1] \div 32) % 2 /\ (v[1] \div 2) % 2 = (d[1] \div 16) % 2
      /\ v[1] % 2 = (d[1] \div 8) % 2
  BY <1>1
<1>3. /\ (v[2] \div 16) % 2 = (d[1] \div 4) % 2 /\ (v[2] \div 8) % 2 = (d[1] \div 2) % 2
      /\ (v[2] \div 4) % 2 = d[1] % 2 /\ (v[2] \div 2) % 2 = (d[2] \div 128) % 2
      /\ v[2] % 2 = (d[2] \div 64) % 2
  BY <1>1
<1>4. /\ (v[3] \div 16) % 2 = (d[2] \div 32) % 2 /\ (v[3] \div 8) % 2 = (d[2] \div 16) % 2
      /\ (v[3] \div 4) % 2 = (d[2] \div 8) % 2 /\ (v[3] \div 2) % 2 = (d[2] \div 4) % 2
      /\ v[3] % 2 = (d[2] \div 2) % 2
  BY <1>1
<1>5. /\ (v[4] \div 16) % 2 = d[2] % 2 /\ (v[4] \div 8) % 2 = (d[3] \div 128) % 2
      /\ (v[4] \div 4) % 2 = (d[3] \div 64) % 2 /\ (v[4] \div 2) % 2 = (d[3] \div 32) % 2
      /\ v[4] % 2 = (d[3] \div 16) % 2
  BY <1>1
<1>6. /\ (v[5] \div 16) % 2 = (d[3] \div 8) % 2 /\ (v[5] \div 8) % 2 = (d[3] \div 4) % 2
      /\ (v[5] \div 4) % 2 = (d[3] \div 2) % 2 /\ (v[5] \div 2) % 2 = d[3] % 2
      /\ v[5] % 2 = (d[4] \div 128) % 2
  BY <1>1
<1>7. /\ (v[6] \div 16) % 2 = (d[4] \div 64) % 2 /\ (v[6] \div 8) % 2 = (d[4] \div 32) % 2
      /\ (v[6] \div 4) % 2 = (d[4] \div 16) % 2 /\ (v[6] \div 2) % 2 = (d[4] \div 8) % 2
      /\ v[6] % 2 = (d[4] \div 4) % 2
  BY <1>1
<1>8. /\ (v[7] \div 16) % 2 = (d[4] \div 2) % 2 /\ (v[7] \div 8) % 2 = d[4] % 2
      /\ (v[7] \div 4) % 2 = (d[5] \div 128) % 2 /\ (v[7] \div 2) % 2 = (d[5] \div 64) % 2
      /\ v[7] % 2 = (d[5] \div 32) % 2
  BY <1>1
<1>9. /\ (v[8] \div 16) % 2 = (d[5] \div 16) % 2 /\ (v[8] \div 8) % 2 = (d[5] \div 8) % 2
      /\ (v[8] \div 4) % 2 = (d[5] \div 4) % 2 /\ (v[8] \div 2) % 2 = (d[5] \div 2) % 2
      /\ v[8] % 2 = d[5] % 2
  BY <1>1
<1>10. v[a] \in 0..31 /\ d[c] \in 0..255
  <2>1. \A i \in 1..8 : v[i] \in 0..31
    BY EncodedAreValues, ZenonT(40) DEF v
  <2> QED
    BY <2>1
<1>11. ASSUME a = 1 PROVE Strings!Bit(v[a], 5, k) = Strings!Bit(d[c], 8, l)
  BY <1>2, <1>10, <1>11, BitsOfValue, BitsOfByte, SMTT(40)
<1>12. ASSUME a = 2 PROVE Strings!Bit(v[a], 5, k) = Strings!Bit(d[c], 8, l)
  BY <1>3, <1>10, <1>12, BitsOfValue, BitsOfByte, SMTT(40)
<1>13. ASSUME a = 3 PROVE Strings!Bit(v[a], 5, k) = Strings!Bit(d[c], 8, l)
  BY <1>4, <1>10, <1>13, BitsOfValue, BitsOfByte, SMTT(40)
<1>14. ASSUME a = 4 PROVE Strings!Bit(v[a], 5, k) = Strings!Bit(d[c], 8, l)
  BY <1>5, <1>10, <1>14, BitsOfValue, BitsOfByte, SMTT(40)
<1>15. ASSUME a = 5 PROVE Strings!Bit(v[a], 5, k) = Strings!Bit(d[c], 8, l)
  BY <1>6, <1>10, <1>15, BitsOfValue, BitsOfByte, SMTT(40)
<1>16. ASSUME a = 6 PROVE Strings!Bit(v[a], 5, k) = Strings!Bit(d[c], 8, l)
  BY <1>7, <1>10, <1>16, BitsOfValue, BitsOfByte, SMTT(40)
<1>17. ASSUME a = 7 PROVE Strings!Bit(v[a], 5, k) = Strings!Bit(d[c], 8, l)
  BY <1>8, <1>10, <1>17, BitsOfValue, BitsOfByte, SMTT(40)
<1>18. ASSUME a = 8 PROVE Strings!Bit(v[a], 5, k) = Strings!Bit(d[c], 8, l)
  BY <1>9, <1>10, <1>18, BitsOfValue, BitsOfByte, SMTT(40)
<1> QED
  BY <1>11, <1>12, <1>13, <1>14, <1>15, <1>16, <1>17, <1>18 DEF v

\* What a sequence holds.
LEMMA MembersOf ==
  ASSUME NEW T, NEW n \in Nat, NEW s \in Seq(T), Len(s) = n
  PROVE  DOMAIN s = 1..n /\ \A i \in 1..n : s[i] \in T
  OBVIOUS

\* The characters of the alphabet and their values.
LEMMA Characters ==
  /\ \A v \in 0..31 : /\ Strings!alphabet[v] \in 48..57 \cup 97..118
                      /\ Strings!CharToValue(Strings!alphabet[v]) = v
                      /\ (CHOOSE u \in 0..31 : Strings!alphabet[u] = Strings!alphabet[v]) = v
  /\ \A c \in 48..57 \cup 97..118 : /\ Strings!CharToValue(c) \in 0..31
                                    /\ Strings!alphabet[Strings!CharToValue(c)] = c
  /\ \A c \in Nat : Strings!CharToValue(c) \in 0..31 \cup {Thrown}
<1>1. ASSUME NEW v \in 0..31
      PROVE  /\ Strings!alphabet[v] \in 48..57 \cup 97..118
             /\ Strings!CharToValue(Strings!alphabet[v]) = v
  BY DEF Strings!alphabet, Strings!CharToValue
<1>2. ASSUME NEW v \in 0..31
      PROVE  (CHOOSE u \in 0..31 : Strings!alphabet[u] = Strings!alphabet[v]) = v
  <2>1. \A u \in 0..31 : Strings!alphabet[u] = Strings!alphabet[v] => u = v
    BY DEF Strings!alphabet
  <2> HIDE DEF Strings!alphabet
  <2> QED
    BY <2>1
<1>3. ASSUME NEW c \in 48..57 \cup 97..118
      PROVE  Strings!CharToValue(c) \in 0..31 /\ Strings!alphabet[Strings!CharToValue(c)] = c
  BY DEF Strings!alphabet, Strings!CharToValue
<1>4. \A c \in Nat : Strings!CharToValue(c) \in 0..31 \cup {Thrown}
  BY DEF Strings!CharToValue
<1> QED
  BY <1>1, <1>2, <1>3, <1>4

\* The five bytes of a group: e is group g of d.
IsGroup(e, d, g) ==
  /\ e[1] \in 0..255 /\ e[2] \in 0..255 /\ e[3] \in 0..255 /\ e[4] \in 0..255 /\ e[5] \in 0..255
  /\ \A c \in 1..5 : e[c] = d[5 * (g - 1) + c]

LEMMA BytesOfGroup ==
  ASSUME NEW m \in Nat, NEW d \in Seq(0..255), Len(d) = 5 * m, NEW g \in 1..m
  PROVE  IsGroup(Strings!Groups(d, 5)[g], d, g)
<1> DEFINE T == 0..255
           e == Strings!Groups(d, 5)[g]
<1>1. d \in Seq(T)
  OBVIOUS
<1> HIDE DEF T
<1>2. e \in Seq(T) /\ Len(e) = 5 /\ \A c \in 1..5 : e[c] = d[5 * (g - 1) + c]
  BY <1>1, GroupOf
<1> HIDE DEF e
<1>3. \A i \in 1..5 : e[i] \in T
  <2>1. 5 \in Nat
    OBVIOUS
  <2>2. e \in Seq(T) /\ Len(e) = 5
    BY <1>2
  <2> QED
    BY <2>1, <2>2, MembersOf
<1>4. e[1] \in T /\ e[2] \in T /\ e[3] \in T /\ e[4] \in T /\ e[5] \in T
  BY <1>3
<1>5. e[1] \in 0..255 /\ e[2] \in 0..255 /\ e[3] \in 0..255 /\ e[4] \in 0..255 /\ e[5] \in 0..255
  BY <1>4, Zenon DEF T
<1>6. \A c \in 1..5 : e[c] = d[5 * (g - 1) + c]
  BY <1>2, Zenon
<1>7. IsGroup(e, d, g)
  BY <1>5, <1>6, Zenon DEF IsGroup
<1> QED
  BY <1>7, Zenon DEF e

\* What is encoded, value by value.
IsStringOf(s, d, m) ==
  /\ s \in Seq(48..57 \cup 97..118) /\ Len(s) = 8 * m
  /\ \A g \in 1..m, a \in 1..8 :
       LET v == Strings!EncodeGroup(Strings!Groups(d, 5)[g])[a]
       IN  v \in 0..31 /\ s[8 * (g - 1) + a] = Strings!alphabet[v]

LEMMA EncodedPlaces ==
  ASSUME NEW m \in Nat, NEW d \in Seq(0..255), Len(d) = 5 * m
  PROVE  IsStringOf(Strings!Encode32(d), d, m)
<1> DEFINE G == Strings!Groups(d, 5)
           V == 0..31
           q == [g \in DOMAIN G |-> Strings!EncodeGroup(G[g])]
           values == Strings!FlattenSeq(q)
           chars == [i \in DOMAIN values |-> Strings!alphabet[values[i]]]
<1>1. Strings!Encode32(d) = chars
  <2>1. Len(d) % 5 = 0
    OBVIOUS
  <2> QED
    BY <2>1, Zenon DEF Strings!Encode32
<1>2. DOMAIN G = 1..m
  BY GroupsOf
<1>3. \A g \in 1..m : Strings!EncodeGroup(G[g]) \in Seq(V) /\ Len(Strings!EncodeGroup(G[g])) = 8
  <2> SUFFICES ASSUME NEW g \in 1..m
               PROVE  Strings!EncodeGroup(G[g]) \in Seq(V) /\ Len(Strings!EncodeGroup(G[g])) = 8
    OBVIOUS
  <2> DEFINE e == G[g]
  <2>1. IsGroup(e, d, g)
    BY BytesOfGroup
  <2> HIDE DEF e
  <2>2. Strings!EncodeGroup(e) \in Seq(0..31) /\ Len(Strings!EncodeGroup(e)) = 8
    BY <2>1, EncodedAreValues DEF IsGroup
  <2> QED
    BY <2>2 DEF e
<1> HIDE DEF G
<1>4. /\ Len(q) = m /\ (q = <<>> \/ m # 0)
      /\ \A g \in 1..m : q[g] = Strings!EncodeGroup(G[g])
  BY <1>2
<1> DEFINE w == 8
<1>5. w \in Nat \ {0} /\ \A g \in 1..m : q[g] \in Seq(V) /\ Len(q[g]) = w
  BY <1>3, <1>4
<1> HIDE DEF q, V, w
<1>6. /\ values \in Seq(V) /\ Len(values) = w * m
      /\ \A g \in 1..m, a \in 1..w : values[w * (g - 1) + a] = q[g][a]
  BY <1>4, <1>5, FlattenGroups
<1> USE DEF w
<1> HIDE DEF values
<1> DEFINE n == 8 * m
           C == 48..57 \cup 97..118
<1>7. n \in Nat /\ DOMAIN values = 1..n /\ \A i \in 1..n : values[i] \in 0..31
  <2>1. n \in Nat /\ values \in Seq(V) /\ Len(values) = n
    BY <1>6
  <2> HIDE DEF n, w
  <2>2. DOMAIN values = 1..n /\ \A i \in 1..n : values[i] \in V
    BY <2>1, MembersOf
  <2> QED
    BY <2>1, <2>2 DEF V
<1>8. chars \in Seq(C) /\ Len(chars) = n
  <2>1. \A i \in 1..n : Strings!alphabet[values[i]] \in C
    BY <1>7, Characters
  <2> HIDE DEF C, n
  <2> QED
    BY <1>7, <2>1
<1>9. ASSUME NEW g \in 1..m, NEW a \in 1..8
      PROVE  /\ Strings!EncodeGroup(G[g])[a] \in 0..31
             /\ chars[8 * (g - 1) + a] = Strings!alphabet[Strings!EncodeGroup(G[g])[a]]
  <2>1. 8 * (g - 1) + a \in 1..(8 * m)
    OBVIOUS
  <2>2. values[8 * (g - 1) + a] = Strings!EncodeGroup(G[g])[a]
    BY <1>4, <1>6, ZenonT(40)
  <2> QED
    BY <1>7, <2>1, <2>2
<1> HIDE DEF chars
<1> QED
  BY <1>1, <1>8, <1>9 DEF G, IsStringOf

\* An exception is neither a value nor a string nor a buffer.
LEMMA ThrownIsElse == Thrown \notin Nat /\ Thrown \notin Seq(Nat)
<1>1. Thrown \notin Nat \cup Seq(Nat)
  BY StringAssumption, Zenon DEF Strings!Base32Assumption
<1> QED
  BY <1>1

\* What decode32 takes: groups of eight characters that all have values, for five bytes each.
LEMMA DecodedOrThrown ==
  ASSUME NEW s \in Seq(Nat), NEW n \in Nat, Strings!Decode32(s, n) # Thrown
  PROVE  \E m \in Nat : /\ Len(s) = 8 * m /\ n = 5 * m
                        /\ \A i \in 1..Len(s) : Strings!CharToValue(s[i]) \in 0..31
<1> DEFINE values == [i \in DOMAIN s |-> Strings!CharToValue(s[i])]
<1>1. ~((Len(s) * 5) % 8 # 0 \/ n * 8 # Len(s) * 5 \/ \E i \in DOMAIN s : values[i] = Thrown)
  BY Zenon DEF Strings!Decode32
<1>2. Len(s) \in Nat /\ (Len(s) * 5) % 8 = 0 /\ n * 8 = Len(s) * 5
  BY <1>1
<1>3. Len(s) \div 8 \in Nat /\ Len(s) = 8 * (Len(s) \div 8) /\ n = 5 * (Len(s) \div 8)
  BY <1>2
<1>4. ASSUME NEW i \in 1..Len(s) PROVE Strings!CharToValue(s[i]) \in 0..31
  <2>1. s[i] \in Nat /\ i \in DOMAIN s
    OBVIOUS
  <2>2. Strings!CharToValue(s[i]) # Thrown
    BY <1>1, <2>1
  <2>3. Strings!CharToValue(s[i]) \in 0..31 \cup {Thrown}
    BY <2>1, Characters
  <2> QED
    BY <2>2, <2>3
<1> QED
  BY <1>3, <1>4

\* What is decoded, byte by byte.
LEMMA DecodedPlaces ==
  ASSUME NEW m \in Nat, NEW s \in Seq(Nat), Len(s) = 8 * m,
         \A i \in 1..Len(s) : Strings!CharToValue(s[i]) \in 0..31
  PROVE  LET values == [i \in DOMAIN s |-> Strings!CharToValue(s[i])]
             V(g) == Strings!Groups(values, 8)[g]
         IN  /\ Strings!Decode32(s, 5 * m) \in Seq(0..255) /\ Len(Strings!Decode32(s, 5 * m)) = 5 * m
             /\ \A g \in 1..m : \A a \in 1..8 : /\ V(g)[a] \in 0..31
                                                /\ V(g)[a] = Strings!CharToValue(s[8 * (g - 1) + a])
             /\ \A g \in 1..m, c \in 1..5 :
                  Strings!Decode32(s, 5 * m)[5 * (g - 1) + c] = Strings!DecodeGroup(V(g))[c]
<1> DEFINE values == [i \in DOMAIN s |-> Strings!CharToValue(s[i])]
           G == Strings!Groups(values, 8)
           T == 0..31
           B == 0..255
           n == 8 * m
           q == [g \in DOMAIN G |-> Strings!DecodeGroup(G[g])]
           joined == Strings!FlattenSeq(q)
<1>1. n \in Nat /\ Len(s) = n /\ DOMAIN s = 1..n
  OBVIOUS
<1>2. values \in Seq(T) /\ Len(values) = n /\ \A i \in 1..n : values[i] = Strings!CharToValue(s[i])
  <2>1. \A i \in 1..n : Strings!CharToValue(s[i]) \in T
    BY <1>1
  <2> HIDE DEF n, T
  <2> QED
    BY <1>1, <2>1
<1>3. Strings!Decode32(s, 5 * m) = joined
  <2>1. ~((Len(s) * 5) % 8 # 0 \/ (5 * m) * 8 # Len(s) * 5 \/ \E i \in DOMAIN s : values[i] = Thrown)
    <3>1. (Len(s) * 5) % 8 = 0 /\ (5 * m) * 8 = Len(s) * 5
      OBVIOUS
    <3>2. \A v \in 0..31 : v # Thrown
      BY ThrownIsElse
    <3>3. \A i \in DOMAIN s : values[i] # Thrown
      BY <1>1, <3>2
    <3> QED
      BY <3>1, <3>3
  <2> QED
    BY <2>1, Zenon DEF Strings!Decode32
<1> HIDE DEF values, T
<1>4. DOMAIN G = 1..m /\ \A g \in 1..m : G[g] \in Seq(T) /\ Len(G[g]) = 8
  <2>1. DOMAIN G = 1..m
    BY <1>2, GroupsOf
  <2>2. ASSUME NEW g \in 1..m PROVE G[g] \in Seq(T) /\ Len(G[g]) = 8
    BY <1>2, GroupOf
  <2> QED
    BY <2>1, <2>2
<1>5. ASSUME NEW g \in 1..m, NEW a \in 1..8
      PROVE  G[g][a] \in 0..31 /\ G[g][a] = Strings!CharToValue(s[8 * (g - 1) + a])
  <2>1. G[g][a] = values[8 * (g - 1) + a]
    BY <1>2, GroupOf, ZenonT(40)
  <2>2. 8 * (g - 1) + a \in 1..n
    OBVIOUS
  <2> QED
    BY <1>1, <1>2, <2>1, <2>2, SMTT(40)
<1> HIDE DEF G, n
<1>6. \A g \in 1..m : Strings!DecodeGroup(G[g]) \in Seq(B) /\ Len(Strings!DecodeGroup(G[g])) = 5
  <2> SUFFICES ASSUME NEW g \in 1..m
               PROVE  Strings!DecodeGroup(G[g]) \in Seq(0..255) /\ Len(Strings!DecodeGroup(G[g])) = 5
    OBVIOUS
  <2> DEFINE e == G[g]
  <2>1. \A a \in 1..8 : e[a] \in 0..31
    BY <1>5
  <2> HIDE DEF e
  <2>2. Strings!DecodeGroup(e) \in Seq(0..255) /\ Len(Strings!DecodeGroup(e)) = 5
    BY <2>1, DecodedAreBytes
  <2> QED
    BY <2>2 DEF e
<1>7. /\ Len(q) = m /\ (q = <<>> \/ m # 0)
      /\ \A g \in 1..m : q[g] = Strings!DecodeGroup(G[g])
  BY <1>4
<1> DEFINE w == 5
<1>8. w \in Nat \ {0} /\ \A g \in 1..m : q[g] \in Seq(B) /\ Len(q[g]) = w
  BY <1>6, <1>7
<1> HIDE DEF q, B, w
<1>9. /\ joined \in Seq(B) /\ Len(joined) = w * m
      /\ \A g \in 1..m, c \in 1..w : joined[w * (g - 1) + c] = q[g][c]
  BY <1>7, <1>8, FlattenGroups, SMTT(40)
<1> HIDE DEF joined
<1> QED
  BY <1>3, <1>5, <1>7, <1>9, ZenonT(40) DEF B, w, G, values

\* A string of the alphabet has values throughout.
LEMMA CharactersHaveValues ==
  ASSUME NEW n \in Nat, NEW s \in Seq(48..57 \cup 97..118), Len(s) = n
  PROVE  /\ s \in Seq(Nat) /\ DOMAIN s = 1..n
         /\ \A i \in 1..n : /\ s[i] \in 48..57 \cup 97..118
                            /\ Strings!CharToValue(s[i]) \in 0..31
                            /\ Strings!alphabet[Strings!CharToValue(s[i])] = s[i]
<1> DEFINE C == 48..57 \cup 97..118
<1>1. s \in Seq(C)
  OBVIOUS
<1> HIDE DEF C
<1>2. DOMAIN s = 1..n /\ \A i \in 1..n : s[i] \in C
  BY <1>1, MembersOf
<1>3. \A c \in C : c \in Nat
  BY DEF C
<1>4. s \in Seq(Nat)
  BY <1>1, <1>2, <1>3
<1>5. \A c \in C : Strings!CharToValue(c) \in 0..31 /\ Strings!alphabet[Strings!CharToValue(c)] = c
  BY Characters DEF C
<1> QED
  BY <1>2, <1>4, <1>5 DEF C

\* The bytes a string was encoded from come back.
LEMMA BytesComeBack ==
  ASSUME NEW m \in Nat, NEW d \in Seq(0..255), Len(d) = 5 * m
  PROVE  Strings!Decode32(Strings!Encode32(d), 5 * m) = d
<1> DEFINE s == Strings!Encode32(d)
           r == Strings!Decode32(s, 5 * m)
           E(g) == Strings!Groups(d, 5)[g]
           C == 48..57 \cup 97..118
           n == 8 * m
           values == [i \in DOMAIN s |-> Strings!CharToValue(s[i])]
           V(g) == Strings!Groups(values, 8)[g]
<1>1. /\ s \in Seq(C) /\ Len(s) = n /\ n \in Nat
      /\ \A g \in 1..m, a \in 1..8 : /\ Strings!EncodeGroup(E(g))[a] \in 0..31
                                     /\ s[8 * (g - 1) + a] = Strings!alphabet[Strings!EncodeGroup(E(g))[a]]
  <2>1. IsStringOf(s, d, m)
    BY EncodedPlaces
  <2> QED
    BY <2>1 DEF IsStringOf
<1>2. \A i \in 1..Len(s) : Strings!CharToValue(s[i]) \in 0..31
  <2> HIDE DEF s, n
  <2> QED
    BY <1>1, CharactersHaveValues
<1>3. s \in Seq(Nat)
  <2> HIDE DEF s, n
  <2> QED
    BY <1>1, CharactersHaveValues
<1>4. /\ r \in Seq(0..255) /\ Len(r) = 5 * m
      /\ \A g \in 1..m : \A a \in 1..8 : V(g)[a] \in 0..31 /\ V(g)[a] = Strings!CharToValue(s[8 * (g - 1) + a])
      /\ \A g \in 1..m, c \in 1..5 : r[5 * (g - 1) + c] = Strings!DecodeGroup(V(g))[c]
  <2>1. Len(s) = 8 * m
    BY <1>1
  <2> HIDE DEF s
  <2> QED
    BY <1>2, <1>3, <2>1, DecodedPlaces
<1>5. ASSUME NEW g \in 1..m PROVE \A c \in 1..5 : r[5 * (g - 1) + c] = d[5 * (g - 1) + c]
  <2> DEFINE e == E(g)
             v == V(g)
  <2>1. IsGroup(e, d, g)
    BY BytesOfGroup
  <2>2. \A c \in 1..5 : e[c] = d[5 * (g - 1) + c]
    BY <2>1, Zenon DEF IsGroup
  <2>3. \A a \in 1..8 : Strings!EncodeGroup(e)[a] \in 0..31
                     /\ s[8 * (g - 1) + a] = Strings!alphabet[Strings!EncodeGroup(e)[a]]
    BY <1>1
  <2>4. \A a \in 1..8 : v[a] = Strings!CharToValue(s[8 * (g - 1) + a])
    BY <1>4
  <2>5. \A c \in 1..5 : r[5 * (g - 1) + c] = Strings!DecodeGroup(v)[c]
    BY <1>4
  <2> HIDE DEF e, v, r, s
  <2>6. \A a \in 1..8 : v[a] = Strings!EncodeGroup(e)[a]
    <3> SUFFICES ASSUME NEW a \in 1..8 PROVE v[a] = Strings!EncodeGroup(e)[a]
      OBVIOUS
    <3> DEFINE u == Strings!EncodeGroup(e)[a]
    <3>1. u \in 0..31 /\ v[a] = Strings!CharToValue(Strings!alphabet[u])
      BY <2>3, <2>4
    <3> HIDE DEF u
    <3>2. v[a] = u
      BY <3>1, Characters
    <3> QED
      BY <3>2 DEF u
  <2>7. \A c \in 1..5 : Strings!DecodeGroup(v)[c] = e[c]
    BY <2>1, <2>6, DecodeUndoesEncode DEF IsGroup
  <2> QED
    BY <2>2, <2>5, <2>7
<1> HIDE DEF r
<1> DEFINE B == 0..255
           w == 5
<1>6. /\ w \in Nat \ {0} /\ d \in Seq(B) /\ r \in Seq(B) /\ Len(d) = w * m /\ Len(r) = w * m
      /\ \A g \in 1..m, c \in 1..w : r[w * (g - 1) + c] = d[w * (g - 1) + c]
  BY <1>4, <1>5
<1> HIDE DEF B, w
<1>7. r = d
  BY <1>6, EqualGroups
<1> QED
  BY <1>7 DEF r

\* A string of the alphabet comes back from what it is decoded to.
LEMMA StringComesBack ==
  ASSUME NEW m \in Nat, NEW s \in Seq(48..57 \cup 97..118), Len(s) = 8 * m
  PROVE  Strings!Encode32(Strings!Decode32(s, 5 * m)) = s
<1> DEFINE d == Strings!Decode32(s, 5 * m)
           r == Strings!Encode32(d)
           E(g) == Strings!Groups(d, 5)[g]
           C == 48..57 \cup 97..118
           n == 8 * m
           values == [i \in DOMAIN s |-> Strings!CharToValue(s[i])]
           V(g) == Strings!Groups(values, 8)[g]
<1>1. n \in Nat /\ Len(s) = n /\ s \in Seq(C)
  OBVIOUS
<1>2. /\ s \in Seq(Nat) /\ \A i \in 1..Len(s) : Strings!CharToValue(s[i]) \in 0..31
      /\ \A i \in 1..n : Strings!alphabet[Strings!CharToValue(s[i])] = s[i]
  <2> HIDE DEF n
  <2>1. s \in Seq(Nat)
    BY <1>1, CharactersHaveValues
  <2>2. \A i \in 1..n : Strings!CharToValue(s[i]) \in 0..31
    BY <1>1, CharactersHaveValues
  <2>3. \A i \in 1..n : Strings!alphabet[Strings!CharToValue(s[i])] = s[i]
    BY <1>1, CharactersHaveValues
  <2> QED
    BY <1>1, <2>1, <2>2, <2>3
<1>4. /\ d \in Seq(0..255) /\ Len(d) = 5 * m
      /\ \A g \in 1..m : \A a \in 1..8 : V(g)[a] \in 0..31 /\ V(g)[a] = Strings!CharToValue(s[8 * (g - 1) + a])
      /\ \A g \in 1..m, c \in 1..5 : d[5 * (g - 1) + c] = Strings!DecodeGroup(V(g))[c]
  BY <1>2, DecodedPlaces
<1> HIDE DEF d
<1>5. /\ r \in Seq(C) /\ Len(r) = 8 * m
      /\ \A g \in 1..m, a \in 1..8 : r[8 * (g - 1) + a] = Strings!alphabet[Strings!EncodeGroup(E(g))[a]]
  <2>1. IsStringOf(r, d, m)
    BY <1>4, EncodedPlaces
  <2> QED
    BY <2>1 DEF IsStringOf
<1>6. ASSUME NEW g \in 1..m PROVE \A a \in 1..8 : r[8 * (g - 1) + a] = s[8 * (g - 1) + a]
  <2> DEFINE e == E(g)
             v == V(g)
  <2>1. \A c \in 1..5 : e[c] = d[5 * (g - 1) + c]
    <3>1. IsGroup(e, d, g)
      BY <1>4, BytesOfGroup
    <3> QED
      BY <3>1, Zenon DEF IsGroup
  <2>2. \A c \in 1..5 : e[c] = Strings!DecodeGroup(v)[c]
    BY <1>4, <2>1
  <2>3. \A a \in 1..8 : v[a] \in 0..31 /\ v[a] = Strings!CharToValue(s[8 * (g - 1) + a])
    BY <1>4
  <2>4. \A a \in 1..8 : r[8 * (g - 1) + a] = Strings!alphabet[Strings!EncodeGroup(e)[a]]
    BY <1>5
  <2> HIDE DEF e, v
  <2>5. \A a \in 1..8 : Strings!EncodeGroup(e)[a] = v[a]
    BY <2>2, <2>3, EncodeUndoesDecode
  <2>6. \A a \in 1..8 : 8 * (g - 1) + a \in 1..n
    OBVIOUS
  <2> HIDE DEF r, C, n
  <2>7. \A a \in 1..8 : Strings!alphabet[Strings!CharToValue(s[8 * (g - 1) + a])] = s[8 * (g - 1) + a]
    BY <1>2, <2>6
  <2> QED
    BY <2>3, <2>4, <2>5, <2>7, ZenonT(40)
<1> HIDE DEF r
<1> DEFINE w == 8
<1>7. /\ w \in Nat \ {0} /\ s \in Seq(C) /\ r \in Seq(C) /\ Len(s) = w * m /\ Len(r) = w * m
      /\ \A g \in 1..m, a \in 1..w : r[w * (g - 1) + a] = s[w * (g - 1) + a]
  BY <1>1, <1>5, <1>6
<1> HIDE DEF C, w
<1>8. r = s
  BY <1>7, EqualGroups
<1> QED
  BY <1>8 DEF r, d

\* The bits of a sequence of n numbers of a width, number by number.
HoldsBits(b, s, w, n, T) ==
  /\ b \in Seq(T) /\ Len(b) = w * n
  /\ \A i \in 1..n, k \in 1..w : b[w * (i - 1) + k] = Strings!Bit(s[i], w, k)

LEMMA BitsOf ==
  ASSUME NEW w \in Nat \ {0}, NEW n \in Nat, NEW s, DOMAIN s = 1..n,
         NEW T, \A i \in 1..n : \A k \in 1..w : Strings!Bit(s[i], w, k) \in T
  PROVE  HoldsBits(Strings!Bits(s, w), s, w, n, T)
<1> DEFINE q == [i \in DOMAIN s |-> [k \in 1..w |-> Strings!Bit(s[i], w, k)]]
<1>1. Strings!Bits(s, w) = Strings!FlattenSeq(q)
  BY Zenon DEF Strings!Bits
<1>2. Len(q) = n /\ (q = <<>> \/ n # 0) /\ \A i \in 1..n : q[i] = [k \in 1..w |-> Strings!Bit(s[i], w, k)]
  OBVIOUS
<1> HIDE DEF q
<1>4. \A i \in 1..n : q[i] \in Seq(T) /\ Len(q[i]) = w /\ \A k \in 1..w : q[i][k] = Strings!Bit(s[i], w, k)
  BY <1>2
<1>5. /\ Strings!FlattenSeq(q) \in Seq(T) /\ Len(Strings!FlattenSeq(q)) = w * n
      /\ \A i \in 1..n, k \in 1..w : Strings!FlattenSeq(q)[w * (i - 1) + k] = q[i][k]
  BY <1>2, <1>4, FlattenGroups
<1> QED
  BY <1>1, <1>4, <1>5 DEF HoldsBits

LEMMA BitsOfValues ==
  ASSUME NEW n \in Nat, NEW s, DOMAIN s = 1..n, \A i \in 1..n : s[i] \in 0..31
  PROVE  HoldsBits(Strings!Bits(s, 5), s, 5, n, 0..1)
<1> DEFINE w == 5
           T == 0..1
<1>1. \A i \in 1..n : \A k \in 1..w : Strings!Bit(s[i], w, k) \in T
  <2>1. ASSUME NEW i \in 1..n, NEW k \in 1..5 PROVE Strings!Bit(s[i], 5, k) \in 0..1
    BY BitsAreBits
  <2> QED
    BY <2>1
<1>2. w \in Nat \ {0}
  OBVIOUS
<1> HIDE DEF w, T
<1>3. HoldsBits(Strings!Bits(s, w), s, w, n, T)
  BY <1>1, <1>2, BitsOf
<1> QED
  BY <1>3, Zenon DEF w, T

LEMMA BitsOfBytes ==
  ASSUME NEW n \in Nat, NEW s, DOMAIN s = 1..n, \A i \in 1..n : s[i] \in 0..255
  PROVE  HoldsBits(Strings!Bits(s, 8), s, 8, n, 0..1)
<1> DEFINE w == 8
           T == 0..1
<1>1. \A i \in 1..n : \A k \in 1..w : Strings!Bit(s[i], w, k) \in T
  <2>1. ASSUME NEW i \in 1..n, NEW k \in 1..8 PROVE Strings!Bit(s[i], 8, k) \in 0..1
    BY BitsAreBits
  <2> QED
    BY <2>1
<1>2. w \in Nat \ {0}
  OBVIOUS
<1> HIDE DEF w, T
<1>3. HoldsBits(Strings!Bits(s, w), s, w, n, T)
  BY <1>1, <1>2, BitsOf
<1> QED
  BY <1>3, Zenon DEF w, T

\* A string holds the bits of its bytes.
LEMMA StringHoldsBits ==
  ASSUME NEW m \in Nat, NEW d \in Seq(0..255), Len(d) = 5 * m
  PROVE  Strings!Bits(Strings!Values(Strings!Encode32(d)), 5) = Strings!Bits(d, 8)
<1> DEFINE s == Strings!Encode32(d)
           E(g) == Strings!Groups(d, 5)[g]
           values == Strings!Values(s)
           n == 8 * m
           r == Strings!Bits(values, 5)
           t == Strings!Bits(d, 8)
<1>1. /\ s \in Seq(48..57 \cup 97..118) /\ Len(s) = n /\ n \in Nat
      /\ \A g \in 1..m, a \in 1..8 : /\ Strings!EncodeGroup(E(g))[a] \in 0..31
                                     /\ s[8 * (g - 1) + a] = Strings!alphabet[Strings!EncodeGroup(E(g))[a]]
  <2>1. IsStringOf(s, d, m)
    BY EncodedPlaces
  <2> HIDE DEF s
  <2>2. s \in Seq(48..57 \cup 97..118) /\ Len(s) = 8 * m
    BY <2>1, Zenon DEF IsStringOf
  <2>3. \A g \in 1..m, a \in 1..8 :
          /\ Strings!EncodeGroup(E(g))[a] \in 0..31
          /\ s[8 * (g - 1) + a] = Strings!alphabet[Strings!EncodeGroup(E(g))[a]]
    BY <2>1, Zenon DEF IsStringOf
  <2> QED
    BY <2>2, <2>3
<1>2. DOMAIN s = 1..n
  BY <1>1
<1>3. DOMAIN values = 1..n /\ \A i \in 1..n : values[i] = CHOOSE v \in 0..31 : Strings!alphabet[v] = s[i]
  <2> HIDE DEF s, n
  <2> QED
    BY <1>2 DEF Strings!Values
<1> HIDE DEF values
<1>4. ASSUME NEW g \in 1..m, NEW a \in 1..8
      PROVE  values[8 * (g - 1) + a] = Strings!EncodeGroup(E(g))[a] /\ values[8 * (g - 1) + a] \in 0..31
  <2> DEFINE u == Strings!EncodeGroup(E(g))[a]
             p == 8 * (g - 1) + a
  <2>1. u \in 0..31 /\ s[p] = Strings!alphabet[u]
    BY <1>1
  <2>2. p \in 1..n
    OBVIOUS
  <2> HIDE DEF u, p, s, n
  <2>3. values[p] = CHOOSE v \in 0..31 : Strings!alphabet[v] = Strings!alphabet[u]
    BY <1>3, <2>1, <2>2
  <2>4. (CHOOSE v \in 0..31 : Strings!alphabet[v] = Strings!alphabet[u]) = u
    BY <2>1, Characters, Zenon
  <2>5. values[p] = u /\ values[p] \in 0..31
    BY <2>1, <2>3, <2>4
  <2> QED
    BY <2>5 DEF u, p
<1>5. ASSUME NEW i \in 1..n PROVE values[i] \in 0..31
  <2> DEFINE w == 8
  <2>1. w \in Nat \ {0} /\ i \in 1..(w * m)
    OBVIOUS
  <2>2. ASSUME NEW g \in 1..m, NEW a \in 1..w, i = w * (g - 1) + a PROVE values[i] \in 0..31
    BY <1>4, <2>2
  <2> HIDE DEF w
  <2>3. \E g \in 1..m, a \in 1..w : i = w * (g - 1) + a
    BY <2>1, GroupOfPlace
  <2> QED
    BY <2>2, <2>3
<1> DEFINE T == 0..1
<1>6. HoldsBits(r, values, 5, n, T)
  <2> HIDE DEF n
  <2> QED
    BY <1>1, <1>3, <1>5, BitsOfValues
<1>7. HoldsBits(t, d, 8, 5 * m, T)
  <2> DEFINE l == 5 * m
             B == 0..255
  <2>1. l \in Nat /\ Len(d) = l /\ d \in Seq(B)
    OBVIOUS
  <2>2. DOMAIN d = 1..l /\ \A i \in 1..l : d[i] \in B
    <3> HIDE DEF l, B
    <3> QED
      BY <2>1, MembersOf
  <2>3. HoldsBits(t, d, 8, l, T)
    <3> HIDE DEF l
    <3> QED
      BY <2>1, <2>2, BitsOfBytes
  <2> QED
    BY <2>3
<1> HIDE DEF r, t
<1>8. ASSUME NEW g \in 1..m, NEW j \in 1..40
      PROVE  r[40 * (g - 1) + j] = t[40 * (g - 1) + j]
  <2>1. PICK a \in 1..8, k \in 1..5 : j = 5 * (a - 1) + k
    <3>1. ASSUME NEW i \in 0..39 PROVE i = 5 * (i \div 5) + (i % 5) /\ i \div 5 \in 0..7 /\ i % 5 \in 0..4
      OBVIOUS
    <3>2. j - 1 \in 0..39 /\ j = 5 * ((j - 1) \div 5) + ((j - 1) % 5) + 1
      BY <3>1
    <3>3. (j - 1) \div 5 + 1 \in 1..8 /\ ((j - 1) % 5) + 1 \in 1..5
      BY <3>1, <3>2
    <3> QED
      BY <3>2, <3>3
  <2>2. PICK c \in 1..5, l \in 1..8 : j = 8 * (c - 1) + l
    <3>1. ASSUME NEW i \in 0..39 PROVE i = 8 * (i \div 8) + (i % 8) /\ i \div 8 \in 0..4 /\ i % 8 \in 0..7
      OBVIOUS
    <3>2. j - 1 \in 0..39 /\ j = 8 * ((j - 1) \div 8) + ((j - 1) % 8) + 1
      BY <3>1, SMTT(40)
    <3>3. (j - 1) \div 8 + 1 \in 1..5 /\ ((j - 1) % 8) + 1 \in 1..8
      BY <3>1, <3>2
    <3> QED
      BY <3>2, <3>3
  <2>3. /\ 8 * (g - 1) + a \in 1..n /\ 40 * (g - 1) + j = 5 * ((8 * (g - 1) + a) - 1) + k
        /\ 5 * (g - 1) + c \in 1..(5 * m) /\ 40 * (g - 1) + j = 8 * ((5 * (g - 1) + c) - 1) + l
    BY <2>1, <2>2
  <2> DEFINE e == E(g)
  <2>4. IsGroup(e, d, g)
    BY BytesOfGroup
  <2>5. e[c] = d[5 * (g - 1) + c]
    BY <2>4, Zenon DEF IsGroup
  <2>6. values[8 * (g - 1) + a] = Strings!EncodeGroup(e)[a]
    BY <1>4
  <2> HIDE DEF e
  <2>7. Strings!Bit(Strings!EncodeGroup(e)[a], 5, k) = Strings!Bit(e[c], 8, l)
    <3>1. /\ e[1] \in 0..255 /\ e[2] \in 0..255 /\ e[3] \in 0..255 /\ e[4] \in 0..255
          /\ e[5] \in 0..255
      BY <2>4, Zenon DEF IsGroup
    <3> QED
      BY <3>1, <2>1, <2>2, BitsOfGroup, SMTT(40)
  <2> HIDE DEF n
  <2>8. r[40 * (g - 1) + j] = Strings!Bit(values[8 * (g - 1) + a], 5, k)
    BY <1>6, <2>3 DEF HoldsBits
  <2>9. t[40 * (g - 1) + j] = Strings!Bit(d[5 * (g - 1) + c], 8, l)
    BY <1>7, <2>3 DEF HoldsBits
  <2> QED
    BY <2>5, <2>6, <2>7, <2>8, <2>9
<1> DEFINE w == 40
<1>9. /\ w \in Nat \ {0} /\ r \in Seq(T) /\ t \in Seq(T) /\ Len(r) = w * m /\ Len(t) = w * m
      /\ \A g \in 1..m, j \in 1..w : r[w * (g - 1) + j] = t[w * (g - 1) + j]
  BY <1>6, <1>7, <1>8 DEF HoldsBits
<1> HIDE DEF w, T
<1>10. r = t
  BY <1>9, EqualGroups
<1> QED
  BY <1>10 DEF r, t, values

-----------------------------------------------------------------------------
(***************************************************************************)
(* The strings of hashes: a string is thrown for, or made of characters,   *)
(* and what decode32 and Parse made of it is of that very string and of    *)
(* the buffer's size.                                                      *)
(***************************************************************************)
StringInv ==
  /\ bytes \in Inputs
  /\ text = Thrown \/ text \in Seq(0..127)
  /\ decoded \in {Thrown, Strings!Decode32(text, Len(bytes))}
  /\ parsed \in {Thrown, Strings!MaybeParse(text)}
  /\ text = Thrown => decoded = Thrown /\ parsed = Thrown

\* What is assumed of the buffers, the errors and the length of a hash.
LEMMA InputsAre ==
  /\ Inputs \subseteq Seq(0..255) /\ Typos \subseteq 0..127
  /\ HashLen \in Nat \ {0} /\ HashLen % 5 = 0
<1>1. Inputs \subseteq Seq(0..255) /\ Typos \subseteq 0..127
  BY StringAssumption, Zenon DEF Strings!Base32Assumption, Strings!Byte
<1>2. HashLen \in Nat \ {0} /\ HashLen % 5 = 0
  BY StringAssumption, Zenon DEF Strings!Base32Assumption
<1> QED
  BY <1>1, <1>2

\* A buffer that is encoded is whole groups, and its string is one of the alphabet.
LEMMA EncodedOrThrown ==
  ASSUME NEW d \in Seq(0..255), Strings!Encode32(d) # Thrown
  PROVE  \E m \in Nat : /\ Len(d) = 5 * m /\ Strings!Encode32(d) \in Seq(48..57 \cup 97..118)
                        /\ Len(Strings!Encode32(d)) = 8 * m
<1>1. Len(d) % 5 = 0
  BY DEF Strings!Encode32
<1>2. Len(d) \in Nat
  OBVIOUS
<1>3. Len(d) \div 5 \in Nat /\ Len(d) = 5 * (Len(d) \div 5)
  BY <1>1, <1>2
<1> QED
  BY <1>3, EncodedPlaces DEF IsStringOf

\* Characters of the alphabet are characters, and characters and bytes are numbers.
LEMMA SeqMonotone ==
  ASSUME NEW S, NEW R, S \subseteq R
  PROVE  Seq(S) \subseteq Seq(R)
  OBVIOUS

LEMMA AlphabetIsAscii ==
  /\ Seq(48..57 \cup 97..118) \subseteq Seq(0..127)
  /\ Seq(0..127) \subseteq Seq(Nat) /\ Seq(0..255) \subseteq Seq(Nat)
<1> DEFINE C == 48..57 \cup 97..118
           A == 0..127
           B == 0..255
           N == Nat
<1>1. C \subseteq A /\ A \subseteq N /\ B \subseteq N
  OBVIOUS
<1> HIDE DEF A, B, C, N
<1>2. Seq(C) \subseteq Seq(A) /\ Seq(A) \subseteq Seq(N) /\ Seq(B) \subseteq Seq(N)
  BY <1>1, SeqMonotone, Zenon
<1> QED
  BY <1>2 DEF A, B, C, N

\* What is encoded is a string of the alphabet, or thrown for.
LEMMA EncodeKeepsStrings ==
  ASSUME StringInv, Strings!Encode PROVE StringInv'
<1>1. /\ text = Thrown /\ text' = Strings!Encode32(bytes)
      /\ bytes' = bytes /\ decoded' = Thrown /\ parsed' = Thrown
  BY DEF StringInv, Strings!Encode
<1>2. bytes \in Seq(0..255)
  BY InputsAre DEF StringInv
<1>3. text' = Thrown \/ text' \in Seq(0..127)
  BY <1>1, <1>2, EncodedOrThrown, AlphabetIsAscii
<1>4. bytes' \in Inputs /\ decoded' \in {Thrown, Strings!Decode32(text', Len(bytes'))}
      /\ parsed' \in {Thrown, Strings!MaybeParse(text')}
  BY <1>1 DEF StringInv
<1> QED
  BY <1>1, <1>3, <1>4 DEF StringInv

\* What is decoded and parsed is the string there is.
LEMMA DecodeKeepsStrings ==
  ASSUME StringInv, Strings!Decode PROVE StringInv'
<1>1. /\ text # Thrown /\ text' = text /\ bytes' = bytes
      /\ decoded' = Strings!Decode32(text, Len(bytes)) /\ parsed' = Strings!MaybeParse(text)
  BY DEF Strings!Decode
<1>2. decoded' = Strings!Decode32(text', Len(bytes')) /\ parsed' = Strings!MaybeParse(text')
  BY <1>1
<1> QED
  BY <1>1, <1>2 DEF StringInv

\* A string with an error is a string still; what was read of the old one is forgotten.
LEMMA ErrKeepsStrings ==
  ASSUME StringInv, Strings!Err PROVE StringInv'
<1> DEFINE A == 0..127
<1>1. /\ text # Thrown /\ bytes' = bytes /\ decoded' = Thrown /\ parsed' = Thrown
      /\ \/ \E i \in DOMAIN text, c \in Typos : text' = [text EXCEPT ![i] = c]
         \/ text' = Strings!Front(text) \/ text' = Append(text, 48)
  BY DEF Strings!Err
<1>2. text \in Seq(A) /\ 48 \in A /\ Typos \subseteq A
  BY <1>1, InputsAre DEF StringInv
<1> HIDE DEF A
<1>3. text' \in Seq(A)
  <2>1. ASSUME NEW i \in DOMAIN text, NEW c \in Typos, text' = [text EXCEPT ![i] = c]
        PROVE  text' \in Seq(A)
    BY <1>2, <2>1
  <2>2. ASSUME text' = Strings!Front(text) PROVE text' \in Seq(A)
    BY <1>2, <2>2 DEF Strings!Front
  <2>3. ASSUME text' = Append(text, 48) PROVE text' \in Seq(A)
    BY <1>2, <2>3
  <2> QED
    BY <1>1, <2>1, <2>2, <2>3
<1>4. text' # Thrown
  <2>1. text' \in Seq(Nat)
    BY <1>3, AlphabetIsAscii DEF A
  <2> QED
    BY <2>1, ThrownIsElse
<1>5. bytes' \in Inputs /\ decoded' \in {Thrown, Strings!Decode32(text', Len(bytes'))}
      /\ parsed' \in {Thrown, Strings!MaybeParse(text')}
  BY <1>1 DEF StringInv
<1> QED
  BY <1>3, <1>4, <1>5 DEF StringInv, A

\* The three steps keep the invariant.
LEMMA StringInvHolds == Strings!Spec => []StringInv
<1>1. Strings!Init => StringInv
  BY DEF Strings!Init, StringInv
<1>2. StringInv /\ [Strings!Next]_(Strings!vars) => StringInv'
  <2> SUFFICES ASSUME StringInv, [Strings!Next]_(Strings!vars) PROVE StringInv'
    OBVIOUS
  <2>1. CASE Strings!Encode
    BY <2>1, EncodeKeepsStrings
  <2>2. CASE Strings!Decode
    BY <2>2, DecodeKeepsStrings
  <2>3. CASE Strings!Err
    BY <2>3, ErrKeepsStrings
  <2>4. CASE UNCHANGED Strings!vars
    <3>1. text' = text /\ bytes' = bytes /\ decoded' = decoded /\ parsed' = parsed
      BY <2>4 DEF Strings!vars
    <3> QED
      BY <3>1, Zenon DEF StringInv
  <2> QED
    BY <2>1, <2>2, <2>3, <2>4 DEF Strings!Next
<1> QED
  BY <1>1, <1>2, PTL DEF Strings!Spec

\* Five bits of every character are the bits of the bytes.
LEMMA StringsHoldTheirBits ==
  ASSUME StringInv PROVE Strings!EncodesBits
<1> SUFFICES ASSUME text # Thrown, text = Strings!Encode32(bytes)
             PROVE  Strings!Bits(Strings!Values(text), 5) = Strings!Bits(bytes, 8)
  BY DEF Strings!EncodesBits
<1>1. bytes \in Seq(0..255) /\ Strings!Encode32(bytes) # Thrown
  BY InputsAre DEF StringInv
<1>2. PICK m \in Nat : Len(bytes) = 5 * m
  BY <1>1, EncodedOrThrown
<1>3. Strings!Bits(Strings!Values(Strings!Encode32(bytes)), 5) = Strings!Bits(bytes, 8)
  BY <1>1, <1>2, StringHoldsBits
<1> QED
  BY <1>3

\* A string of the alphabet, that is, which InAlphabet says so of.
LEMMA InAlphabetIs ==
  ASSUME NEW s \in Seq(0..127), Strings!InAlphabet(s)
  PROVE  s \in Seq(48..57 \cup 97..118)
<1> DEFINE C == 48..57 \cup 97..118
           n == Len(s)
<1>1. n \in Nat /\ DOMAIN s = 1..n /\ s = [i \in 1..n |-> s[i]]
  OBVIOUS
<1>2. \A i \in 1..n : s[i] \in C
  BY <1>1 DEF Strings!InAlphabet
<1> HIDE DEF C, n
<1>3. [i \in 1..n |-> s[i]] \in Seq(C)
  BY <1>1, <1>2
<1> QED
  BY <1>1, <1>3 DEF C

\* Decoding undoes encoding, and encoding decoding.
LEMMA StringsRoundTrip ==
  ASSUME StringInv PROVE Strings!RoundTrip
<1>1. ASSUME decoded # Thrown, Strings!InAlphabet(text) PROVE Strings!Encode32(decoded) = text
  <2>1. text \in Seq(0..127) /\ decoded = Strings!Decode32(text, Len(bytes))
    BY <1>1 DEF StringInv
  <2>2. text \in Seq(48..57 \cup 97..118)
    BY <1>1, <2>1, InAlphabetIs
  <2>3. text \in Seq(Nat) /\ Len(bytes) \in Nat
    <3>1. bytes \in Seq(0..255)
      BY InputsAre DEF StringInv
    <3> QED
      BY <2>1, <3>1, AlphabetIsAscii
  <2>4. PICK m \in Nat : Len(text) = 8 * m /\ Len(bytes) = 5 * m
    BY <1>1, <2>1, <2>3, DecodedOrThrown
  <2>5. Strings!Encode32(Strings!Decode32(text, 5 * m)) = text
    BY <2>2, <2>4, StringComesBack
  <2> QED
    BY <2>1, <2>4, <2>5
<1>2. ASSUME decoded # Thrown, text = Strings!Encode32(bytes) PROVE decoded = bytes
  <2>1. text # Thrown /\ decoded = Strings!Decode32(text, Len(bytes))
    BY <1>2 DEF StringInv
  <2>2. bytes \in Seq(0..255) /\ Strings!Encode32(bytes) # Thrown
    BY <1>2, <2>1, InputsAre DEF StringInv
  <2>3. PICK m \in Nat : Len(bytes) = 5 * m
    BY <2>2, EncodedOrThrown
  <2>4. Strings!Decode32(Strings!Encode32(bytes), 5 * m) = bytes
    BY <2>2, <2>3, BytesComeBack
  <2> QED
    BY <1>2, <2>1, <2>3, <2>4
<1> QED
  BY <1>1, <1>2 DEF Strings!RoundTrip

\* The strings that the pattern lets through are decoded.
LEMMA PatternIsDecoded ==
  ASSUME NEW s \in Seq(0..127), Strings!HashPattern(s)
  PROVE  /\ Strings!Decode32(s, HashLen) # Thrown
         /\ Strings!Encode32(Strings!Decode32(s, HashLen)) = s
<1> DEFINE m == HashLen \div 5
           C == 48..57 \cup 97..118
           n == Len(s)
<1>1. m \in Nat /\ HashLen = 5 * m
  BY InputsAre
<1>2. Strings!StringLen = 8 * m
  <2> HIDE DEF m
  <2>1. (HashLen * 8) \div 5 = 8 * m
    BY <1>1
  <2> QED
    BY <2>1 DEF Strings!StringLen
<1> HIDE DEF m
<1>3. s \in Seq(C) /\ Len(s) = 8 * m
  BY <1>2, InAlphabetIs DEF Strings!HashPattern
<1>4. n \in Nat /\ Len(s) = n
  OBVIOUS
<1>5. s \in Seq(Nat) /\ \A i \in 1..n : Strings!CharToValue(s[i]) \in 0..31
  <2> HIDE DEF n
  <2>1. s \in Seq(Nat)
    BY <1>3, <1>4, CharactersHaveValues
  <2>2. \A i \in 1..n : Strings!CharToValue(s[i]) \in 0..31
    BY <1>3, <1>4, CharactersHaveValues
  <2> QED
    BY <2>1, <2>2
<1>6. Strings!Decode32(s, 5 * m) \in Seq(0..255)
  BY <1>1, <1>3, <1>5, DecodedPlaces
<1>7. Strings!Decode32(s, 5 * m) # Thrown
  <2>1. Strings!Decode32(s, 5 * m) \in Seq(Nat)
    BY <1>6, AlphabetIsAscii
  <2> QED
    BY <2>1, ThrownIsElse
<1>8. Strings!Encode32(Strings!Decode32(s, 5 * m)) = s
  BY <1>1, <1>3, StringComesBack
<1> QED
  BY <1>1, <1>7, <1>8

\* Parse reads the strings of the pattern, and no others.
LEMMA HashesAreParsed ==
  ASSUME StringInv PROVE Strings!ParsesHashes
<1>1. ASSUME parsed # Thrown
      PROVE  Strings!InAlphabet(text) /\ Len(text) = Strings!StringLen /\ Strings!Encode32(parsed) = text
  <2>1. text \in Seq(0..127) /\ parsed = Strings!MaybeParse(text)
    BY <1>1 DEF StringInv
  <2>2. Strings!HashPattern(text) /\ parsed = Strings!Decode32(text, HashLen)
    BY <1>1, <2>1 DEF Strings!MaybeParse
  <2> QED
    BY <2>1, <2>2, PatternIsDecoded DEF Strings!HashPattern
<1>2. ASSUME text # Thrown, Strings!HashPattern(text) PROVE Strings!MaybeParse(text) # Thrown
  <2>1. text \in Seq(0..127)
    BY <1>2 DEF StringInv
  <2> QED
    BY <1>2, <2>1, PatternIsDecoded DEF Strings!MaybeParse
<1> QED
  BY <1>1, <1>2 DEF Strings!ParsesHashes

\* For buffers of any length, and whatever error a string has had since: the string holds the bits
\* of its bytes; what is decoded is encoded as the same string, and the bytes it was encoded from
\* come back; and Parse makes a hash of exactly the strings of the alphabet of a hash's length,
\* none of which decode32 throws for (hash.cpp:18-92).
THEOREM StringsAreHashes == Strings!Spec => []StringsStandForHashes
<1>1. StringInv => StringsStandForHashes
  BY StringsHoldTheirBits, StringsRoundTrip, HashesAreParsed DEF StringsStandForHashes
<1> QED
  BY <1>1, StringInvHolds, PTL

-----------------------------------------------------------------------------
(***************************************************************************)
(* BigEndian.  What FoldLeft gives is the value of a recursive function on *)
(* sets, again a choice until there is one to choose: one step for each    *)
(* member, the largest last.                                               *)
(***************************************************************************)
\* The largest member, as the folds choose it.
Largest(s) == CHOOSE x \in s : \A y \in s : x >= y

LEMMA LargestIs ==
  ASSUME NEW s \in SUBSET Nat, NEW k \in s, \A i \in s : i <= k
  PROVE  Largest(s) = k
<1>1. \A x \in s : (\A y \in s : x >= y) => x = k
  OBVIOUS
<1>2. \E x \in s : \A y \in s : x >= y
  OBVIOUS
<1> QED
  BY <1>1, <1>2 DEF Largest

LEMMA LargestIn ==
  ASSUME NEW m \in Nat, NEW s \in SUBSET (1..m), s # {}
  PROVE  Largest(s) \in s /\ \A i \in s : i <= Largest(s)
<1> DEFINE B == {b \in Nat : \A i \in s : i <= b}
<1>1. B \in SUBSET Nat /\ B # {}
  <2>1. m \in B
    OBVIOUS
  <2> QED
    BY <2>1
<1>2. PICK b \in B : \A c \in B : b <= c
  BY <1>1, LeastOf
<1>3. b \in s
  <2> SUFFICES ASSUME b \notin s PROVE FALSE
    OBVIOUS
  <2>1. PICK i \in s : TRUE
    OBVIOUS
  <2>2. b \in Nat /\ b # 0
    BY <2>1, <1>2
  <2>3. b - 1 \in B
    BY <2>2
  <2> QED
    BY <2>2, <2>3, <1>2
<1> QED
  BY <1>2, <1>3, LargestIs

\* g is a step of a fold: the fold of the places s ends with the step for the largest of them.
IsFold(f, n, T, b, g) ==
  /\ f \in [SUBSET (1..n) -> T]
  /\ \A s \in SUBSET (1..n) :
       f[s] = IF s = {} THEN b ELSE g[<<Largest(s), f[s \ {Largest(s)}]>>]

\* A fold of the places up to n exists.
LEMMA FoldExists ==
  ASSUME NEW T, NEW b \in T, NEW n \in Nat, NEW g \in [(1..n) \X T -> T]
  PROVE  \E f : IsFold(f, n, T, b, g)
<1> DEFINE Folded(m) == \E f \in [SUBSET (1..m) -> T] : \A s \in SUBSET (1..m) :
                          f[s] = IF s = {} THEN b ELSE g[<<Largest(s), f[s \ {Largest(s)}]>>]
           Bad == {m \in 0..n : ~Folded(m)}
<1>1. Folded(0)
  <2>1. SUBSET (1..0) = {{}}
    OBVIOUS
  <2> DEFINE f == [s \in SUBSET (1..0) |-> b]
  <2>2. f \in [SUBSET (1..0) -> T] /\ \A s \in SUBSET (1..0) : f[s] = b /\ s = {}
    BY <2>1
  <2> QED
    BY <2>2
<1>2. ASSUME NEW m \in 1..n, Folded(m - 1) PROVE Folded(m)
  <2>1. PICK f \in [SUBSET (1..(m - 1)) -> T] : \A s \in SUBSET (1..(m - 1)) :
          f[s] = IF s = {} THEN b ELSE g[<<Largest(s), f[s \ {Largest(s)}]>>]
    BY <1>2
  <2> DEFINE h == [s \in SUBSET (1..m) |-> IF m \in s THEN g[<<m, f[s \ {m}]>>] ELSE f[s]]
  <2>2. ASSUME NEW s \in SUBSET (1..m), m \in s
        PROVE  Largest(s) = m /\ s \ {m} \in SUBSET (1..(m - 1)) /\ m \notin s \ {m}
    <3>1. s \in SUBSET Nat /\ \A i \in s : i <= m
      OBVIOUS
    <3> QED
      BY <2>2, <3>1, LargestIs
  <2>3. ASSUME NEW s \in SUBSET (1..m), m \notin s
        PROVE  s \in SUBSET (1..(m - 1)) /\ (s # {} => Largest(s) \in s)
    <3>1. s \in SUBSET (1..(m - 1))
      BY <2>3
    <3>2. s # {} => Largest(s) \in s
      <4>1. m \in Nat /\ s \in SUBSET (1..m)
        OBVIOUS
      <4> QED
        BY <4>1, LargestIn
    <3> QED
      BY <3>1, <3>2
  <2>4. h \in [SUBSET (1..m) -> T]
    BY <2>2, <2>3
  <2>5. ASSUME NEW s \in SUBSET (1..m)
        PROVE  h[s] = IF s = {} THEN b ELSE g[<<Largest(s), h[s \ {Largest(s)}]>>]
    <3>1. CASE m \in s
      BY <2>2, <3>1
    <3>2. CASE m \notin s
      <4>1. s \in SUBSET (1..(m - 1)) /\ h[s] = f[s]
        BY <3>2, <2>3
      <4>2. s # {} => s \ {Largest(s)} \in SUBSET (1..m) /\ h[s \ {Largest(s)}] = f[s \ {Largest(s)}]
        BY <4>1, <3>2
      <4> QED
        BY <4>1, <4>2, <2>1
    <3> QED
      BY <3>1, <3>2
  <2> QED
    BY <2>4, <2>5
<1>3. Bad = {}
  <2> SUFFICES ASSUME Bad # {} PROVE FALSE
    OBVIOUS
  <2>1. PICK m \in Bad : \A i \in Bad : m <= i
    <3>1. Bad \in SUBSET Nat
      OBVIOUS
    <3> HIDE DEF Bad
    <3> QED
      BY <3>1, LeastOf
  <2> HIDE DEF Folded
  <2>2. m # 0 /\ m \in 1..n
    BY <1>1
  <2>3. m - 1 \notin Bad /\ m - 1 \in 0..n
    BY <2>1, <2>2
  <2> QED
    BY <1>2, <2>2, <2>3
<1>4. Folded(n)
  <2> HIDE DEF Folded
  <2>1. n \in 0..n /\ n \notin Bad
    BY <1>3
  <2> QED
    BY <2>1
<1>5. PICK f \in [SUBSET (1..n) -> T] : \A s \in SUBSET (1..n) :
          f[s] = IF s = {} THEN b ELSE g[<<Largest(s), f[s \ {Largest(s)}]>>]
  BY <1>4
<1>6. IsFold(f, n, T, b, g)
  BY <1>5 DEF IsFold
<1> QED
  BY <1>6

-----------------------------------------------------------------------------
\* The sums of the first members of s.
PartialSums(c, s) ==
  c \in [0..Len(s) -> Nat] /\ c[0] = 0 /\ \A k \in 1..Len(s) : c[k] = c[k - 1] + s[k]

\* What FoldLeft adds up, place by place.
LEMMA SumOf ==
  ASSUME NEW s \in Seq(Nat)
  PROVE  \E c : PartialSums(c, s) /\ Binary!Sum(s) = c[Len(s)]
<1> DEFINE n == Len(s)
           D == DOMAIN s
           Recurs(f) == f = [t \in SUBSET D |-> IF t = {} THEN 0 ELSE f[t \ {Largest(t)}] + s[Largest(t)]]
           F == CHOOSE f : Recurs(f)
           g == [p \in (1..n) \X Nat |-> p[2] + s[p[1]]]
           c == [k \in 0..n |-> F[1..k]]
<1>1. Binary!Sum(s) = F[D]
  BY Zenon DEF Binary!Sum, Binary!FoldLeft, Binary!MapThenFoldSet, Largest, Binary!Max
<1>2. n \in Nat /\ D = 1..n /\ g \in [(1..n) \X Nat -> Nat]
  OBVIOUS
<1>3. PICK f : IsFold(f, n, Nat, 0, g)
  <2> HIDE DEF n, g
  <2> QED
    BY <1>2, FoldExists
<1>4. Recurs(f)
  <2> SUFFICES ASSUME NEW t \in SUBSET D, t # {}
               PROVE  g[<<Largest(t), f[t \ {Largest(t)}]>>] = f[t \ {Largest(t)}] + s[Largest(t)]
    BY <1>2, <1>3 DEF IsFold
  <2>1. Largest(t) \in 1..n
    BY <1>2, LargestIn
  <2>2. f[t \ {Largest(t)}] \in Nat
    BY <1>2, <1>3 DEF IsFold
  <2> QED
    BY <2>1, <2>2
<1>5. Recurs(F)
  <2> HIDE DEF Recurs
  <2> QED
    BY <1>4
<1>6. F[{}] = 0 /\ \A k \in 1..n : F[1..k] = F[1..(k - 1)] + s[k]
  <2>1. F[{}] = 0
    BY <1>5
  <2>2. ASSUME NEW k \in 1..n PROVE F[1..k] = F[1..(k - 1)] + s[k]
    <3>1. 1..k \in SUBSET D /\ 1..k # {} /\ (1..k) \ {k} = 1..(k - 1)
      <4>1. 1..k \subseteq 1..n /\ k \in 1..k
        BY <1>2
      <4>2. (1..k) \ {k} = 1..(k - 1)
        OBVIOUS
      <4> QED
        BY <1>2, <4>1, <4>2, Zenon
    <3>2. Largest(1..k) = k
      <4>1. 1..k \in SUBSET Nat /\ k \in 1..k /\ \A i \in 1..k : i <= k
        OBVIOUS
      <4> QED
        BY <4>1, LargestIs
    <3> QED
      BY <1>5, <3>1, <3>2
  <2> HIDE DEF F
  <2> QED
    BY <2>1, <2>2
<1> HIDE DEF F
<1>7. \A k \in 0..n : F[1..k] \in Nat
  <2> DEFINE Bad == {k \in 0..n : F[1..k] \notin Nat}
  <2> SUFFICES ASSUME Bad # {} PROVE FALSE
    OBVIOUS
  <2>1. PICK k \in Bad : \A i \in Bad : k <= i
    <3>1. Bad \in SUBSET Nat
      OBVIOUS
    <3> HIDE DEF Bad
    <3> QED
      BY <3>1, LeastOf
  <2>2. 1..0 = {}
    OBVIOUS
  <2>3. k \in 1..n /\ k - 1 \notin Bad /\ k - 1 \in 0..n
    BY <2>1, <2>2, <1>6
  <2>4. F[1..(k - 1)] \in Nat /\ s[k] \in Nat /\ F[1..k] = F[1..(k - 1)] + s[k]
    BY <2>3, <1>6
  <2>5. F[1..k] \in Nat
    BY <2>4
  <2> QED
    BY <2>1, <2>5
<1>8. PartialSums(c, s)
  <2>1. c \in [0..n -> Nat] /\ 0 \in 0..n
    BY <1>2, <1>7
  <2>2. c[0] = 0
    <3>1. 1..0 = {}
      OBVIOUS
    <3> QED
      BY <1>6, <2>1, <3>1
  <2>3. ASSUME NEW k \in 1..n PROVE c[k] = c[k - 1] + s[k]
    <3>1. k - 1 \in 0..n /\ k \in 0..n
      OBVIOUS
    <3> QED
      BY <1>6, <3>1
  <2> QED
    BY <2>1, <2>2, <2>3 DEF PartialSums
<1>9. Binary!Sum(s) = c[n]
  BY <1>1, <1>2
<1> QED
  BY <1>8, <1>9

LEMMA PartialSumsAgree ==
  ASSUME NEW s \in Seq(Nat), NEW c, NEW d, PartialSums(c, s),
         d[0] = 0, \A k \in 1..Len(s) : d[k] = d[k - 1] + s[k]
  PROVE  \A k \in 0..Len(s) : c[k] = d[k]
<1> DEFINE Bad == {k \in 0..Len(s) : c[k] # d[k]}
<1> SUFFICES ASSUME Bad # {} PROVE FALSE
  OBVIOUS
<1>1. PICK k \in Bad : \A i \in Bad : k <= i
  <2>1. Bad \in SUBSET Nat
    OBVIOUS
  <2> HIDE DEF Bad
  <2> QED
    BY <2>1, LeastOf
<1>2. k \in 1..Len(s) /\ k - 1 \notin Bad
  BY <1>1 DEF PartialSums
<1> QED
  BY <1>1, <1>2 DEF PartialSums

\* A sum is what partial sums end with.
LEMMA SumIs ==
  ASSUME NEW s \in Seq(Nat), NEW d, d[0] = 0, \A k \in 1..Len(s) : d[k] = d[k - 1] + s[k]
  PROVE  Binary!Sum(s) = d[Len(s)]
<1>1. PICK c : PartialSums(c, s) /\ Binary!Sum(s) = c[Len(s)]
  BY SumOf
<1>2. \A k \in 0..Len(s) : c[k] = d[k]
  BY <1>1, PartialSumsAgree
<1> QED
  BY <1>1, <1>2

-----------------------------------------------------------------------------
(***************************************************************************)
(* The powers of the number of values of a byte, and the digits of a       *)
(* number in that base.                                                    *)
(***************************************************************************)
\* The powers up to the m-th.
Powers(h, m) == h \in [0..m -> Nat] /\ h[0] = 1 /\ \A k \in 1..m : h[k] = ByteWord * h[k - 1]

LEMMA NumbersAre ==
  ByteWord \in Nat \ {0, 1} /\ Widths \subseteq Nat \ {0} /\ WriterSpace \in Nat /\ MaxWritten \in Nat
BY BinaryAssumption DEF Binary!BigEndianAssumption

\* Power is a choice too: powers up to any m exist, and agree.
LEMMA PowersExist ==
  ASSUME NEW m \in Nat PROVE \E h : Powers(h, m)
<1> DEFINE Bad == {k \in Nat : ~\E h : Powers(h, k)}
<1> SUFFICES ASSUME m \in Bad PROVE FALSE
  OBVIOUS
<1>1. PICK k \in Bad : \A i \in Bad : k <= i
  <2>1. Bad \in SUBSET Nat
    OBVIOUS
  <2> HIDE DEF Bad
  <2> QED
    BY <2>1, LeastOf
<1>2. k # 0
  <2>1. Powers([i \in 0..0 |-> 1], 0)
    BY DEF Powers
  <2> QED
    BY <2>1, <1>1
<1>3. k - 1 \in Nat /\ k - 1 \notin Bad
  BY <1>1, <1>2
<1>4. PICK h : Powers(h, k - 1)
  BY <1>3
<1> DEFINE g == [i \in 0..k |-> IF i = k THEN ByteWord * h[k - 1] ELSE h[i]]
<1>5. k \in Nat \ {0} /\ ByteWord \in Nat
  BY <1>1, <1>2, NumbersAre
<1>6. h \in [0..(k - 1) -> Nat] /\ h[0] = 1 /\ \A i \in 1..(k - 1) : h[i] = ByteWord * h[i - 1]
  BY <1>4 DEF Powers
<1>7. Powers(g, k)
  <2>1. ByteWord * h[k - 1] \in Nat
    BY <1>5, <1>6
  <2>2. g \in [0..k -> Nat] /\ g[0] = 1
    BY <1>5, <1>6, <2>1
  <2>3. ASSUME NEW i \in 1..k PROVE g[i] = ByteWord * g[i - 1]
    <3>1. i - 1 \in 0..k /\ i - 1 # k /\ g[i - 1] = h[i - 1]
      BY <1>5
    <3>2. CASE i = k
      BY <3>1, <3>2, <1>5
    <3>3. CASE i # k
      <4>1. i \in 1..(k - 1) /\ g[i] = h[i]
        BY <3>3, <1>5
      <4> QED
        BY <4>1, <3>1, <1>6
    <3> QED
      BY <3>2, <3>3
  <2> QED
    BY <2>2, <2>3 DEF Powers
<1> QED
  BY <1>1, <1>7

LEMMA PowersAgree ==
  ASSUME NEW m \in Nat, NEW n \in Nat, NEW h, NEW g, Powers(h, m), Powers(g, n), NEW k \in 0..m, k <= n
  PROVE  h[k] = g[k]
<1> DEFINE Bad == {i \in 0..k : h[i] # g[i]}
<1> SUFFICES ASSUME Bad # {} PROVE FALSE
  OBVIOUS
<1>1. PICK i \in Bad : \A j \in Bad : i <= j
  <2>1. Bad \in SUBSET Nat
    OBVIOUS
  <2> HIDE DEF Bad
  <2> QED
    BY <2>1, LeastOf
<1>2. i # 0
  BY <1>1 DEF Powers
<1>3. i \in 1..m /\ i \in 1..n /\ i - 1 \in 0..k /\ i - 1 \notin Bad
  BY <1>1, <1>2
<1>4. h[i] = ByteWord * h[i - 1] /\ g[i] = ByteWord * g[i - 1] /\ h[i - 1] = g[i - 1]
  BY <1>3 DEF Powers
<1> QED
  BY <1>1, <1>4

LEMMA PowerIs ==
  /\ Binary!Power[0] = 1
  /\ \A k \in Nat : Binary!Power[k] \in Nat \ {0} /\ Binary!Power[k + 1] = ByteWord * Binary!Power[k]
<1> DEFINE Recurs(f) == f = [k \in Nat |-> IF k = 0 THEN 1 ELSE ByteWord * f[k - 1]]
           H(k) == CHOOSE h : Powers(h, k)
           f == [k \in Nat |-> H(k)[k]]
           P == Binary!Power
<1>1. \A k \in Nat : Powers(H(k), k)
  BY PowersExist
<1> HIDE DEF H
<1>2. ASSUME NEW k \in Nat PROVE f[k] = IF k = 0 THEN 1 ELSE ByteWord * f[k - 1]
  <2>1. CASE k = 0
    BY <1>1, <2>1 DEF Powers
  <2>2. CASE k # 0
    <3>1. k - 1 \in Nat /\ k - 1 \in 0..k /\ k - 1 <= k - 1 /\ k \in 1..k
      BY <2>2
    <3>2. Powers(H(k), k) /\ Powers(H(k - 1), k - 1)
      BY <1>1, <3>1
    <3>3. H(k)[k] = ByteWord * H(k)[k - 1]
      BY <3>1, <3>2 DEF Powers
    <3>4. H(k)[k - 1] = H(k - 1)[k - 1]
      BY <3>1, <3>2, PowersAgree
    <3> QED
      BY <2>2, <3>1, <3>3, <3>4
  <2> QED
    BY <2>1, <2>2
<1>3. Recurs(f)
  BY <1>2
<1>4. Recurs(P)
  <2>1. P = CHOOSE h : Recurs(h)
    BY Zenon DEF Binary!Power
  <2> HIDE DEF Recurs, P
  <2> QED
    BY <1>3, <2>1
<1> HIDE DEF P, f
<1>5. P[0] = 1
  BY <1>4
<1>6. \A k \in Nat : P[k + 1] = ByteWord * P[k]
  BY <1>4
<1>7. \A k \in Nat : P[k] \in Nat \ {0}
  <2> DEFINE Bad == {k \in Nat : P[k] \notin Nat \ {0}}
  <2> SUFFICES ASSUME Bad # {} PROVE FALSE
    OBVIOUS
  <2>1. PICK k \in Bad : \A i \in Bad : k <= i
    <3>1. Bad \in SUBSET Nat
      OBVIOUS
    <3> HIDE DEF Bad
    <3> QED
      BY <3>1, LeastOf
  <2>2. k # 0
    BY <2>1, <1>5
  <2>3. k - 1 \in Nat /\ k - 1 \notin Bad
    BY <2>1, <2>2
  <2>4. P[k - 1] \in Nat \ {0} /\ P[k] = ByteWord * P[k - 1]
    BY <2>3, <1>6
  <2>5. \A x, y \in Nat \ {0} : x * y \in Nat \ {0}
    OBVIOUS
  <2> QED
    BY <2>1, <2>4, <2>5, NumbersAre
<1> QED
  BY <1>5, <1>6, <1>7 DEF P

\* One division and its remainder.
LEMMA DivIs ==
  ASSUME NEW x \in Nat, NEW a \in Nat \ {0}
  PROVE  /\ x \div a \in Nat /\ x % a \in 0..(a - 1) /\ x = a * (x \div a) + (x % a)
OBVIOUS

LEMMA DivOf ==
  ASSUME NEW x \in Nat, NEW a \in Nat \ {0}, NEW q \in Nat, NEW r \in 0..(a - 1), x = a * q + r
  PROVE  x \div a = q
<1> DEFINE p == x \div a
           t == x % a
<1>1. p \in Nat /\ t \in 0..(a - 1) /\ x = a * p + t
  BY DivIs
<1> HIDE DEF p, t
<1>2. a * (p - q) = r - t /\ r - t < a /\ t - r < a
  <2>1. a * (p - q) = a * p - a * q
    BY <1>1
  <2> QED
    BY <1>1, <2>1
<1>3. ~(p - q >= 1)
  <2> SUFFICES ASSUME p - q >= 1 PROVE FALSE
    OBVIOUS
  <2>1. p - q - 1 \in Nat
    BY <1>1
  <2>2. a * (p - q - 1) >= 0 /\ a * (p - q - 1) = a * (p - q) - a
    BY <2>1, <1>1
  <2> QED
    BY <1>1, <1>2, <2>2
<1>4. ~(q - p >= 1)
  <2> SUFFICES ASSUME q - p >= 1 PROVE FALSE
    OBVIOUS
  <2>1. q - p - 1 \in Nat
    BY <1>1
  <2>2. a * (q - p - 1) >= 0 /\ a * (q - p - 1) = 0 - (a * (p - q)) - a
    BY <2>1, <1>1
  <2> QED
    BY <1>1, <1>2, <2>2
<1>5. p = q
  BY <1>1, <1>3, <1>4
<1> QED
  BY <1>5 DEF p

\* To divide by b times a is to divide by a and then by b.
LEMMA DivTwice ==
  ASSUME NEW x \in Nat, NEW a \in Nat \ {0}, NEW b \in Nat \ {0}
  PROVE  x \div (b * a) = (x \div a) \div b
<1> DEFINE p == x \div a
           r == x % a
           q == p \div b
           t == p % b
<1>1. p \in Nat /\ r \in 0..(a - 1) /\ x = a * p + r
  BY DivIs
<1>2. q \in Nat /\ t \in 0..(b - 1) /\ p = b * q + t
  <2> HIDE DEF p
  <2> QED
    BY <1>1, DivIs
<1> HIDE DEF p, r, q, t
<1>3. x = (b * a) * q + (a * t + r)
  <2>1. a * p = a * (b * q) + a * t
    <3> DEFINE u == b * q
    <3>1. u \in Int /\ p = u + t
      BY <1>2
    <3> HIDE DEF u
    <3>2. a * (u + t) = a * u + a * t
      BY <1>2, <3>1
    <3> QED
      BY <3>1, <3>2 DEF u
  <2>2. a * (b * q) = (b * a) * q
    BY <1>2
  <2> DEFINE A == a * p
             C == a * (b * q)
             D == a * t
             E == (b * a) * q
  <2>3. D \in Int /\ E \in Int /\ A = C + D /\ C = E /\ x = A + r
    BY <1>1, <1>2, <2>1, <2>2
  <2> HIDE DEF A, C, D, E
  <2>4. x = E + (D + r)
    BY <1>1, <2>3
  <2> QED
    BY <2>4 DEF D, E
<1>4. a * t + r \in 0..(b * a - 1) /\ b * a \in Nat \ {0}
  <2>1. a * t >= 0 /\ a * (b - 1 - t) >= 0
    BY <1>2
  <2>2. a * (b - 1 - t) = a * b - a - a * t /\ a * b = b * a
    BY <1>2
  <2>3. a * t \in Int /\ a * b \in Int
    BY <1>2
  <2> QED
    BY <1>1, <2>1, <2>2, <2>3
<1>5. x \div (b * a) = q
  <2> DEFINE c == b * a
             u == a * t + r
  <2>1. c \in Nat \ {0} /\ u \in 0..(c - 1) /\ x = c * q + u
    BY <1>3, <1>4
  <2> HIDE DEF c, u
  <2>2. x \div c = q
    BY <1>2, <2>1, DivOf
  <2> QED
    BY <2>2 DEF c
<1> QED
  BY <1>5 DEF q, p

LEMMA DivGrows ==
  ASSUME NEW x \in Nat, NEW y \in Nat, x <= y, NEW a \in Nat \ {0}
  PROVE  x \div a <= y \div a
<1> DEFINE p == x \div a
           q == y \div a
<1>1. /\ p \in Nat /\ x % a \in 0..(a - 1) /\ x = a * p + (x % a)
      /\ q \in Nat /\ y % a \in 0..(a - 1) /\ y = a * q + (y % a)
  BY DivIs
<1> HIDE DEF p, q
<1>2. p <= q
  <2> SUFFICES ASSUME p - q - 1 \in Nat PROVE FALSE
    BY <1>1
  <2>1. a * (p - q - 1) >= 0 /\ a * (p - q - 1) = a * p - a * q - a
    BY <1>1
  <2> QED
    BY <1>1, <2>1
<1> QED
  BY <1>2 DEF p, q
-----------------------------------------------------------------------------
\* What the first k of n bytes of v say.
Leading(v, k, n) == v \div Binary!Power[n - k]

LEMMA LeadingIs ==
  ASSUME NEW n \in Nat, NEW v \in Binary!Numbers(n)
  PROVE  /\ v \in Nat
         /\ Leading(v, 0, n) = 0 /\ Leading(v, n, n) = v
         /\ \A k \in 0..n : Leading(v, k, n) \in Nat
         /\ \A k \in 1..n : /\ Binary!ByteOf(v, k, n) \in 0..(ByteWord - 1)
                            /\ Leading(v, k, n) = ByteWord * Leading(v, k - 1, n) + Binary!ByteOf(v, k, n)
<1> DEFINE P == Binary!Power
<1>1. P[0] = 1 /\ \A k \in Nat : P[k] \in Nat \ {0} /\ P[k + 1] = ByteWord * P[k]
  BY PowerIs
<1> HIDE DEF P
<1>2. v \in 0..(P[n] - 1)
  BY DEF Binary!Numbers, P
<1>3. v \in Nat /\ ByteWord \in Nat \ {0, 1}
  BY <1>1, <1>2, NumbersAre
<1>4. v \div P[n] = 0
  <2> DEFINE a == P[n]
  <2>1. a \in Nat \ {0} /\ v \in 0..(a - 1) /\ v = a * 0 + v
    BY <1>1, <1>2
  <2> HIDE DEF a
  <2>2. v \div a = 0
    BY <1>3, <2>1, DivOf
  <2> QED
    BY <2>2 DEF a
<1>5. v \div P[0] = v
  BY <1>1, <1>3
<1>6. ASSUME NEW k \in 0..n PROVE v \div P[n - k] \in Nat
  <2>1. n - k \in Nat
    OBVIOUS
  <2> QED
    BY <1>1, <1>3, <2>1, DivIs
<1>7. ASSUME NEW k \in 1..n
      PROVE  LET q == v \div P[n - k]
             IN  q % ByteWord \in 0..(ByteWord - 1) /\ q = ByteWord * (v \div P[n - (k - 1)]) + (q % ByteWord)
  <2> DEFINE a == P[n - k]
             q == v \div a
  <2>1. n - k \in Nat /\ n - (k - 1) = (n - k) + 1
    OBVIOUS
  <2>2. a \in Nat \ {0} /\ P[n - (k - 1)] = ByteWord * a
    BY <1>1, <2>1
  <2> HIDE DEF a
  <2>3. v \div (ByteWord * a) = q \div ByteWord /\ q \in Nat
    <3>1. ByteWord \in Nat \ {0}
      BY <1>3
    <3>2. v \div (ByteWord * a) = (v \div a) \div ByteWord
      BY <3>1, <1>3, <2>2, DivTwice
    <3> QED
      BY <3>2, <1>3, <2>2, DivIs
  <2> HIDE DEF q
  <2>4. q % ByteWord \in 0..(ByteWord - 1) /\ q = ByteWord * (q \div ByteWord) + (q % ByteWord)
    BY <1>3, <2>3, DivIs
  <2> QED
    BY <2>2, <2>3, <2>4 DEF q, a
<1>8. n - 0 = n /\ n - n = 0
  OBVIOUS
<1> QED
  BY <1>3, <1>4, <1>5, <1>6, <1>7, <1>8 DEF Leading, Binary!ByteOf, P

\* The bytes of a number say the number (binary.h:52-56).
LEMMA UintOfBytes ==
  ASSUME NEW n \in Nat, NEW v \in Binary!Numbers(n), NEW buf, \A i \in 1..n : buf[i] = Binary!ByteOf(v, i, n)
  PROVE  Binary!Uint(buf, n) = v
<1> DEFINE P == Binary!Power
           L(k) == Leading(v, k, n)
           b(k) == Binary!ByteOf(v, k, n)
           s == [i \in 1..n |-> buf[i] * P[n - i]]
           d == [k \in 0..n |-> L(k) * P[n - k]]
<1>1. P[0] = 1 /\ \A k \in Nat : P[k] \in Nat \ {0} /\ P[k + 1] = ByteWord * P[k]
  BY PowerIs
<1>2. /\ v \in Nat /\ L(0) = 0 /\ L(n) = v /\ ByteWord \in Nat
      /\ \A k \in 0..n : L(k) \in Nat
      /\ \A k \in 1..n : b(k) \in 0..(ByteWord - 1) /\ L(k) = ByteWord * L(k - 1) + b(k)
  BY LeadingIs, NumbersAre
<1> HIDE DEF P, L, b
<1>3. \A k \in 1..n : buf[k] = b(k)
  BY DEF b
<1>4. \A k \in 0..n : P[n - k] \in Nat \ {0}
  BY <1>1
<1>5. s \in Seq(Nat) /\ Len(s) = n
  <2>1. \A i \in 1..n : buf[i] * P[n - i] \in Nat
    BY <1>2, <1>3, <1>4
  <2> QED
    BY <2>1
<1>6. d[0] = 0
  BY <1>2, <1>4
<1>7. ASSUME NEW k \in 1..n PROVE d[k] = d[k - 1] + s[k]
  <2> DEFINE p == P[n - k]
             l == L(k - 1)
  <2>1. p \in Nat /\ l \in Nat /\ b(k) \in Nat /\ ByteWord \in Nat /\ L(k) = ByteWord * l + b(k)
    BY <1>2, <1>4
  <2>2. P[n - (k - 1)] = ByteWord * p
    <3>1. n - k \in Nat /\ n - (k - 1) = (n - k) + 1
      OBVIOUS
    <3> QED
      BY <1>1, <3>1
  <2>3. d[k] = L(k) * p /\ d[k - 1] = l * (ByteWord * p) /\ s[k] = b(k) * p
    BY <2>2, <1>3
  <2> HIDE DEF p, l, d, s
  <2>4. (ByteWord * l + b(k)) * p = l * (ByteWord * p) + b(k) * p
    <3> DEFINE u == ByteWord * l
    <3>1. u \in Nat
      BY <2>1
    <3>2. u * p = l * (ByteWord * p)
      BY <2>1
    <3> HIDE DEF u
    <3>3. (u + b(k)) * p = u * p + b(k) * p
      BY <2>1, <3>1
    <3> QED
      BY <3>2, <3>3 DEF u
  <2> QED
    BY <2>1, <2>3, <2>4
<1>8. d[n] = v
  <2>1. d[n] = v * 1
    BY <1>1, <1>2
  <2> QED
    BY <2>1, <1>2
<1> HIDE DEF d
<1>9. Binary!Sum(s) = v
  <2> HIDE DEF s
  <2> QED
    BY <1>5, <1>6, <1>7, <1>8, SumIs
<1> QED
  BY <1>9 DEF Binary!Uint, P

\* What is greater in the first bytes is greater.
LEMMA LeadingGrows ==
  ASSUME NEW n \in Nat, NEW v \in Binary!Numbers(n), NEW w \in Binary!Numbers(n), NEW k \in 0..n,
         Leading(v, k, n) < Leading(w, k, n)
  PROVE  v < w
<1>1. v \in Nat /\ w \in Nat /\ n - k \in Nat
  BY LeadingIs
<1>2. Binary!Power[n - k] \in Nat \ {0}
  BY <1>1, PowerIs
<1> SUFFICES ASSUME w <= v PROVE FALSE
  BY <1>1
<1>3. Leading(w, k, n) <= Leading(v, k, n)
  <2> DEFINE a == Binary!Power[n - k]
  <2>1. a \in Nat \ {0}
    BY <1>2
  <2> HIDE DEF a
  <2>2. w \div a <= v \div a
    BY <1>1, <2>1, DivGrows
  <2> QED
    BY <2>2 DEF Leading, a
<1>4. Leading(w, k, n) \in Nat /\ Leading(v, k, n) \in Nat
  BY LeadingIs
<1> QED
  BY <1>3, <1>4

\* Numbers are ordered as their bytes are.
LEMMA OrderOfBytes ==
  ASSUME NEW n \in Nat, NEW v \in Binary!Numbers(n), NEW w \in Binary!Numbers(n), NEW x, NEW y,
         DOMAIN x = 1..n, \A i \in 1..n : x[i] = Binary!ByteOf(v, i, n) /\ y[i] = Binary!ByteOf(w, i, n)
  PROVE  v < w <=> Binary!BytesBefore(x, y)
<1> DEFINE L(k) == Leading(v, k, n)
           M(k) == Leading(w, k, n)
<1>1. /\ v \in Nat /\ L(0) = 0 /\ L(n) = v
      /\ \A k \in 0..n : L(k) \in Nat
      /\ \A k \in 1..n : x[k] \in 0..(ByteWord - 1) /\ L(k) = ByteWord * L(k - 1) + x[k]
  <2>1. /\ v \in Nat /\ L(0) = 0 /\ L(n) = v /\ \A k \in 0..n : L(k) \in Nat
        /\ \A k \in 1..n : /\ Binary!ByteOf(v, k, n) \in 0..(ByteWord - 1)
                           /\ L(k) = ByteWord * L(k - 1) + Binary!ByteOf(v, k, n)
    BY LeadingIs
  <2>2. \A k \in 1..n : x[k] = Binary!ByteOf(v, k, n)
    OBVIOUS
  <2> HIDE DEF L
  <2> QED
    BY <2>1, <2>2, ZenonT(30)
<1>2. /\ w \in Nat /\ M(0) = 0 /\ M(n) = w
      /\ \A k \in 0..n : M(k) \in Nat
      /\ \A k \in 1..n : y[k] \in 0..(ByteWord - 1) /\ M(k) = ByteWord * M(k - 1) + y[k]
  <2>1. /\ w \in Nat /\ M(0) = 0 /\ M(n) = w /\ \A k \in 0..n : M(k) \in Nat
        /\ \A k \in 1..n : /\ Binary!ByteOf(w, k, n) \in 0..(ByteWord - 1)
                           /\ M(k) = ByteWord * M(k - 1) + Binary!ByteOf(w, k, n)
    BY LeadingIs
  <2>2. \A k \in 1..n : y[k] = Binary!ByteOf(w, k, n)
    OBVIOUS
  <2> HIDE DEF M
  <2> QED
    BY <2>1, <2>2, ZenonT(30)
<1>3. ASSUME NEW k \in 0..n, L(k) < M(k) PROVE v < w
  BY <1>3, LeadingGrows
<1>4. ASSUME NEW k \in 0..n, M(k) < L(k) PROVE w < v
  BY <1>4, LeadingGrows
<1> HIDE DEF L, M
<1>5. ByteWord \in Nat
  BY NumbersAre
\* Where the leading bytes say the same, the next ones decide.
<1>6. ASSUME NEW k \in 1..n, L(k - 1) = M(k - 1)
      PROVE  (x[k] < y[k] <=> L(k) < M(k)) /\ (x[k] = y[k] <=> L(k) = M(k))
  <2> DEFINE u == ByteWord * L(k - 1)
  <2>1. u \in Nat
    BY <1>1, <1>5
  <2>2. L(k) = u + x[k] /\ M(k) = u + y[k] /\ x[k] \in Int /\ y[k] \in Int
    BY <1>1, <1>2, <1>6
  <2> HIDE DEF u
  <2> QED
    BY <2>1, <2>2
<1>7. ASSUME v < w PROVE Binary!BytesBefore(x, y)
  <2> DEFINE D == {k \in 0..n : L(k) # M(k)}
  <2>1. n \in D
    BY <1>1, <1>2, <1>7
  <2>2. PICK k \in D : \A i \in D : k <= i
    <3>1. D \in SUBSET Nat /\ D # {}
      BY <2>1
    <3> HIDE DEF D
    <3> QED
      BY <3>1, LeastOf
  <2>3. k \in 1..n /\ L(k - 1) = M(k - 1)
    <3>1. k \in 1..n
      BY <2>2, <1>1, <1>2
    <3>2. k - 1 \in 0..n /\ k - 1 \notin D
      BY <3>1, <2>2
    <3> QED
      BY <3>1, <3>2
  <2>4. ~(M(k) < L(k))
    BY <1>4, <1>7, <1>1, <1>2, <2>3
  <2>5. L(k) < M(k)
    BY <2>2, <2>3, <2>4, <1>1, <1>2
  <2>6. x[k] < y[k]
    BY <2>3, <2>5, <1>6
  <2>7. ASSUME NEW j \in 1..(k - 1) PROVE x[j] = y[j]
    <3>1. j \in 1..n /\ j \notin D /\ j - 1 \in 0..n /\ j - 1 \notin D
      BY <2>2, <2>3
    <3>2. L(j - 1) = M(j - 1) /\ L(j) = M(j)
      BY <3>1
    <3> QED
      BY <3>1, <3>2, <1>6
  <2> QED
    BY <2>3, <2>6, <2>7 DEF Binary!BytesBefore
<1>8. ASSUME Binary!BytesBefore(x, y) PROVE v < w
  <2>1. PICK k \in 1..n : x[k] < y[k] /\ \A j \in 1..(k - 1) : x[j] = y[j]
    BY <1>8 DEF Binary!BytesBefore
  <2> DEFINE D == {i \in 0..(k - 1) : L(i) # M(i)}
  <2>2. D = {}
    <3> SUFFICES ASSUME D # {} PROVE FALSE
      OBVIOUS
    <3>1. PICK i \in D : \A j \in D : i <= j
      <4>1. D \in SUBSET Nat
        OBVIOUS
      <4> HIDE DEF D
      <4> QED
        BY <4>1, LeastOf
    <3>2. i # 0
      BY <3>1, <1>1, <1>2
    <3>3. i \in 1..n /\ i \in 1..(k - 1) /\ i - 1 \in 0..(k - 1) /\ i - 1 \notin D
      BY <3>1, <3>2
    <3>4. L(i - 1) = M(i - 1) /\ x[i] = y[i]
      BY <3>3, <2>1
    <3> QED
      BY <3>1, <3>3, <3>4, <1>6
  <2>3. L(k - 1) = M(k - 1)
    <3>1. k - 1 \in 0..(k - 1)
      OBVIOUS
    <3> QED
      BY <2>2, <3>1
  <2>4. L(k) < M(k)
    BY <2>1, <2>3, <1>6
  <2>5. k \in 0..n
    OBVIOUS
  <2> QED
    BY <2>4, <2>5, <1>3
<1> QED
  BY <1>7, <1>8

-----------------------------------------------------------------------------
(***************************************************************************)
(* The layout of the file: each number is where the one before ends, as    *)
(* far as the writer had room.                                             *)
(***************************************************************************)
\* Where number k of s starts.
At(s, k) == Binary!Total(SubSeq(s, 1, k - 1))

Pairs == Nat \X Nat

\* A number starts where the one before ends.
LEMMA StartsFollow ==
  ASSUME NEW s \in Seq(Pairs)
  PROVE  /\ At(s, 1) = 0 /\ At(s, Len(s) + 1) = Binary!Total(s)
         /\ \A k \in 1..(Len(s) + 1) : At(s, k) \in Nat
         /\ \A k \in 1..Len(s) : At(s, k + 1) = At(s, k) + s[k][1]
<1> DEFINE n == Len(s)
           W == [i \in 1..n |-> s[i][1]]
<1>1. n \in Nat /\ DOMAIN s = 1..n /\ \A i \in 1..n : s[i] \in Pairs
  OBVIOUS
<1>2. \A i \in 1..n : s[i][1] \in Nat
  BY <1>1 DEF Pairs
<1>3. W \in Seq(Nat) /\ Len(W) = n
  <2> HIDE DEF n
  <2> QED
    BY <1>1, <1>2
<1>4. PICK c : PartialSums(c, W) /\ Binary!Sum(W) = c[n]
  <2> HIDE DEF W, n
  <2> QED
    BY <1>3, SumOf
<1>5. c \in [0..n -> Nat] /\ c[0] = 0 /\ \A k \in 1..n : c[k] = c[k - 1] + s[k][1]
  BY <1>3, <1>4 DEF PartialSums
<1>6. ASSUME NEW k \in 1..(n + 1) PROVE At(s, k) = c[k - 1]
  <2> DEFINE t == SubSeq(s, 1, k - 1)
             V == [i \in DOMAIN t |-> t[i][1]]
  <2>1. Len(t) = k - 1 /\ DOMAIN t = 1..(k - 1) /\ \A i \in 1..(k - 1) : t[i] = s[i] /\ i \in 1..n
    BY <1>1
  <2>2. V \in Seq(Nat) /\ Len(V) = k - 1 /\ \A i \in 1..(k - 1) : V[i] = s[i][1]
    <3>1. k - 1 \in Nat
      BY <1>1
    <3> HIDE DEF t
    <3> QED
      BY <1>2, <2>1, <3>1
  <2>3. c[0] = 0 /\ \A i \in 1..Len(V) : c[i] = c[i - 1] + V[i]
    BY <1>5, <2>1, <2>2
  <2> HIDE DEF V
  <2>4. Binary!Sum(V) = c[k - 1]
    BY <2>2, <2>3, SumIs
  <2> QED
    BY <2>4 DEF At, Binary!Total, V
<1>7. Binary!Total(s) = c[n]
  BY <1>1, <1>4 DEF Binary!Total
<1> HIDE DEF W
<1>8. \A k \in 1..n : k + 1 \in 1..(n + 1) /\ k \in 1..(n + 1) /\ (k + 1) - 1 = k
  BY <1>1
<1>9. n + 1 \in 1..(n + 1) /\ (n + 1) - 1 = n /\ 1 \in 1..(n + 1) /\ \A k \in 1..(n + 1) : k - 1 \in 0..n
  BY <1>1
<1> HIDE DEF n
<1>10. At(s, 1) = 0 /\ At(s, n + 1) = Binary!Total(s)
  BY <1>5, <1>6, <1>7, <1>9
<1>11. \A k \in 1..(n + 1) : At(s, k) \in Nat
  BY <1>5, <1>6, <1>9
<1>12. \A k \in 1..n : At(s, k + 1) = At(s, k) + s[k][1]
  BY <1>5, <1>6, <1>8
<1> QED
  BY <1>10, <1>11, <1>12 DEF n

\* Numbers that start later do not start before the end of one.
LEMMA StartsGrow ==
  ASSUME NEW s \in Seq(Pairs), NEW k \in 1..Len(s), NEW l \in (k + 1)..(Len(s) + 1)
  PROVE  At(s, k) + s[k][1] <= At(s, l)
<1> DEFINE Bad == {i \in (k + 1)..(Len(s) + 1) : ~(At(s, k) + s[k][1] <= At(s, i))}
<1> SUFFICES ASSUME Bad # {} PROVE FALSE
  OBVIOUS
<1>1. PICK i \in Bad : \A j \in Bad : i <= j
  <2>1. Bad \in SUBSET Nat
    OBVIOUS
  <2> HIDE DEF Bad
  <2> QED
    BY <2>1, LeastOf
<1>2. /\ \A j \in 1..(Len(s) + 1) : At(s, j) \in Nat
      /\ \A j \in 1..Len(s) : At(s, j + 1) = At(s, j) + s[j][1] /\ s[j][1] \in Nat
  <2>1. \A j \in 1..Len(s) : s[j] \in Pairs
    OBVIOUS
  <2> QED
    BY <2>1, StartsFollow DEF Pairs
<1>3. i # k + 1
  BY <1>1, <1>2
<1>4. i - 1 \in (k + 1)..(Len(s) + 1) /\ i - 1 \notin Bad /\ i - 1 \in 1..Len(s) /\ (i - 1) + 1 = i
  BY <1>1, <1>3
<1>5. At(s, k) + s[k][1] <= At(s, i - 1)
  BY <1>4
<1>6. At(s, i) = At(s, i - 1) + s[i - 1][1]
  BY <1>2, <1>4
<1>7. /\ At(s, k) \in Nat /\ s[k][1] \in Nat /\ At(s, i - 1) \in Nat /\ s[i - 1][1] \in Nat
  BY <1>2, <1>4
<1>8. At(s, k) + s[k][1] <= At(s, i)
  <2> DEFINE a == At(s, k)
             b == s[k][1]
             c == At(s, i - 1)
             d == s[i - 1][1]
  <2>1. a \in Nat /\ b \in Nat /\ c \in Nat /\ d \in Nat /\ a + b <= c /\ At(s, i) = c + d
    BY <1>5, <1>6, <1>7
  <2> HIDE DEF a, b, c, d
  <2>2. a + b <= At(s, i)
    BY <2>1
  <2> QED
    BY <2>2 DEF a, b
<1> QED
  BY <1>1, <1>8

\* Where a number starts is of the widths before it.
LEMMA StartsAgree ==
  ASSUME NEW s \in Seq(Pairs), NEW t \in Seq(Pairs), NEW k \in 1..(Len(s) + 1), k <= Len(t) + 1,
         \A i \in 1..(k - 1) : s[i][1] = t[i][1]
  PROVE  At(s, k) = At(t, k)
<1> DEFINE a == SubSeq(s, 1, k - 1)
           b == SubSeq(t, 1, k - 1)
<1>1. DOMAIN a = 1..(k - 1) /\ \A i \in 1..(k - 1) : a[i] = s[i]
  OBVIOUS
<1>2. DOMAIN b = 1..(k - 1) /\ \A i \in 1..(k - 1) : b[i] = t[i]
  OBVIOUS
<1> HIDE DEF a, b
<1>3. [i \in DOMAIN a |-> a[i][1]] = [i \in DOMAIN b |-> b[i][1]]
  BY <1>1, <1>2
<1>4. Binary!Total(a) = Binary!Total(b)
  BY <1>3, Zenon DEF Binary!Total
<1> QED
  BY <1>4 DEF At, a, b

\* Min of two numbers.
LEMMA LesserOf ==
  ASSUME NEW x \in Int, NEW y \in Int
  PROVE  Binary!Min({x, y}) = IF x <= y THEN x ELSE y
<1> DEFINE m == IF x <= y THEN x ELSE y
<1>1. m \in {x, y} /\ \A z \in {x, y} : m <= z
  OBVIOUS
<1>2. \A u \in {x, y} : (\A z \in {x, y} : u <= z) => u = m
  OBVIOUS
<1> HIDE DEF m
<1>3. Binary!Min({x, y}) = m
  BY <1>1, <1>2 DEF Binary!Min
<1> QED
  BY <1>3 DEF m

\* What is written are pairs of a width and a number of that width.
GivenInv ==
  /\ given \in Seq(Pairs)
  /\ \A k \in 1..Len(given) : given[k][1] \in Widths /\ given[k][2] \in Binary!Numbers(given[k][1])

\* The bytes of each number are where it starts, as far as the file goes.
FileInv ==
  /\ file \in Seq(Nat)
  /\ Len(file) = (IF Binary!Total(given) <= WriterSpace THEN Binary!Total(given) ELSE WriterSpace)
  /\ \A k \in 1..Len(given) : \A j \in 1..given[k][1] :
       At(given, k) + j <= Len(file) => file[At(given, k) + j] = Binary!ByteOf(given[k][2], j, given[k][1])

\* What has been read is what was written, and the reader is where the next number starts; a read
\* that has thrown left it at the end of the file, inside that number.
NumbersInv ==
  /\ numbers \in Seq(Nat) /\ Len(numbers) <= Len(given)
  /\ \A k \in 1..Len(numbers) : numbers[k] = given[k][2]
  /\ thrown \in BOOLEAN
  /\ thrown => Len(numbers) < Len(given) /\ reader = Len(file) /\ reader < At(given, Len(numbers) + 2)
  /\ ~thrown => reader = At(given, Len(numbers) + 1) /\ reader <= Len(file)

BinaryInv == GivenInv /\ FileInv /\ NumbersInv

\* Facts of every state of the invariant.
LEMMA GivenIs ==
  ASSUME GivenInv
  PROVE  /\ given \in Seq(Pairs) /\ Len(given) \in Nat /\ DOMAIN given = 1..Len(given)
         /\ \A k \in 1..Len(given) : /\ given[k] = <<given[k][1], given[k][2]>>
                                     /\ given[k][1] \in Nat \ {0} /\ given[k][1] \in Widths
                                     /\ given[k][2] \in Nat /\ given[k][2] \in Binary!Numbers(given[k][1])
         /\ Binary!Total(given) \in Nat
<1>1. given \in Seq(Pairs)
  BY DEF GivenInv
<1>2. Len(given) \in Nat /\ DOMAIN given = 1..Len(given) /\ \A k \in 1..Len(given) : given[k] \in Pairs
  BY <1>1
<1>3. Binary!Total(given) \in Nat
  <2>1. At(given, Len(given) + 1) \in Nat /\ At(given, Len(given) + 1) = Binary!Total(given)
    <3>1. Len(given) + 1 \in 1..(Len(given) + 1)
      BY <1>2
    <3> QED
      BY <1>1, <3>1, StartsFollow
  <2> QED
    BY <2>1
<1> QED
  BY <1>1, <1>2, <1>3, NumbersAre DEF GivenInv, Pairs

LEMMA BinaryInvInit ==
  ASSUME Binary!Init PROVE BinaryInv
<1>1. given = <<>> /\ file = <<>> /\ numbers = <<>> /\ reader = 0 /\ thrown = FALSE
  BY DEF Binary!Init
<1>2. <<>> \in Seq(Pairs) /\ <<>> \in Seq(Nat) /\ Len(<<>>) = 0 /\ 1..0 = {}
  OBVIOUS
<1>3. At(<<>>, 1) = 0 /\ At(<<>>, Len(<<>>) + 1) = Binary!Total(<<>>)
  BY <1>2, StartsFollow
<1>4. Binary!Total(given) = 0 /\ 0 <= WriterSpace /\ At(given, 1) = 0
  BY <1>1, <1>2, <1>3, NumbersAre
<1>5. Len(given) = 0 /\ Len(file) = 0 /\ Len(numbers) = 0
  BY <1>1
<1>6. GivenInv
  BY <1>1, <1>2, <1>5 DEF GivenInv
<1>7. FileInv
  <2>1. file \in Seq(Nat) /\ 1..Len(given) = {}
    BY <1>1, <1>2, <1>5
  <2>2. Len(file) = (IF Binary!Total(given) <= WriterSpace THEN Binary!Total(given) ELSE WriterSpace)
    BY <1>4, <1>5
  <2> QED
    BY <2>1, <2>2, Zenon DEF FileInv
<1>8. NumbersInv
  <2>1. reader = At(given, Len(numbers) + 1) /\ reader <= Len(file)
    <3>1. Len(numbers) + 1 = 1
      BY <1>5
    <3> QED
      BY <3>1, <1>1, <1>4, <1>5
  <2>2. numbers \in Seq(Nat) /\ Len(numbers) <= Len(given) /\ 1..Len(numbers) = {} /\ thrown = FALSE
    BY <1>1, <1>2, <1>5
  <2> QED
    BY <2>1, <2>2, Zenon DEF NumbersInv
<1> QED
  BY <1>6, <1>7, <1>8 DEF BinaryInv

\* One number more, of whose bytes the writer takes what it has room for.
LEMMA WriteKeepsNumbers ==
  ASSUME BinaryInv, NEW n \in Widths, NEW v \in Binary!Numbers(n), Binary!Write(n, v) PROVE BinaryInv'
<1> DEFINE m == Len(given)
           total == Binary!Total(given)
           l == Len(file)
           t == Binary!Taken(n)
           w == Binary!WriteUint([i \in 1..n |-> 0], n, v)
           part == SubSeq(w, 1, t)
<1>1. /\ given \in Seq(Pairs) /\ m \in Nat /\ total \in Nat /\ n \in Nat \ {0} /\ v \in Nat /\ WriterSpace \in Nat
      /\ \A k \in 1..m : given[k][1] \in Nat \ {0}
  <2>1. n \in Nat \ {0}
    BY NumbersAre
  <2>2. v \in Nat
    BY <2>1, LeadingIs
  <2> QED
    BY <2>1, <2>2, GivenIs, NumbersAre DEF BinaryInv
<1>2. /\ numbers = <<>> /\ ~thrown /\ file' = file \o part /\ given' = Append(given, <<n, v>>)
      /\ reader' = reader /\ numbers' = numbers /\ thrown' = thrown
  BY DEF Binary!Write
<1>3. /\ file \in Seq(Nat) /\ l \in Nat /\ l = (IF total <= WriterSpace THEN total ELSE WriterSpace)
  BY DEF BinaryInv, FileInv
<1>4. t = IF n <= WriterSpace - l THEN n ELSE WriterSpace - l
  <2>1. n \in Int /\ WriterSpace - l \in Int
    BY <1>1, <1>3
  <2> HIDE DEF l
  <2> QED
    BY <2>1, LesserOf DEF Binary!Taken, l
<1>5. t \in 0..n /\ l + t = (IF total + n <= WriterSpace THEN total + n ELSE WriterSpace)
  <2> HIDE DEF t, l, total
  <2> QED
    BY <1>1, <1>3, <1>4
<1>6. w \in Seq(Nat) /\ Len(w) = n /\ \A i \in 1..n : w[i] = Binary!ByteOf(v, i, n)
  <2>1. \A i \in 1..n : Binary!ByteOf(v, i, n) \in Nat
    <3>1. \A i \in 1..n : Binary!ByteOf(v, i, n) \in 0..(ByteWord - 1)
      BY <1>1, LeadingIs
    <3> QED
      BY <3>1, NumbersAre
  <2>2. w = [i \in 1..n |-> Binary!ByteOf(v, i, n)]
    <3>1. w = [i \in 1..n |-> IF i <= n THEN Binary!ByteOf(v, i, n) ELSE [j \in 1..n |-> 0][i]]
      BY Zenon DEF Binary!WriteUint
    <3>2. \A i \in 1..n : i <= n
      BY <1>1
    <3> HIDE DEF w
    <3> QED
      BY <3>1, <3>2
  <2> HIDE DEF w
  <2> QED
    BY <1>1, <2>1, <2>2
<1> HIDE DEF w, t
<1>7. part \in Seq(Nat) /\ Len(part) = t /\ \A i \in 1..t : part[i] = Binary!ByteOf(v, i, n)
  <2>1. CASE t = 0
    <3>1. part = <<>>
      BY <2>1, <1>6, SubSeqEmpty
    <3> QED
      BY <2>1, <3>1
  <2>2. CASE t # 0
    <3>1. 1 \in Int /\ t \in Int /\ 1 <= t /\ t - 1 + 1 = t /\ \A i \in 1..t : i \in 1..n /\ w[i] \in Nat
      BY <2>2, <1>1, <1>5, <1>6
    <3>2. part \in Seq(Nat) /\ Len(part) = t /\ \A i \in 1..t : part[i] = w[i]
      <4>1. /\ part \in Seq(Nat) /\ Len(part) = (IF 1 <= t THEN t - 1 + 1 ELSE 0)
            /\ \A i \in 1..(t - 1 + 1) : part[i] = w[1 + i - 1]
        BY <3>1, SubSeqProperties
      <4>2. \A i \in 1..t : 1 + i - 1 = i
        BY <3>1
      <4> HIDE DEF part
      <4> QED
        BY <3>1, <4>1, <4>2
    <3> QED
      BY <3>1, <3>2, <1>6
  <2> QED
    BY <2>1, <2>2
<1> HIDE DEF part
<1>8. /\ file' \in Seq(Nat) /\ Len(file') = l + t
      /\ \A i \in 1..l : file'[i] = file[i]
      /\ \A i \in 1..t : file'[l + i] = Binary!ByteOf(v, i, n)
  <2>1. /\ file \o part \in Seq(Nat) /\ Len(file \o part) = l + t
        /\ \A i \in 1..(l + t) : (file \o part)[i] = IF i <= l THEN file[i] ELSE part[i - l]
    BY <1>3, <1>7, ConcatProperties
  <2>2. \A i \in 1..l : i \in 1..(l + t) /\ i <= l
    BY <1>3, <1>5
  <2>3. \A i \in 1..t : l + i \in 1..(l + t) /\ ~(l + i <= l) /\ (l + i) - l = i
    BY <1>3, <1>5
  <2> DEFINE f == file \o part
  <2>4. file' = f
    BY <1>2
  <2> HIDE DEF f, l
  <2> QED
    BY <2>1, <2>2, <2>3, <2>4, <1>7 DEF f
<1>9. /\ given' \in Seq(Pairs) /\ Len(given') = m + 1 /\ given'[m + 1] = <<n, v>>
      /\ \A k \in 1..m : given'[k] = given[k]
  <2>1. <<n, v>> \in Pairs
    BY <1>1 DEF Pairs
  <2> QED
    BY <1>1, <1>2, <2>1
<1>10. \A k \in 1..(m + 1) : At(given', k) = At(given, k)
  <2> SUFFICES ASSUME NEW k \in 1..(m + 1) PROVE At(given', k) = At(given, k)
    OBVIOUS
  <2>1. \A i \in 1..(k - 1) : given[i][1] = given'[i][1]
    BY <1>1, <1>9
  <2>2. k <= Len(given') + 1
    BY <1>1, <1>9
  <2> QED
    BY <1>1, <1>9, <2>1, <2>2, StartsAgree
<1>11. At(given, m + 1) = total /\ At(given', m + 1) = total /\ Binary!Total(given') = total + n
  <2>1. At(given, m + 1) = total
    BY <1>1, StartsFollow
  <2>2. At(given', m + 1) = total
    BY <1>1, <1>10, <2>1
  <2>3. m + 1 \in 1..Len(given')
    BY <1>1, <1>9
  <2>4. At(given', (m + 1) + 1) = At(given', m + 1) + given'[m + 1][1]
    BY <1>9, <2>3, StartsFollow
  <2>5. At(given', (m + 1) + 1) = Binary!Total(given')
    BY <1>9, StartsFollow
  <2> QED
    BY <1>9, <2>1, <2>2, <2>4, <2>5
<1>12. GivenInv'
  <2>1. \A k \in 1..(m + 1) : given'[k][1] \in Widths /\ given'[k][2] \in Binary!Numbers(given'[k][1])
    <3> SUFFICES ASSUME NEW k \in 1..(m + 1)
                 PROVE  given'[k][1] \in Widths /\ given'[k][2] \in Binary!Numbers(given'[k][1])
      OBVIOUS
    <3>1. CASE k = m + 1
      BY <3>1, <1>9
    <3>2. CASE k # m + 1
      <4>1. k \in 1..m
        BY <1>1, <3>2
      <4> QED
        BY <4>1, <1>9 DEF BinaryInv, GivenInv
    <3> QED
      BY <3>1, <3>2
  <2> QED
    BY <1>9, <2>1 DEF GivenInv
<1>13. FileInv'
  <2>1. ASSUME NEW k \in 1..(m + 1), NEW j \in 1..given'[k][1], At(given', k) + j <= Len(file')
        PROVE  file'[At(given', k) + j] = Binary!ByteOf(given'[k][2], j, given'[k][1])
    <3>1. CASE k = m + 1
      <4>1. j \in 1..n /\ total + j <= l + t
        BY <3>1, <2>1, <1>8, <1>9, <1>11
      <4>2. total = l /\ j \in 1..t
        BY <4>1, <1>1, <1>3, <1>5
      <4>3. At(given', k) = l /\ given'[k][1] = n /\ given'[k][2] = v
        BY <3>1, <4>2, <1>9, <1>11
      <4>4. file'[l + j] = Binary!ByteOf(v, j, n)
        BY <4>2, <1>8
      <4> QED
        BY <4>3, <4>4
    <3>2. CASE k # m + 1
      <4>1. k \in 1..m
        BY <1>1, <3>2
      <4>2. given'[k] = given[k] /\ At(given', k) = At(given, k) /\ At(given, k) \in Nat /\ j \in 1..given[k][1]
        <5>1. given'[k] = given[k] /\ j \in 1..given[k][1]
          <6>1. given'[k] = given[k]
            BY <4>1, <1>9
          <6> QED
            BY <6>1, <2>1
        <5>2. At(given', k) = At(given, k)
          BY <4>1, <1>10
        <5>3. k \in 1..(Len(given) + 1)
          BY <4>1, <1>1
        <5>4. \A i \in 1..(Len(given) + 1) : At(given, i) \in Nat
          BY <1>1, StartsFollow, Zenon
        <5> QED
          BY <5>1, <5>2, <5>3, <5>4, Zenon
      <4>3. At(given, k) + given[k][1] <= total
        <5>1. m + 1 \in (k + 1)..(Len(given) + 1)
          BY <4>1, <1>1
        <5> QED
          BY <4>1, <5>1, <1>1, <1>11, StartsGrow
      <4>4. At(given, k) + j <= total /\ At(given, k) + j <= l + t /\ At(given, k) + j \in Nat \ {0}
        <5> DEFINE a == At(given, k)
                   g == given[k][1]
        <5>1. a \in Nat /\ g \in Nat /\ j \in 1..g
          BY <4>1, <4>2, <1>1
        <5>2. a + g <= total /\ total \in Nat
          BY <4>3, <1>1
        <5>3. a + j <= l + t
          BY <4>2, <2>1, <1>8
        <5> HIDE DEF a, g, total
        <5>4. a + j <= total /\ a + j \in Nat \ {0}
          BY <5>1, <5>2
        <5> QED
          BY <5>3, <5>4 DEF a
      <4>5. At(given, k) + j <= l
        <5> DEFINE a == At(given, k) + j
        <5> HIDE DEF a, l, total
        <5>1. a <= total /\ a <= l + t /\ a \in Nat \ {0}
          BY <4>4 DEF a
        <5>2. a <= l
          BY <5>1, <1>1, <1>3, <1>5
        <5> QED
          BY <5>2 DEF a, l
      <4>6. file[At(given, k) + j] = Binary!ByteOf(given[k][2], j, given[k][1])
        BY <4>1, <4>2, <4>5 DEF BinaryInv, FileInv
      <4>7. file'[At(given, k) + j] = file[At(given, k) + j]
        <5>1. At(given, k) + j \in 1..l
          BY <4>4, <4>5, <1>3
        <5> QED
          BY <5>1, <1>8
      <4> QED
        BY <4>2, <4>6, <4>7
    <3> QED
      BY <3>1, <3>2
  <2>2. Len(file') = (IF Binary!Total(given') <= WriterSpace THEN Binary!Total(given') ELSE WriterSpace)
    BY <1>5, <1>8, <1>11
  <2> QED
    BY <1>8, <1>9, <2>1, <2>2 DEF FileInv
<1>14. NumbersInv'
  <2>1. Len(numbers) = 0 /\ reader = At(given, 1) /\ reader <= l
    BY <1>2 DEF BinaryInv, NumbersInv
  <2>2. reader' = At(given', 1) /\ At(given, 1) \in Nat
    <3>1. 1 \in 1..(m + 1)
      BY <1>1
    <3>2. At(given', 1) = At(given, 1)
      BY <3>1, <1>10
    <3>3. At(given, 1) \in Nat
      BY <3>1, <1>1, StartsFollow
    <3> QED
      BY <3>2, <3>3, <2>1, <1>2
  <2>3. reader' <= Len(file')
    BY <1>2, <1>3, <1>5, <1>8, <2>1, <2>2
  <2> QED
    <3>1. numbers' = <<>> /\ Len(numbers') = 0 /\ ~thrown' /\ thrown' \in BOOLEAN /\ 0 <= Len(given')
      BY <1>1, <1>2, <1>9, <2>1 DEF BinaryInv, NumbersInv
    <3>2. reader' = At(given', Len(numbers') + 1)
      BY <3>1, <2>2
    <3>3. numbers' \in Seq(Nat) /\ \A k \in 1..Len(numbers') : numbers'[k] = given'[k][2]
      BY <3>1
    <3> QED
      BY <3>1, <3>2, <3>3, <2>3 DEF NumbersInv
<1> QED
  BY <1>12, <1>13, <1>14 DEF BinaryInv

\* What is left of the file from i on.
LEMMA RestIs ==
  ASSUME file \in Seq(Nat), NEW i \in Nat
  PROVE  /\ Binary!Rest(i) \in Seq(Nat)
         /\ Len(Binary!Rest(i)) = (IF i <= Len(file) THEN Len(file) - i ELSE 0)
         /\ \A j \in 1..Len(Binary!Rest(i)) : Binary!Rest(i)[j] = file[i + j]
<1> DEFINE r == SubSeq(file, i + 1, Len(file))
           l == Len(file)
<1>1. l \in Nat /\ i + 1 \in Int /\ \A j \in (i + 1)..l : file[j] \in Nat
  OBVIOUS
<1>2. /\ r \in Seq(Nat) /\ Len(r) = (IF i + 1 <= l THEN l - (i + 1) + 1 ELSE 0)
      /\ \A j \in 1..(l - (i + 1) + 1) : r[j] = file[(i + 1) + j - 1]
  <2> HIDE DEF l
  <2>1. l \in Int
    BY <1>1
  <2> QED
    BY <1>1, <2>1, SubSeqProperties DEF l
<1> HIDE DEF r, l
<1>3. Len(r) = (IF i <= l THEN l - i ELSE 0)
  BY <1>1, <1>2
<1>4. ASSUME NEW j \in 1..Len(r) PROVE r[j] = file[i + j]
  <2>1. j \in 1..(l - (i + 1) + 1) /\ (i + 1) + j - 1 = i + j
    BY <1>1, <1>3
  <2> QED
    BY <1>2, <2>1
<1>5. Binary!Rest(i) = r
  BY DEF Binary!Rest, r, l
<1> QED
  BY <1>2, <1>3, <1>4, <1>5 DEF l

\* A number in the place of one that is in the file as a whole.
LEMMA OverwriteKeepsNumbers ==
  ASSUME BinaryInv, NEW k \in DOMAIN given, NEW v \in Binary!Numbers(given[k][1]), Binary!Overwrite(k, v)
  PROVE  BinaryInv'
<1> DEFINE m == Len(given)
           n == given[k][1]
           i == At(given, k)
           l == Len(file)
           rest == Binary!Rest(i)
           front == SubSeq(file, 1, i)
           w == Binary!WriteUint(rest, n, v)
<1>1. /\ given \in Seq(Pairs) /\ m \in Nat /\ k \in 1..m /\ n \in Nat \ {0} /\ v \in Nat
      /\ \A x \in 1..m : given[x][1] \in Nat \ {0} /\ given[x] = <<given[x][1], given[x][2]>>
                         /\ given[x][2] \in Nat
  <2>1. /\ given \in Seq(Pairs) /\ m \in Nat /\ k \in 1..m /\ n \in Nat \ {0}
        /\ \A x \in 1..m : given[x][1] \in Nat \ {0} /\ given[x] = <<given[x][1], given[x][2]>>
                           /\ given[x][2] \in Nat
    BY GivenIs DEF BinaryInv
  <2>2. v \in Nat
    BY <2>1, LeadingIs
  <2> QED
    BY <2>1, <2>2
<1>2. /\ numbers = <<>> /\ ~thrown /\ Len(rest) >= n /\ file' = front \o w /\ given' = [given EXCEPT ![k][2] = v]
      /\ reader' = reader /\ numbers' = numbers /\ thrown' = thrown
  BY Zenon DEF Binary!Overwrite, Binary!Fits, Binary!Starts, At
<1>3. /\ file \in Seq(Nat) /\ l \in Nat /\ i \in Nat
      /\ \A x \in 1..(m + 1) : At(given, x) \in Nat
  <2>1. \A x \in 1..(Len(given) + 1) : At(given, x) \in Nat
    BY <1>1, StartsFollow
  <2> QED
    BY <1>1, <2>1 DEF BinaryInv, FileInv
<1>4. /\ rest \in Seq(Nat) /\ Len(rest) = (IF i <= l THEN l - i ELSE 0)
      /\ \A j \in 1..Len(rest) : rest[j] = file[i + j]
  BY <1>3, RestIs
<1> HIDE DEF i, rest, l, n
<1>5. i + n <= l /\ Len(rest) = l - i
  <2> DEFINE r == Len(rest)
  <2>1. r >= n /\ n \in Nat \ {0} /\ l \in Nat /\ i \in Nat /\ r = (IF i <= l THEN l - i ELSE 0)
    BY <1>1, <1>2, <1>3, <1>4
  <2> HIDE DEF r
  <2>2. i + n <= l /\ r = l - i
    BY <2>1
  <2> QED
    BY <2>2 DEF r
<1>6. w \in Seq(Nat) /\ Len(w) = l - i
      /\ \A j \in 1..(l - i) : w[j] = IF j <= n THEN Binary!ByteOf(v, j, n) ELSE file[i + j]
  <2>1. w = [j \in 1..(l - i) |-> IF j <= n THEN Binary!ByteOf(v, j, n) ELSE rest[j]]
    <3>1. DOMAIN rest = 1..(l - i)
      BY <1>4, <1>5
    <3> QED
      BY <3>1, Zenon DEF Binary!WriteUint
  <2>2. \A j \in 1..n : Binary!ByteOf(v, j, n) \in Nat
    <3>1. \A j \in 1..n : Binary!ByteOf(v, j, n) \in 0..(ByteWord - 1)
      BY <1>1, LeadingIs DEF n
    <3> QED
      BY <3>1, NumbersAre
  <2>3. \A j \in 1..(l - i) : rest[j] \in Nat /\ rest[j] = file[i + j]
    BY <1>4, <1>5
  <2> HIDE DEF w
  <2>4. l - i \in Nat /\ \A j \in 1..(l - i) : (IF j <= n THEN Binary!ByteOf(v, j, n) ELSE rest[j]) \in Nat
    BY <1>1, <1>3, <1>5, <2>2, <2>3
  <2>5. w \in Seq(Nat) /\ Len(w) = l - i
    BY <2>1, <2>4
  <2> QED
    BY <2>1, <2>3, <2>5
<1> HIDE DEF w
<1>7. front \in Seq(Nat) /\ Len(front) = i /\ \A j \in 1..i : front[j] = file[j]
  <2>1. CASE i = 0
    <3>1. front = <<>>
      BY <2>1, SubSeqEmpty
    <3> QED
      BY <2>1, <3>1
  <2>2. CASE i # 0
    <3>1. 1 \in Int /\ i \in Int /\ 1 <= i /\ i - 1 + 1 = i /\ \A j \in 1..i : 1 + j - 1 = j /\ file[j] \in Nat
      <4>1. i \in Int /\ 1 <= i /\ i - 1 + 1 = i /\ i <= l
        BY <2>2, <1>1, <1>3, <1>5
      <4>2. \A j \in 1..i : 1 + j - 1 = j /\ j \in 1..l
        BY <1>3, <4>1
      <4>3. \A j \in 1..l : file[j] \in Nat
        BY <1>3 DEF l
      <4> QED
        BY <4>1, <4>2, <4>3
    <3>2. /\ front \in Seq(Nat) /\ Len(front) = (IF 1 <= i THEN i - 1 + 1 ELSE 0)
          /\ \A j \in 1..(i - 1 + 1) : front[j] = file[1 + j - 1]
      BY <3>1, SubSeqProperties
    <3> HIDE DEF front
    <3> QED
      BY <3>1, <3>2
  <2> QED
    BY <2>1, <2>2
<1> HIDE DEF front
<1>8. /\ file' \in Seq(Nat) /\ Len(file') = l
      /\ \A p \in 1..l : p <= i \/ p > i + n => file'[p] = file[p]
      /\ \A j \in 1..n : file'[i + j] = Binary!ByteOf(v, j, n)
  <2> DEFINE f == front \o w
  <2>1. /\ f \in Seq(Nat) /\ Len(f) = i + (l - i)
        /\ \A p \in 1..(i + (l - i)) : f[p] = IF p <= i THEN front[p] ELSE w[p - i]
    <3>1. /\ f \in Seq(Nat) /\ Len(f) = Len(front) + Len(w)
          /\ \A p \in 1..(Len(front) + Len(w)) : f[p] = IF p <= Len(front) THEN front[p] ELSE w[p - Len(front)]
      BY <1>6, <1>7, ConcatProperties
    <3> HIDE DEF f
    <3> QED
      BY <3>1, <1>6, <1>7
  <2>2. file' = f
    BY <1>2
  <2> HIDE DEF f
  <2>3. i + (l - i) = l
    BY <1>3
  <2>4. ASSUME NEW p \in 1..l, p <= i PROVE f[p] = file[p]
    BY <2>1, <2>3, <2>4, <1>3, <1>7
  <2>5. ASSUME NEW p \in 1..l, p > i PROVE f[p] = w[p - i] /\ p - i \in 1..(l - i) /\ i + (p - i) = p
    BY <2>1, <2>3, <2>5, <1>3
  <2>6. ASSUME NEW p \in 1..l, p > i + n PROVE f[p] = file[p]
    <3>1. p > i /\ ~(p - i <= n)
      BY <2>6, <1>1, <1>3
    <3> QED
      BY <3>1, <2>5, <1>6
  <2>7. ASSUME NEW j \in 1..n PROVE f[i + j] = Binary!ByteOf(v, j, n)
    <3>1. i + j \in 1..l /\ i + j > i /\ (i + j) - i = j /\ j <= n /\ j \in 1..(l - i)
      BY <1>1, <1>3, <1>5
    <3>2. f[i + j] = w[j]
      <4>1. f[i + j] = w[(i + j) - i]
        BY <3>1, <2>5
      <4> QED
        BY <3>1, <4>1
    <3> QED
      BY <3>1, <3>2, <1>6
  <2> QED
    BY <2>1, <2>2, <2>3, <2>4, <2>6, <2>7
<1>9. /\ given' \in Seq(Pairs) /\ Len(given') = m /\ given'[k] = <<n, v>>
      /\ \A x \in 1..m : x # k => given'[x] = given[x]
  <2>1. DOMAIN given = 1..m /\ \A x \in 1..m : given[x] \in Pairs
    BY <1>1
  <2>2. given' = [given EXCEPT ![k] = [@ EXCEPT ![2] = v]]
    BY <1>2
  <2>3. [given[k] EXCEPT ![2] = v] = <<n, v>>
    <3>1. given[k] = <<n, given[k][2]>>
      BY <1>1 DEF n
    <3> QED
      BY <3>1
  <2>4. <<n, v>> \in Pairs
    BY <1>1 DEF Pairs
  <2>5. given' = [x \in 1..m |-> IF x = k THEN <<n, v>> ELSE given[x]]
    BY <2>1, <2>2, <2>3
  <2> QED
    BY <1>1, <2>1, <2>4, <2>5
<1>10. \A x \in 1..m : given'[x][1] = given[x][1]
  BY <1>1, <1>9 DEF n
<1>11. \A x \in 1..(m + 1) : At(given', x) = At(given, x)
  <2> SUFFICES ASSUME NEW x \in 1..(m + 1) PROVE At(given', x) = At(given, x)
    OBVIOUS
  <2>1. \A y \in 1..(x - 1) : given'[y][1] = given[y][1]
    BY <1>1, <1>10
  <2>2. x \in 1..(Len(given') + 1) /\ x <= Len(given) + 1
    BY <1>1, <1>9
  <2> QED
    BY <1>1, <1>9, <2>1, <2>2, StartsAgree
<1>12. Binary!Total(given') = Binary!Total(given)
  <2>1. At(given', Len(given') + 1) = Binary!Total(given') /\ At(given, Len(given) + 1) = Binary!Total(given)
    BY <1>1, <1>9, StartsFollow
  <2>2. m + 1 \in 1..(m + 1)
    BY <1>1
  <2> QED
    BY <1>9, <1>11, <2>1, <2>2
<1>13. GivenInv'
  <2>1. \A x \in 1..m : given'[x][1] \in Widths /\ given'[x][2] \in Binary!Numbers(given'[x][1])
    <3> SUFFICES ASSUME NEW x \in 1..m
                 PROVE  given'[x][1] \in Widths /\ given'[x][2] \in Binary!Numbers(given'[x][1])
      OBVIOUS
    <3>1. given[x][1] \in Widths /\ given[x][2] \in Binary!Numbers(given[x][1])
      BY DEF BinaryInv, GivenInv
    <3>2. CASE x = k
      BY <3>1, <3>2, <1>9 DEF n
    <3>3. CASE x # k
      BY <3>1, <3>3, <1>9
    <3> QED
      BY <3>2, <3>3
  <2> QED
    BY <1>9, <2>1 DEF GivenInv
<1>14. FileInv'
  <2>1. ASSUME NEW x \in 1..m, NEW j \in 1..given'[x][1], At(given', x) + j <= Len(file')
        PROVE  file'[At(given', x) + j] = Binary!ByteOf(given'[x][2], j, given'[x][1])
    <3> DEFINE a == At(given, x)
               g == given[x][1]
    <3>1. a \in Nat /\ At(given', x) = a /\ given'[x][1] = g /\ g \in Nat \ {0} /\ j \in 1..g
      <4>1. x \in 1..(m + 1)
        BY <1>1
      <4>2. given'[x][1] = g
        BY <1>10
      <4>3. At(given', x) = a /\ a \in Nat
        BY <4>1, <1>3, <1>11
      <4> QED
        BY <4>2, <4>3, <2>1, <1>1
    <3>2. CASE x = k
      <4>1. a = i /\ g = n /\ given'[x][2] = v
        BY <3>2, <1>9 DEF i, n
      <4> HIDE DEF a, g
      <4>2. file'[i + j] = Binary!ByteOf(v, j, n)
        BY <3>1, <4>1, <1>8
      <4> QED
        BY <3>1, <4>1, <4>2
    <3>3. CASE x # k
      <4>1. a + j \in 1..l
        BY <2>1, <3>1, <1>8
      <4>2. a + j <= i \/ a + j > i + n
        <5>1. CASE x < k
          <6>1. k \in (x + 1)..(Len(given) + 1)
            BY <5>1, <1>1
          <6>2. a + g <= i
            BY <6>1, <1>1, StartsGrow DEF i
          <6> HIDE DEF a, g
          <6> QED
            BY <6>2, <3>1, <1>3
        <5>2. CASE k < x
          <6>1. x \in (k + 1)..(Len(given) + 1)
            BY <5>2, <1>1
          <6>2. i + n <= a
            BY <6>1, <1>1, StartsGrow DEF i, n
          <6> HIDE DEF a, g
          <6> QED
            BY <6>2, <3>1, <1>1, <1>3
        <5> QED
          BY <5>1, <5>2, <3>3, <1>1
      <4>3. file'[a + j] = file[a + j]
        <5> HIDE DEF a
        <5> QED
          BY <4>1, <4>2, <1>8
      <4>4. file[a + j] = Binary!ByteOf(given[x][2], j, g)
        <5>1. a + j <= Len(file)
          BY <4>1, <1>3 DEF l
        <5> QED
          BY <3>1, <5>1 DEF BinaryInv, FileInv
      <4>5. given'[x] = given[x]
        BY <3>3, <1>9
      <4> HIDE DEF a
      <4> QED
        BY <3>1, <4>3, <4>4, <4>5
    <3> QED
      BY <3>2, <3>3
  <2>2. Len(file') = (IF Binary!Total(given') <= WriterSpace THEN Binary!Total(given') ELSE WriterSpace)
    BY <1>8, <1>12 DEF BinaryInv, FileInv, l
  <2> QED
    BY <1>8, <1>9, <2>1, <2>2 DEF FileInv
<1>15. NumbersInv'
  <2>1. Len(numbers) = 0 /\ reader = At(given, Len(numbers) + 1) /\ reader <= l
    BY <1>2 DEF BinaryInv, NumbersInv, l
  <2>2. numbers' = <<>> /\ Len(numbers') = 0 /\ thrown' = FALSE /\ 0 <= Len(given') /\ 1 \in 1..(m + 1)
    BY <1>1, <1>2, <1>9, <2>1 DEF BinaryInv, NumbersInv
  <2>3. reader' = At(given', Len(numbers') + 1) /\ reader' <= Len(file')
    <3>1. Len(numbers) + 1 = 1 /\ Len(numbers') + 1 = 1
      BY <2>1, <2>2
    <3> QED
      BY <3>1, <1>2, <1>8, <1>11, <2>1, <2>2
  <2>4. numbers' \in Seq(Nat) /\ 1..Len(numbers') = {} /\ Len(numbers') <= Len(given')
    BY <2>2
  <2> QED
    BY <2>2, <2>3, <2>4, Zenon DEF NumbersInv
<1> QED
  BY <1>13, <1>14, <1>15 DEF BinaryInv

\* The next number, or an exception where the file ends before it does.
LEMMA ReadKeepsNumbers ==
  ASSUME BinaryInv, Binary!Read PROVE BinaryInv'
<1> DEFINE m == Len(numbers)
           k == m + 1
           n == given[k][1]
           v == given[k][2]
           l == Len(file)
           rest == Binary!Rest(reader)
           zeros == [i \in 1..n |-> 0]
<1>1. /\ m < Len(given) /\ ~thrown /\ file' = file /\ given' = given
      /\ reader' = Binary!Min({reader + n, l})
      /\ IF Len(rest) >= n
         THEN numbers' = Append(numbers, Binary!Uint(rest \o zeros, n)) /\ thrown' = thrown
         ELSE thrown' = TRUE /\ numbers' = numbers
  BY DEF Binary!Read, Binary!Enough, Binary!Fits
<1>2. /\ numbers \in Seq(Nat) /\ m \in Nat /\ \A x \in 1..m : numbers[x] = given[x][2]
      /\ file \in Seq(Nat) /\ l \in Nat
  BY DEF BinaryInv, NumbersInv, FileInv
<1>3. given \in Seq(Pairs) /\ Len(given) \in Nat /\ k \in 1..Len(given)
  BY <1>1, <1>2, GivenIs DEF BinaryInv
<1>4. n \in Nat \ {0} /\ v \in Nat /\ v \in Binary!Numbers(n)
  BY <1>3, GivenIs DEF BinaryInv
<1>5. /\ reader = At(given, k) /\ reader \in Nat /\ reader <= l /\ At(given, m + 2) = reader + n
      /\ At(given, m + 2) \in Nat
  <2>1. reader = At(given, k) /\ reader <= l
    BY <1>1 DEF BinaryInv, NumbersInv
  <2>2. /\ \A x \in 1..(Len(given) + 1) : At(given, x) \in Nat
        /\ \A x \in 1..Len(given) : At(given, x + 1) = At(given, x) + given[x][1]
    BY <1>3, StartsFollow
  <2>3. k + 1 = m + 2 /\ k \in 1..(Len(given) + 1) /\ k + 1 \in 1..(Len(given) + 1)
    BY <1>2, <1>3
  <2>4. At(given, k + 1) = At(given, k) + n
    BY <1>3, <2>2
  <2> QED
    BY <2>1, <2>2, <2>3, <2>4
<1>6. /\ rest \in Seq(Nat) /\ Len(rest) = l - reader
      /\ \A j \in 1..(l - reader) : rest[j] = file[reader + j]
  BY <1>2, <1>5, RestIs
<1>7. reader' = IF reader + n <= l THEN reader + n ELSE l
  <2>1. reader + n \in Int /\ l \in Int
    BY <1>2, <1>4, <1>5
  <2> HIDE DEF n, l
  <2> QED
    BY <1>1, <2>1, LesserOf
<1>8. GivenInv'
  BY <1>1 DEF BinaryInv, GivenInv
<1>9. FileInv'
  <2>1. FileInv /\ file' = file /\ given' = given
    BY <1>1 DEF BinaryInv
  <2> QED
    BY <2>1, Zenon DEF FileInv
<1>10. At(given', m + 2) = reader + n
  BY <1>1, <1>5
<1>11. CASE Len(rest) >= n
  <2>1. reader + n <= l /\ reader' = reader + n
    BY <1>2, <1>4, <1>5, <1>6, <1>7, <1>11
  <2> DEFINE buf == rest \o zeros
  <2>2. \A i \in 1..n : buf[i] = Binary!ByteOf(v, i, n)
    <3> SUFFICES ASSUME NEW i \in 1..n PROVE buf[i] = Binary!ByteOf(v, i, n)
      OBVIOUS
    <3>1. zeros \in Seq(Nat)
      <4> HIDE DEF n
      <4> QED
        BY <1>4
    <3>2. i \in 1..(Len(rest) + Len(zeros)) /\ i <= Len(rest) /\ i \in 1..(l - reader)
      <4> HIDE DEF n, zeros, rest, l
      <4>1. Len(zeros) \in Nat /\ Len(rest) = l - reader /\ l - reader \in Int
        BY <3>1, <1>2, <1>5, <1>6
      <4>2. i \in Nat /\ 1 <= i /\ i <= l - reader
        BY <1>4, <1>11, <4>1
      <4> QED
        BY <4>1, <4>2
    <3>3. buf[i] = rest[i]
      <4> HIDE DEF rest, zeros
      <4>1. rest \in Seq(Nat) /\ zeros \in Seq(Nat)
        BY <1>6, <3>1
      <4>2. \A x \in 1..(Len(rest) + Len(zeros)) :
              (rest \o zeros)[x] = IF x <= Len(rest) THEN rest[x] ELSE zeros[x - Len(rest)]
        BY <4>1, ConcatProperties
      <4>3. (rest \o zeros)[i] = rest[i]
        BY <3>2, <4>2
      <4> QED
        BY <4>3 DEF buf
    <3>4. rest[i] = file[reader + i]
      BY <1>6, <3>2
    <3>5. file[reader + i] = Binary!ByteOf(v, i, n)
      <4>1. reader + i <= l
        <5> HIDE DEF n, l
        <5> QED
          BY <1>2, <1>4, <1>5, <2>1
      <4>2. \A j \in 1..given[k][1] :
              At(given, k) + j <= Len(file) => file[At(given, k) + j] = Binary!ByteOf(given[k][2], j, given[k][1])
        BY <1>3 DEF BinaryInv, FileInv
      <4> QED
        BY <1>5, <4>1, <4>2
    <3> QED
      BY <3>3, <3>4, <3>5
  <2>3. Binary!Uint(buf, n) = v
    <3> HIDE DEF buf, n, v
    <3> QED
      BY <1>4, <2>2, UintOfBytes
  <2>4. numbers' = Append(numbers, v) /\ thrown' = thrown
    BY <1>1, <1>11, <2>3
  <2>5. numbers' \in Seq(Nat) /\ Len(numbers') = m + 1 /\ \A x \in 1..(m + 1) : numbers'[x] = given[x][2]
    <3>1. numbers \in Seq(Nat) /\ v \in Nat /\ numbers' = Append(numbers, v)
      BY <1>2, <1>4, <2>4
    <3>2. /\ numbers' \in Seq(Nat) /\ Len(numbers') = m + 1 /\ numbers'[m + 1] = v
          /\ \A x \in 1..m : numbers'[x] = numbers[x]
      <4> HIDE DEF v
      <4> QED
        BY <3>1
    <3> SUFFICES ASSUME NEW x \in 1..(m + 1) PROVE numbers'[x] = given[x][2]
      BY <3>2
    <3>3. CASE x = m + 1
      BY <3>2, <3>3
    <3>4. CASE x # m + 1
      <4>1. x \in 1..m
        BY <1>2, <3>4
      <4> QED
        BY <1>2, <3>2, <4>1
    <3> QED
      BY <3>3, <3>4
  <2>6. reader' = At(given', Len(numbers') + 1) /\ reader' <= Len(file')
    <3>1. Len(numbers') + 1 = m + 2
      BY <1>2, <2>5
    <3> QED
      BY <3>1, <1>1, <1>10, <2>1
  <2>7. thrown' = FALSE /\ Len(numbers') <= Len(given')
    BY <1>1, <1>2, <1>3, <2>4, <2>5 DEF BinaryInv, NumbersInv
  <2>8. NumbersInv'
    BY <1>1, <2>5, <2>6, <2>7, Zenon DEF NumbersInv
  <2> QED
    BY <1>8, <1>9, <2>8 DEF BinaryInv
<1>12. CASE ~(Len(rest) >= n)
  <2>1. ~(reader + n <= l) /\ reader' = l
    BY <1>2, <1>4, <1>5, <1>6, <1>7, <1>12
  <2>2. numbers' = numbers /\ thrown' = TRUE
    BY <1>1, <1>12
  <2>3. reader' < At(given', Len(numbers') + 2) /\ reader' = Len(file')
    <3>1. l < reader + n
      BY <1>2, <1>4, <1>5, <2>1
    <3> QED
      BY <3>1, <1>1, <1>10, <2>1, <2>2
  <2>4. /\ numbers' \in Seq(Nat) /\ Len(numbers') < Len(given') /\ Len(numbers') <= Len(given')
        /\ \A x \in 1..Len(numbers') : numbers'[x] = given'[x][2]
    BY <1>1, <1>2, <1>3, <2>2
  <2>5. NumbersInv'
    BY <2>2, <2>3, <2>4, Zenon DEF NumbersInv
  <2> QED
    BY <1>8, <1>9, <2>5 DEF BinaryInv
<1> QED
  BY <1>11, <1>12

LEMMA BinaryInvHolds == Binary!Spec => []BinaryInv
<1>1. Binary!Init => BinaryInv
  BY BinaryInvInit
<1>2. BinaryInv /\ [Binary!Next]_(Binary!vars) => BinaryInv'
  <2> SUFFICES ASSUME BinaryInv, [Binary!Next]_(Binary!vars) PROVE BinaryInv'
    OBVIOUS
  <2>1. CASE UNCHANGED Binary!vars
    <3>1. /\ file' = file /\ given' = given /\ reader' = reader /\ numbers' = numbers /\ thrown' = thrown
          /\ GivenInv /\ FileInv /\ NumbersInv
      BY <2>1 DEF Binary!vars, BinaryInv
    <3>2. GivenInv'
      BY <3>1, Zenon DEF GivenInv
    <3>3. FileInv'
      BY <3>1, Zenon DEF FileInv
    <3>4. NumbersInv'
      BY <3>1, Zenon DEF NumbersInv
    <3> QED
      BY <3>2, <3>3, <3>4 DEF BinaryInv
  <2>2. ASSUME NEW n \in Widths, NEW v \in Binary!Numbers(n), Binary!Write(n, v) PROVE BinaryInv'
    BY <2>2, WriteKeepsNumbers
  <2>3. ASSUME NEW k \in DOMAIN given, NEW v \in Binary!Numbers(given[k][1]), Binary!Overwrite(k, v)
        PROVE  BinaryInv'
    BY <2>3, OverwriteKeepsNumbers
  <2>4. CASE Binary!Read
    BY <2>4, ReadKeepsNumbers
  <2> QED
    BY <2>1, <2>2, <2>3, <2>4 DEF Binary!Next
<1> QED
  BY <1>1, <1>2, PTL DEF Binary!Spec

\* Reading throws where the file ends, and only there; until then it gives what was written.
LEMMA NumbersAreRead ==
  ASSUME BinaryInv PROVE Binary!ReadsBack
<1>1. \A k \in DOMAIN numbers : numbers[k] = given[k][2]
  <2>1. DOMAIN numbers = 1..Len(numbers)
    BY DEF BinaryInv, NumbersInv
  <2> QED
    BY <2>1 DEF BinaryInv, NumbersInv
<1>2. thrown <=> reader < Binary!Starts(Len(numbers) + IF thrown THEN 2 ELSE 1)
  <2>1. \A k : Binary!Starts(k) = At(given, k)
    BY Zenon DEF Binary!Starts, At
  <2>2. CASE thrown
    <3>1. reader < At(given, Len(numbers) + 2)
      BY <2>2 DEF BinaryInv, NumbersInv
    <3> QED
      BY <3>1, <2>1, <2>2
  <2>3. CASE ~thrown
    <3>1. reader = At(given, Len(numbers) + 1) /\ reader <= Len(file)
      BY <2>3 DEF BinaryInv, NumbersInv
    <3>2. At(given, Len(numbers) + 1) \in Nat
      <4>1. given \in Seq(Pairs) /\ Len(numbers) + 1 \in 1..(Len(given) + 1)
        BY GivenIs DEF BinaryInv, NumbersInv
      <4> QED
        BY <4>1, StartsFollow
    <3>3. ~(reader < At(given, Len(numbers) + 1))
      BY <3>1, <3>2
    <3> QED
      BY <3>3, <2>1, <2>3
  <2> QED
    BY <2>2, <2>3
<1> QED
  BY <1>1, <1>2 DEF Binary!ReadsBack

\* The bytes of a number that is in the file as a whole.
LEMMA BytesInFile ==
  ASSUME BinaryInv, NEW k \in 1..Len(given), At(given, k) + given[k][1] <= Len(file)
  PROVE  LET n == given[k][1]
             x == SubSeq(Binary!Rest(At(given, k)), 1, n)
         IN  DOMAIN x = 1..n /\ \A i \in 1..n : x[i] = Binary!ByteOf(given[k][2], i, n)
<1> DEFINE n == given[k][1]
           a == At(given, k)
           rest == Binary!Rest(a)
           x == SubSeq(rest, 1, n)
<1>1. /\ given \in Seq(Pairs) /\ Len(given) \in Nat /\ n \in Nat \ {0} /\ file \in Seq(Nat) /\ Len(file) \in Nat
      /\ \A i \in 1..n : a + i <= Len(file) => file[a + i] = Binary!ByteOf(given[k][2], i, n)
  BY GivenIs DEF BinaryInv, FileInv
<1>2. a \in Nat
  <2>1. k \in 1..(Len(given) + 1)
    BY <1>1
  <2>2. \A i \in 1..(Len(given) + 1) : At(given, i) \in Nat
    BY <1>1, StartsFollow
  <2> QED
    BY <2>1, <2>2
<1>3. a + n <= Len(file)
  OBVIOUS
<1> HIDE DEF a, n
<1>4. /\ rest \in Seq(Nat) /\ Len(rest) = (IF a <= Len(file) THEN Len(file) - a ELSE 0)
      /\ \A j \in 1..Len(rest) : rest[j] = file[a + j]
  BY <1>1, <1>2, RestIs
<1>5. n <= Len(rest) /\ Len(rest) \in Nat
  BY <1>1, <1>2, <1>3, <1>4
<1> HIDE DEF rest
<1>6. x \in Seq(Nat) /\ Len(x) = n /\ \A i \in 1..n : x[i] = rest[i]
  <2>1. 1 \in Int /\ n \in Int /\ 1 <= n /\ n - 1 + 1 = n
    BY <1>1
  <2>2. \A i \in 1..n : 1 + i - 1 = i /\ rest[i] \in Nat
    BY <1>1, <1>4, <1>5
  <2>3. /\ x \in Seq(Nat) /\ Len(x) = (IF 1 <= n THEN n - 1 + 1 ELSE 0)
        /\ \A i \in 1..(n - 1 + 1) : x[i] = rest[1 + i - 1]
    BY <2>1, <2>2, SubSeqProperties
  <2> HIDE DEF x
  <2> QED
    BY <2>1, <2>2, <2>3
<1> HIDE DEF x
<1>7. DOMAIN x = 1..n
  BY <1>6
<1>8. \A i \in 1..n : x[i] = Binary!ByteOf(given[k][2], i, n)
  <2> SUFFICES ASSUME NEW i \in 1..n PROVE x[i] = Binary!ByteOf(given[k][2], i, n)
    OBVIOUS
  <2>1. i \in 1..Len(rest) /\ a + i <= Len(file)
    BY <1>1, <1>2, <1>3, <1>5
  <2> QED
    BY <2>1, <1>1, <1>4, <1>6
<1> QED
  BY <1>7, <1>8 DEF x, n, rest, a

\* Numbers of one width are ordered in the file as their bytes are.
LEMMA NumbersAreSorted ==
  ASSUME BinaryInv PROVE Binary!OrderIsOfBytes
<1> SUFFICES ASSUME NEW k \in DOMAIN given, NEW l \in DOMAIN given, given[k][1] = given[l][1],
                    At(given, k) + given[k][1] <= Len(file), At(given, l) + given[l][1] <= Len(file)
             PROVE  given[k][2] < given[l][2] <=>
                      Binary!BytesBefore(SubSeq(Binary!Rest(At(given, k)), 1, given[k][1]),
                                         SubSeq(Binary!Rest(At(given, l)), 1, given[k][1]))
  BY Zenon DEF Binary!OrderIsOfBytes, Binary!Starts, At
<1> DEFINE n == given[k][1]
           x == SubSeq(Binary!Rest(At(given, k)), 1, n)
           y == SubSeq(Binary!Rest(At(given, l)), 1, n)
<1>1. k \in 1..Len(given) /\ l \in 1..Len(given)
  BY GivenIs DEF BinaryInv
<1>2. n \in Nat /\ given[k][2] \in Binary!Numbers(n) /\ given[l][2] \in Binary!Numbers(n)
  BY <1>1, GivenIs DEF BinaryInv
<1>3. DOMAIN x = 1..n /\ \A i \in 1..n : x[i] = Binary!ByteOf(given[k][2], i, n)
  BY <1>1, BytesInFile
<1>4. \A i \in 1..n : y[i] = Binary!ByteOf(given[l][2], i, n)
  BY <1>1, BytesInFile
<1> HIDE DEF x, y, n
<1>5. given[k][2] < given[l][2] <=> Binary!BytesBefore(x, y)
  BY <1>2, <1>3, <1>4, OrderOfBytes
<1> QED
  BY <1>5 DEF x, y, n

\* For any widths, whatever room the writer has and whatever is overwritten: the numbers of a file
\* come back as they were written, in their order, reading throws where the file ends before the
\* number does, and only there; and numbers of one width are ordered as their bytes are (binary.h:33-116).
THEOREM NumbersAreKept == Binary!Spec => []NumbersComeBack
<1>1. BinaryInv => NumbersComeBack
  BY NumbersAreRead, NumbersAreSorted DEF NumbersComeBack
<1> QED
  BY <1>1, BinaryInvHolds, PTL

-----------------------------------------------------------------------------
(***************************************************************************)
(* Crc32: polynomials over the bits, as the sets of their exponents.       *)
(***************************************************************************)
LastBit == 8 * MaxSent + 31

\* A polynomial without its term n, which goes with a multiple of the generator.
Reduced(p, n) == IF n \in p THEN Sums!Xor(p, Sums!Times(Sums!Generator, n - 32)) ELSE p

LEMMA SumsAre ==
  /\ MaxSent \in Nat /\ SentBytes \subseteq SUBSET (0..7) /\ Errors \subseteq SUBSET (0..7)
  /\ LastBit \in Nat /\ LastBit >= 31
BY SumAssumption DEF Sums!Crc32Assumption, LastBit

LEMMA GeneratorIs == Sums!Generator \subseteq 0..32 /\ 0 \in Sums!Generator /\ 32 \in Sums!Generator
BY DEF Sums!Generator

\* The terms of a sum, and of a multiple.
LEMMA TermsOfXor ==
  ASSUME NEW p, NEW q, NEW x
  PROVE  x \in Sums!Xor(p, q) <=> (x \in p /\ x \notin q) \/ (x \in q /\ x \notin p)
BY DEF Sums!Xor

LEMMA TermsOfTimes ==
  ASSUME NEW p \in SUBSET Int, NEW n \in Int
  PROVE  Sums!Times(p, n) \in SUBSET Int /\ \A x \in Int : x \in Sums!Times(p, n) <=> x - n \in p
<1>1. \A e \in p : e \in Int /\ e + n \in Int /\ (e + n) - n = e
  OBVIOUS
<1>2. \A x \in Int : (x - n) + n = x
  OBVIOUS
<1>3. Sums!Times(p, n) \in SUBSET Int
  BY <1>1 DEF Sums!Times
<1>4. ASSUME NEW x \in Int, x - n \in p PROVE x \in Sums!Times(p, n)
  BY <1>2, <1>4, Zenon DEF Sums!Times
<1>5. ASSUME NEW x \in Int, x \in Sums!Times(p, n) PROVE x - n \in p
  <2>1. PICK e \in p : x = e + n
    BY <1>5 DEF Sums!Times
  <2> QED
    BY <2>1, <1>1
<1> QED
  BY <1>3, <1>4, <1>5

LEMMA ReducedIs ==
  ASSUME NEW n \in Nat, n >= 32, NEW p \in SUBSET (0..n)
  PROVE  Reduced(p, n) \in SUBSET (0..(n - 1))
<1>1. CASE n \in p
  <2> DEFINE g == Sums!Times(Sums!Generator, n - 32)
  <2>1. g \in SUBSET Int /\ \A x \in Int : x \in g <=> x - (n - 32) \in Sums!Generator
    <3>1. Sums!Generator \in SUBSET Int /\ n - 32 \in Int
      BY GeneratorIs
    <3> QED
      BY <3>1, TermsOfTimes
  <2> HIDE DEF g
  <2>2. \A x \in g : x \in 0..n
    <3> SUFFICES ASSUME NEW x \in g PROVE x \in 0..n
      OBVIOUS
    <3>1. x \in Int /\ x - (n - 32) \in 0..32
      BY <2>1, GeneratorIs
    <3> QED
      BY <3>1
  <2>3. n \in g
    <3>1. n - (n - 32) = 32 /\ n \in Int
      OBVIOUS
    <3> QED
      BY <3>1, <2>1, GeneratorIs
  <2>4. ASSUME NEW x \in Sums!Xor(p, g) PROVE x \in 0..n /\ x # n
    <3>1. (x \in p /\ x \notin g) \/ (x \in g /\ x \notin p)
      BY TermsOfXor
    <3> QED
      BY <3>1, <1>1, <2>2, <2>3
  <2>5. Reduced(p, n) = Sums!Xor(p, g)
    BY <1>1 DEF Reduced, g
  <2> QED
    BY <2>4, <2>5
<1>2. CASE n \notin p
  BY <1>2 DEF Reduced
<1> QED
  BY <1>1, <1>2

\* Addition goes with everything else.
LEMMA TimesOfXor ==
  ASSUME NEW p \in SUBSET Int, NEW q \in SUBSET Int, NEW n \in Int
  PROVE  Sums!Times(Sums!Xor(p, q), n) = Sums!Xor(Sums!Times(p, n), Sums!Times(q, n))
<1> DEFINE r == Sums!Xor(p, q)
<1>1. r \in SUBSET Int /\ \A x \in Int : x \in r <=> (x \in p /\ x \notin q) \/ (x \in q /\ x \notin p)
  BY TermsOfXor
<1> HIDE DEF r
<1>2. Sums!Times(r, n) \in SUBSET Int /\ \A x \in Int : x \in Sums!Times(r, n) <=> x - n \in r
  BY <1>1, TermsOfTimes
<1>3. Sums!Times(p, n) \in SUBSET Int /\ \A x \in Int : x \in Sums!Times(p, n) <=> x - n \in p
  BY TermsOfTimes
<1>4. Sums!Times(q, n) \in SUBSET Int /\ \A x \in Int : x \in Sums!Times(q, n) <=> x - n \in q
  BY TermsOfTimes
<1> DEFINE a == Sums!Times(r, n)
           b == Sums!Times(p, n)
           c == Sums!Times(q, n)
           d == Sums!Xor(b, c)
<1>5. \A x : x \in d <=> (x \in b /\ x \notin c) \/ (x \in c /\ x \notin b)
  BY TermsOfXor
<1> HIDE DEF a, b, c, d
<1>6. ASSUME NEW x \in Int PROVE x \in a <=> x \in d
  <2>1. x - n \in Int
    OBVIOUS
  <2> QED
    BY <2>1, <1>1, <1>2, <1>3, <1>4, <1>5 DEF a, b, c
<1>7. a \in SUBSET Int /\ d \in SUBSET Int
  BY <1>2, <1>3, <1>4, <1>5 DEF a, b, c
<1>8. a = d
  BY <1>6, <1>7
<1> QED
  BY <1>8 DEF a, b, c, d, r

LEMMA TimesTwice ==
  ASSUME NEW p \in SUBSET Int, NEW m \in Int, NEW n \in Int
  PROVE  Sums!Times(Sums!Times(p, m), n) = Sums!Times(p, m + n)
<1>1. Sums!Times(p, m) \in SUBSET Int /\ \A x \in Int : x \in Sums!Times(p, m) <=> x - m \in p
  BY TermsOfTimes
<1>2. /\ Sums!Times(Sums!Times(p, m), n) \in SUBSET Int
      /\ \A x \in Int : x \in Sums!Times(Sums!Times(p, m), n) <=> x - n \in Sums!Times(p, m)
  BY <1>1, TermsOfTimes
<1>3. Sums!Times(p, m + n) \in SUBSET Int /\ \A x \in Int : x \in Sums!Times(p, m + n) <=> x - (m + n) \in p
  BY TermsOfTimes
<1> DEFINE a == Sums!Times(Sums!Times(p, m), n)
           b == Sums!Times(p, m + n)
<1>5. ASSUME NEW x \in Int PROVE x \in a <=> x \in b
  <2>1. x - n \in Int /\ (x - n) - m = x - (m + n)
    OBVIOUS
  <2>2. x \in a <=> x - n \in Sums!Times(p, m)
    BY <1>2
  <2>3. x - n \in Sums!Times(p, m) <=> (x - n) - m \in p
    BY <1>1, <2>1
  <2>4. x \in b <=> x - (m + n) \in p
    BY <1>3
  <2> HIDE DEF a, b
  <2> QED
    BY <2>1, <2>2, <2>3, <2>4
<1>6. a \in SUBSET Int /\ b \in SUBSET Int
  BY <1>2, <1>3
<1> HIDE DEF a, b
<1>7. a = b
  BY <1>5, <1>6
<1> QED
  BY <1>7 DEF a, b

LEMMA TimesWithin ==
  ASSUME NEW p, NEW m \in Int, p \in SUBSET (0..m), NEW n \in Nat
  PROVE  Sums!Times(p, n) \in SUBSET (n..(m + n)) /\ Sums!Times(p, n) \in SUBSET (0..(m + n))
<1>1. \A e \in p : e + n \in n..(m + n) /\ e + n \in 0..(m + n)
  OBVIOUS
<1> QED
  BY <1>1 DEF Sums!Times

LEMMA XorSelf ==
  ASSUME NEW p, NEW q, NEW r
  PROVE  /\ Sums!Xor(p, p) = {} /\ Sums!Xor(p, {}) = p /\ Sums!Xor(p, q) = Sums!Xor(q, p)
         /\ Sums!Xor(Sums!Xor(p, r), Sums!Xor(q, r)) = Sums!Xor(p, q)
         /\ Sums!Xor(Sums!Xor(p, q), r) = Sums!Xor(Sums!Xor(p, r), q)
         /\ (Sums!Xor(p, q) = {} <=> p = q)
BY DEF Sums!Xor

LEMMA ReducedOfXor ==
  ASSUME NEW n \in Nat, n >= 32, NEW p \in SUBSET (0..n), NEW q \in SUBSET (0..n)
  PROVE  Reduced(Sums!Xor(p, q), n) = Sums!Xor(Reduced(p, n), Reduced(q, n))
<1> DEFINE g == Sums!Times(Sums!Generator, n - 32)
<1>1. \A s : Reduced(s, n) = IF n \in s THEN Sums!Xor(s, g) ELSE s
  BY DEF Reduced
<1> HIDE DEF g
<1>2. n \in Sums!Xor(p, q) <=> (n \in p /\ n \notin q) \/ (n \in q /\ n \notin p)
  BY TermsOfXor
<1>3. CASE n \in p /\ n \in q
  <2>1. Sums!Xor(Sums!Xor(p, g), Sums!Xor(q, g)) = Sums!Xor(p, q)
    BY XorSelf
  <2> QED
    BY <2>1, <1>1, <1>2, <1>3
<1>4. CASE n \in p /\ n \notin q
  <2>1. Sums!Xor(Sums!Xor(p, q), g) = Sums!Xor(Sums!Xor(p, g), q)
    BY XorSelf
  <2> QED
    BY <2>1, <1>1, <1>2, <1>4
<1>5. CASE n \notin p /\ n \in q
  BY <1>1, <1>2, <1>5 DEF Sums!Xor
<1>6. CASE n \notin p /\ n \notin q
  BY <1>1, <1>2, <1>6
<1> QED
  BY <1>3, <1>4, <1>5, <1>6

LEMMA ReducedOfTimes ==
  ASSUME NEW n \in Nat, n >= 32, NEW p \in SUBSET (0..n)
  PROVE  Reduced(Sums!Times(p, 1), n + 1) = Sums!Times(Reduced(p, n), 1)
<1> DEFINE g == Sums!Times(Sums!Generator, n - 32)
           h == Sums!Times(Sums!Generator, (n + 1) - 32)
<1>1. Sums!Generator \in SUBSET Int /\ n - 32 \in Int /\ 1 \in Int /\ p \in SUBSET Int /\ (n - 32) + 1 = (n + 1) - 32
  BY GeneratorIs
<1>2. g \in SUBSET Int /\ Sums!Times(g, 1) = h
  BY <1>1, TermsOfTimes, TimesTwice
<1>3. n + 1 \in Sums!Times(p, 1) <=> n \in p
  <2>1. n + 1 \in Int /\ (n + 1) - 1 = n
    OBVIOUS
  <2> QED
    BY <2>1, <1>1, TermsOfTimes
<1>4. CASE n \in p
  <2>1. Reduced(Sums!Times(p, 1), n + 1) = Sums!Xor(Sums!Times(p, 1), h)
    BY <1>3, <1>4, Zenon DEF Reduced
  <2>2. Reduced(p, n) = Sums!Xor(p, g)
    BY <1>4, Zenon DEF Reduced
  <2> HIDE DEF g, h
  <2> QED
    BY <2>1, <2>2, <1>1, <1>2, TimesOfXor
<1>5. CASE n \notin p
  BY <1>3, <1>5, Zenon DEF Reduced
<1> QED
  BY <1>4, <1>5

-----------------------------------------------------------------------------
(***************************************************************************)
(* Remainder is a choice too, of a function on polynomials: there is one   *)
(* that divides, one term at a time, and only one.                         *)
(***************************************************************************)
\* f divides the polynomials of no term after m: one term at a time, the last one first.
Division(f, m) ==
  /\ f \in [SUBSET (0..m) -> SUBSET (0..31)]
  /\ \A q \in SUBSET (0..31) : f[q] = q
  /\ \A n \in 32..m : \A q \in SUBSET (0..n) : f[q] = f[Reduced(q, n)]

LEMMA DivisionExtends ==
  ASSUME NEW m \in Nat, m >= 31, NEW f, Division(f, m)
  PROVE  \E h : Division(h, m + 1)
<1> DEFINE h == [q \in SUBSET (0..(m + 1)) |-> f[Reduced(q, m + 1)]]
<1>1. /\ f \in [SUBSET (0..m) -> SUBSET (0..31)]
      /\ \A q \in SUBSET (0..31) : f[q] = q
      /\ \A n \in 32..m : \A q \in SUBSET (0..n) : f[q] = f[Reduced(q, n)]
  BY DEF Division
<1>2. \A q \in SUBSET (0..(m + 1)) : Reduced(q, m + 1) \in SUBSET (0..m)
  <2>1. m + 1 \in Nat /\ m + 1 >= 32 /\ (m + 1) - 1 = m
    OBVIOUS
  <2> QED
    BY <2>1, ReducedIs
<1>3. \A q \in SUBSET (0..m) : q \in SUBSET (0..(m + 1)) /\ Reduced(q, m + 1) = q /\ h[q] = f[q]
  BY DEF Reduced
<1>4. h \in [SUBSET (0..(m + 1)) -> SUBSET (0..31)]
  BY <1>1, <1>2
<1>5. \A q \in SUBSET (0..31) : q \in SUBSET (0..m)
  OBVIOUS
<1>6. ASSUME NEW n \in 32..(m + 1), NEW q \in SUBSET (0..n) PROVE h[q] = h[Reduced(q, n)]
  <2>1. CASE n = m + 1
    <3>1. h[q] = f[Reduced(q, m + 1)] /\ Reduced(q, m + 1) \in SUBSET (0..m)
      BY <2>1, <1>2
    <3> HIDE DEF h
    <3> QED
      BY <2>1, <3>1, <1>3
  <2>2. CASE n # m + 1
    <3>1. n \in 32..m /\ n \in Nat /\ n >= 32 /\ q \in SUBSET (0..m)
      BY <2>2
    <3>2. Reduced(q, n) \in SUBSET (0..(n - 1))
      BY <3>1, ReducedIs
    <3>3. Reduced(q, n) \in SUBSET (0..m)
      BY <3>1, <3>2
    <3>4. f[q] = f[Reduced(q, n)]
      BY <3>1, <1>1
    <3> HIDE DEF h
    <3> QED
      BY <3>1, <3>3, <3>4, <1>3
  <2> QED
    BY <2>1, <2>2
<1> HIDE DEF h
<1>7. Division(h, m + 1)
  BY <1>1, <1>3, <1>4, <1>5, <1>6 DEF Division
<1> QED
  BY <1>7

LEMMA DivisionExists ==
  \E f : Division(f, LastBit)
<1> DEFINE Bad == {m \in 31..LastBit : ~\E f : Division(f, m)}
<1>1. LastBit \in Nat /\ LastBit >= 31
  BY SumsAre
<1> SUFFICES ASSUME Bad # {} PROVE FALSE
  BY <1>1
<1>2. PICK m \in Bad : \A i \in Bad : m <= i
  <2>1. Bad \in SUBSET Nat
    OBVIOUS
  <2> HIDE DEF Bad
  <2> QED
    BY <2>1, LeastOf
<1>3. CASE m = 31
  <2> DEFINE f == [q \in SUBSET (0..31) |-> q]
  <2>1. f \in [SUBSET (0..31) -> SUBSET (0..31)] /\ \A q \in SUBSET (0..31) : f[q] = q
    OBVIOUS
  <2>2. 32..31 = {}
    OBVIOUS
  <2> HIDE DEF f
  <2>3. Division(f, 31)
    BY <2>1, <2>2 DEF Division
  <2> QED
    BY <2>3, <1>3
<1>4. CASE m # 31
  <2>1. m - 1 \in Nat /\ m - 1 >= 31 /\ m - 1 \in 31..LastBit /\ m - 1 \notin Bad /\ (m - 1) + 1 = m
    BY <1>1, <1>2, <1>4
  <2>2. PICK f : Division(f, m - 1)
    BY <2>1
  <2>3. \E h : Division(h, (m - 1) + 1)
    BY <2>1, <2>2, DivisionExtends
  <2> QED
    BY <2>1, <2>3
<1> QED
  BY <1>3, <1>4

\* A set of numbers up to m has a largest one.
LEMMA LargestUpTo ==
  ASSUME NEW m \in Nat, NEW s \in SUBSET (0..m), s # {}
  PROVE  Largest(s) \in s /\ \A i \in s : i <= Largest(s)
<1> DEFINE B == {m - i : i \in s}
<1>1. B \in SUBSET Nat /\ B # {}
  <2>1. \A i \in s : m - i \in Nat
    OBVIOUS
  <2>2. PICK i \in s : TRUE
    OBVIOUS
  <2>3. m - i \in B
    OBVIOUS
  <2> QED
    BY <2>1, <2>3
<1>2. PICK b \in B : \A c \in B : b <= c
  <2> HIDE DEF B
  <2> QED
    BY <1>1, LeastOf
<1>3. PICK k \in s : b = m - k
  OBVIOUS
<1>4. \A i \in s : m - i \in B /\ i \in 0..m
  OBVIOUS
<1>5. ASSUME NEW i \in s PROVE i <= k
  <2>1. m - i \in B /\ i \in 0..m /\ k \in 0..m
    BY <1>4
  <2>2. m - k <= m - i
    BY <2>1, <1>2, <1>3
  <2> QED
    BY <2>1, <2>2
<1>6. s \in SUBSET Nat /\ k \in s /\ \A i \in s : i <= k
  BY <1>5
<1>7. Largest(s) = k
  BY <1>6, LargestIs
<1> QED
  BY <1>6, <1>7

\* What the recursive function computes.
Divides(f) ==
  f = [q \in SUBSET (0..LastBit) |->
         IF q = {} \/ Largest(q) < 32 THEN q
         ELSE f[Sums!Xor(q, Sums!Times(Sums!Generator, Largest(q) - 32))]]

LEMMA DivisionDivides ==
  ASSUME NEW f, Division(f, LastBit) PROVE Divides(f)
<1>1. /\ f \in [SUBSET (0..LastBit) -> SUBSET (0..31)]
      /\ \A q \in SUBSET (0..31) : f[q] = q
      /\ \A n \in 32..LastBit : \A q \in SUBSET (0..n) : f[q] = f[Reduced(q, n)]
  BY DEF Division
<1>2. ASSUME NEW q \in SUBSET (0..LastBit)
      PROVE  f[q] = IF q = {} \/ Largest(q) < 32 THEN q
                    ELSE f[Sums!Xor(q, Sums!Times(Sums!Generator, Largest(q) - 32))]
  <2>1. CASE q = {}
    <3>1. q \in SUBSET (0..31)
      BY <2>1
    <3> QED
      BY <3>1, <2>1, <1>1
  <2>2. CASE q # {}
    <3>1. /\ Largest(q) \in q /\ \A i \in q : i <= Largest(q)
          /\ \A i \in q : i \in 0..LastBit
      BY <2>2, SumsAre, LargestUpTo
    <3> DEFINE k == Largest(q)
    <3>4. k \in 0..LastBit /\ LastBit \in Nat
      BY <3>1, SumsAre
    <3>2. CASE Largest(q) < 32
      <4>1. ASSUME NEW i \in q PROVE i \in 0..31
        <5> HIDE DEF k
        <5>1. i \in 0..LastBit /\ i <= k
          BY <3>1 DEF k
        <5>2. k < 32
          BY <3>2 DEF k
        <5> QED
          BY <5>1, <5>2, <3>4
      <4>2. q \in SUBSET (0..31)
        BY <4>1
      <4> QED
        BY <4>2, <3>2, <1>1
    <3>3. CASE ~(Largest(q) < 32)
      <4>1. Largest(q) \in 32..LastBit /\ q \in SUBSET (0..Largest(q))
        <5>1. ~(k < 32) /\ \A i \in q : i <= k /\ i \in 0..LastBit
          BY <3>1, <3>3
        <5> HIDE DEF k
        <5>2. k \in 32..LastBit
          BY <5>1, <3>4
        <5>3. \A i \in q : i \in 0..k
          BY <5>1, <3>4
        <5> QED
          BY <5>2, <5>3 DEF k
      <4>2. f[q] = f[Reduced(q, Largest(q))]
        BY <4>1, <1>1
      <4>3. Reduced(q, Largest(q)) = Sums!Xor(q, Sums!Times(Sums!Generator, Largest(q) - 32))
        BY <3>1, Zenon DEF Reduced
      <4> QED
        BY <4>2, <4>3, <3>3, <2>2
    <3> QED
      BY <3>2, <3>3
  <2> QED
    BY <2>1, <2>2
<1> QED
  BY <1>1, <1>2, Zenon DEF Divides

\* It is the one division.
LEMMA DividesAgree ==
  ASSUME NEW F, Divides(F), NEW f, Division(f, LastBit), NEW q \in SUBSET (0..LastBit)
  PROVE  F[q] = f[q]
<1> DEFINE Bad == {n \in 31..LastBit : \E p \in SUBSET (0..n) : F[p] # f[p]}
<1>1. LastBit \in Nat /\ LastBit >= 31
  BY SumsAre
<1>2. \A p \in SUBSET (0..LastBit) :
        F[p] = IF p = {} \/ Largest(p) < 32 THEN p
               ELSE F[Sums!Xor(p, Sums!Times(Sums!Generator, Largest(p) - 32))]
  BY Zenon DEF Divides
<1>3. /\ \A p \in SUBSET (0..31) : f[p] = p
      /\ \A n \in 32..LastBit : \A p \in SUBSET (0..n) : f[p] = f[Reduced(p, n)]
  BY DEF Division
<1>4. ASSUME Bad # {} PROVE FALSE
  <2>1. PICK n \in Bad : \A i \in Bad : n <= i
    <3>1. Bad \in SUBSET Nat
      OBVIOUS
    <3> HIDE DEF Bad
    <3> QED
      BY <3>1, <1>4, LeastOf
  <2>2. PICK p \in SUBSET (0..n) : F[p] # f[p]
    BY <2>1
  <2>3. n \in 31..LastBit /\ n \in Nat /\ p \in SUBSET (0..LastBit)
    BY <1>1
  <2>4. CASE p = {} \/ n = 31
    <3>1. p \in SUBSET (0..31)
      BY <2>4
    <3>2. p = {} \/ Largest(p) < 32
      <4>1. p # {} => Largest(p) \in p
        BY <2>3, <1>1, LargestUpTo
      <4>2. \A i \in p : i \in 0..31 /\ i < 32
        BY <3>1
      <4> QED
        BY <4>1, <4>2
    <3> QED
      BY <3>1, <3>2, <2>2, <2>3, <1>2, <1>3
  <2>5. CASE n # 31 /\ n \notin p
    <3>1. p \in SUBSET (0..(n - 1)) /\ n - 1 \in 31..LastBit /\ ~(n <= n - 1)
      BY <2>3, <2>5, <1>1
    <3>2. n - 1 \in Bad
      BY <3>1, <2>2
    <3> QED
      BY <3>1, <3>2, <2>1
  <2>6. CASE n # 31 /\ n \in p
    <3>1. Largest(p) = n
      <4>1. p \in SUBSET Nat /\ \A i \in p : i <= n
        BY <2>3
      <4> QED
        BY <4>1, <2>6, LargestIs
    <3>2. n >= 32 /\ n \in 32..LastBit /\ ~(n < 32) /\ p # {} /\ n - 1 \in 31..LastBit /\ ~(n <= n - 1)
      BY <2>3, <2>6, <1>1
    <3>3. Reduced(p, n) \in SUBSET (0..(n - 1))
      BY <2>3, <3>2, ReducedIs
    <3>4. F[p] = F[Reduced(p, n)]
      BY <3>1, <3>2, <2>3, <2>6, <1>2, Zenon DEF Reduced
    <3>5. f[p] = f[Reduced(p, n)]
      BY <3>2, <1>3
    <3>6. n - 1 \in Bad
      BY <3>2, <3>3, <3>4, <3>5, <2>2
    <3> QED
      BY <3>2, <3>6, <2>1
  <2> QED
    BY <2>4, <2>5, <2>6
<1>5. LastBit \in 31..LastBit /\ LastBit \notin Bad
  BY <1>1, <1>4
<1> QED
  BY <1>5

\* A remainder has less than 32 terms, is that of what has been reduced, and of itself.
LEMMA RemainderIs ==
  /\ \A q \in SUBSET (0..LastBit) : Sums!Remainder(q) \in SUBSET (0..31)
  /\ \A q \in SUBSET (0..31) : Sums!Remainder(q) = q
  /\ \A n \in 32..LastBit : \A q \in SUBSET (0..n) : Sums!Remainder(q) = Sums!Remainder(Reduced(q, n))
<1> DEFINE F == CHOOSE f : Divides(f)
<1>1. PICK f : Division(f, LastBit)
  BY DivisionExists
<1>2. Divides(F)
  <2>1. Divides(f)
    BY <1>1, DivisionDivides
  <2> QED
    BY <2>1, Zenon
<1>3. \A q : Sums!Remainder(q) = F[q]
  BY Zenon DEF Sums!Remainder, Divides, LastBit, Largest, Sums!Max, Sums!Degree
<1> HIDE DEF F
<1>4. \A q \in SUBSET (0..LastBit) : F[q] = f[q]
  BY <1>1, <1>2, DividesAgree
<1>5. /\ f \in [SUBSET (0..LastBit) -> SUBSET (0..31)]
      /\ \A q \in SUBSET (0..31) : f[q] = q
      /\ \A n \in 32..LastBit : \A q \in SUBSET (0..n) : f[q] = f[Reduced(q, n)]
  BY <1>1 DEF Division
<1>6. \A q \in SUBSET (0..LastBit) : Sums!Remainder(q) = f[q]
  BY <1>3, <1>4
<1>7. \A q \in SUBSET (0..31) : q \in SUBSET (0..LastBit)
  BY SumsAre
<1>8. ASSUME NEW n \in 32..LastBit, NEW q \in SUBSET (0..n)
      PROVE  q \in SUBSET (0..LastBit) /\ Reduced(q, n) \in SUBSET (0..LastBit)
  <2>1. n \in Nat /\ n >= 32
    BY SumsAre
  <2>2. Reduced(q, n) \in SUBSET (0..(n - 1))
    BY <2>1, ReducedIs
  <2> QED
    BY <2>1, <2>2, SumsAre
<1>9. ASSUME NEW q \in SUBSET (0..LastBit) PROVE Sums!Remainder(q) \in SUBSET (0..31)
  <2>1. f[q] \in SUBSET (0..31)
    BY <1>5, Zenon
  <2>2. Sums!Remainder(q) = f[q]
    BY <1>6
  <2> QED
    BY <2>1, <2>2
<1>10. \A q \in SUBSET (0..31) : Sums!Remainder(q) = q
  BY <1>5, <1>6, <1>7
<1>11. ASSUME NEW n \in 32..LastBit, NEW q \in SUBSET (0..n)
       PROVE  Sums!Remainder(q) = Sums!Remainder(Reduced(q, n))
  <2>1. f[q] = f[Reduced(q, n)]
    BY <1>5
  <2>2. Sums!Remainder(q) = f[q] /\ Sums!Remainder(Reduced(q, n)) = f[Reduced(q, n)]
    BY <1>6, <1>8
  <2> QED
    BY <2>1, <2>2
<1> QED
  BY <1>9, <1>10, <1>11, Zenon

\* The remainder of a sum is the sum of the remainders.
LEMMA RemainderOfXor ==
  ASSUME NEW p \in SUBSET (0..LastBit), NEW q \in SUBSET (0..LastBit)
  PROVE  Sums!Remainder(Sums!Xor(p, q)) = Sums!Xor(Sums!Remainder(p), Sums!Remainder(q))
<1> DEFINE Adds(n) == \A a \in SUBSET (0..n), b \in SUBSET (0..n) :
                        Sums!Remainder(Sums!Xor(a, b)) = Sums!Xor(Sums!Remainder(a), Sums!Remainder(b))
           Bad == {n \in 31..LastBit : ~Adds(n)}
<1>1. LastBit \in Nat /\ LastBit >= 31
  BY SumsAre
<1>2. ASSUME NEW n \in Int, NEW a \in SUBSET (0..n), NEW b \in SUBSET (0..n)
      PROVE  Sums!Xor(a, b) \in SUBSET (0..n)
  BY DEF Sums!Xor
<1>3. Adds(31)
  <2> SUFFICES ASSUME NEW a \in SUBSET (0..31), NEW b \in SUBSET (0..31)
               PROVE  Sums!Remainder(Sums!Xor(a, b)) = Sums!Xor(Sums!Remainder(a), Sums!Remainder(b))
    OBVIOUS
  <2>1. Sums!Xor(a, b) \in SUBSET (0..31)
    BY DEF Sums!Xor
  <2>2. Sums!Remainder(Sums!Xor(a, b)) = Sums!Xor(a, b) /\ Sums!Remainder(a) = a /\ Sums!Remainder(b) = b
    BY <2>1, RemainderIs
  <2> QED
    BY <2>2
<1>4. ASSUME NEW n \in 32..LastBit, Adds(n - 1) PROVE Adds(n)
  <2> SUFFICES ASSUME NEW a \in SUBSET (0..n), NEW b \in SUBSET (0..n)
               PROVE  Sums!Remainder(Sums!Xor(a, b)) = Sums!Xor(Sums!Remainder(a), Sums!Remainder(b))
    OBVIOUS
  <2>1. n \in Nat /\ n >= 32 /\ n \in Int
    BY <1>1
  <2>2. Sums!Xor(a, b) \in SUBSET (0..n)
    BY <2>1, <1>2
  <2>3. /\ Sums!Remainder(a) = Sums!Remainder(Reduced(a, n))
        /\ Sums!Remainder(b) = Sums!Remainder(Reduced(b, n))
        /\ Sums!Remainder(Sums!Xor(a, b)) = Sums!Remainder(Reduced(Sums!Xor(a, b), n))
    BY <2>2, RemainderIs
  <2>4. Reduced(a, n) \in SUBSET (0..(n - 1)) /\ Reduced(b, n) \in SUBSET (0..(n - 1))
    BY <2>1, ReducedIs
  <2>5. Reduced(Sums!Xor(a, b), n) = Sums!Xor(Reduced(a, n), Reduced(b, n))
    BY <2>1, ReducedOfXor
  <2>6. Sums!Remainder(Sums!Xor(Reduced(a, n), Reduced(b, n)))
          = Sums!Xor(Sums!Remainder(Reduced(a, n)), Sums!Remainder(Reduced(b, n)))
    BY <2>4, <1>4
  <2> QED
    BY <2>3, <2>5, <2>6
<1> HIDE DEF Adds
<1>5. ASSUME Bad # {} PROVE FALSE
  <2>1. PICK n \in Bad : \A i \in Bad : n <= i
    <3>1. Bad \in SUBSET Nat
      OBVIOUS
    <3> HIDE DEF Bad
    <3> QED
      BY <3>1, <1>5, LeastOf
  <2>2. n \in 32..LastBit /\ n - 1 \in 31..LastBit /\ n - 1 \notin Bad
    BY <2>1, <1>1, <1>3
  <2> QED
    BY <2>1, <2>2, <1>4
<1>6. Adds(LastBit)
  BY <1>1, <1>5
<1> QED
  BY <1>6 DEF Adds

\* A remainder does in place of its polynomial: when that is shifted by one ...
LEMMA RemainderOfNext ==
  ASSUME NEW m \in 31..(LastBit - 1), NEW p \in SUBSET (0..m)
  PROVE  Sums!Remainder(Sums!Times(p, 1)) = Sums!Remainder(Sums!Times(Sums!Remainder(p), 1))
<1> DEFINE Does(n) == \A a \in SUBSET (0..n) :
                        Sums!Remainder(Sums!Times(a, 1)) = Sums!Remainder(Sums!Times(Sums!Remainder(a), 1))
           Bad == {n \in 31..m : ~Does(n)}
<1>1. LastBit \in Nat /\ LastBit >= 31 /\ m \in Nat /\ m >= 31 /\ m + 1 <= LastBit
  BY SumsAre
<1>2. Does(31)
  BY RemainderIs
<1>3. ASSUME NEW n \in 32..m, Does(n - 1) PROVE Does(n)
  <2> SUFFICES ASSUME NEW a \in SUBSET (0..n)
               PROVE  Sums!Remainder(Sums!Times(a, 1)) = Sums!Remainder(Sums!Times(Sums!Remainder(a), 1))
    OBVIOUS
  <2>1. n \in Nat /\ n >= 32 /\ n \in Int /\ n \in 32..LastBit /\ n + 1 \in 32..LastBit /\ 1 \in Nat
    BY <1>1
  <2>2. Sums!Times(a, 1) \in SUBSET (0..(n + 1))
    BY <2>1, TimesWithin
  <2>3. /\ Sums!Remainder(a) = Sums!Remainder(Reduced(a, n))
        /\ Sums!Remainder(Sums!Times(a, 1)) = Sums!Remainder(Reduced(Sums!Times(a, 1), n + 1))
    BY <2>1, <2>2, RemainderIs
  <2>4. Reduced(a, n) \in SUBSET (0..(n - 1))
    BY <2>1, ReducedIs
  <2>5. Reduced(Sums!Times(a, 1), n + 1) = Sums!Times(Reduced(a, n), 1)
    BY <2>1, ReducedOfTimes
  <2>6. Sums!Remainder(Sums!Times(Reduced(a, n), 1))
          = Sums!Remainder(Sums!Times(Sums!Remainder(Reduced(a, n)), 1))
    BY <2>4, <1>3
  <2> QED
    BY <2>3, <2>5, <2>6
<1> HIDE DEF Does
<1>4. ASSUME Bad # {} PROVE FALSE
  <2>1. PICK n \in Bad : \A i \in Bad : n <= i
    <3>1. Bad \in SUBSET Nat
      OBVIOUS
    <3> HIDE DEF Bad
    <3> QED
      BY <3>1, <1>4, LeastOf
  <2>2. n \in 32..m /\ n - 1 \in 31..m /\ n - 1 \notin Bad
    BY <2>1, <1>1, <1>2
  <2> QED
    BY <2>1, <2>2, <1>3
<1>5. Does(m)
  BY <1>1, <1>4
<1> QED
  BY <1>5 DEF Does

\* ... and by any number.
LEMMA RemainderOfTimes ==
  ASSUME NEW m \in Nat, m >= 31, NEW p \in SUBSET (0..m), NEW k \in Nat, m + k <= LastBit
  PROVE  Sums!Remainder(Sums!Times(p, k)) = Sums!Remainder(Sums!Times(Sums!Remainder(p), k))
<1> DEFINE r == Sums!Remainder(p)
           Does(n) == Sums!Remainder(Sums!Times(p, n)) = Sums!Remainder(Sums!Times(r, n))
           Bad == {n \in 0..k : ~Does(n)}
<1>1. LastBit \in Nat /\ p \in SUBSET (0..LastBit) /\ p \in SUBSET Int
  BY SumsAre
<1>2. /\ r \in SUBSET (0..31) /\ r \in SUBSET (0..LastBit) /\ r \in SUBSET Int /\ r \in SUBSET (0..m)
      /\ Sums!Remainder(r) = r
  BY <1>1, RemainderIs, SumsAre
<1> HIDE DEF r
<1>3. Does(0)
  <2>1. ASSUME NEW s \in SUBSET Int PROVE Sums!Times(s, 0) = s
    <3>1. \A e \in s : e + 0 = e
      OBVIOUS
    <3> QED
      BY <3>1 DEF Sums!Times
  <2> QED
    BY <2>1, <1>1, <1>2 DEF r
<1>4. ASSUME NEW n \in 1..k, Does(n - 1) PROVE Does(n)
  <2>1. /\ n - 1 \in Nat /\ n - 1 \in Int /\ 1 \in Int /\ (n - 1) + 1 = n
        /\ m \in Int /\ m + (n - 1) \in 31..(LastBit - 1)
    BY <1>1
  <2>2. /\ Sums!Times(p, n) = Sums!Times(Sums!Times(p, n - 1), 1)
        /\ Sums!Times(r, n) = Sums!Times(Sums!Times(r, n - 1), 1)
    BY <2>1, <1>1, <1>2, TimesTwice
  <2>3. Sums!Times(p, n - 1) \in SUBSET (0..(m + (n - 1))) /\ Sums!Times(r, n - 1) \in SUBSET (0..(m + (n - 1)))
    BY <2>1, <1>2, TimesWithin
  <2>4. /\ Sums!Remainder(Sums!Times(Sums!Times(p, n - 1), 1))
             = Sums!Remainder(Sums!Times(Sums!Remainder(Sums!Times(p, n - 1)), 1))
        /\ Sums!Remainder(Sums!Times(Sums!Times(r, n - 1), 1))
             = Sums!Remainder(Sums!Times(Sums!Remainder(Sums!Times(r, n - 1)), 1))
    BY <2>1, <2>3, RemainderOfNext
  <2> QED
    BY <2>2, <2>4, <1>4
<1> HIDE DEF Does
<1>5. ASSUME Bad # {} PROVE FALSE
  <2>1. PICK n \in Bad : \A i \in Bad : n <= i
    <3>1. Bad \in SUBSET Nat
      OBVIOUS
    <3> HIDE DEF Bad
    <3> QED
      BY <3>1, <1>5, LeastOf
  <2>2. n \in 1..k /\ n - 1 \in 0..k /\ n - 1 \notin Bad
    BY <2>1, <1>3
  <2> QED
    BY <2>1, <2>2, <1>4
<1>6. Does(k)
  BY <1>5
<1> QED
  BY <1>6 DEF Does, r

-----------------------------------------------------------------------------
(***************************************************************************)
(* What the code does to a word is what division does to a polynomial: a   *)
(* turn of the inner loop shifts it by one and leaves the remainder.       *)
(***************************************************************************)
\* What is left of a polynomial of at most 32 neighbouring terms is never nothing: the generator
\* has a constant term, and so no shift makes it a multiple: by one place ...
LEMMA NextIsSomething ==
  ASSUME NEW r \in SUBSET (0..31), r # {}, LastBit >= 32
  PROVE  Sums!Remainder(Sums!Times(r, 1)) # {}
<1> DEFINE s == Sums!Times(r, 1)
<1>1. LastBit \in Nat /\ r \in SUBSET Int /\ 1 \in Int /\ 31 \in Int /\ 1 \in Nat /\ 31 + 1 = 32
  BY SumsAre
<1>2. s \in SUBSET (0..32) /\ s \in SUBSET (1..32)
  BY <1>1, TimesWithin
<1>3. \A x \in Int : x \in s <=> x - 1 \in r
  BY <1>1, TermsOfTimes
<1> HIDE DEF s
<1>4. CASE 32 \in s
  <2>1. Reduced(s, 32) = Sums!Xor(s, Sums!Times(Sums!Generator, 32 - 32))
    BY <1>4, Zenon DEF Reduced
  <2>2. 0 \in Sums!Times(Sums!Generator, 32 - 32)
    <3>1. Sums!Generator \in SUBSET Int /\ 32 - 32 = 0 /\ 0 \in Int /\ 0 - 0 = 0
      BY GeneratorIs
    <3>2. 0 \in Sums!Times(Sums!Generator, 0) <=> 0 - 0 \in Sums!Generator
      BY <3>1, TermsOfTimes
    <3> QED
      BY <3>1, <3>2, GeneratorIs
  <2>3. 0 \notin s
    BY <1>2
  <2>4. 0 \in Reduced(s, 32)
    BY <2>1, <2>2, <2>3, TermsOfXor
  <2>5. Reduced(s, 32) \in SUBSET (0..31)
    <3>1. 32 \in Nat /\ 32 >= 32 /\ 32 - 1 = 31
      OBVIOUS
    <3> QED
      BY <3>1, <1>2, ReducedIs
  <2>6. Sums!Remainder(s) = Sums!Remainder(Reduced(s, 32))
    <3>1. 32 \in 32..LastBit
      BY <1>1
    <3> QED
      BY <3>1, <1>2, RemainderIs
  <2> QED
    BY <2>4, <2>5, <2>6, RemainderIs DEF s
<1>5. CASE 32 \notin s
  <2>1. s \in SUBSET (0..31)
    BY <1>2, <1>5
  <2>2. PICK e \in r : TRUE
    OBVIOUS
  <2>3. e + 1 \in Int /\ (e + 1) - 1 = e
    OBVIOUS
  <2>4. e + 1 \in s
    BY <2>2, <2>3, <1>3
  <2> QED
    BY <2>1, <2>4, RemainderIs DEF s
<1> QED
  BY <1>4, <1>5

\* ... by any number of places.
LEMMA BurstIsSomething ==
  ASSUME NEW w \in SUBSET (0..31), w # {}, NEW t \in 0..31, \A e \in w : e <= t, NEW k \in Nat, t + k <= LastBit
  PROVE  Sums!Remainder(Sums!Times(w, k)) # {}
<1> DEFINE Stays(n) == Sums!Remainder(Sums!Times(w, n)) # {}
           Bad == {n \in 0..k : ~Stays(n)}
<1>1. LastBit \in Nat /\ w \in SUBSET (0..t) /\ w \in SUBSET Int /\ LastBit >= 31
  BY SumsAre
<1>2. Stays(0)
  <2>1. Sums!Times(w, 0) = w
    <3>1. \A e \in w : e + 0 = e
      OBVIOUS
    <3> QED
      BY <3>1 DEF Sums!Times
  <2> QED
    BY <2>1, RemainderIs
<1>3. ASSUME NEW n \in 1..k, Stays(n - 1) PROVE Stays(n)
  <2> DEFINE s == Sums!Times(w, n - 1)
  <2>1. /\ n - 1 \in Nat /\ n - 1 \in Int /\ 1 \in Int /\ (n - 1) + 1 = n /\ t \in Int
        /\ t + (n - 1) <= LastBit - 1 /\ t + (n - 1) \in Nat
    BY <1>1
  <2>2. Sums!Times(w, n) = Sums!Times(s, 1)
    BY <2>1, <1>1, TimesTwice
  <2>3. s \in SUBSET (0..(t + (n - 1)))
    BY <2>1, <1>1, TimesWithin
  <2> HIDE DEF s
  <2>4. CASE LastBit >= 32
    <3>1. s \in SUBSET (0..(LastBit - 1)) /\ s \in SUBSET (0..LastBit) /\ LastBit - 1 \in 31..(LastBit - 1)
      BY <2>1, <2>3, <2>4, <1>1
    <3>2. Sums!Remainder(Sums!Times(s, 1)) = Sums!Remainder(Sums!Times(Sums!Remainder(s), 1))
      BY <3>1, RemainderOfNext
    <3>3. Sums!Remainder(s) \in SUBSET (0..31) /\ Sums!Remainder(s) # {}
      BY <3>1, <1>3, RemainderIs DEF s
    <3>4. Sums!Remainder(Sums!Times(Sums!Remainder(s), 1)) # {}
      BY <3>3, <2>4, NextIsSomething
    <3> QED
      BY <2>2, <3>2, <3>4
  <2>5. CASE ~(LastBit >= 32)
    <3>1. LastBit = 31 /\ t + n <= 31
      BY <2>5, <1>1
    <3>2. Sums!Times(w, n) \in SUBSET (0..(t + n)) /\ t + n \in Nat
      <4>1. n \in Nat /\ t \in Int /\ t + n \in Nat /\ w \in SUBSET (0..t)
        BY <1>1
      <4>2. Sums!Times(w, n) \in SUBSET (0..(t + n))
        BY <4>1, TimesWithin
      <4> QED
        BY <4>1, <4>2
    <3>3. Sums!Times(w, n) \in SUBSET (0..31)
      BY <3>1, <3>2
    <3>4. PICK e \in w : TRUE
      OBVIOUS
    <3>5. e + n \in Sums!Times(w, n)
      BY <3>4 DEF Sums!Times
    <3> QED
      BY <3>3, <3>5, RemainderIs
  <2> QED
    BY <2>4, <2>5
<1> HIDE DEF Stays
<1>4. ASSUME Bad # {} PROVE FALSE
  <2>1. PICK n \in Bad : \A i \in Bad : n <= i
    <3>1. Bad \in SUBSET Nat
      OBVIOUS
    <3> HIDE DEF Bad
    <3> QED
      BY <3>1, <1>4, LeastOf
  <2>2. n \in 1..k /\ n - 1 \in 0..k /\ n - 1 \notin Bad
    BY <2>1, <1>2
  <2> QED
    BY <2>1, <2>2, <1>3
<1>5. Stays(k)
  BY <1>4
<1> QED
  BY <1>5 DEF Stays

\* A word is a polynomial read from the other end.
Rev(c) == {31 - e : e \in c}

LEMMA RevIs ==
  ASSUME NEW c \in SUBSET (0..31)
  PROVE  /\ Rev(c) \in SUBSET (0..31) /\ Rev(Rev(c)) = c
         /\ \A x \in 0..31 : x \in Rev(c) <=> 31 - x \in c
<1>1. \A x \in 0..31 : 31 - x \in 0..31 /\ 31 - (31 - x) = x
  OBVIOUS
<1>2. Rev(c) \in SUBSET (0..31)
  BY <1>1 DEF Rev
<1>3. ASSUME NEW a \in SUBSET (0..31), NEW x \in 0..31 PROVE x \in Rev(a) <=> 31 - x \in a
  <2>1. ASSUME 31 - x \in a PROVE x \in Rev(a)
    BY <1>1, <2>1, Zenon DEF Rev
  <2>2. ASSUME x \in Rev(a) PROVE 31 - x \in a
    <3>1. PICK e \in a : x = 31 - e
      BY <2>2 DEF Rev
    <3> QED
      BY <3>1, <1>1
  <2> QED
    BY <2>1, <2>2
<1>4. Rev(Rev(c)) \in SUBSET (0..31)
  BY <1>1, <1>2 DEF Rev
<1>5. \A x \in 0..31 : x \in Rev(Rev(c)) <=> x \in c
  BY <1>1, <1>2, <1>3
<1>6. Rev(Rev(c)) = c
  BY <1>4, <1>5
<1> QED
  BY <1>2, <1>3, <1>6

LEMMA RevOfXor ==
  ASSUME NEW c \in SUBSET (0..31), NEW d \in SUBSET (0..31)
  PROVE  Sums!Xor(c, d) \in SUBSET (0..31) /\ Rev(Sums!Xor(c, d)) = Sums!Xor(Rev(c), Rev(d))
<1> DEFINE a == Sums!Xor(c, d)
           b == Sums!Xor(Rev(c), Rev(d))
<1>1. a \in SUBSET (0..31) /\ \A x : x \in a <=> (x \in c /\ x \notin d) \/ (x \in d /\ x \notin c)
  BY TermsOfXor DEF Sums!Xor
<1>2. \A x : x \in b <=> (x \in Rev(c) /\ x \notin Rev(d)) \/ (x \in Rev(d) /\ x \notin Rev(c))
  BY TermsOfXor
<1> HIDE DEF a, b
<1>3. b \in SUBSET (0..31) /\ Rev(a) \in SUBSET (0..31)
  BY <1>1, <1>2, RevIs
<1>4. ASSUME NEW x \in 0..31 PROVE x \in Rev(a) <=> x \in b
  <2>1. x \in Rev(a) <=> 31 - x \in a
    BY <1>1, RevIs
  <2>2. (x \in Rev(c) <=> 31 - x \in c) /\ (x \in Rev(d) <=> 31 - x \in d)
    BY RevIs
  <2> QED
    BY <2>1, <2>2, <1>1, <1>2
<1>5. Rev(a) = b
  BY <1>3, <1>4
<1> QED
  BY <1>1, <1>5 DEF a, b

\* One turn of the inner loop shifts the polynomial and leaves its remainder.
LEMMA BitIsNext ==
  ASSUME NEW c \in SUBSET (0..31), LastBit >= 32
  PROVE  Sums!Bit(c) \in SUBSET (0..31) /\ Rev(Sums!Bit(c)) = Sums!Remainder(Sums!Times(Rev(c), 1))
<1> DEFINE r == Rev(c)
           s == Sums!Times(r, 1)
           h == Sums!Shr(c)
<1>1. /\ LastBit \in Nat /\ r \in SUBSET (0..31) /\ r \in SUBSET Int /\ 1 \in Int
      /\ \A x \in 0..31 : x \in r <=> 31 - x \in c
  BY RevIs, SumsAre
<1>2. s \in SUBSET (1..32) /\ s \in SUBSET (0..32) /\ \A x \in Int : x \in s <=> x - 1 \in r
  <2>1. 1 \in Nat /\ 31 \in Int /\ 31 + 1 = 32
    OBVIOUS
  <2> QED
    BY <2>1, <1>1, TermsOfTimes, TimesWithin
<1>3. h \in SUBSET (0..30) /\ h \in SUBSET (0..31) /\ \A x \in 0..30 : x \in h <=> x + 1 \in c
  <2>1. \A x \in c \ {0} : x - 1 \in 0..30 /\ (x - 1) + 1 = x
    OBVIOUS
  <2>2. \A x \in 0..30 : (x + 1) - 1 = x /\ x + 1 # 0
    OBVIOUS
  <2>3. ASSUME NEW x \in 0..30, x + 1 \in c PROVE x \in h
    <3>1. x + 1 \in c \ {0} /\ x = (x + 1) - 1
      BY <2>2, <2>3
    <3> QED
      BY <3>1, Zenon DEF Sums!Shr
  <2>4. ASSUME NEW x \in 0..30, x \in h PROVE x + 1 \in c
    <3>1. PICK e \in c \ {0} : x = e - 1
      BY <2>4 DEF Sums!Shr
    <3> QED
      BY <3>1, <2>1
  <2>5. h \in SUBSET (0..30)
    BY <2>1 DEF Sums!Shr
  <2> QED
    BY <2>3, <2>4, <2>5
<1>4. /\ Rev(h) \in SUBSET (0..31)
      /\ \A x \in 0..31 : x \in Rev(h) <=> x \in s
  <2>1. Rev(h) \in SUBSET (0..31) /\ \A x \in 0..31 : x \in Rev(h) <=> 31 - x \in h
    BY <1>3, RevIs
  <2> HIDE DEF h, s, r
  <2>2. ASSUME NEW x \in 0..31 PROVE x \in Rev(h) <=> x \in s
    <3>1. CASE x = 0
      BY <3>1, <2>1, <1>2, <1>3
    <3>2. CASE x # 0
      <4>1. 31 - x \in 0..30 /\ (31 - x) + 1 = 31 - (x - 1) /\ x - 1 \in 0..31 /\ x \in Int
        BY <3>2
      <4>2. 31 - x \in h <=> 31 - (x - 1) \in c
        BY <4>1, <1>3
      <4>3. x - 1 \in r <=> 31 - (x - 1) \in c
        BY <4>1, <1>1
      <4> QED
        BY <4>1, <4>2, <4>3, <2>1, <1>2
    <3> QED
      BY <3>1, <3>2
  <2> QED
    BY <2>1, <2>2
<1>5. 32 \in s <=> 0 \in c
  <2>1. 32 \in Int /\ 32 - 1 = 31 /\ 31 - 31 = 0 /\ 31 \in 0..31
    OBVIOUS
  <2> HIDE DEF s, r
  <2> QED
    BY <2>1, <1>1, <1>2
<1> HIDE DEF s, r, h
<1>6. CASE 0 \in c
  <2> DEFINE P == Sums!Polynomial
  <2>1. Sums!Bit(c) = Sums!Xor(h, P)
    BY <1>6, Zenon DEF Sums!Bit, h
  <2>2. P \in SUBSET (0..31) /\ Rev(P) \in SUBSET (0..31) /\ \A x \in 0..31 : x \in Rev(P) <=> x \in Sums!Generator
    <3>1. P \in SUBSET (0..31)
      BY DEF Sums!Polynomial
    <3>2. \A x \in 0..31 : 31 - x \in P <=> x \in Sums!Generator
      BY DEF Sums!Polynomial, Sums!Generator
    <3> QED
      BY <3>1, <3>2, RevIs
  <2> HIDE DEF P
  <2>3. Sums!Bit(c) \in SUBSET (0..31) /\ Rev(Sums!Bit(c)) = Sums!Xor(Rev(h), Rev(P))
    BY <2>1, <2>2, <1>3, RevOfXor
  <2>4. Reduced(s, 32) = Sums!Xor(s, Sums!Generator)
    <3>1. 32 - 32 = 0 /\ \A e \in Sums!Generator : e + 0 = e
      BY GeneratorIs
    <3>2. Sums!Times(Sums!Generator, 0) = Sums!Generator
      BY <3>1 DEF Sums!Times
    <3>3. Reduced(s, 32) = Sums!Xor(s, Sums!Times(Sums!Generator, 32 - 32))
      BY <1>5, <1>6, Zenon DEF Reduced
    <3> QED
      BY <3>1, <3>2, <3>3
  <2>5. Reduced(s, 32) \in SUBSET (0..31)
    <3>1. 32 \in Nat /\ 32 >= 32 /\ 32 - 1 = 31
      OBVIOUS
    <3> QED
      BY <3>1, <1>2, ReducedIs
  <2>6. \A x \in 0..31 : x \in Sums!Xor(Rev(h), Rev(P)) <=> x \in Sums!Xor(s, Sums!Generator)
    BY <2>2, <1>4, TermsOfXor
  <2>7. Rev(Sums!Bit(c)) \in SUBSET (0..31)
    BY <2>3, RevIs
  <2>8. Rev(Sums!Bit(c)) = Reduced(s, 32)
    BY <2>3, <2>4, <2>5, <2>6, <2>7
  <2>9. Sums!Remainder(s) = Sums!Remainder(Reduced(s, 32)) /\ Sums!Remainder(Reduced(s, 32)) = Reduced(s, 32)
    <3>1. 32 \in 32..LastBit
      BY <1>1
    <3> QED
      BY <3>1, <1>2, <2>5, RemainderIs
  <2> QED
    BY <2>3, <2>8, <2>9 DEF s, r
<1>7. CASE 0 \notin c
  <2>1. Sums!Bit(c) = h
    BY <1>7, Zenon DEF Sums!Bit, h
  <2>2. s \in SUBSET (0..31)
    BY <1>2, <1>5, <1>7
  <2>3. Rev(h) = s
    BY <2>2, <1>4
  <2> QED
    BY <2>1, <2>2, <2>3, <1>3, RemainderIs DEF s, r
<1> QED
  BY <1>6, <1>7

\* A turn of the inner loop gives a word again.
LEMMA BitIsWord ==
  ASSUME NEW c \in SUBSET (0..31) PROVE Sums!Bit(c) \in SUBSET (0..31)
<1>1. \A x \in c \ {0} : x - 1 \in 0..31
  OBVIOUS
<1>2. Sums!Shr(c) \in SUBSET (0..31)
  BY <1>1 DEF Sums!Shr
<1>3. Sums!Polynomial \in SUBSET (0..31)
  BY DEF Sums!Polynomial
<1>4. Sums!Xor(Sums!Shr(c), Sums!Polynomial) \in SUBSET (0..31)
  BY <1>2, <1>3, RevOfXor
<1> QED
  BY <1>2, <1>4 DEF Sums!Bit

\* The eight turns of the inner loop, as FoldLeft takes them.
LEMMA EightTurns ==
  ASSUME NEW c \in SUBSET (0..31), NEW b \in SUBSET (0..31)
  PROVE  \E f : /\ f[0] = Sums!Xor(c, b) /\ \A k \in 1..8 : f[k] = Sums!Bit(f[k - 1])
                /\ Sums!Absorb(c, b) = f[8]
<1> DEFINE x == Sums!Xor(c, b)
           s == [j \in 1..8 |-> j]
           D == DOMAIN s
           W == SUBSET (0..31)
           Recurs(f) == f = [t \in SUBSET D |-> IF t = {} THEN x ELSE Sums!Bit(f[t \ {Largest(t)}])]
           F == CHOOSE f : Recurs(f)
           g == [p \in (1..8) \X W |-> Sums!Bit(p[2])]
           h == [k \in 0..8 |-> F[1..k]]
<1>1. Sums!Absorb(c, b) = F[D]
  BY Zenon DEF Sums!Absorb, Sums!FoldLeft, Sums!MapThenFoldSet, Largest, Sums!Max
<1>2. D = 1..8 /\ x \in W /\ 8 \in Nat
  BY RevOfXor
<1>3. g \in [(1..8) \X W -> W]
  <2>1. \A p \in (1..8) \X W : p[2] \in W
    OBVIOUS
  <2>2. \A a \in W : Sums!Bit(a) \in W
    BY BitIsWord
  <2> QED
    BY <2>1, <2>2
<1> HIDE DEF x
<1>4. PICK f : IsFold(f, 8, W, x, g)
  <2> HIDE DEF g, W
  <2> QED
    BY <1>2, <1>3, FoldExists
<1>5. Recurs(f)
  <2> SUFFICES ASSUME NEW t \in SUBSET D, t # {}
               PROVE  g[<<Largest(t), f[t \ {Largest(t)}]>>] = Sums!Bit(f[t \ {Largest(t)}])
    BY <1>2, <1>4 DEF IsFold
  <2>1. Largest(t) \in 1..8
    BY <1>2, LargestIn
  <2>2. f[t \ {Largest(t)}] \in W
    BY <1>2, <1>4 DEF IsFold
  <2> QED
    BY <2>1, <2>2
<1>6. Recurs(F)
  <2> HIDE DEF Recurs
  <2> QED
    BY <1>5
<1>7. F[{}] = x
  BY <1>6
<1>8. ASSUME NEW k \in 1..8 PROVE F[1..k] = Sums!Bit(F[1..(k - 1)])
  <2>1. 1..k \in SUBSET D /\ 1..k # {} /\ (1..k) \ {k} = 1..(k - 1)
    <3>1. 1..k \subseteq 1..8 /\ k \in 1..k
      OBVIOUS
    <3>2. (1..k) \ {k} = 1..(k - 1)
      OBVIOUS
    <3> QED
      BY <1>2, <3>1, <3>2, Zenon
  <2>2. Largest(1..k) = k
    <3>1. 1..k \in SUBSET Nat /\ k \in 1..k /\ \A i \in 1..k : i <= k
      OBVIOUS
    <3> QED
      BY <3>1, LargestIs
  <2> QED
    BY <1>6, <2>1, <2>2
<1> HIDE DEF F
<1>9. h[0] = x /\ h[8] = F[D] /\ \A k \in 1..8 : h[k] = Sums!Bit(h[k - 1])
  <2>1. 1..0 = {}
    OBVIOUS
  <2>2. \A k \in 1..8 : k \in 0..8 /\ k - 1 \in 0..8
    OBVIOUS
  <2> QED
    BY <2>1, <2>2, <1>2, <1>7, <1>8
<1> QED
  BY <1>1, <1>9 DEF x

\* One turn of the outer loop shifts by eight.
LEMMA AbsorbIsRemainder ==
  ASSUME NEW c \in SUBSET (0..31), NEW b \in SUBSET (0..31), LastBit >= 39
  PROVE  /\ Sums!Absorb(c, b) \in SUBSET (0..31)
         /\ Rev(Sums!Absorb(c, b)) = Sums!Remainder(Sums!Times(Rev(Sums!Xor(c, b)), 8))
<1> DEFINE r == Rev(Sums!Xor(c, b))
<1>1. PICK f : /\ f[0] = Sums!Xor(c, b) /\ \A k \in 1..8 : f[k] = Sums!Bit(f[k - 1])
               /\ Sums!Absorb(c, b) = f[8]
  BY EightTurns
<1>2. Sums!Xor(c, b) \in SUBSET (0..31) /\ r \in SUBSET (0..31) /\ r \in SUBSET Int /\ LastBit \in Nat
  BY RevOfXor, RevIs, SumsAre
<1> DEFINE Turned(k) == f[k] \in SUBSET (0..31) /\ Rev(f[k]) = Sums!Remainder(Sums!Times(r, k))
           Bad == {k \in 0..8 : ~Turned(k)}
<1>3. Turned(0)
  <2>1. \A e \in r : e + 0 = e
    BY <1>2
  <2>2. Sums!Times(r, 0) = r
    BY <2>1 DEF Sums!Times
  <2> QED
    BY <2>2, <1>1, <1>2, RemainderIs
<1> HIDE DEF r
<1>4. ASSUME NEW k \in 1..8, Turned(k - 1) PROVE Turned(k)
  <2> DEFINE s == Sums!Times(r, k - 1)
  <2>1. /\ k - 1 \in Nat /\ k - 1 \in Int /\ 1 \in Int /\ (k - 1) + 1 = k /\ 31 \in Int
        /\ 31 + (k - 1) \in 31..(LastBit - 1)
    BY <1>2
  <2>2. s \in SUBSET (0..(31 + (k - 1))) /\ Sums!Times(s, 1) = Sums!Times(r, k)
    <3>1. s \in SUBSET (0..(31 + (k - 1)))
      BY <2>1, <1>2, TimesWithin
    <3>2. Sums!Times(s, 1) = Sums!Times(r, (k - 1) + 1)
      BY <2>1, <1>2, TimesTwice
    <3> QED
      BY <2>1, <3>1, <3>2
  <2>3. Sums!Remainder(Sums!Times(s, 1)) = Sums!Remainder(Sums!Times(Sums!Remainder(s), 1))
    BY <2>1, <2>2, RemainderOfNext
  <2>4. f[k] = Sums!Bit(f[k - 1]) /\ f[k - 1] \in SUBSET (0..31) /\ Rev(f[k - 1]) = Sums!Remainder(s)
    BY <1>1, <1>4
  <2>5. f[k] \in SUBSET (0..31) /\ Rev(f[k]) = Sums!Remainder(Sums!Times(Rev(f[k - 1]), 1))
    <3>1. LastBit >= 32
      BY <1>2
    <3> QED
      BY <3>1, <2>4, BitIsNext
  <2> QED
    BY <2>2, <2>3, <2>4, <2>5
<1> HIDE DEF Turned
<1>5. ASSUME Bad # {} PROVE FALSE
  <2>1. PICK k \in Bad : \A i \in Bad : k <= i
    <3>1. Bad \in SUBSET Nat
      OBVIOUS
    <3> HIDE DEF Bad
    <3> QED
      BY <3>1, <1>5, LeastOf
  <2>2. k \in 1..8 /\ k - 1 \in 0..8 /\ k - 1 \notin Bad
    BY <2>1, <1>3
  <2> QED
    BY <2>1, <2>2, <1>4
<1>6. Turned(8)
  BY <1>5
<1> QED
  BY <1>1, <1>6 DEF Turned, r

\* The bits of a byte, the lowest first.
Low(b) == {7 - k : k \in b}

LEMMA ExponentsIs ==
  ASSUME NEW s \in Seq(SUBSET (0..7))
  PROVE  /\ Sums!Exponents(s) \in SUBSET (0..(8 * Len(s) - 1))
         /\ \A x : x \in Sums!Exponents(s) <=> \E i \in 1..Len(s) : \E k \in s[i] : x = 8 * (Len(s) - i) + 7 - k
<1> DEFINE n == Len(s)
<1>1. n \in Nat /\ DOMAIN s = 1..n /\ \A i \in 1..n : s[i] \in SUBSET (0..7)
  OBVIOUS
<1>2. \A x : x \in Sums!Exponents(s) <=> \E i \in 1..n : \E k \in s[i] : x = 8 * (n - i) + 7 - k
  <2> DEFINE Part(i) == {8 * (n - i) + 7 - k : k \in s[i]}
  <2>1. Sums!Exponents(s) = UNION {Part(i) : i \in 1..n}
    BY <1>1, Zenon DEF Sums!Exponents
  <2>2. \A i, x : x \in Part(i) <=> \E k \in s[i] : x = 8 * (n - i) + 7 - k
    BY Zenon
  <2> HIDE DEF Part
  <2>3. ASSUME NEW x PROVE x \in Sums!Exponents(s) <=> \E i \in 1..n : x \in Part(i)
    <3>1. ASSUME x \in Sums!Exponents(s) PROVE \E i \in 1..n : x \in Part(i)
      <4>1. PICK y \in {Part(i) : i \in 1..n} : x \in y
        BY <2>1, <3>1
      <4>2. PICK i \in 1..n : y = Part(i)
        BY <4>1
      <4> QED
        BY <4>1, <4>2
    <3>2. ASSUME NEW i \in 1..n, x \in Part(i) PROVE x \in Sums!Exponents(s)
      <4>1. Part(i) \in {Part(j) : j \in 1..n}
        OBVIOUS
      <4> QED
        BY <2>1, <3>2, <4>1
    <3> QED
      BY <3>1, <3>2
  <2> HIDE DEF n
  <2>4. ASSUME NEW x
        PROVE  (\E i \in 1..n : x \in Part(i)) <=> \E i \in 1..n : \E k \in s[i] : x = 8 * (n - i) + 7 - k
    <3>1. ASSUME NEW i \in 1..n, x \in Part(i) PROVE \E k \in s[i] : x = 8 * (n - i) + 7 - k
      BY <2>2, <3>1, Zenon
    <3>2. ASSUME NEW i \in 1..n, NEW k \in s[i], x = 8 * (n - i) + 7 - k PROVE x \in Part(i)
      BY <2>2, <3>2, Zenon
    <3> QED
      BY <3>1, <3>2, Zenon
  <2> QED
    BY <2>3, <2>4, Zenon
<1>3. ASSUME NEW x \in Sums!Exponents(s) PROVE x \in 0..(8 * n - 1)
  <2>1. PICK i \in 1..n : \E k \in s[i] : x = 8 * (n - i) + 7 - k
    BY <1>2
  <2>2. PICK k \in s[i] : x = 8 * (n - i) + 7 - k
    BY <2>1
  <2>3. k \in 0..7
    BY <1>1
  <2> HIDE DEF n
  <2> QED
    BY <1>1, <2>2, <2>3
<1> QED
  BY <1>2, <1>3

LEMMA ExponentsOfNext ==
  ASSUME NEW s \in Seq(SUBSET (0..7)), NEW b \in SUBSET (0..7)
  PROVE  Sums!Exponents(Append(s, b)) = Sums!Xor(Sums!Times(Sums!Exponents(s), 8), Low(b))
<1> DEFINE n == Len(s)
           t == Append(s, b)
           E == Sums!Exponents(s)
           S == Sums!Times(E, 8)
           L == Low(b)
<1>1. /\ n \in Nat /\ t \in Seq(SUBSET (0..7)) /\ Len(t) = n + 1 /\ t[n + 1] = b
      /\ \A i \in 1..n : t[i] = s[i] /\ s[i] \in SUBSET (0..7)
  OBVIOUS
<1>2. \A x : x \in Sums!Exponents(t) <=> \E i \in 1..Len(t) : \E k \in t[i] : x = 8 * (Len(t) - i) + 7 - k
  BY <1>1, ExponentsIs
<1>3. E \in SUBSET (0..(8 * n - 1)) /\ \A x : x \in E <=> \E i \in 1..n : \E k \in s[i] : x = 8 * (n - i) + 7 - k
  BY ExponentsIs
<1> HIDE DEF n, t, E
<1>4. S \in SUBSET (8..(8 * n - 1 + 8)) /\ \A x \in Int : x \in S <=> x - 8 \in E
  <2> DEFINE m == 8 * n - 1
  <2>1. m \in Int /\ 8 \in Nat /\ 8 \in Int /\ E \in SUBSET Int
    BY <1>1, <1>3
  <2>2. E \in SUBSET (0..m)
    BY <1>3
  <2> HIDE DEF m
  <2>3. S \in SUBSET (8..(m + 8))
    BY <2>1, <2>2, TimesWithin
  <2>4. \A x \in Int : x \in S <=> x - 8 \in E
    BY <2>1, TermsOfTimes
  <2> QED
    BY <2>3, <2>4 DEF m
<1>5. L \in SUBSET (0..7)
  <2>1. \A k \in b : 7 - k \in 0..7
    OBVIOUS
  <2> QED
    BY <2>1 DEF Low
<1>6. ASSUME NEW x \in S PROVE x \in Sums!Exponents(t)
  <2>1. x \in Int /\ x - 8 \in E
    BY <1>4
  <2>2. PICK i \in 1..n : \E k \in s[i] : x - 8 = 8 * (n - i) + 7 - k
    BY <2>1, <1>3
  <2>3. PICK k \in s[i] : x - 8 = 8 * (n - i) + 7 - k
    BY <2>2
  <2>4. k \in 0..7 /\ t[i] = s[i] /\ i \in 1..Len(t)
    BY <1>1
  <2>5. x = 8 * (Len(t) - i) + 7 - k
    BY <2>1, <2>3, <2>4, <1>1
  <2> QED
    BY <2>4, <2>5, <1>2
<1>7. ASSUME NEW x \in L PROVE x \in Sums!Exponents(t)
  <2>1. PICK k \in b : x = 7 - k
    BY DEF Low
  <2>2. k \in Int /\ n + 1 \in 1..Len(t) /\ k \in t[n + 1] /\ x = 8 * (Len(t) - (n + 1)) + 7 - k
    BY <2>1, <1>1
  <2> QED
    BY <2>2, <1>2
<1>8. ASSUME NEW x \in Sums!Exponents(t) PROVE x \in S \/ x \in L
  <2>1. PICK i \in 1..Len(t) : \E k \in t[i] : x = 8 * (Len(t) - i) + 7 - k
    BY <1>2
  <2>2. PICK k \in t[i] : x = 8 * (Len(t) - i) + 7 - k
    BY <2>1
  <2>3. CASE i = n + 1
    <3>1. k \in b /\ k \in Int /\ x = 7 - k
      BY <2>2, <2>3, <1>1
    <3> QED
      BY <3>1 DEF Low
  <2>4. CASE i # n + 1
    <3>1. i \in 1..n /\ k \in s[i] /\ k \in 0..7
      BY <2>2, <2>4, <1>1
    <3>2. x \in Int /\ x - 8 = 8 * (n - i) + 7 - k
      BY <3>1, <2>2, <1>1
    <3> QED
      BY <3>1, <3>2, <1>3, <1>4
  <2> QED
    BY <2>3, <2>4
<1> HIDE DEF S, L
<1>9. \A x : ~(x \in S /\ x \in L)
  <2> SUFFICES ASSUME NEW x, x \in S, x \in L PROVE FALSE
    OBVIOUS
  <2>1. 8 * n - 1 + 8 \in Int
    BY <1>1
  <2>2. x \in 8..(8 * n - 1 + 8) /\ x \in 0..7
    BY <1>4, <1>5
  <2> QED
    BY <2>1, <2>2
<1>10. \A x : x \in Sums!Exponents(t) <=> x \in Sums!Xor(S, L)
  BY <1>6, <1>7, <1>8, <1>9, TermsOfXor
<1>11. Sums!Exponents(t) = Sums!Xor(S, L)
  BY <1>10
<1> QED
  BY <1>11 DEF S, L, E, t

-----------------------------------------------------------------------------
(***************************************************************************)
(* What is divided, and that the variable crc is its remainder.            *)
(***************************************************************************)
\* What crc32 divides: the bytes, and ones in the first 32 places.
Codeword(s) == Sums!Xor(Sums!Times(Sums!Exponents(s), 32), Sums!Times(0..31, 8 * Len(s)))

LEMMA CodewordIs ==
  ASSUME NEW s \in Seq(SUBSET (0..7))
  PROVE  Codeword(s) \in SUBSET (0..(8 * Len(s) + 31))
<1> DEFINE m == 8 * Len(s)
           E == Sums!Exponents(s)
<1>1. m \in Nat /\ m - 1 \in Int /\ 32 \in Nat /\ 31 \in Int /\ 0..31 \in SUBSET (0..31)
  OBVIOUS
<1>2. E \in SUBSET (0..(m - 1))
  BY ExponentsIs
<1> HIDE DEF m, E
<1>3. Sums!Times(E, 32) \in SUBSET (0..((m - 1) + 32)) /\ Sums!Times(0..31, m) \in SUBSET (0..(31 + m))
  BY <1>1, <1>2, TimesWithin
<1>4. \A x \in Sums!Times(E, 32) : x \in 0..(m + 31)
  BY <1>1, <1>3
<1>5. \A x \in Sums!Times(0..31, m) : x \in 0..(m + 31)
  BY <1>1, <1>3
<1>6. Sums!Xor(Sums!Times(E, 32), Sums!Times(0..31, m)) \in SUBSET (0..(m + 31))
  BY <1>4, <1>5 DEF Sums!Xor
<1> QED
  BY <1>6 DEF Codeword, m, E

\* One more byte shifts it by eight, and the byte goes to the first places.
LEMMA CodewordOfNext ==
  ASSUME NEW s \in Seq(SUBSET (0..7)), NEW b \in SUBSET (0..7)
  PROVE  Codeword(Append(s, b)) = Sums!Xor(Sums!Times(Codeword(s), 8), Sums!Times(Rev(b), 8))
<1> DEFINE m == 8 * Len(s)
           E == Sums!Exponents(s)
           A == Sums!Times(E, 40)
           B == Sums!Times(Low(b), 32)
           I == Sums!Times(0..31, m + 8)
<1>1. m \in Int /\ E \in SUBSET Int /\ 8 * Len(Append(s, b)) = m + 8
  <2>1. Len(s) \in Nat /\ Len(Append(s, b)) = Len(s) + 1
    OBVIOUS
  <2>2. E \in SUBSET (0..(8 * Len(s) - 1))
    BY ExponentsIs
  <2> QED
    BY <2>1, <2>2
<1>2. Low(b) \in SUBSET Int /\ 0..31 \in SUBSET Int /\ Rev(b) \in SUBSET Int
  <2>1. \A k \in b : 7 - k \in Int /\ 31 - k \in Int
    OBVIOUS
  <2> QED
    BY <2>1 DEF Low, Rev
<1> HIDE DEF m, E
<1>3. Sums!Times(Sums!Times(E, 8), 32) = A /\ Sums!Times(Sums!Times(E, 32), 8) = A
  <2>1. 8 \in Int /\ 32 \in Int /\ 8 + 32 = 40 /\ 32 + 8 = 40
    OBVIOUS
  <2>2. /\ Sums!Times(Sums!Times(E, 8), 32) = Sums!Times(E, 8 + 32)
        /\ Sums!Times(Sums!Times(E, 32), 8) = Sums!Times(E, 32 + 8)
    BY <1>1, <2>1, TimesTwice
  <2> QED
    BY <2>1, <2>2
<1>4. Sums!Times(Sums!Times(0..31, m), 8) = I
  <2>1. 8 \in Int
    OBVIOUS
  <2> QED
    BY <1>1, <1>2, <2>1, TimesTwice
<1>5. Sums!Times(Rev(b), 8) = B
  <2>1. \A k \in b : (31 - k) + 8 = (7 - k) + 32
    OBVIOUS
  <2>2. Sums!Times(Rev(b), 8) = {(31 - k) + 8 : k \in b}
    BY DEF Sums!Times, Rev
  <2>3. B = {(7 - k) + 32 : k \in b}
    BY DEF Sums!Times, Low
  <2> QED
    BY <2>1, <2>2, <2>3
<1>6. Sums!Exponents(Append(s, b)) = Sums!Xor(Sums!Times(E, 8), Low(b))
  BY ExponentsOfNext DEF E
<1>7. Sums!Times(E, 8) \in SUBSET Int /\ Sums!Times(E, 32) \in SUBSET Int /\ Sums!Times(0..31, m) \in SUBSET Int
  <2>1. 8 \in Int /\ 32 \in Int
    OBVIOUS
  <2> QED
    BY <1>1, <1>2, <2>1, TermsOfTimes
<1>8. Sums!Times(Sums!Xor(Sums!Times(E, 8), Low(b)), 32) = Sums!Xor(A, B)
  <2>1. 32 \in Int
    OBVIOUS
  <2>2. Sums!Times(Sums!Xor(Sums!Times(E, 8), Low(b)), 32)
          = Sums!Xor(Sums!Times(Sums!Times(E, 8), 32), Sums!Times(Low(b), 32))
    BY <2>1, <1>2, <1>7, TimesOfXor
  <2> QED
    BY <2>2, <1>3
<1>9. Sums!Times(Sums!Xor(Sums!Times(E, 32), Sums!Times(0..31, m)), 8) = Sums!Xor(A, I)
  <2>1. 8 \in Int
    OBVIOUS
  <2>2. Sums!Times(Sums!Xor(Sums!Times(E, 32), Sums!Times(0..31, m)), 8)
          = Sums!Xor(Sums!Times(Sums!Times(E, 32), 8), Sums!Times(Sums!Times(0..31, m), 8))
    BY <2>1, <1>7, TimesOfXor
  <2> QED
    BY <2>2, <1>3, <1>4
<1> HIDE DEF A, B, I
<1>10. Codeword(Append(s, b)) = Sums!Xor(Sums!Xor(A, B), I)
  BY <1>1, <1>6, <1>8, Zenon DEF Codeword, I
<1>11. Codeword(s) = Sums!Xor(Sums!Times(E, 32), Sums!Times(0..31, m))
  BY DEF Codeword, E, m
<1>12. Sums!Xor(Sums!Xor(A, B), I) = Sums!Xor(Sums!Xor(A, I), B)
  BY XorSelf
<1> QED
  BY <1>5, <1>9, <1>10, <1>11, <1>12

\* The variable crc is the remainder of what has been read.
LEMMA AbsorbKeepsRemainder ==
  ASSUME NEW s \in Seq(SUBSET (0..7)), NEW b \in SUBSET (0..7), Len(s) < MaxSent,
         NEW c \in SUBSET (0..31), Rev(c) = Sums!Remainder(Codeword(s))
  PROVE  /\ Sums!Absorb(c, b) \in SUBSET (0..31)
         /\ Rev(Sums!Absorb(c, b)) = Sums!Remainder(Codeword(Append(s, b)))
<1> DEFINE m == 8 * Len(s) + 31
           p == Codeword(s)
           r == Rev(c)
           q == Rev(b)
<1>1. m \in Nat /\ m >= 31 /\ m + 8 <= LastBit /\ LastBit >= 39 /\ LastBit \in Nat
  BY SumsAre DEF LastBit
<1>2. p \in SUBSET (0..m)
  BY CodewordIs
<1>3. b \in SUBSET (0..31) /\ q \in SUBSET (0..31) /\ r \in SUBSET (0..31) /\ q \in SUBSET Int /\ r \in SUBSET Int
  <2>1. b \in SUBSET (0..31)
    OBVIOUS
  <2>2. q \in SUBSET (0..31) /\ r \in SUBSET (0..31)
    BY <2>1, RevIs
  <2> HIDE DEF q, r
  <2> QED
    BY <2>1, <2>2
<1>4. /\ Sums!Absorb(c, b) \in SUBSET (0..31)
      /\ Rev(Sums!Absorb(c, b)) = Sums!Remainder(Sums!Times(Rev(Sums!Xor(c, b)), 8))
  BY <1>1, <1>3, AbsorbIsRemainder
<1>5. Rev(Sums!Xor(c, b)) = Sums!Xor(r, q)
  BY <1>3, RevOfXor
<1>6. r = Sums!Remainder(p)
  OBVIOUS
<1> HIDE DEF m, p, r, q
<1>7. Sums!Times(Sums!Xor(r, q), 8) = Sums!Xor(Sums!Times(r, 8), Sums!Times(q, 8))
  <2>1. 8 \in Int
    OBVIOUS
  <2> QED
    BY <2>1, <1>3, TimesOfXor
<1>8. /\ Sums!Times(r, 8) \in SUBSET (0..LastBit) /\ Sums!Times(q, 8) \in SUBSET (0..LastBit)
      /\ Sums!Times(p, 8) \in SUBSET (0..LastBit)
  <2>1. 8 \in Nat /\ 31 \in Int /\ m \in Int
    BY <1>1
  <2>2. /\ Sums!Times(r, 8) \in SUBSET (0..(31 + 8)) /\ Sums!Times(q, 8) \in SUBSET (0..(31 + 8))
        /\ Sums!Times(p, 8) \in SUBSET (0..(m + 8))
    BY <2>1, <1>2, <1>3, TimesWithin
  <2>3. \A x \in 0..(31 + 8) : x \in 0..LastBit
    BY <1>1
  <2>4. \A x \in 0..(m + 8) : x \in 0..LastBit
    BY <1>1
  <2> QED
    BY <2>2, <2>3, <2>4
<1>9. Sums!Remainder(Sums!Xor(Sums!Times(r, 8), Sums!Times(q, 8)))
        = Sums!Xor(Sums!Remainder(Sums!Times(r, 8)), Sums!Remainder(Sums!Times(q, 8)))
  BY <1>8, RemainderOfXor
<1>10. Sums!Remainder(Sums!Times(p, 8)) = Sums!Remainder(Sums!Times(r, 8))
  <2>1. 8 \in Nat
    OBVIOUS
  <2>2. Sums!Remainder(Sums!Times(p, 8)) = Sums!Remainder(Sums!Times(Sums!Remainder(p), 8))
    BY <2>1, <1>1, <1>2, RemainderOfTimes, SMTT(30)
  <2> QED
    BY <2>2, <1>6
<1>11. Sums!Remainder(Sums!Xor(Sums!Times(p, 8), Sums!Times(q, 8)))
         = Sums!Xor(Sums!Remainder(Sums!Times(p, 8)), Sums!Remainder(Sums!Times(q, 8)))
  BY <1>8, RemainderOfXor
<1>12. Codeword(Append(s, b)) = Sums!Xor(Sums!Times(p, 8), Sums!Times(q, 8))
  BY CodewordOfNext DEF p, q
<1> QED
  BY <1>4, <1>5, <1>7, <1>9, <1>10, <1>11, <1>12

\* Each crc is the remainder of what has been sent and received.
SumInv ==
  /\ sent \in Seq(SUBSET (0..7)) /\ received \in Seq(SUBSET (0..7))
  /\ Len(received) = Len(sent) /\ Len(sent) <= MaxSent
  /\ crcSent \in SUBSET (0..31) /\ Rev(crcSent) = Sums!Remainder(Codeword(sent))
  /\ crcReceived \in SUBSET (0..31) /\ Rev(crcReceived) = Sums!Remainder(Codeword(received))

LEMMA SumInvInit ==
  ASSUME Sums!Init PROVE SumInv
<1>1. sent = <<>> /\ received = <<>> /\ crcSent = 0..31 /\ crcReceived = 0..31
  BY DEF Sums!Init, Sums!Ones
<1>2. <<>> \in Seq(SUBSET (0..7)) /\ Len(<<>>) = 0 /\ 0 <= MaxSent
  BY SumsAre
<1>3. Codeword(<<>>) = 0..31
  <2>1. Sums!Exponents(<<>>) = {}
    <3>1. DOMAIN <<>> = {}
      OBVIOUS
    <3>2. Sums!Exponents(<<>>) = UNION {}
      BY <3>1 DEF Sums!Exponents
    <3> QED
      BY <3>2
  <2>2. Sums!Times({}, 32) = {}
    BY DEF Sums!Times
  <2>3. Sums!Times(0..31, 8 * 0) = 0..31
    <3>1. 8 * 0 = 0 /\ \A e \in 0..31 : e + 0 = e
      OBVIOUS
    <3> QED
      BY <3>1 DEF Sums!Times
  <2>4. Sums!Xor({}, 0..31) = 0..31
    BY DEF Sums!Xor
  <2> QED
    BY <2>1, <2>2, <2>3, <2>4, <1>2 DEF Codeword
<1>4. Sums!Remainder(0..31) = 0..31
  BY RemainderIs
<1>5. Rev(0..31) = 0..31
  <2>1. Rev(0..31) \in SUBSET (0..31) /\ \A x \in 0..31 : x \in Rev(0..31) <=> 31 - x \in 0..31
    BY RevIs
  <2>2. \A x \in 0..31 : 31 - x \in 0..31
    OBVIOUS
  <2> QED
    BY <2>1, <2>2
<1> QED
  BY <1>1, <1>2, <1>3, <1>4, <1>5 DEF SumInv

LEMMA SendKeepsRemainders ==
  ASSUME SumInv, NEW b \in SentBytes, NEW e \in Errors, Sums!Send(b, e) PROVE SumInv'
<1> DEFINE d == Sums!Xor(b, e)
<1>1. b \in SUBSET (0..7) /\ d \in SUBSET (0..7)
  BY SumsAre DEF Sums!Xor
<1> HIDE DEF d
<1>2. /\ Len(sent) < MaxSent /\ sent' = Append(sent, b) /\ received' = Append(received, d)
      /\ crcSent' = Sums!Absorb(crcSent, b) /\ crcReceived' = Sums!Absorb(crcReceived, d)
  BY DEF Sums!Send, d
<1>3. /\ sent \in Seq(SUBSET (0..7)) /\ received \in Seq(SUBSET (0..7)) /\ Len(received) = Len(sent)
      /\ crcSent \in SUBSET (0..31) /\ Rev(crcSent) = Sums!Remainder(Codeword(sent))
      /\ crcReceived \in SUBSET (0..31) /\ Rev(crcReceived) = Sums!Remainder(Codeword(received))
  BY DEF SumInv
<1>4. crcSent' \in SUBSET (0..31) /\ Rev(crcSent') = Sums!Remainder(Codeword(sent'))
  BY <1>1, <1>2, <1>3, AbsorbKeepsRemainder
<1>5. crcReceived' \in SUBSET (0..31) /\ Rev(crcReceived') = Sums!Remainder(Codeword(received'))
  BY <1>1, <1>2, <1>3, AbsorbKeepsRemainder
<1>6. /\ sent' \in Seq(SUBSET (0..7)) /\ received' \in Seq(SUBSET (0..7))
      /\ Len(received') = Len(sent') /\ Len(sent') <= MaxSent
  BY <1>1, <1>2, <1>3, SumsAre
<1> QED
  BY <1>4, <1>5, <1>6, Zenon DEF SumInv

\* SumInv is inductive.
LEMMA SumInvHolds == Sums!Spec => []SumInv
<1>1. Sums!Init => SumInv
  BY SumInvInit
<1>2. SumInv /\ [Sums!Next]_(Sums!vars) => SumInv'
  <2> SUFFICES ASSUME SumInv, [Sums!Next]_(Sums!vars) PROVE SumInv'
    OBVIOUS
  <2>1. CASE UNCHANGED Sums!vars
    <3>1. SumInv /\ sent' = sent /\ received' = received /\ crcSent' = crcSent /\ crcReceived' = crcReceived
      BY <2>1 DEF Sums!vars
    <3> QED
      BY <3>1, Zenon DEF SumInv
  <2>2. CASE Sums!Next
    <3>1. PICK b \in SentBytes, e \in Errors : Sums!Send(b, e)
      BY <2>2 DEF Sums!Next
    <3> QED
      BY <3>1, SendKeepsRemainders
  <2> QED
    BY <2>1, <2>2
<1> QED
  BY <1>1, <1>2, PTL DEF Sums!Spec

\* Read from the other end, the remainder is the variable crc.
LEMMA SumsAreRemainders ==
  ASSUME SumInv PROVE Sums!IsRemainder
<1> DEFINE c == Rev(crcSent)
<1>1. crcSent \in SUBSET (0..31) /\ c = Sums!Remainder(Codeword(sent))
  BY DEF SumInv
<1>2. Rev(c) = crcSent
  BY <1>1, RevIs
<1> HIDE DEF c
<1>3. {31 - e : e \in Sums!Remainder(Codeword(sent))} = crcSent
  BY <1>1, <1>2 DEF Rev
<1> QED
  BY <1>3, Zenon DEF Sums!IsRemainder, Sums!Result, Sums!Ones, Sums!Degree, Codeword

\* Two numbers of a set, the first and the last of it.
LEMMA Ends ==
  ASSUME NEW m \in Nat, NEW d \in SUBSET (0..m), d # {}
  PROVE  /\ Sums!Min(d) \in d /\ Sums!Max(d) \in d
         /\ \A e \in d : Sums!Min(d) <= e /\ e <= Sums!Max(d)
<1>1. Largest(d) \in d /\ \A e \in d : e <= Largest(d)
  BY LargestUpTo
<1>2. Sums!Max(d) = Largest(d)
  BY Zenon DEF Sums!Max, Largest
<1>3. PICK n \in d : \A e \in d : n <= e
  <2>1. d \in SUBSET Nat
    OBVIOUS
  <2> QED
    BY <2>1, LeastOf
<1>4. Sums!Min(d) \in d /\ \A e \in d : Sums!Min(d) <= e
  BY <1>3, Zenon DEF Sums!Min
<1> QED
  BY <1>1, <1>2, <1>4

\* The two remainders differ by that of the errors, a shift of less than 32 neighbouring terms.
LEMMA BurstsAreNoticed ==
  ASSUME SumInv PROVE Sums!NoticesBursts
<1> DEFINE E == Sums!Exponents(sent)
           F == Sums!Exponents(received)
           d == Sums!Xor(E, F)
           n == Len(sent)
           I == Sums!Times(0..31, 8 * n)
<1> SUFFICES ASSUME Sums!Burst(d), Sums!Result(crcSent) = Sums!Result(crcReceived) PROVE FALSE
  BY Zenon DEF Sums!NoticesBursts
<1>1. /\ sent \in Seq(SUBSET (0..7)) /\ received \in Seq(SUBSET (0..7)) /\ Len(received) = n /\ n <= MaxSent
      /\ crcSent \in SUBSET (0..31) /\ Rev(crcSent) = Sums!Remainder(Codeword(sent))
      /\ crcReceived \in SUBSET (0..31) /\ Rev(crcReceived) = Sums!Remainder(Codeword(received))
      /\ n \in Nat /\ LastBit \in Nat /\ 8 * n + 31 <= LastBit
  BY SumsAre DEF SumInv, LastBit
<1>2. crcSent = crcReceived
  <2>1. (0..31) \ crcSent = (0..31) \ crcReceived
    BY DEF Sums!Result, Sums!Ones
  <2> QED
    BY <2>1, <1>1
<1>3. Sums!Remainder(Codeword(sent)) = Sums!Remainder(Codeword(received))
  BY <1>1, <1>2
<1>4. E \in SUBSET (0..(8 * n - 1)) /\ F \in SUBSET (0..(8 * n - 1))
  BY <1>1, ExponentsIs
<1>5. Codeword(sent) = Sums!Xor(Sums!Times(E, 32), I) /\ Codeword(received) = Sums!Xor(Sums!Times(F, 32), I)
  BY <1>1, Zenon DEF Codeword
<1>6. Codeword(sent) \in SUBSET (0..LastBit) /\ Codeword(received) \in SUBSET (0..LastBit)
  <2>1. Codeword(sent) \in SUBSET (0..(8 * n + 31)) /\ Codeword(received) \in SUBSET (0..(8 * n + 31))
    BY <1>1, CodewordIs
  <2>2. \A x \in 0..(8 * n + 31) : x \in 0..LastBit
    BY <1>1
  <2> QED
    BY <2>1, <2>2
<1>7. d # {} /\ Sums!Max(d) - Sums!Min(d) < 32
  BY DEF Sums!Burst
<1>8. d \in SUBSET (0..(8 * n - 1)) /\ d \in SUBSET (0..LastBit)
  <2>1. \A x \in 0..(8 * n - 1) : x \in 0..LastBit
    BY <1>1
  <2>2. d \in SUBSET (0..(8 * n - 1))
    BY <1>4 DEF Sums!Xor
  <2> QED
    BY <2>1, <2>2
<1> HIDE DEF E, F, I
<1>9. Sums!Xor(Codeword(sent), Codeword(received)) = Sums!Times(d, 32)
  <2>1. 32 \in Int /\ E \in SUBSET Int /\ F \in SUBSET Int
    BY <1>4
  <2>2. Sums!Times(d, 32) = Sums!Xor(Sums!Times(E, 32), Sums!Times(F, 32))
    BY <2>1, TimesOfXor
  <2> QED
    BY <2>2, <1>5, XorSelf
<1>10. Sums!Remainder(Sums!Times(d, 32)) = {}
  <2>1. Sums!Remainder(Sums!Xor(Codeword(sent), Codeword(received)))
          = Sums!Xor(Sums!Remainder(Codeword(sent)), Sums!Remainder(Codeword(received)))
    BY <1>6, RemainderOfXor
  <2>2. Sums!Xor(Sums!Remainder(Codeword(sent)), Sums!Remainder(Codeword(received))) = {}
    BY <1>3, XorSelf
  <2> QED
    BY <2>1, <2>2, <1>9
<1> HIDE DEF d, n
<1> DEFINE a == Sums!Min(d)
           z == Sums!Max(d)
           w == {e - a : e \in d}
<1>11. /\ a \in d /\ z \in d /\ a \in 0..(8 * n - 1) /\ z \in 0..(8 * n - 1) /\ z - a \in 0..31
       /\ \A e \in d : a <= e /\ e <= z /\ e \in Int
  <2>1. a \in d /\ z \in d /\ \A e \in d : a <= e /\ e <= z
    <3>1. d \in SUBSET (0..LastBit) /\ d # {} /\ LastBit \in Nat
      BY <1>1, <1>7, <1>8
    <3>2. /\ Sums!Min(d) \in d /\ Sums!Max(d) \in d
          /\ \A e \in d : Sums!Min(d) <= e /\ e <= Sums!Max(d)
      BY <3>1, Ends
    <3> QED
      BY <3>2
  <2> HIDE DEF a, z
  <2>2. a \in 0..(8 * n - 1) /\ z \in 0..(8 * n - 1) /\ \A e \in d : e \in Int
    <3>1. \A e \in d : e \in 0..(8 * n - 1)
      BY <1>8
    <3>2. a \in 0..(8 * n - 1) /\ z \in 0..(8 * n - 1)
      BY <2>1, <3>1
    <3> QED
      BY <3>1, <3>2
  <2>3. a <= z /\ z - a < 32
    BY <2>1, <2>2, <1>7 DEF a, z
  <2> QED
    BY <2>1, <2>2, <2>3
<1> HIDE DEF a, z
<1>12. w \in SUBSET (0..31) /\ w # {} /\ \A x \in w : x <= z - a
  <2>1. ASSUME NEW e \in d PROVE e - a \in 0..31 /\ e - a <= z - a
    BY <1>11
  <2>2. a - a \in w
    BY <1>11
  <2> QED
    BY <2>1, <2>2
<1>13. Sums!Times(d, 32) = Sums!Times(w, a + 32)
  <2>1. \A e \in d : (e - a) + (a + 32) = e + 32
    BY <1>11
  <2>2. Sums!Times(w, a + 32) = {(e - a) + (a + 32) : e \in d}
    BY DEF Sums!Times
  <2>3. Sums!Times(d, 32) = {e + 32 : e \in d}
    BY DEF Sums!Times
  <2>4. {(e - a) + (a + 32) : e \in d} = {e + 32 : e \in d}
    BY <2>1, SMTT(40)
  <2> QED
    BY <2>2, <2>3, <2>4
<1> HIDE DEF w
<1>14. Sums!Remainder(Sums!Times(w, a + 32)) # {}
  <2> DEFINE t == z - a
             k == a + 32
  <2>1. k \in Nat /\ t \in 0..31 /\ t + k = z + 32
    BY <1>11
  <2>2. z + 32 <= LastBit
    BY <1>1, <1>11
  <2>3. \A x \in w : x <= t
    BY <1>12
  <2>4. t + k <= LastBit
    BY <2>1, <2>2
  <2> HIDE DEF t, k
  <2>5. Sums!Remainder(Sums!Times(w, k)) # {}
    BY <2>1, <2>3, <2>4, <1>12, BurstIsSomething
  <2> QED
    BY <2>5 DEF k
<1> QED
  BY <1>10, <1>13, <1>14

\* For any bytes sent and any errors: crc32 is the remainder that the standard polynomial leaves,
\* and it is never the same for bytes that differ within 32 neighbouring bits (binary.cpp:8-22).
THEOREM SumsNoticeTheirErrors == Sums!Spec => []SumsNoticeErrors
<1>1. SumInv => SumsNoticeErrors
  BY SumsAreRemainders, BurstsAreNoticed DEF SumsNoticeErrors
<1> QED
  BY <1>1, SumInvHolds, PTL
=============================================================================
