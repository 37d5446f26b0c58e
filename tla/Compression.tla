----------------------------- MODULE Compression -----------------------------
(***************************************************************************)
(* LZ4Compresser and LZ4Decompresser: a source goes through one of them    *)
(* and the result through the other.  An output is what it stands for, the *)
(* number of leading bytes of the source the library was told of, and its  *)
(* own length.                                                             *)
(***************************************************************************)
EXTENDS Lz4

CONSTANTS
  Sizes  \* sizes of sources and destinations

\* Assumed of the instances.
CompressionAssumption == Sizes \subseteq Nat

VARIABLES
  size,     \* the size of the source
  step,     \* "source", "threw", or what the last call returned: "packed" or "unpacked"
  covers,   \* the bytes of the source the compressed data stands for
  length,   \* the length of the compressed data
  restored  \* the bytes decompression has returned

vars == <<size, step, covers, length, restored>>

Init ==
  /\ size \in Sizes
  /\ step = "source"
  /\ covers = 0 /\ length = 0 /\ restored = 0

Throw == step' = "threw" /\ UNCHANGED <<size, covers, length, restored>>

Packed(n, c) ==
  /\ step' = "packed" /\ covers' = n /\ length' = c
  /\ UNCHANGED <<size, restored>>

\* What the library returned.  Mutation: its failure goes unnoticed.
Unchecked(n, c) == Packed(n, c)
Checked(n, c) == IF c <= 0 THEN Throw ELSE Packed(n, c)

\* Mutation: as much room as there are bytes in the source.
CompressTight ==
  /\ step = "source" /\ size # 0
  /\ \E c \in LZ4_compress_default(ToInt(size), ToInt(size)) : Checked(ToInt(size), c)

\* compress has as much room as the library asks for; an empty source has an empty output.
Compress ==
  /\ step = "source"
  /\ \/ size = 0 /\ Packed(0, 0)
     \/ /\ size # 0
        /\ LET n == ToInt(size)
           IN  \E c \in LZ4_compress_default(n, LZ4_compressBound(n)) : Checked(n, c)

\* compressInplace asks for that room in its destination, and lets the library use all of it.
CompressInplace(dest) ==
  /\ step = "source"
  /\ \/ size = 0 /\ Packed(0, 0)
     \/ size # 0 /\ dest < LZ4_compressBound(ToInt(size)) /\ Throw
     \/ /\ size # 0 /\ dest >= LZ4_compressBound(ToInt(size))
        /\ LET n == ToInt(size)
           IN  \E c \in LZ4_compress_default(n, ToInt(dest)) : Checked(n, c)

\* decompress with originalSize, decompressInplace with the size of its destination.
Unpack(capacity) ==
  /\ step = "packed"
  /\ LET n == IF length = 0 THEN 0 ELSE LZ4_decompress_safe(covers, ToInt(capacity))
     IN  IF n < 0 THEN Throw
         ELSE step' = "unpacked" /\ restored' = n /\ UNCHANGED <<size, covers, length>>

Next ==
  \/ Compress
  \/ \E dest \in Sizes : CompressInplace(dest) \/ Unpack(dest)

Spec == Init /\ [][Next]_vars
-----------------------------------------------------------------------------
(***************************************************************************)
(* What comes out is what went in, or an exception: no source of less than *)
(* 4 GB is cut short by the casts to int, however large the destination    *)
(* (compression.cpp, lines 7-76).                                          *)
(***************************************************************************)
RoundTrip == step = "unpacked" /\ size < IntWord => restored = size

(***************************************************************************)
(* A source LZ4 can take is compressed by compress, and by compressInplace *)
(* into any destination of the bound or more that an int can count.        *)
(***************************************************************************)
EnoughRoom ==
  [][/\ size <= MaxInput /\ Compress => step' = "packed"
     /\ \A dest \in Sizes :
          /\ size <= MaxInput /\ dest >= LZ4_compressBound(size) /\ 2 * dest < IntWord
          /\ CompressInplace(dest)
          => step' = "packed"]_vars
=============================================================================
