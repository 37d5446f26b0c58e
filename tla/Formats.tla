------------------------------- MODULE Formats -------------------------------
(***************************************************************************)
(* Tables, compressed data, chunks in a stream, the strings of hashes,     *)
(* numbers and checksums, side by side.  They share no state; tables are   *)
(* compressed with the same library.                                       *)
(***************************************************************************)
EXTENDS TableWriterProps

CONSTANTS
  SourceSizes,                                     \* of Compression
  StreamChunks, ChunkSize, Shortfalls, Uint32Values, MaxStream, \* of ChunkStream
  Inputs, Typos, HashLen, Thrown,                  \* of Base32
  ByteWord, Widths, WriterSpace, MaxWritten,       \* of BigEndian
  SentBytes, Errors, MaxSent                       \* of Crc32

VARIABLES
  size, step, covers, length, restored,                  \* of Compression
  buffer, taken, serialized, short, source, position, got, mode, \* of ChunkStream
  bytes, text, decoded, parsed,                          \* of Base32
  file, given, reader, numbers, thrown,                  \* of BigEndian
  sent, received, crcSent, crcReceived                   \* of Crc32

Packing == INSTANCE Compression WITH Sizes <- SourceSizes

\* Streams that copies of the proxy share.
Streams == INSTANCE ChunkStream WITH
  Chunks <- StreamChunks, Size <- ChunkSize, SharedWriter <- TRUE, SharedReader <- TRUE,
  ShortReads <- TRUE, MaxChunks <- MaxStream

Strings == INSTANCE Base32 WITH ByteLen <- HashLen

Binary == INSTANCE BigEndian WITH Space <- WriterSpace, Length <- MaxWritten

Sums == INSTANCE Crc32 WITH Bytes <- SentBytes, Length <- MaxSent

ASSUME CompressionAssumption == Packing!CompressionAssumption
ASSUME StreamAssumption == Streams!ChunkStreamAssumption
ASSUME StringAssumption == Strings!Base32Assumption
ASSUME BinaryAssumption == Binary!BigEndianAssumption
ASSUME SumAssumption == Sums!Crc32Assumption

compressionVars == <<size, step, covers, length, restored>>
streamVars == <<buffer, taken, serialized, short, source, position, got, mode>>
stringVars == <<bytes, text, decoded, parsed>>
binaryVars == <<file, given, reader, numbers, thrown>>
sumVars == <<sent, received, crcSent, crcReceived>>
-----------------------------------------------------------------------------
\* What is decompressed is the whole source, however its size is cast; and a source LZ4 can take
\* is compressed where there is room for the bound (compression.cpp:11-71).
CompressionIsLossless == []Packing!RoundTrip /\ Packing!EnoughRoom
\* A stream holds what has been serialized, byte for byte; the same chunks are deserialized from
\* it, in order, but for one whose data was not taken whole; and a stream that ends inside a chunk
\* never passes for complete: as long as no write of a hash or a length came short (chunk.cpp:17-50).
StreamsKeepChunks == Streams!Delivered /\ Streams!RoundTrip /\ Streams!EndIsNoticed
\* A string holds the bits of its bytes, whatever the signs of the chars; decoding undoes encoding;
\* and Parse makes a hash of exactly the strings of the alphabet that are as long as one (hash.cpp:18-92).
StringsStandForHashes == Strings!EncodesBits /\ Strings!RoundTrip /\ Strings!ParsesHashes
\* Numbers of mixed widths come back as they were written, or an exception, and those of one
\* width are ordered as their bytes are (binary.h).
NumbersComeBack == Binary!ReadsBack /\ Binary!OrderIsOfBytes
\* crc32 is the remainder the standard polynomial leaves, and any error within 32 neighbouring
\* bits changes it (binary.cpp:14).
SumsNoticeErrors == Sums!IsRemainder /\ Sums!NoticesBursts
=============================================================================
