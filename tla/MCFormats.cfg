\* Two chunks of a table as declared and one more; compressed data, streams, strings, numbers, checksums.
SPECIFICATION MCSpec
CONSTANTS
  h1 = h1
  h2 = h2
  h3 = h3
  s0 = s0
  s2 = s2
  s5 = s5
  Thrown = Thrown
  IntWord = 4000
  MaxInput = 600
  Overhead = 14
  Outputs <- MCOutputs
  MaxChunkSize = 4000
  Hash <- MCHash
  Prefix <- MCPrefix
  SuffixOf <- MCSuffixOf
  Sizes = {1, 255, 256}
  numChunks = 2
  totalData = 511
  MaxAdds = 3
  SourceSizes <- MCSources
  StreamChunks <- MCStreamChunks
  ChunkSize <- MCChunkSize
  Shortfalls = {0, 1}
  Uint32Values = {0, 3}
  MaxStream = 2
  Inputs <- MCInputs
  Typos = {47, 58, 86, 87, 96, 97, 118, 119, 127}
  HashLen = 5
  ByteWord = 3
  Widths = {1, 2, 4}
  WriterSpace = 4
  MaxWritten = 5
  SentBytes <- MCSentBytes
  Errors <- MCErrors
  MaxSent = 5
INVARIANTS
  BufferSuffices
  EveryChunkIsFound
  NothingElseIsFound
  StreamsKeepChunks
  StringsStandForHashes
  NumbersComeBack
  SumsNoticeErrors
PROPERTIES
  CompressionIsLossless
CHECK_DEADLOCK FALSE
