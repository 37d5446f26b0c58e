\* Two tables, two slices or three chunks; one of the tables may meet an exception in addChunk.
SPECIFICATION MCSpec
SYMMETRY Symmetry
CONSTANTS
  m1 = m1
  m2 = m2
  h1 = h1
  h2 = h2
  h3 = h3
  d0 = d0
  d1 = d1
  d2 = d2
  w1 = w1
  w2 = w2
  c1 = c1
  c2 = c2
  c3 = c3
  Table <- MCTable
  Hash <- MCHash
  Data <- MCData
  SizeOf <- MCSizeOf
  NoData = NoData
  MaxData <- MCTight
  Word = 1000
  Failing <- MCFailing
  Windows <- MCWindows
  Texts <- MCTexts
  ByteValues = {1}
  Offsets = {0, 1}
  Lengths = {0, 2}
  MaxOffset = 1
  MaxBytes = 4
  MaxHeap = 2
  ChunkSlots <- MCChunkSlots
  ChunkContents <- MCContents
  Of <- MCOf
  Zero = zero
  Moved = moved
  MaxBuffers = 3
INVARIANTS
  CountsWithinLimit
  NeverInconsistent
  ExtractsAccepted
  ChainIsHonest
  SlicesKeepTheirBytes
  ChunksGoByTheirHash
PROPERTIES
  AnswersStand
  SlicesActAsBytes
CHECK_DEADLOCK FALSE
