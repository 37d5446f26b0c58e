-------------------------------- MODULE Chunks --------------------------------
(***************************************************************************)
(* Chunks in memory: the tables that hold them, the slices of their bytes, *)
(* and the chunks themselves, side by side.  They share no state.          *)
(***************************************************************************)
EXTENDS MemTableProps

CONSTANTS
  Windows, Texts, ByteValues, Offsets, Lengths, MaxOffset, MaxBytes, MaxHeap,  \* of ByteSlice
  ChunkSlots, ChunkContents, Of, Zero, Moved, MaxBuffers                       \* of Chunk

VARIABLES
  heap, slot, lent, kin, within, snapshot, edited,  \* of ByteSlice
  buffers, chunk, unsure                            \* of Chunk

S == INSTANCE ByteSlice WITH Slots <- Windows, Contents <- Texts, Values <- ByteValues, MaxBuffers <- MaxHeap

\* Chunks go by the addresses the tables know them by.
C == INSTANCE Chunk WITH Slots <- ChunkSlots, Contents <- ChunkContents, Hashes <- Hash

ASSUME SliceAssumption == S!ByteSliceAssumption
ASSUME ChunkAssumption == C!ChunkAssumption

\* Whoever looks a chunk up by its hash takes two contents with one hash to be one: the hash is
\* as good as its sha512 (hash.h:167-180).
ASSUME NoCollisions == \A x, y \in ChunkContents : Of[x] = Of[y] => x = y

sliceVars == <<heap, slot, lent, kin, within, snapshot, edited>>
chunkVars == <<buffers, chunk, unsure>>
-----------------------------------------------------------------------------
\* No slice that callers keep within its buffer reaches beyond it, or shows edits of bytes it does not
\* share (slice_test.cc:28).
SlicesKeepTheirBytes == S!WindowsAreBacked /\ S!EditsStayInTheFamily
\* An edit within a slice shows in it, wherever its window is, and slices from the start
\* of their buffers are compared and joined as their bytes are (slice.h:52-107).
SlicesActAsBytes == []S!ComparesBytes /\ S!EditsAreSeen /\ S!ConcatsBytes
\* A chunk goes by the hash of its bytes, through copies, moves and assignments, and chunks are
\* equal exactly when their hashes are (chunk.h:13-51).
ChunksGoByTheirHash == C!HashIsOfData /\ C!EqualByTheirHashes
=============================================================================
