\* Reads of several chunks beside the commits that move them.
SPECIFICATION Spec
CONSTANTS
  t1 = t1
  t2 = t2
  v1 = v1
  v2 = v2
  c1 = c1
  c2 = c2
  h0 = h0
  h1 = h1
  h2 = h2
  Thread <- MCThread
  View <- MCView1
  Hash <- MCHash
  Chunk <- MCChunk
  HashOf <- MCHashOf
  EmptyHash = h0
  NoChunk = NoChunk
  None = None
  Calls <- Readers
  Requests <- MCRequests
  Roots <- MCRoots
  AllocFails = TRUE
SYMMETRY Interchangeable
INVARIANTS
  TypeOK
  GetManyConsistent
\* A thread that has called absent may block for good.
CHECK_DEADLOCK FALSE
