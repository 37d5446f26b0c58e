\* The writers, with memory enough for every insertion: commits are atomic.
SPECIFICATION Spec
CONSTANTS
  t1 = t1
  t2 = t2
  v1 = v1
  v2 = v2
  c1 = c1
  c2 = c2
  h0 = h0
  h1 = h1
  h2 = h2
  Thread <- MCThread
  View <- MCView
  Hash <- MCHash
  Chunk <- MCChunk
  HashOf <- MCHashOf
  EmptyHash = h0
  NoChunk = NoChunk
  None = None
  Calls <- Writers
  Requests <- MCRequests
  Roots <- MCRoots
  AllocFails = FALSE
INVARIANTS
  NothingUncommitted
PROPERTIES
  ImplementsRootedStore
