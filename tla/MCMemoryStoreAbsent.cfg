\* Whether absent returns.
SPECIFICATION FairSpec
CONSTANTS
  t1 = t1
  t2 = t2
  v1 = v1
  v2 = v2
  c1 = c1
  c2 = c2
  h0 = h0
  h1 = h1
  h2 = h2
  Thread <- MCThread
  View <- MCView
  Hash <- MCHash1
  Chunk <- MCChunk1
  HashOf <- MCHashOf1
  EmptyHash = h0
  NoChunk = NoChunk
  None = None
  Calls <- Blocking
  Requests <- MCRequests1
  Roots <- MCHash1
  AllocFails = FALSE
PROPERTIES
  AbsentReturns
\* A thread that has called absent may block for good.
CHECK_DEADLOCK FALSE
