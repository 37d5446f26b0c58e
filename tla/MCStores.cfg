\* One chunk and one new root, or two paths, under fairness; no call of absent.
SPECIFICATION MCFairSpec
CONSTANTS
  t1 = t1
  t2 = t2
  v1 = v1
  v2 = v2
  p1 = p1
  p2 = p2
  s1 = s1
  s2 = s2
  c1 = c1
  h0 = h0
  h1 = h1
  Thread <- MCThread
  View <- MCView
  Path <- MCPath
  Store <- MCStore
  Root <- MCRoot
  EmptyHash = h0
  NoChunk = NoChunk
  None = None
  AllocFails = TRUE
PROPERTIES
  CallsReturn
  CreateReturns
INVARIANTS
  EachPathHasItsStore
  NewViewIsCurrent
\* A deadlock is a call that does not return.
CHECK_DEADLOCK FALSE
