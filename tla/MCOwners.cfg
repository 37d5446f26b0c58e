\* Four pointers, three proxies or three hashes.
SPECIFICATION MCSpec
SYMMETRY Symmetry
CONSTANTS
  t1 = t1
  t2 = t2
  t3 = t3
  t4 = t4
  p1 = p1
  p2 = p2
  p3 = p3
  v1 = v1
  v2 = v2
  Ptrs <- MCPtrs
  Weak = TRUE
  Proxies <- MCProxies
  Temp = Temp
  Objects <- MCObjects
  Values <- MCValues
  InPlace = InPlace
  Heap = Heap
  MoveThrows = TRUE
  None = None
  Null = Null
  Moved = Moved
  Hashes <- MCProxies
  Arrays <- MCPtrs
  ByteLen = 2
  ByteWord = 2
  Nil = Nil
INVARIANTS
  StrongIsAlive
  StorageOutlastsUse
  NothingLeaks
  ProxiesOwnTheirObjects
  WorthWhatItWasGiven
  HashesAreValues
PROPERTIES
  NeverRevived
CHECK_DEADLOCK FALSE
