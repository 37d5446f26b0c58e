\* Three receivers, two values, three sends; copies that do not throw.
SPECIFICATION FairSpec
CONSTANTS
  t1 = t1
  t2 = t2
  t3 = t3
  a = a
  b = b
  Thread <- MCThread
  Value <- MCValue
  MaxSends = 3
  CopyFails = FALSE
INVARIANTS
  ChannelInv
PROPERTIES
  CloseReleases
  ImplementsChannel
