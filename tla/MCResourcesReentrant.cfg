SPECIFICATION Spec
CONSTANTS
  t1 = t1
  t2 = t2
  b1 = b1
  b2 = b2
  Threads = {t1, t2}
  Buffers = {b1, b2}
  Depth = 2
  MaxToken = 1
  MaxOrdinal = 3
  MaxSize = 2
  MaxVersion = 2
  Configurations <- TrustedOnly
  Edits <- NoEdits
  Sizes = {1}
  Works = {0, 1}
  AggregateSize = 2
  Calls <- ReentrantCalls
SYMMETRY Symmetry
CHECK_DEADLOCK FALSE
INVARIANTS
  LiveBytesExact
  OrdinalsUnique
  NoWaitForWaiter
PROPERTIES
  CountersNeverRunBack
