SPECIFICATION Spec
CONSTANTS
  t1 = t1
  t2 = t2
  b1 = b1
  b2 = b2
  Threads = {t1, t2}
  Buffers = {b1, b2}
  Depth = 1
  MaxToken = 2
  MaxOrdinal = 1
  MaxSize = 2
  MaxVersion = 2
  Configurations <- BothVersions
  Edits <- NoEdits
  Sizes = {1}
  Works = {0}
  AggregateSize = 1
  Calls <- LifetimeCalls
SYMMETRY Symmetry
CHECK_DEADLOCK FALSE
INVARIANTS
  ReclaimedWhenUnheld
  LiveBytesExact
PROPERTIES
  StaleAliasStaysStale
