SPECIFICATION DisciplinedSpec
CONSTANTS
  t1 = t1
  t2 = t2
  b1 = b1
  b2 = b2
  Threads = {t1, t2}
  Buffers = {b1}
  Depth = 2
  MaxToken = 1
  MaxOrdinal = 1
  MaxSize = 2
  MaxVersion = 2
  Configurations <- TrustedOnly
  Edits <- NoEdits
  Sizes = {1}
  Works = {0}
  AggregateSize = 1
  Calls <- DrainCalls
CHECK_DEADLOCK FALSE
PROPERTIES
  CallsReturnAfterRelease
  ReleasedContextReclaimed
