SPECIFICATION Spec
CONSTANTS
  t1 = t1
  t2 = t2
  b1 = b1
  b2 = b2
  Threads = {t1, t2}
  Buffers = {b1, b2}
  Depth = 1
  MaxToken = 1
  MaxOrdinal = 2
  MaxSize = 2
  MaxVersion = 3
  Configurations <- BoundedOnly
  Edits <- LimitEdits
  Sizes = {1}
  Works = {1}
  AggregateSize = 1
  Calls <- LedgerCalls
SYMMETRY Symmetry
CHECK_DEADLOCK FALSE
PROPERTIES
  PolicyEnforced
  NoConfigurationRollback
  ImplementsLedger
