\* Two writers on one day, and nothing goes wrong.
SPECIFICATION AuditSpec
CONSTANTS
  Writer = {w1, w2}
  MaxRecords = 2
  LastDay = 1
  MaxKeys = 1
  Faults = {}
INVARIANT ChainLinked
CHECK_DEADLOCK FALSE
