\* A report that seck analyze saved is opened again.
SPECIFICATION Spec
CONSTANTS
  TextLimit = 0
  MaxFiles = 1
  MaxLines = 0
  PipeCap = 1
  Browser = {b1}
  Puller = {p1}
  MaxBlocks = 2
  Writer = {w1}
  MaxRecords = 1
  LastDay = 1
  MaxKeys = 1
  Faults = {}
  Thread = {t1}
  MaxCalls = 1
  Style = {"bare"}
INVARIANT SavedReportOpens
CHECK_DEADLOCK FALSE
