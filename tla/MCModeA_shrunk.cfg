\* A file may shrink between the walk and the read; no fault, nothing inherited.
SPECIFICATION FairSpec
CONSTANTS
  MaxFd = 8
  PipeCap = 3
  CountLimit = 2
  PathLimit = 1
  EntryLimit = 2
  MaxFiles = 1
  Content = {0}
  MayInherit = {}
  Faults = {}
PROPERTY EofReachesReader
CHECK_DEADLOCK FALSE
