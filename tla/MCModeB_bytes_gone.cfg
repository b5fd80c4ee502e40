\* A file set the bytes reader may refuse; no fault, nothing inherited.
SPECIFICATION FairSpec
CONSTANTS
  MaxFd = 12
  PipeCap = 3
  MaxFiles = 1
  MayInherit = {}
  Faults = {}
PROPERTY EofReachesPriv
CHECK_DEADLOCK FALSE
