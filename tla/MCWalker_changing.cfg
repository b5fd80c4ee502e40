\* Every tree of four nodes, a change by others at any moment.
SPECIFICATION Spec
CONSTANTS
  LastNode = 3
  LargestFile = 3
  MaxChanges = 1
  MayBar = {2}
  MaxFiles = 2
  MaxBytesPerFile = 2
  MaxTotalBytes = 3
  MaxOpen = 3
  Chunk = 2
INVARIANTS TypeOK LimitsHold QuietTreeExact ShortOnlyIfShrunk
PROPERTY Terminates
