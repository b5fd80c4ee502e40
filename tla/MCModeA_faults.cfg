\* Files that may shrink or be refused, taken descriptors, a reader that may die.
SPECIFICATION FairSpec
CONSTANTS
  MaxFd = 8
  PipeCap = 3
  CountLimit = 2
  PathLimit = 1
  EntryLimit = 2
  MaxFiles = 2
  Content = {0, 4, 5}
  MayInherit = {3, 4, 5}
  Faults = {"spawn", "reader"}
INVARIANTS TypeOK RolesCorrect FramesFaithful OkMeansWhole OverLimitRefused
PROPERTIES CleanRunSucceeds ReaderDeathIsReported
CHECK_DEADLOCK FALSE
