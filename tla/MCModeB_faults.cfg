SPECIFICATION FairSpec
CONSTANTS
  MaxFd = 12
  PipeCap = 3
  MaxFiles = 2
  MayInherit = {3, 4, 5, 6, 7}
  Faults = {"spawn", "bytes", "priv"}
INVARIANTS TypeOK RolesCorrect OkMeansComplete PrivNeverSeesEof
PROPERTIES AbsSpec CleanRunSucceeds PrivDeathIsReported
CHECK_DEADLOCK FALSE
