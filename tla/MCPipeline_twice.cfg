\* Two runs with one nonce, every backend, calls failing at will.
SPECIFICATION Spec
CONSTANTS
  Version = {1, 2}
  Flag = {"url"}
  MaxObjects = 2
  Runs = 2
INVARIANTS Reproducible PassedByAll FlagsAsPromptedReach SurfacedAfterRetry
CHECK_DEADLOCK FALSE
