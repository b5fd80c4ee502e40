\* One run; the auditor is asked about the first answer, the second is returned.
SPECIFICATION Spec
CONSTANTS
  Version = {1}
  Flag = {}
  MaxObjects = 0
  Runs = 1
INVARIANT AuditedIsReported
CHECK_DEADLOCK FALSE
