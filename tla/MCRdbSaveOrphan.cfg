SPECIFICATION Spec
CONSTANTS
  SaveParams <- TwoSavePoints
  RetryDelay = 1
  MaxAge = 2
  MaxChanges = 1
  MaxInc = 2
  MaxFailures = 0
INVARIANTS
  NothingOverwritesShutdownSave
CHECK_DEADLOCK FALSE
