SPECIFICATION FairSpec
CONSTANTS
  SaveParams <- TwoSavePoints
  RetryDelay = 1
  MaxAge = 2
  MaxChanges = 2
  MaxInc = 1
  MaxFailures = 2
PROPERTIES
  DirtyEventuallySaved
  ShutdownDecides
CHECK_DEADLOCK FALSE
