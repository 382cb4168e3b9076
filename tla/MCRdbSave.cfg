SPECIFICATION Spec
CONSTANTS
  SaveParams <- TwoSavePoints
  RetryDelay = 1
  MaxAge = 2
  MaxChanges = 2
  MaxInc = 2
  MaxFailures = 1
INVARIANTS
  TypeOK
  CrashLossBound
  DumpNeverTorn
  ShutdownDumpIsFinal
  SaveInv
CHECK_DEADLOCK FALSE
