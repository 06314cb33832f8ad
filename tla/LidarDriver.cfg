SPECIFICATION FairSpec
CONSTANTS
  Discard = 2
  Confirm = 1
  Retries = 1
  DirtyLimit = 1
  DirtyClear = 2
  MaxFaults = 1
INVARIANTS
  TypeOK
  RunExcludesError
  StoppedStaysStopped
PROPERTIES
  ReleaseEarned
  ComesToRun
  OffIsTold
CHECK_DEADLOCK FALSE
