SPECIFICATION FairSpec
CONSTANTS
  Cap = 1
  Distance = 3
  SlowZone = 2
  SleepUnits = 1
  WatchdogLimit = 1
  QueueDepth = 1
INVARIANTS
  StandsAfterCancel
  DrivesItsDistance
PROPERTIES
  TestEnds
