SPECIFICATION FairSpec
CONSTANTS
  LinVels <- MCVels
  AngVels <- MCVels
  Rpms <- MCVels
  Frames <- MCDocking
  Topics <- MCTopics
  WatchdogLimit = 1
CONSTRAINT OneSpare
INVARIANTS
  TypeOK
  EStopHaltsLinear
  OneDriveOnly
  SleepWithdrawn
  DockingStartNotRevived
PROPERTIES
  EStopStops
