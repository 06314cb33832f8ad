SPECIFICATION Spec
CONSTANTS
  LinVels <- MCStill
  AngVels <- MCStill
  Rpms <- MCVels
  Frames <- MCDocking
  Topics <- MCTopics
  WatchdogLimit = 1
INVARIANTS
  RemoteBlockedByDefault
