SPECIFICATION Spec
CONSTANTS
  Duration = 3
  LoopsPerSecond = 2
  DayCap = 5
  SamePower = TRUE
  Temperatures <- MCTemperatures
INVARIANTS
  HotForDuration
