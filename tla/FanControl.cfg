SPECIFICATION FairSpec
CONSTANTS
  Duration = 3
  LoopsPerSecond = 1
  DayCap = 5
  SamePower = TRUE
  Temperatures <- MCTemperatures
INVARIANTS
  TypeOK
PROPERTIES
  OverheatEarned
  HeatIsCooled
  CoolFanStops
