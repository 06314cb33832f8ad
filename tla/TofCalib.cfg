SPECIFICATION CalibratorFairSpec
CONSTANTS
  Zones = 2
  Samples <- MCAll
  SamplingCount = 3
  AttemptLimit = 2
  RenewalLimit = 1
  TopicDepth = 1
  MaxRounds = 4
INVARIANTS
  CalibratorTypeOK
  ArraysShareNoResult
PROPERTIES
  SessionEnds
