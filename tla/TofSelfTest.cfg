SPECIFICATION FairSpec
CONSTANTS
  Zones = 1
  Samples <- MCUniform
  SamplingCount = 2
  AttemptLimit = 1
  RenewalLimit = 1
  TopicDepth = 1
  GiveUp = 10
  MaxRounds = 2
  Modes <- MCBoth
CONSTRAINT MixedOnce
INVARIANTS
  TypeOK
  AnswerOfThisRound
  FileOfThisRound
  NothingLeftBehind
PROPERTIES
  ServiceKept
  SelfTestEnds
CHECK_DEADLOCK FALSE
