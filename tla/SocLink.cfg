SPECIFICATION FairSpec
CONSTANTS
  Codes = {c1, c2}
  RobotStates = {"idle", "station"}
  MovingStates = {"idle", "moving"}
  NodeStates = {"idle", "navi"}
  Docked = {"away", "docked"}
  Limit <- MCLimit
CONSTRAINT
  OneKind
INVARIANTS
  ErrorsAgree
PROPERTIES
  ErrorsTold
  StatesTold
  PoseTold
  DockingTold
