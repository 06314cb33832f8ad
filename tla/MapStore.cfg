SPECIFICATION Spec
CONSTANTS
  Sizes = {1, 2}
  MaxInputs = 4
CONSTRAINT
  OneStory
INVARIANTS
  MapOfThisMapping
  StoredMapSent
  CopyWhole
CHECK_DEADLOCK FALSE
