CONSTANTS
  Nodes = 3
  TABLE_SIZE = 5
SPECIFICATION Spec
INVARIANTS
  TypeOK
  Balanced
  WithinPermutation
  NothingPassedOver
PROPERTIES
  Fills
CHECK_DEADLOCK FALSE
