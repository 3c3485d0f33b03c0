SPECIFICATION Spec
CONSTANTS
  Person = {p1, p2, p3}
  Busy = {p1, p2}
  MaxGen = 2
  MaxKeys = 3
  MaxVersion = 2
  MaxChanges = 2
  MaxPub = 1
SYMMETRY Symmetry
CHECK_DEADLOCK FALSE
INVARIANTS OneKeyPerGeneration
PROPERTIES FormerMembersCannotRead
