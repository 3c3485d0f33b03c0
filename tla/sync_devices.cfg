SPECIFICATION Spec
CONSTANTS
  Device = {d1, d2}
  Id = {i1, i2}
  MaxEdits = 3
  MaxLocks = 1
  MaxRetry = 2
  Attempts = 2
  MayDelete = TRUE
  MayTouch = TRUE
  MayLoseAnswer = TRUE
CHECK_DEADLOCK FALSE
SYMMETRY Symmetry
INVARIANTS
  SyncedMeansSaved
  DeletionsStay
  LockedHoldsNothing
PROPERTIES
  StampsAdvance
