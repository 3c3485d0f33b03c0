SPECIFICATION Spec
CONSTANTS
  Worker = {w1, w2}
  Keep = 2
  MaxVersion = 5
  None = None
  MayCrash = TRUE
  MayLoseAnswer = FALSE
SYMMETRY Symmetry
INVARIANTS
  EveryRowHasItsBlob
  NewestAreKept
  OnlyOutpacedReadsFail
PROPERTIES
  OnlyOutpacedWritesAreLost
  ImplementsRegister
