SPECIFICATION Spec
CONSTANTS
  Object = {o1}
  Piece = {p1, p2}
  Request = {r1, r2}
  Cron = {c1, c2}
  None = None
  MayAbort = TRUE
  MayStall = TRUE
SYMMETRY Symmetry
INVARIANTS
  TypeOK
  DeadlineIffShelved
  LedgerAgrees
PROPERTIES
  ImplementsLife
