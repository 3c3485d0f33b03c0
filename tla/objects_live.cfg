SPECIFICATION FairSpec
CONSTANTS
  Object = {o1, o2}
  Piece = {p1}
  Request = {r1}
  Cron = {c1}
  None = None
  MayAbort = FALSE
  MayStall = FALSE
INVARIANTS
  HeldHasBytes
PROPERTIES
  DueIsPurged
