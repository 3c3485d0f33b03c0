SPECIFICATION HistorySpec
CONSTANTS
  Object = {o1, o2}
  Part = {p1, p2}
  Whole = Whole
  Request = {r1, r2, r3}
  Mode = {}
  MaxTime = 0
  None = None
  MayRepeat = FALSE
  Failing = {"put", "delete", "retention", "create"}
  MayStall = FALSE
SYMMETRY Symmetry
INVARIANTS
  KeyIsReadable
  PartsAreKept
  LedgerAgrees
