SPECIFICATION HistorySpec
CONSTANTS
  Object = {o1, o2}
  Part = {p1}
  Whole = Whole
  Request = {r1, r2}
  Mode = {"GOVERNANCE", "COMPLIANCE"}
  MaxTime = 2
  None = None
  MayRepeat = FALSE
  Failing = {}
  MayStall = FALSE
SYMMETRY Symmetry
PROPERTIES
  LocksHold
