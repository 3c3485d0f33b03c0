SPECIFICATION Spec
CONSTANTS
  Piece = {k1}
  Index = {i1}
  Provider = {s1, s2}
  Network = {n1, n2}
  Run = {r1, r2}
  None = None
  MaxPacks = 2
  Copies = 1
  Target = 2
  MaxFaults = 1
  MaxBookings = 1
  AnyTime = FALSE
SYMMETRY Symmetry
INVARIANTS
  FastOrBackedUp
  MarksAgree
  CopiesApart
