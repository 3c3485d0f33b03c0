SPECIFICATION CreditSpec
CONSTANTS
  Topup = {t1}
  Paid = 2
  Handler = {h1, h2}
  Closer = {c1, c2}
  MaxMonth = 3
  MaxUsage = 1
  MinInvoice = 2
  MaxFaults = 1
  NoEvent = NoEvent
SYMMETRY Symmetry
CONSTRAINT Bounded
CHECK_DEADLOCK FALSE
INVARIANTS
  CreditFollowsStripe
  ReversedAtMostPaid
  
  NothingForgotten
  DebtStopsPayg
