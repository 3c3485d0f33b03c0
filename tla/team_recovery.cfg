SPECIFICATION Spec
CONSTANTS
  Account = {own, adm, dev}
  Owner = own
  FirstAdmins = {adm}
  FirstMembers = {dev}
  Leaver = {dev}
  Request = {q1}
  Tab = {t1}
  Handler = {h1, h2}
  MaxKeys = 2
  MaxMoves = 2
  None = None
SYMMETRY Symmetry
CHECK_DEADLOCK FALSE
INVARIANTS
  DeliveryOpens
  CurrentKeyOnly
PROPERTIES
  DecidedOnce
