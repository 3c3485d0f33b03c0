SPECIFICATION Spec
CONSTANTS
  Account = {own, a1, a2}
  Owner = own
  FirstMembers = {}
  Invitee = {a1, a2}
  Changing = {own}
  GroupPlan = {"family", "business"}
  Upload = {u1, u2}
  S3Upload = {s1}
  Sync = {y1}
  PoolQuota <- MCPoolQuota
  SoloQuota = 1
  LargestQuota = 2
  Seats <- MCSeats
  MaxSize = 1
  MaxChanges = 2
  None = None
SYMMETRY Symmetry
INVARIANTS
  AloneOverbooking
  PoolOverbooking
  NobodyRidesFree
PROPERTIES
  SeatsSuffice
