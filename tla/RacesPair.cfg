\* Two requests in flight and the expiry job.
SPECIFICATION PairSpec
CONSTANTS
  co = co
  ann = ann
  rig = rig
  kit = kit
  p1 = p1
  b1 = b1
  None = None
  Worker = {w1, w2}
  Booking = {b1, b2, b3}
  Project = {p1, p2, p3}
  User = {co, ann, rig}
  Item = {kit}
  Date = {d1}
  QueueEnabled = TRUE
  SettableStatus = {}
  NewDays = {}
  LockDays = {}
  RoleOf <- PairRoleOf
  MainOf <- MCMainOf
  Owner <- MCOwner
  CastingDirectors = {}
  ItemOwner <- PairItemOwner
  Quantity <- One
  Assigned = {}
INVARIANTS ConsentGiven OverbookedByOverlap
PROPERTIES JobSparesAnswered OverdueSettled
CHECK_DEADLOCK FALSE
