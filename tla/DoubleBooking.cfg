\* A day promised to one booking only.
SPECIFICATION Spec
CONSTANTS
  co = co
  cosub = cosub
  agency = agency
  ann = ann
  rig = rig
  yard = yard
  kit = kit
  place = place
  None = None
  Booking = {b1, b2, b3}
  Project = {p1, p2}
  User = {co, ann}
  Item = {}
  Date = {d1}
  QueueEnabled = TRUE
  SettableStatus = {"completed"}
  RoleOf <- MCRoleOf
  MainOf <- MCMainOf
  Owner <- MCOwner
  CastingDirectors <- MCAgencies
  ItemOwner <- MCItemOwner
  Quantity <- MCQuantity
  Assigned <- MCAssigned
  NewDays = {}
  LockDays = {None}
INVARIANT NoDoubleBooking
CHECK_DEADLOCK FALSE
