\* The calendar after a project is deleted.
SPECIFICATION Spec
CONSTANTS
  co = co
  cosub = cosub
  agency = agency
  ann = ann
  rig = rig
  yard = yard
  kit = kit
  place = place
  None = None
  Booking = {b1, b2}
  Project = {p1, p2}
  User = {co, ann}
  Item = {}
  Date = {d1, d2}
  QueueEnabled = TRUE
  SettableStatus = {"completed"}
  RoleOf <- MCRoleOf
  MainOf <- MCMainOf
  Owner <- MCOwner
  CastingDirectors <- MCAgencies
  ItemOwner <- MCItemOwner
  Quantity <- MCQuantity
  Assigned <- MCAssigned
  NewDays <- OneOrTheOther
  LockDays <- KeepOrWiden
PROPERTY RemovalFreesCalendar
CHECK_DEADLOCK FALSE
