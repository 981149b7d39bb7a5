\* One request in flight at a time, the expiry job switched off.
SPECIFICATION RaceSpec
CONSTANTS
  co = co
  ann = ann
  None = None
  Worker = {w1}
  Booking = {b1, b2}
  Project = {p1, p2}
  User = {co, ann}
  Item = {}
  Date = {d1, d2}
  QueueEnabled = FALSE
  SettableStatus = {}
  NewDays = {}
  LockDays = {}
  RoleOf <- MCRoleOf
  MainOf <- MCMainOf
  Owner <- MCOwner
  CastingDirectors = {}
  ItemOwner <- NoItems
  Quantity <- NoItems
  Assigned = {}
INVARIANTS ActiveDaysBooked
PROPERTIES LifecycleSpec
SYMMETRY Interchangeable
CHECK_DEADLOCK FALSE
