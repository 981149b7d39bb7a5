\* Two requests on one booking, for what cancelling takes.
SPECIFICATION RaceSpec
CONSTANTS
  co = co
  ann = ann
  None = None
  Worker = {w1, w2}
  Booking = {b1}
  Project = {p1}
  User = {co, ann}
  Item = {}
  Date = {d1}
  QueueEnabled = TRUE
  SettableStatus = {}
  NewDays = {}
  LockDays = {}
  RoleOf <- MCRoleOf
  MainOf <- MCMainOf
  Owner <- MCOwner
  CastingDirectors = {}
  ItemOwner <- NoItems
  Quantity <- NoItems
  Assigned = {}
PROPERTY CancellationNeedsBothSides
CHECK_DEADLOCK FALSE
