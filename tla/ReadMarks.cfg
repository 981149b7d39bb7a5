\* A company with a sub-user, and the company it books.
SPECIFICATION Spec
CONSTANTS
  co = co
  cosub = cosub
  agency = agency
  rig = rig
  rigsub = rigsub
  ann = ann
  None = None
  User = {co, cosub, agency}
  Project = {p1}
  Booking = {b1}
  Message = {m1}
  Request = {r1}
  Named = {agency}
  Suspendable = {}
  MaxConvs = 2
  MaxRuns = 2
  RoleOf <- MCRoleOf
  MainOf <- MCMainOf
  Owner <- MCOwner
  ProjectOf <- MCProjectOf
  RequesterOf <- MCRequesterOf
  TargetOf <- MCTargetOf
INVARIANT ReadByRecipient
CHECK_DEADLOCK FALSE
