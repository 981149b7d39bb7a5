\* A company with a sub-user and a project, the company it books, a vendor with a
\* sub-user.  Conversations are opened with the booked company, on the second project only
\* where both are acquainted.
SPECIFICATION MCSpec
CONSTANTS
  co = co
  cosub = cosub
  agency = agency
  rig = rig
  rigsub = rigsub
  ann = ann
  None = None
  User = {co, cosub, agency, rig, rigsub}
  Project = {p1, p2}
  Booking = {b1}
  Message = {m1}
  Request = {r1}
  Named = {agency}
  Suspendable = {cosub}
  MaxConvs = 1
  MaxRuns = 2
  RoleOf <- MCRoleOf
  MainOf <- MCMainOf
  Owner <- MCOwner
  ProjectOf <- MCProjectOf
  RequesterOf <- MCRequesterOf
  TargetOf <- MCTargetOf
INVARIANTS TypeOK OnlyAdmitted CompaniesHaveStake ListLeadsToChat SearchAndPanelAgree
PROPERTIES TargetIsTold
CHECK_DEADLOCK FALSE
