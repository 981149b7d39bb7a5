SPECIFICATION Spec
CONSTANTS
  co = co
  sub = sub
  ann = ann
  rig = rig
  yard = yard
  kit = kit
  place = place
  Nobody = Nobody
  None = None
  Login = {co, sub, ann}
  Handler = {h1, h2}
  Token = {t1, t2}
  Notice = {n1, n2}
  MaxCode = 2
  LoginWindow = 1
  ResetWindow = 1
  RootOf <- MCRootOf
  KindOf <- MCKindOf
  Contacts <- MCContacts
  MaxProfiles = 4
  PageSizes = {1, 2}
  Booking = {b1, b2, b3}
  Project = {p1, p2, p3}
  User = {co, rig, yard}
  Item = {kit, place}
  Date = {1, 2}
  RoleOf <- MCRoleOf
  MainOf <- MCMainOf
  Owner <- MCOwner
  CastingDirectors = {}
  ItemOwner <- MCItemOwner
  Assigned = {}
  MaxUnits = 2
  Clerk = {c1, c2}
  Job = {j1, j2}
  MaxNumber = 3
  RetryLimit = 2
  k1 = k1
  k2 = k2
  k3 = k3
  Chat = {k1, k2, k3}
  SidesOf <- MCSidesOf
  Letter = {l1, l2}
  Deputy <- MCDeputy
  Hire = {g1}
  Review = {r1, r2, r3}
  RequesterOf <- MCRequesterOf
  TargetOf <- MCTargetOf
INVARIANTS TypesOK LoginsBounded BadgeStaleOnlyInRace MatchOncePerTie RefusedOnlyWhenCrowded
           UnreadStaleOnlyInRace HeardRight RatingBacked
PROPERTIES AccessEnds AccessReturns OverbookedOnlyByLowering
CHECK_DEADLOCK FALSE
