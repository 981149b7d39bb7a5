\* Items, the two sides of a cancellation, and what the searches show.
SPECIFICATION ItemsSpec
CONSTANTS
  co = co
  cosub = cosub
  agency = agency
  ann = ann
  rig = rig
  yard = yard
  star = star
  temp = temp
  kit = kit
  place = place
  home = home
  away = away
  p1 = p1
  p2 = p2
  p3 = p3
  None = None
  Booking = {b1, b2, b3}
  Project = {p1, p2, p3}
  User = {co, cosub, agency, temp, rig, yard, star}
  Item = {kit, place}
  Date = {1, 2, 3}
  City = {home, away}
  Buffer = 1
  QueueEnabled = TRUE
  SettableStatus = {"completed", "cancelled"}
  RoleOf <- MCItemRoleOf
  MainOf <- MCItemMainOf
  Owner <- MCOwner
  CastingDirectors <- MCAgencies
  ItemOwner <- MCItemOwner
  Quantity <- MCQuantity
  Assigned <- MCAssigned
  CityOf <- MCCityOf
  HomeCity <- MCHomeCity
  Listed <- MCListed
  NewDays = {}
  LockDays = {None}
INVARIANTS CapacityRespected DuplicateOnlyAfterAsk ItemsAndCastShownFree WorkIsListed WarningTrue
PROPERTIES CancellationNeedsBothSides
CHECK_DEADLOCK FALSE
SYMMETRY Alike
VIEW ItemsView
