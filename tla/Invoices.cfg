\* One invoice, two logins at the company, two at the issuer, two gateway orders.
SPECIFICATION TeamSpec
CONSTANTS
  co = co
  cosub = cosub
  rig = rig
  rigsub = rigsub
  None = None
  Login = {co, cosub, rig, rigsub}
  MainOf <- MCMainOf
  Company = co
  Assigned = {cosub}
  Invoice = {i1}
  Order = {o1, o2}
  Amount = {10, 20}
  Rate = {18}
  Instalment = {12}
  MaxFiles = 1
  InFlight = 2
INVARIANTS TypeOK PaidBacked LedgerSound AmountMatchesLines InvoiceWorkIsListed StatsAddUp
PROPERTIES CancelledStays CapturedSettles
CHECK_DEADLOCK FALSE
