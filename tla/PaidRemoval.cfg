\* Two invoices on a project that is deleted.
SPECIFICATION TeamSpec
CONSTANTS
  co = co
  cosub = cosub
  rig = rig
  rigsub = rigsub
  None = None
  Login = {co, rig}
  MainOf <- MCMainOf
  Company = co
  Assigned = {}
  Invoice = {i1, i2}
  Order = {}
  Amount = {10}
  Rate = {18}
  Instalment = {}
  MaxFiles = 1
  InFlight = 1
PROPERTY PaidInvoicesSurvive
CHECK_DEADLOCK FALSE
