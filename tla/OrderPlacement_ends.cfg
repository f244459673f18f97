\* Rows locked in any order, deadlocks, a bank that may never answer, failures.
SPECIFICATION FairSpec
CONSTANTS
  a = a
  b = b
  p = p
  Items = {a, b}
  Customers = {u}
  Requests = {r1, r2}
  LineQuantities = {2}
  Quantity <- MCQuantity
  PreorderOf <- MCPreorderOf
  NoLimit = NoLimit
  NoPreorder = NoPreorder
  Nobody = Nobody
  NoRow = NoRow
  NoOrder = NoOrder
PROPERTIES
  EveryRequestEnds
CHECK_DEADLOCK FALSE
