\* Three requests compete for two pieces of item a; b has no limit.
SPECIFICATION Spec
CONSTANTS
  a = a
  b = b
  p = p
  Items = {a, b}
  Customers = {u}
  Requests = {r1, r2, r3}
  LineQuantities = {1}
  Quantity <- MCQuantity
  PreorderOf <- MCPreorderOf
  NoLimit = NoLimit
  NoPreorder = NoPreorder
  Nobody = Nobody
  NoRow = NoRow
  NoOrder = NoOrder
SYMMETRY RequestSymmetry
INVARIANTS
  TypeOK
  StockMatchesOrders
  WithinLimit
  ReservationHolds
  LocksHeldByActive
  DeadlocksAreSeen
  LinkMeansOrder
PROPERTIES
  RefusedOnlyIfSold
CHECK_DEADLOCK FALSE
