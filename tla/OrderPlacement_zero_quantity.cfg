\* An item whose quantity is 0.
SPECIFICATION Spec
CONSTANTS
  a = a
  b = b
  p = p
  Items = {a, p}
  Customers = {u}
  Requests = {r1, r2}
  LineQuantities = {1}
  Quantity <- EmptyStock
  PreorderOf <- MCPreorderOf
  NoLimit = NoLimit
  NoPreorder = NoPreorder
  Nobody = Nobody
  NoRow = NoRow
  NoOrder = NoOrder
SYMMETRY RequestSymmetry
INVARIANTS
  ApprovedLinesFit
CHECK_DEADLOCK FALSE
