\* Lines of two pieces: each row sold out by one order, baskets of the stock
\* and of a preorder; carts, orders and the committed tables against StockLedger.
SPECIFICATION Spec
CONSTANTS
  a = a
  b = b
  p = p
  Items = {a, b, p}
  Customers = {u}
  Requests = {r1, r2}
  LineQuantities = {2}
  Quantity <- MCQuantity
  PreorderOf <- MCPreorderOf
  NoLimit = NoLimit
  NoPreorder = NoPreorder
  Nobody = Nobody
  NoRow = NoRow
  NoOrder = NoOrder
SYMMETRY RequestSymmetry
INVARIANTS
  OneSectionPerOrder
PROPERTIES
  CartLosesOnlyOrdered
  ImplementsLedger
CHECK_DEADLOCK FALSE
