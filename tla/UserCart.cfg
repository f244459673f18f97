\* One user and two PATCH requests; a cart holds up to two, or what is in stock.
SPECIFICATION Spec
CONSTANTS
  limited = limited
  unlimited = unlimited
  Items = {limited, unlimited}
  Users = {u}
  Patches = {q1, q2}
  Quantity <- MCQuantity
  NoLimit = NoLimit
  MaxQuantity = 2
  LineQuantities = {1, 2}
  MaxFavourites = 2
INVARIANTS TypeOK CartWithinLimit SignedInMeansTable
PROPERTIES OnlyAddCreatesRow
SYMMETRY PatchSymmetry
CHECK_DEADLOCK FALSE
