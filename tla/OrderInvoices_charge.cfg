\* Baskets of up to two items.
SPECIFICATION Spec
CONSTANTS
  Items = {i1, i2}
  Prices = {3, 5}
  Plans <- MCPlans
  Quantities = {1, 2}
  NoInvoices = NoInvoices
INVARIANT ChargeMatchesInvoice
CHECK_DEADLOCK FALSE
