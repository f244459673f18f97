\* Baskets of up to two items; plans of up to three parts.
SPECIFICATION ViewSpec
CONSTANTS
  Items = {i1, i2}
  Prices = {3}
  Plans <- MCPlans
  Quantities = {1, 2}
  NoInvoices = NoInvoices
INVARIANT PreorderIsOptional
CHECK_DEADLOCK FALSE
