---------------------------- MODULE StockLedger ----------------------------
(***************************************************************************)
(* What the shop promises about its stock, without sessions, row locks,    *)
(* banks or failures: a request places at most one order, the order and    *)
(* the stock it takes appear in the same step, and no order takes an item  *)
(* over its limit.  The limit is the CHECK constraint of CatalogItemORM    *)
(* ('quantity IS NULL OR ordered_quantity <= quantity').                   *)
(***************************************************************************)
EXTENDS Integers

CONSTANTS Items,           \* catalog items
          Requests,        \* POST /order requests
          Quantity,        \* CatalogItemORM.quantity of each item
          NoLimit,         \* ... when it is NULL
          LineQuantities   \* the quantities a line of an order can ask for

VARIABLES ordered,         \* CatalogItemORM.ordered_quantity of each item
          placed           \* what each request's order has taken of each item

vars == <<ordered, placed>>

Nothing == [i \in Items |-> 0]

\* CHECK (quantity IS NULL OR ordered_quantity <= quantity)
QuantityLimit(i, n) == Quantity[i] # NoLimit => n <= Quantity[i]

Init == /\ ordered = Nothing
        /\ placed = [r \in Requests |-> Nothing]

\* Request r, which has placed nothing yet, takes take[i] pieces of each item i.
Place(r, take) ==
  /\ placed[r] = Nothing
  /\ \A i \in Items : take[i] # 0 => QuantityLimit(i, ordered[i] + take[i])
  /\ ordered' = [i \in Items |-> ordered[i] + take[i]]
  /\ placed' = [placed EXCEPT ![r] = take]

Next == \E r \in Requests, take \in [Items -> LineQuantities \cup {0}] : Place(r, take)

Spec == Init /\ [][Next]_vars
=============================================================================
