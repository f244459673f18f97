-------------------------- MODULE MCOrderPlacement --------------------------
(***************************************************************************)
(* The instances of OrderPlacement that TLC checks.                        *)
(***************************************************************************)
EXTENDS OrderPlacement, TLC

CONSTANTS a, b, p    \* two items of the stock, one of a preorder

\* Item a is scarce, b has no limit, p is scarce and belongs to a preorder.
MCQuantity == [i \in Items |-> IF i = b THEN NoLimit ELSE 2]
MCPreorderOf == [i \in Items |-> IF i = p THEN "preorder" ELSE NoPreorder]

\* Both items are scarce; the second has none at all.
EmptyStock == [i \in Items |-> IF i = a THEN 2 ELSE 0]

RequestSymmetry == Permutations(Requests)
=============================================================================
