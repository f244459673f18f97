--------------------------- MODULE OrderLifecycle ---------------------------
(***************************************************************************)
(* What the shop promises of an order and its money, without rows,         *)
(* handlers or repeated notifications: an order is placed, its payment is  *)
(* confirmed, and after both the order is accepted, each of them once, in  *)
(* a step of its own and for good (OrderStatus: UNPAID, ACCEPTED).         *)
(***************************************************************************)
VARIABLES placed, confirmed, accepted

vars == <<placed, confirmed, accepted>>

Init == placed = FALSE /\ confirmed = FALSE /\ accepted = FALSE

\* POST /order.
Place ==
  /\ ~placed /\ placed' = TRUE
  /\ UNCHANGED <<confirmed, accepted>>

\* The bank has the money.
Confirm ==
  /\ ~confirmed /\ confirmed' = TRUE
  /\ UNCHANGED <<placed, accepted>>

\* update_payment_status.
Accept ==
  /\ placed /\ confirmed /\ ~accepted /\ accepted' = TRUE
  /\ UNCHANGED <<placed, confirmed>>

Next == Place \/ Confirm \/ Accept

Spec == Init /\ [][Next]_vars
=============================================================================
