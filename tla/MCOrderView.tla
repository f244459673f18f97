--------------------------- MODULE MCOrderView ---------------------------
(***************************************************************************)
(* Plans for OrderView: none, one that adds up to a price of 3, one that   *)
(* does not, and one of a single part.                                     *)
(***************************************************************************)
EXTENDS OrderView

MCPlans == {<<>>, <<1, 2>>, <<2, 1, 3>>, <<3>>}
=============================================================================
