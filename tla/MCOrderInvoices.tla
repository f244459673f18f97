-------------------------- MODULE MCOrderInvoices --------------------------
(***************************************************************************)
(* Plans for OrderInvoices: none, one that adds up to a price of 3, one    *)
(* that does not, and one of a single part.                                *)
(***************************************************************************)
EXTENDS OrderInvoices

MCPlans == {<<>>, <<1, 2>>, <<2, 1, 1>>, <<3>>}
=============================================================================
