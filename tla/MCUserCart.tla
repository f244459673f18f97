------------------------------ MODULE MCUserCart ------------------------------
(***************************************************************************)
(* A stock over the maximum of a cart, and an item without limit.          *)
(***************************************************************************)
EXTENDS UserCart, TLC

CONSTANTS limited, unlimited

MCQuantity == limited :> 3 @@ unlimited :> NoLimit

PatchSymmetry == Permutations(Patches)
=============================================================================
