--------------------------- MODULE MCRequestScope ---------------------------
(***************************************************************************)
(* The instance of RequestScope that TLC checks.                           *)
(***************************************************************************)
EXTENDS RequestScope, TLC

RequestSymmetry == Permutations(Requests)
=============================================================================
