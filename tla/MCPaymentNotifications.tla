----------------------- MODULE MCPaymentNotifications -----------------------
(***************************************************************************)
(* The instances of PaymentNotifications that TLC checks.                  *)
(***************************************************************************)
EXTENDS PaymentNotifications
=============================================================================
