--------------------------- MODULE MCDepositLifecycle ---------------------------
(* Instances of DepositLifecycle for TLC: the constants are in the .cfg files. *)
EXTENDS DepositLifecycle
=============================================================================
