-------------------------- MODULE MCLedgerSettlement --------------------------
(***************************************************************************)
(* LedgerSettlement for TLC: one refund and one release.                   *)
(***************************************************************************)
EXTENDS LedgerSettlement
=============================================================================
