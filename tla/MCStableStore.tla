--------------------------- MODULE MCStableStore ---------------------------
(* One owner with a deposit and two withdrawals. *)
EXTENDS StableStore

MCOwners == {0}
MCWithdrawals == 1..2
============================================================================
