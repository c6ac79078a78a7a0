---------------------------- MODULE MCFeePayout ----------------------------
(* The fee payouts with two payouts, three free principals and small amounts. *)
EXTENDS FeePayout

CONSTANTS gov, relayer, installer, fees, other, minter, anon

AllPrincipals == {gov, relayer, installer, fees, other, minter, anon}

=============================================================================
