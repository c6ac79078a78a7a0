-------------------------- MODULE MCNotifications --------------------------
(* Three transactions: two withdrawals, which may take each other's id when *)
(* the chain is reorganised, and a mint.                                    *)
EXTENDS Notifications

MCKind == [t \in Txs |-> IF t = 3 THEN "mint" ELSE "withdrawal"]
MCPayload == [t \in Txs |-> t]
============================================================================
