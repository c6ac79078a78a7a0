-------------------------- MODULE MCCycleReserve --------------------------
(* Two withdrawals, one of which charged a fee below the ledger's, a mint,  *)
(* and two callers.                                                         *)
EXTENDS CycleReserve

MCFee == [t \in Txs |-> IF t = 2 THEN 1 ELSE 2]
============================================================================
