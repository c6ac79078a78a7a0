--------------------------- MODULE MCSettlementJobs ---------------------------
(* Model-checking instance of SettlementJobs. *)
EXTENDS SettlementJobs

LaneCapacities == [lane \in Lanes |-> 1]

=============================================================================
