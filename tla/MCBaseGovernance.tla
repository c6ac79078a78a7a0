------------------------- MODULE MCBaseGovernance -------------------------
(* Instance of BaseGovernance for TLC. *)
EXTENDS BaseGovernance
============================================================================
