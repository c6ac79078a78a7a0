---------------------------- MODULE MCAdmission ----------------------------
(* A small instance of Admission. *)
EXTENDS Admission

MCOwner == [d \in Deposits |-> (d % 2) + 1]
MCGross == [d \in Deposits |-> 2]
MCUserMaxFee == [d \in Deposits |-> 1]
============================================================================
