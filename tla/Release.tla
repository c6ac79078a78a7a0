------------------------------ MODULE Release ------------------------------
(***************************************************************************)
(* A release from its first activation to the upgrades after it:           *)
(* ReleaseActivation and ReleaseUpgrade over one canister and one clock.   *)
(* The operator runs one command at a time.                                *)
(*                                                                         *)
(* A behaviour starts at a new canister, or at an activated one whose      *)
(* activation files have been put away; upgrades are considered from the   *)
(* second start only, since every upgrade command ends at its first check  *)
(* while the canister is not activated, and the activation's files play no *)
(* part in it.                                                             *)
(***************************************************************************)
EXTENDS ReleaseUpgrade

\* What an execution signed and confirmed at the start leaves behind.
ActivatedCanister ==
  [NewCanister EXCEPT
     !.lifecycle = "Activated", !.paused = FALSE, !.attestedAt = 1,
     !.attestedPaused = FALSE, !.nextId = MaxOps,
     !.last = <<[phase |-> "execute", id |-> 1, op |-> 0, gen |-> 0, signedAt |-> 1]>>]

\* The activation is over and its files are put away.
Upgrading == can.lifecycle = "Activated" /\ \A p \in Phases : files[p] = EmptyFiles

ActivatedInit ==
  /\ can = ActivatedCanister /\ landed = None
  /\ seal = [reserved |-> TRUE, receipt |-> <<[attested |-> TRUE]>>]
  /\ files = [p \in Phases |-> EmptyFiles]
  /\ driver = Idle

Init ==
  /\ now = 1 /\ controllers = {"installer"} /\ module = Released
  /\ ActivationInit \/ ActivatedInit
  /\ UpgradeInit

Next ==
  \/ ~Upgrading /\ ActivationNext /\ UNCHANGED upgradeVars
  \/ Upgrading /\ UpgradeNext
  \/ Tick /\ RequestsExpire

vars == <<now, controllers, module, activationVars, upgradeVars>>
Spec == Init /\ [][Next]_vars

TypeOK == ActivationTypeOK /\ UpgradeTypeOK
============================================================================
