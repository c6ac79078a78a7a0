--------------------------- MODULE BaseContracts ---------------------------
(***************************************************************************)
(* The administration of the bridge on Base: Bridge.sol and the timelock   *)
(* that owns its delayed operations, BridgeTimelockController.sol.         *)
(*                                                                         *)
(* The contracts' storage is one record, and an external function is an    *)
(* operator from that record and the caller to a result: whether the call  *)
(* succeeded and the storage after it.  A call that reverts leaves the     *)
(* storage alone.  An account is a role and the key generation it belongs  *)
(* to, <<role, generation>>; roles of one generation have distinct         *)
(* accounts, so the zero and distinctness checks of _validateRoleSet and   *)
(* rotateOperationalMembers hold for every account named here.             *)
(*                                                                         *)
(* An operation of the timelock is <<"activation", salt>> (unpause both    *)
(* flows) or <<"rotation", generation>> (replace the four accounts).       *)
(***************************************************************************)
EXTENDS Naturals

CONSTANTS
  MinFee, MaxFee        \* MIN_SERVICE_FEE and MAX_SERVICE_FEE

ASSUME FeeAssumption == MinFee \in Nat /\ MaxFee \in Nat /\ MinFee <= MaxFee

\* The account that holds a role in a key generation.
Account(role, generation) == <<role, generation>>
NoAccount == <<"none", 0>>

Succeeds(b) == [ok |-> TRUE, b |-> b]
Reverts(b)  == [ok |-> FALSE, b |-> b]

\* The rest of a batch: it runs on what the calls before it left behind.
AndThen(result, Call(_)) == IF result.ok THEN Call(result.b) ELSE result

\* Storage after deployment: both flows paused, nothing scheduled.
Deployed(ops) ==
  [depositMintsPaused |-> TRUE, withdrawalsPaused |-> TRUE, epoch |-> 1,
   bridgeSigner |-> Account("mint", 0), signerAtLastPause |-> NoAccount,
   retired |-> {}, runtimeAdministrator |-> Account("runtime", 0),
   governor |-> Account("governance", 0), canceller |-> Account("canceller", 0),
   serviceFee |-> MinFee, ops |-> [o \in ops |-> "unset"]]

----------------------------------------------------------------------------
(* Bridge.sol *)

NextEpoch(epoch) == epoch + 1

PauseDepositMints(b, sender) ==
  IF sender # b.runtimeAdministrator THEN Reverts(b)
  ELSE IF b.depositMintsPaused THEN Succeeds(b)
  ELSE Succeeds([b EXCEPT !.depositMintsPaused = TRUE,
                          !.signerAtLastPause = b.bridgeSigner,
                          !.epoch = NextEpoch(@)])

PauseWithdrawals(b, sender) ==
  IF sender # b.runtimeAdministrator THEN Reverts(b)
  ELSE Succeeds([b EXCEPT !.withdrawalsPaused = TRUE])

\* After a pause the flow opens again only for another signer.
UnpauseDepositMints(b) ==
  IF ~b.depositMintsPaused THEN Succeeds(b)
  ELSE IF b.signerAtLastPause # NoAccount /\ b.bridgeSigner = b.signerAtLastPause
       THEN Reverts(b)
  ELSE Succeeds([b EXCEPT !.depositMintsPaused = FALSE, !.epoch = NextEpoch(@)])

UnpauseWithdrawals(b) == Succeeds([b EXCEPT !.withdrawalsPaused = FALSE])

SetServiceFee(b, sender, fee) ==
  IF sender # b.runtimeAdministrator \/ fee < MinFee \/ fee > MaxFee THEN Reverts(b)
  ELSE Succeeds([b EXCEPT !.serviceFee = fee])

RotateBridgeSigner(b, signer) ==
  IF signer = b.bridgeSigner THEN Succeeds(b)
  ELSE IF signer \in b.retired THEN Reverts(b)
  ELSE Succeeds([b EXCEPT !.retired = @ \cup {b.bridgeSigner},
                          !.bridgeSigner = signer, !.epoch = NextEpoch(@)])

RotateRuntimeAdministrator(b, administrator) ==
  Succeeds([b EXCEPT !.runtimeAdministrator = administrator])

----------------------------------------------------------------------------
(* BridgeTimelockController.sol.  Proposer and executor are one account.   *)

RotateOperationalMembers(b, governor, canceller) ==
  Succeeds([b EXCEPT !.governor = governor, !.canceller = canceller])

ActivationCalls(b) == AndThen(UnpauseDepositMints(b), UnpauseWithdrawals)

RotationCalls(b, generation) ==
  LET Administrator(c) == RotateRuntimeAdministrator(c, Account("runtime", generation))
      Members(c) == RotateOperationalMembers(c, Account("governance", generation),
                                             Account("canceller", generation))
  IN  AndThen(AndThen(RotateBridgeSigner(b, Account("mint", generation)),
                      Administrator), Members)

Calls(b, op) ==
  IF op[1] = "activation" THEN ActivationCalls(b) ELSE RotationCalls(b, op[2])

PendingOps(b) == {o \in DOMAIN b.ops : b.ops[o] \in {"waiting", "ready"}}

ScheduleBatch(b, sender, op) ==
  IF sender # b.governor \/ b.ops[op] # "unset" THEN Reverts(b)
  ELSE Succeeds([b EXCEPT !.ops[op] = "waiting"])

Cancel(b, sender, op) ==
  IF sender # b.canceller \/ op \notin PendingOps(b) THEN Reverts(b)
  ELSE Succeeds([b EXCEPT !.ops[op] = "unset"])

ExecuteBatch(b, sender, op) ==
  LET done(c) == Succeeds([c EXCEPT !.ops[op] = "done"])
  IN  IF sender # b.governor \/ b.ops[op] # "ready" THEN Reverts(b)
      ELSE LET result == AndThen(Calls(b, op), done)
           IN  IF result.ok THEN result ELSE Reverts(b)

\* The delay of a scheduled operation has passed.
DelayPasses(b, op) == [b EXCEPT !.ops[op] = "ready"]
============================================================================
