--------------------------- MODULE BaseGovernance ---------------------------
(***************************************************************************)
(* How the canister administers the contracts on Base: base_governance.rs  *)
(* and the part of the stable admission record it works on.                *)
(*                                                                         *)
(* The canister signs Ethereum transactions with three chain-key accounts, *)
(* one nonce lane each, and hands them out; anybody may relay them, in any *)
(* order, any number of times, or never.  A lane holds one transaction at  *)
(* a time until its finalized receipt is confirmed.  One guard admits one  *)
(* handler at a time, but emergency_pause needs no guard: it runs between  *)
(* any two awaits of the others.  A handler may also end at an await,      *)
(* because a check refuses, a call fails or the message traps; what it     *)
(* stored before stays (HandlerEnds).                                      *)
(*                                                                         *)
(* Base is the finalized chain: a transaction is included when it is       *)
(* final.  Gas balances, ceilings of the priority fee and the deployment   *)
(* bindings that nothing changes (code hashes, token metadata, delay) are  *)
(* left out; a refusal because of them is HandlerEnds.  The last completed *)
(* transaction of a lane only answers repeated confirmations and is left   *)
(* out as well.                                                            *)
(***************************************************************************)
EXTENDS BaseContracts, Integers, FiniteSets

CONSTANTS
  Actions,           \* the actions somebody asks for
  MaxOps,            \* bound on governance operations ever prepared
  MaxNonce,          \* bound on the nonces of one account
  MaxGeneration,     \* bound on key generations
  MaxReplacements,   \* governance_replacement.max_replacements
  FeeCeiling,        \* governance_evm_fee.max_fee_per_gas_ceiling
  FeeBumpBps,        \* governance_replacement.fee_bump_bps
  NewFee             \* the value somebody sets the service fee to

ASSUME GovernanceAssumption ==
  /\ MaxNonce \in Nat
  /\ MaxOps \in Nat /\ MaxGeneration \in Nat /\ MaxReplacements \in Nat
  /\ FeeCeiling \in Nat \ {0} /\ FeeBumpBps \in Nat \ {0}
  /\ NewFee \in MinFee..MaxFee

Lanes == {"governance", "runtime", "canceller"}
Ids   == 0..(MaxOps - 1)
Generations == 0..MaxGeneration
None  == [id |-> -1]
NoOp  == <<"none", 0>>

\* activation_operation_id: the salt is the number of the governance operation.
ActivationOp(id) == <<"activation", id>>
\* control_plane_rotation_salt: the salt is the generation it leads to.
RotationOp(generation) == <<"rotation", generation>>
TimelockOps == {ActivationOp(i) : i \in Ids} \cup {RotationOp(g) : g \in Generations \ {0}}

VARIABLES
  sealed,        \* operational_config_sealed
  boot,          \* bootstrap_activation_controller is present
  icPaused,      \* admin_state.deposits_paused
  attested,      \* the stored activation attestation: none, paused or open
  nonce,         \* next nonce of a lane, -1 while it is not initialized
  pending,       \* pending transaction of a lane, or None
  nextId,        \* next_governance_operation_id
  timelock,      \* pending_timelock_operation
  rotation,      \* generation of pending_control_plane_rotation, 0 if none
  key,           \* control_plane_key_generation
  emergency,     \* the emergency actions still required
  lastActivation,\* last_confirmed_activation
  handler,       \* the handler that holds the BaseGovernance guard
  controllers,   \* who controls the canister
  carried,       \* history: lanes whose transaction a rotation overtook
  base,          \* storage of the contracts
  account,       \* transaction count of every account on Base
  signed,        \* signed transactions whose nonce is still unused
  receipts       \* final receipts of transactions not yet confirmed

canisterVars == <<sealed, boot, icPaused, attested, nonce, pending, nextId,
                  timelock, rotation, key, emergency, lastActivation>>
baseVars == <<base, account, signed, receipts>>
vars == <<canisterVars, handler, controllers, carried, baseVars>>

----------------------------------------------------------------------------
(* Kinds of transactions *)

ActivationKinds == {"ScheduleActivation", "ExecuteActivation"}
RotationKinds   == {"ScheduleRotation", "ExecuteRotation"}
\* is_emergency_kind
EmergencyKinds  == {"PauseDepositMints", "PauseWithdrawals", "CancelTimelock"}
\* dangerous_governance_kind
DangerousKinds  == {"SetServiceFee"} \cup ActivationKinds \cup RotationKinds
Kinds == EmergencyKinds \cup DangerousKinds

ASSUME ActionsAssumption == Actions \subseteq Kinds

\* action_nonce_lane, and the role of the account that signs for the lane.
LaneOf(kind) ==
  CASE kind \in {"PauseDepositMints", "PauseWithdrawals", "SetServiceFee"} -> "runtime"
    [] kind = "CancelTimelock" -> "canceller"
    [] OTHER -> "governance"

\* The caller roles; administrators are fixed here (FeePayout rotates them).
Callers == {"governance", "pause", "installer", "relayer"}

\* action_authorized, transaction_authorized
RoleAuthorized(caller, kind) ==
  caller = "governance" \/ (caller = "pause" /\ kind \in EmergencyKinds)

\* activation_admission_open
AdmissionOpen == sealed /\ icPaused

\* activation_prepare_authorized: the bootstrap controller until the first
\* confirmed activation, governance afterwards.
ActivationAuthorized(caller) ==
  /\ AdmissionOpen
  /\ IF boot THEN caller = "installer" /\ controllers = {"installer"}
             ELSE caller = "governance"

\* require_action_authorization, with the controller check of
\* capture_action_controller_authority.
ActionAuthorized(caller, kind) ==
  IF kind \in ActivationKinds THEN ActivationAuthorized(caller)
                              ELSE RoleAuthorized(caller, kind)

\* require_transaction_controller_authority, repeated after every await: the
\* authority an activation was prepared under must still be in force.  A caller
\* keeps its role here, so the other checks that are repeated hold again.
AuthorityUnchanged(tx) ==
  tx.kind \in ActivationKinds =>
    AdmissionOpen /\ tx.byBoot = boot /\ (boot => controllers = {"installer"})

\* require_transaction_authorization, then the controller authority.
TransactionAuthorized(caller, tx) ==
  /\ ActionAuthorized(caller, tx.kind)
  /\ tx.kind \in ActivationKinds => tx.byBoot = (caller = "installer")
  /\ AuthorityUnchanged(tx)

\* action_matches_pending
MatchesPending(kind, tx) == tx.kind = kind

----------------------------------------------------------------------------
(* Fees of a transaction and its replacements *)

\* initial_fee: leaves room below the ceiling for every permitted bump.
InitialFee ==
  LET fee[n \in 0..MaxReplacements] ==
        IF n = 0 THEN FeeCeiling
        ELSE LET less == (fee[n - 1] * 10000) \div (10000 + FeeBumpBps)
             IN  IF less = 0 THEN 1 ELSE less
  IN  fee[MaxReplacements]

\* minimum_fee_bump: the least fee that may replace a transaction.
LeastBump(current) ==
  LET exact == (current * (10000 + FeeBumpBps) + 9999) \div 10000
  IN  IF exact > current THEN exact ELSE current + 1

----------------------------------------------------------------------------
(* What handlers check on Base *)

\* The accounts of generation g hold every role; activation_preflight and
\* control_plane_rotation_postcondition_matches compare the same addresses.
RolesOf(g) ==
  /\ base.bridgeSigner = Account("mint", g)
  /\ base.runtimeAdministrator = Account("runtime", g)
  /\ base.governor = Account("governance", g)
  /\ base.canceller = Account("canceller", g)

\* activation_preflight
PreflightOk(paused) ==
  /\ RolesOf(key)
  /\ base.depositMintsPaused = paused
  /\ base.withdrawalsPaused = paused
  /\ base.serviceFee >= MinFee
  /\ icPaused = paused

\* The finalized state must show what a successful receipt claims
\* (activation_postcondition_matches, control_plane_rotation_postcondition_matches).
PostconditionOk(tx) ==
  CASE tx.kind = "ExecuteActivation" ->
         ~base.depositMintsPaused /\ ~base.withdrawalsPaused
    [] tx.kind = "ExecuteRotation" ->
         base.depositMintsPaused /\ RolesOf(tx.op[2])
    [] OTHER -> TRUE

\* service_fee_change_allowed
FeeChangeAllowed(kind) == kind = "SetServiceFee" => NewFee \in MinFee..MaxFee

----------------------------------------------------------------------------
(* Handlers.  Between two awaits a handler is one action. *)

Idle == [at |-> "idle"]
Observing(kind) == [at |-> "observe", kind |-> kind]
Storing(kind, n) == [at |-> "store", kind |-> kind, nonce |-> n]
Signing(lane, id) == [at |-> "sign", lane |-> lane, id |-> id]
Replacing(lane, id) == [at |-> "replace", lane |-> lane, id |-> id]
Confirming(lane, id) == [at |-> "receipt", lane |-> lane, id |-> id]
Completing(lane, id, ok) == [at |-> "complete", lane |-> lane, id |-> id, ok |-> ok]

Init ==
  /\ sealed = FALSE /\ boot = FALSE /\ icPaused = TRUE /\ attested = "none"
  /\ nonce = [l \in Lanes |-> -1]
  /\ pending = [l \in Lanes |-> None]
  /\ nextId = 0 /\ timelock = NoOp /\ rotation = 0 /\ key = 0
  /\ emergency = {} /\ lastActivation = None
  /\ handler = Idle
  /\ controllers = {"installer"}
  /\ carried = {}
  /\ base = Deployed(TimelockOps)
  /\ account = [l \in Lanes |-> [g \in Generations |-> 0]]
  /\ signed = {} /\ receipts = {}

\* seal_operational_config up to its preflight.
BeginSeal ==
  /\ handler = Idle
  /\ ~sealed /\ nextId = 0 /\ controllers = {"installer"}
  /\ handler' = [at |-> "seal"]
  /\ UNCHANGED <<canisterVars, controllers, carried, baseVars>>

\* ... and after it: the configuration is final and the installer may activate.
SealStores ==
  /\ handler.at = "seal"
  /\ ~sealed /\ nextId = 0 /\ controllers = {"installer"} /\ PreflightOk(TRUE)
  /\ sealed' = TRUE /\ boot' = TRUE /\ attested' = "paused"
  /\ handler' = Idle
  /\ UNCHANGED <<icPaused, nonce, pending, nextId, timelock, rotation, key,
                 emergency, lastActivation, controllers, carried, baseVars>>

\* refresh_activation_attestation; the expectation is paused exactly while the
\* bootstrap authority exists, and must still hold after the reads.
AttestationExpected == sealed /\ icPaused = boot

BeginRefreshAttestation ==
  /\ handler = Idle
  /\ AttestationExpected
  /\ handler' = [at |-> "attest", paused |-> boot]
  /\ UNCHANGED <<canisterVars, controllers, carried, baseVars>>

RefreshAttestation ==
  /\ handler.at = "attest"
  /\ AttestationExpected /\ handler.paused = boot /\ PreflightOk(boot)
  /\ attested' = IF boot THEN "paused" ELSE "open"
  /\ handler' = Idle
  /\ UNCHANGED <<sealed, boot, icPaused, nonce, pending, nextId, timelock, rotation,
                 key, emergency, lastActivation, controllers, carried, baseVars>>

\* resume_pending: a prepared transaction is signed, a signed one returned.
Resume(caller, tx) ==
  /\ TransactionAuthorized(caller, tx)
  /\ tx.state = "Prepared"
  /\ handler' = Signing(LaneOf(tx.kind), tx.id)

\* prepare up to the reads of Base.
BeginPrepare(caller, kind) ==
  /\ handler = Idle
  /\ sealed /\ ActionAuthorized(caller, kind)
  /\ LET tx == pending[LaneOf(kind)]
     IN  \/ tx = None /\ handler' = Observing(kind)
         \/ tx # None /\ MatchesPending(kind, tx) /\ Resume(caller, tx)
  /\ UNCHANGED <<canisterVars, controllers, carried, baseVars>>

\* sns_schedule_activation and sns_execute_activation: an adopted proposal
\* applies only to the activation it was written for.
SnsActivation(kind, previous) ==
  /\ sealed /\ ~boot /\ icPaused
  /\ lastActivation # None /\ previous = lastActivation.id
  /\ IF kind = "ScheduleActivation"
     THEN timelock = NoOp
     ELSE timelock # NoOp /\ lastActivation.kind = "ScheduleActivation"
  /\ BeginPrepare("governance", kind)

\* The nonce of an uninitialized lane comes from Base, the preflight too.
Observe ==
  /\ handler.at = "observe"
  /\ FeeChangeAllowed(handler.kind)
  /\ LaneOf(handler.kind) = "governance" => PreflightOk(TRUE)
  /\ LET lane == LaneOf(handler.kind)
         n == IF nonce[lane] = -1 THEN account[lane][key] ELSE nonce[lane]
     IN  handler' = Storing(handler.kind, n)
  /\ UNCHANGED <<canisterVars, controllers, carried, baseVars>>

\* encode_action: the timelock operation a transaction is about.
OpOf(kind) ==
  CASE kind = "ScheduleActivation" -> ActivationOp(nextId)
    [] kind = "ScheduleRotation" -> RotationOp(key + 1)
    [] kind \in {"ExecuteActivation", "ExecuteRotation", "CancelTimelock"} -> timelock
    [] OTHER -> NoOp

Encodable(kind) ==
  /\ kind \in {"ExecuteActivation", "ExecuteRotation", "CancelTimelock"} => timelock # NoOp
  /\ kind = "ExecuteActivation" => rotation = 0
  /\ kind = "ExecuteRotation" => rotation # 0
  /\ kind = "ScheduleRotation" => key < MaxGeneration

\* prepare_governance_transaction: what the stored record must allow.
Storable(kind, n) ==
  LET lane == LaneOf(kind)
  IN  /\ pending[lane] = None
      /\ nonce[lane] \in {-1, n}
      /\ kind \in {"ScheduleActivation", "ScheduleRotation"} =>
           timelock = NoOp /\ rotation = 0
      /\ kind \in RotationKinds =>
           pending["runtime"] = None /\ pending["canceller"] = None

\* The timelock operation on record after a transaction is stored.
OpAfterStoring(kind) ==
  IF kind \in {"ScheduleActivation", "ScheduleRotation"} THEN OpOf(kind) ELSE timelock

\* A mutated form: a signed transaction gives way too.
MayAbortSigned(tx) == tx.kind \in DangerousKinds

\* Only what was never signed may be forgotten.
MayAbort(tx) == tx.state = "Prepared" /\ tx.kind \in DangerousKinds

\* A mutated form: the emergency is not looked at again after signing.
HeldBackNever(tx) == FALSE

\* No dangerous signature leaves the canister while an emergency action is due.
HeldBack(tx) == tx.kind \in DangerousKinds /\ emergency # {}

\* A mutated form: an attempt to cancel or to execute ends the operation.
SettlesTimelockAnyOutcome(tx, ok) ==
  \/ tx.kind \in {"CancelTimelock", "ExecuteActivation", "ExecuteRotation"}
  \/ ~ok /\ tx.kind \in {"ScheduleActivation", "ScheduleRotation"}

\* The outcomes after which the recorded timelock operation is over.
SettlesTimelock(tx, ok) ==
  \/ ok /\ tx.kind \in {"CancelTimelock", "ExecuteActivation", "ExecuteRotation"}
  \/ ~ok /\ tx.kind \in {"ScheduleActivation", "ScheduleRotation"}

\* The emergency actions a completed transaction discharges.
Discharged(tx, ok) ==
  (IF ok /\ tx.kind = "PauseDepositMints" THEN {"deposits"} ELSE {}) \cup
  (IF ok /\ tx.kind = "PauseWithdrawals" THEN {"withdrawals"} ELSE {}) \cup
  (IF SettlesTimelock(tx, ok) THEN {"cancel"} ELSE {})

\* A mutated form: the keys change when the rotation is scheduled.
KeyAfterSchedule(tx, ok) == IF tx.kind \in RotationKinds /\ ok THEN tx.op[2] ELSE key

\* The key generation after a completed transaction.
KeyAfter(tx, ok) == IF tx.kind = "ExecuteRotation" /\ ok THEN tx.op[2] ELSE key

\* The transaction a handler is about to store.
NewTransaction(kind, n) ==
  [id |-> nextId, kind |-> kind, op |-> OpOf(kind), nonce |-> n,
   key |-> key, state |-> "Prepared", gen |-> 0, fee |-> InitialFee,
   byBoot |-> kind \in ActivationKinds /\ boot]

\* The transaction, its nonce and its number are stored in one step, before
\* anything is signed.
StorePrepared ==
  /\ handler.at = "store"
  /\ nextId < MaxOps /\ handler.nonce < MaxNonce
  /\ LET kind == handler.kind
         lane == LaneOf(kind)
         tx == NewTransaction(kind, handler.nonce)
     IN  /\ AuthorityUnchanged(tx)
         /\ Encodable(kind) /\ Storable(kind, handler.nonce)
         /\ pending' = [pending EXCEPT ![lane] = tx]
         /\ nonce' = [nonce EXCEPT ![lane] = handler.nonce + 1]
         /\ nextId' = nextId + 1
         /\ timelock' = OpAfterStoring(kind)
         /\ rotation' = IF kind = "ScheduleRotation" THEN key + 1 ELSE rotation
         /\ handler' = Signing(lane, nextId)
  /\ UNCHANGED <<sealed, boot, icPaused, attested, key, emergency, lastActivation,
                 controllers, carried, baseVars>>

\* The record refuses the transaction; an uninitialized lane was given the nonce
\* read from Base before that, and keeps it (initialize_governance_nonce_for).
StoreRefused ==
  /\ handler.at = "store"
  /\ LET kind == handler.kind
     IN  /\ AuthorityUnchanged(NewTransaction(kind, handler.nonce))
         /\ Encodable(kind) /\ ~Storable(kind, handler.nonce)
         /\ nonce' = [nonce EXCEPT ![LaneOf(kind)] = IF @ = -1 THEN handler.nonce ELSE @]
  /\ handler' = Idle
  /\ UNCHANGED <<sealed, boot, icPaused, attested, pending, nextId, timelock, rotation, key,
                 emergency, lastActivation, controllers, carried, baseVars>>

\* abort_prepared_governance_transaction_for_emergency: nothing was signed, so
\* the nonce is free again and a schedule is forgotten.
Abort(lane) ==
  LET tx == pending[lane]
      schedules == tx.kind \in {"ScheduleActivation", "ScheduleRotation"}
  IN  /\ emergency # {} /\ MayAbort(tx)
      /\ nonce[lane] = tx.nonce + 1
      /\ schedules => timelock = tx.op
      /\ pending' = [pending EXCEPT ![lane] = None]
      /\ nonce' = [nonce EXCEPT ![lane] = tx.nonce]
      /\ timelock' = IF schedules THEN NoOp ELSE timelock
      /\ rotation' = IF tx.kind = "ScheduleRotation" THEN 0 ELSE rotation
      /\ emergency' = IF schedules THEN emergency \ {"cancel"} ELSE emergency
      /\ UNCHANGED <<sealed, boot, icPaused, attested, nextId, key, lastActivation>>

\* The artifact somebody may relay; the key is the one in force when it is signed.
Artifact(tx) ==
  [id |-> tx.id, kind |-> tx.kind, op |-> tx.op, nonce |-> tx.nonce,
   role |-> LaneOf(tx.kind), key |-> key, fee |-> tx.fee]

\* One whose nonce is used already is of no use to anybody.
Publish(lane, tx) ==
  /\ pending' = [pending EXCEPT ![lane] = tx]
  /\ signed' = signed \cup {a \in {Artifact(tx)} : a.nonce >= account[lane][key]}
  /\ UNCHANGED <<sealed, boot, icPaused, attested, nonce, nextId, timelock, rotation,
                 key, emergency, lastActivation, base, account, receipts>>

\* sign_prepared after the signature arrived.
SignatureReturns ==
  /\ handler.at = "sign"
  /\ LET lane == handler.lane
         tx == pending[lane]
     IN  /\ tx.id = handler.id /\ tx.state = "Prepared"
         /\ AuthorityUnchanged(tx)
         /\ IF HeldBack(tx)
            THEN Abort(lane) /\ UNCHANGED baseVars
            ELSE Publish(lane, [tx EXCEPT !.state = "Signed"])
  /\ handler' = Idle
  /\ UNCHANGED <<controllers, carried>>

\* prepare_replacement: the same operation and nonce at a higher fee.
BeginReplacement(caller, lane) ==
  /\ handler = Idle /\ sealed
  /\ LET tx == pending[lane]
     IN  /\ tx # None /\ TransactionAuthorized(caller, tx)
         /\ tx.state = "Signed" /\ tx.gen < MaxReplacements
         /\ LeastBump(tx.fee) <= FeeCeiling
         /\ handler' = Replacing(lane, tx.id)
  /\ UNCHANGED <<canisterVars, controllers, carried, baseVars>>

ReplacementReturns ==
  /\ handler.at = "replace"
  /\ LET tx == pending[handler.lane]
     IN  /\ tx.id = handler.id /\ tx.state = "Signed"
         /\ AuthorityUnchanged(tx)
         /\ ~HeldBack(tx)
         /\ Publish(handler.lane, [tx EXCEPT !.gen = @ + 1, !.fee = LeastBump(@)])
  /\ handler' = Idle
  /\ UNCHANGED <<controllers, carried>>

\* confirm_base_governance_transaction up to the receipt.
BeginConfirm(caller, lane) ==
  /\ handler = Idle /\ sealed
  /\ caller \in {"relayer", "governance", "pause"}
  /\ LET tx == pending[lane]
     IN  /\ tx # None /\ tx.state = "Signed" /\ AuthorityUnchanged(tx)
         /\ handler' = Confirming(lane, tx.id)
  /\ UNCHANGED <<canisterVars, controllers, carried, baseVars>>

\* A final receipt, and the state of the same finalized block.
ReceiptArrives ==
  /\ handler.at = "receipt"
  /\ LET tx == pending[handler.lane]
     IN  /\ AuthorityUnchanged(tx)
         /\ \E r \in receipts :
              /\ r.id = tx.id
              /\ r.ok => PostconditionOk(tx)
              /\ handler' = Completing(handler.lane, tx.id, r.ok)
  /\ UNCHANGED <<canisterVars, controllers, carried, baseVars>>

\* apply_governance_completion and, for an activation,
\* complete_confirmed_activation_and_resume_if_clear.
ConfirmCompletes ==
  /\ handler.at = "complete"
  /\ LET lane == handler.lane
         tx == pending[lane]
         ok == handler.ok
         settles == SettlesTimelock(tx, ok)
         activated == tx.kind = "ExecuteActivation" /\ ok
         rotated == KeyAfter(tx, ok) # key
     IN  /\ AuthorityUnchanged(tx)
         /\ settles => timelock = tx.op
         /\ settles /\ tx.kind \in RotationKinds => rotation = tx.op[2]
         /\ pending' = [pending EXCEPT ![lane] = None]
         /\ timelock' = IF settles THEN NoOp ELSE timelock
         /\ rotation' = IF settles /\ tx.kind \notin ActivationKinds THEN 0 ELSE rotation
         /\ emergency' = emergency \ Discharged(tx, ok)
         /\ key' = KeyAfter(tx, ok)
         /\ nonce' = IF rotated THEN [l \in Lanes |-> -1] ELSE nonce
         /\ lastActivation' = IF ok /\ tx.kind \in ActivationKinds
                              THEN [id |-> tx.id, kind |-> tx.kind] ELSE lastActivation
         /\ boot' = (boot /\ ~activated)
         /\ icPaused' = IF activated THEN emergency' # {} ELSE icPaused
         /\ carried' = IF rotated
                       THEN carried \cup {l \in Lanes : pending'[l] # None} ELSE carried
         /\ receipts' = {r \in receipts : r.id # tx.id}
  /\ handler' = Idle
  /\ UNCHANGED <<sealed, attested, nextId, controllers, base, account, signed>>

\* A handler gives up at an await; the guard is released, what it stored stays.
HandlerEnds ==
  /\ handler # Idle
  /\ handler' = Idle
  /\ UNCHANGED <<canisterVars, controllers, carried, baseVars>>

----------------------------------------------------------------------------
(* Emergencies *)

\* emergency_pause: synchronous, for the pause principal only.
EmergencyPause ==
  /\ icPaused' = TRUE
  /\ emergency' = {"deposits", "withdrawals"} \cup
                  (IF timelock # NoOp THEN {"cancel"} ELSE {})
  /\ UNCHANGED <<sealed, boot, attested, nonce, pending, nextId, timelock, rotation,
                 key, lastActivation, handler, controllers, carried, baseVars>>

\* pause_new_deposits: the canister stops, Base does not.
PauseNewDeposits ==
  /\ icPaused' = TRUE
  /\ UNCHANGED <<sealed, boot, attested, nonce, pending, nextId, timelock, rotation,
                 key, emergency, lastActivation, handler, controllers, carried, baseVars>>

\* next_emergency_base_action
NextEmergency ==
  CASE "deposits" \in emergency -> "PauseDepositMints"
    [] "withdrawals" \in emergency -> "PauseWithdrawals"
    [] OTHER -> "CancelTimelock"

\* prepare_next_emergency_base_transaction: an unsigned dangerous transaction in
\* the lane gives way, an emergency transaction is resumed, any other blocks.
PrepareNextEmergency(caller) ==
  /\ handler = Idle /\ sealed /\ emergency # {}
  /\ caller \in {"governance", "pause"}
  /\ LET kind == NextEmergency
         lane == LaneOf(kind)
         tx == pending[lane]
     IN  \/ /\ tx = None
            /\ handler' = Observing(kind)
            /\ UNCHANGED canisterVars
         \/ /\ tx # None /\ tx.kind \in EmergencyKinds
            /\ Resume(caller, tx)
            /\ UNCHANGED canisterVars
         \/ /\ tx # None /\ tx.kind \notin EmergencyKinds
            /\ Abort(lane)
            /\ handler' = Observing(kind)
  /\ UNCHANGED <<controllers, carried, baseVars>>

----------------------------------------------------------------------------
(* Base and the outside world *)

\* What an included transaction does to the contracts.
Included(a) ==
  LET sender == Account(a.role, a.key)
  IN  CASE a.kind = "PauseDepositMints" -> PauseDepositMints(base, sender)
        [] a.kind = "PauseWithdrawals" -> PauseWithdrawals(base, sender)
        [] a.kind = "SetServiceFee" -> SetServiceFee(base, sender, NewFee)
        [] a.kind = "CancelTimelock" -> Cancel(base, sender, a.op)
        [] a.kind \in {"ScheduleActivation", "ScheduleRotation"} ->
             ScheduleBatch(base, sender, a.op)
        [] a.kind \in {"ExecuteActivation", "ExecuteRotation"} ->
             ExecuteBatch(base, sender, a.op)

\* Anybody relays a signed transaction; Base includes it when its nonce is next.
Relay(a) ==
  /\ account[a.role][a.key] = a.nonce
  /\ base' = Included(a).b
  /\ account' = [account EXCEPT ![a.role][a.key] = @ + 1]
  /\ signed' = {t \in signed : <<t.role, t.key, t.nonce>> # <<a.role, a.key, a.nonce>>}
  /\ receipts' = receipts \cup {[id |-> a.id, ok |-> Included(a).ok]}
  /\ UNCHANGED <<canisterVars, handler, controllers, carried>>

TimePasses(op) ==
  /\ base.ops[op] = "waiting"
  /\ base' = DelayPasses(base, op)
  /\ UNCHANGED <<canisterVars, handler, controllers, carried, account, signed, receipts>>

\* The installer hands the canister over to the SNS root.
HandOver ==
  /\ controllers = {"installer"}
  /\ controllers' = {"root"}
  /\ UNCHANGED <<canisterVars, handler, carried, baseVars>>

Prepare == \E c \in Callers, k \in Actions : BeginPrepare(c, k)
Sns == \E k \in ActivationKinds \cap Actions, i \in Ids : SnsActivation(k, i)
Replace == \E c \in Callers, l \in Lanes : BeginReplacement(c, l)
Confirm == \E c \in Callers, l \in Lanes : BeginConfirm(c, l)
DrainEmergency == \E c \in Callers : PrepareNextEmergency(c)
RelaySome == \E a \in signed : Relay(a)
DelayEnds == \E op \in TimelockOps : TimePasses(op)

Next ==
  \/ BeginSeal \/ SealStores \/ BeginRefreshAttestation \/ RefreshAttestation
  \/ Prepare \/ Sns \/ Observe \/ StorePrepared \/ StoreRefused \/ SignatureReturns
  \/ Replace \/ ReplacementReturns
  \/ Confirm \/ ReceiptArrives \/ ConfirmCompletes \/ HandlerEnds
  \/ EmergencyPause \/ PauseNewDeposits \/ DrainEmergency
  \/ RelaySome \/ DelayEnds \/ HandOver

Spec == Init /\ [][Next]_vars

----------------------------------------------------------------------------
(* Properties *)

\* A signed transaction is never displaced by another operation: two signed
\* transactions of one account and nonce belong to one operation.
OneOperationPerNonce ==
  \A a, b \in signed :
    a.role = b.role /\ a.key = b.key /\ a.nonce = b.nonce => a.id = b.id

\* The nonces the canister hands out are the ones Base expects: a lane's
\* transaction has the next nonce of its account, or is the last one included;
\* an idle lane's next nonce is its account's; and nothing else that was signed
\* can take that nonce.  A lane that held a transaction while a rotation of the
\* keys was confirmed is not covered (see OneOperationPerNonce).
NoncesUsable ==
  \A l \in Lanes \ carried :
    LET tx == pending[l]
        included == \E r \in receipts : r.id = tx.id
    IN  /\ \A a \in signed : a.role = l /\ a.key = key => a.id = tx.id
        /\ IF tx = None
           THEN nonce[l] \in {-1, account[l][key]}
           ELSE /\ nonce[l] = tx.nonce + 1
                /\ account[l][key] = IF included THEN tx.nonce + 1 ELSE tx.nonce

\* While an emergency action is due, no signature for a fee change, a schedule or
\* an execution is stored or returned, although the signing call began before the
\* emergency (dangerous_governance_kind after sign and replace); and the canister
\* resumes only when no emergency action is left.
NoDangerInEmergency ==
  [][/\ \A a \in signed' \ signed : a.kind \in DangerousKinds => emergency = {}
     /\ icPaused /\ ~icPaused' => emergency' = {}]_vars

\* The canister holds the keys of Base's roles: all four roles belong to one
\* generation, the canister's, or the next one while the executed rotation waits
\* for its confirmation.
RolesFollowRotation ==
  \E g \in Generations :
    /\ RolesOf(g)
    /\ \/ g = key
       \/ /\ g = key + 1
          /\ pending["governance"] # None
          /\ pending["governance"].kind = "ExecuteRotation"
          /\ [id |-> pending["governance"].id, ok |-> TRUE] \in receipts

\* An operation waiting in the timelock is the one on the canister's record, so
\* an emergency cancels it; and a required cancellation has an operation to name.
NoForgottenTimelock ==
  /\ PendingOps(base) \subseteq {timelock}
  /\ "cancel" \in emergency => timelock # NoOp
============================================================================
