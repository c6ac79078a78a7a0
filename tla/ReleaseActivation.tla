------------------------- MODULE ReleaseActivation -------------------------
(***************************************************************************)
(* The evidence the release tool (tools/bridge-profile) keeps of the first *)
(* activation of a production canister: the seal of its operational        *)
(* configuration, and the two phases, schedule and execute, by which the   *)
(* installer resumes deposits.                                             *)
(*                                                                         *)
(* The tool runs on the operator's machine.  It reads the canister by      *)
(* separate queries, so the canister, Base and other calls of the          *)
(* controller move between any two reads.  Its results are files written   *)
(* once; a command may stop anywhere and is started again over the files   *)
(* that exist.  A command is the sequence of steps still to do, as the     *)
(* drivers scripts/production-seal-driver.sh and                           *)
(* scripts/production-activate-driver.sh string the tool's commands and    *)
(* the relayer's together; a step reads the canister or the management     *)
(* canister at most once, and a check of the operator's own files is part  *)
(* of the step beside it.  A check that fails ends the command.            *)
(*                                                                         *)
(* One clock serves the canister and the operator, so a file is never      *)
(* older than one written before it, and a time is kept only where it is   *)
(* compared with another party's or with an age.  The fixed contents of a  *)
(* release (hashes, source revision, profile, provider receipts) are the   *)
(* same in every file and are left out: only what differs between two      *)
(* reads or two files is here.  Relaying needs no command: the signed      *)
(* transaction is public, so Base may include it at any time.              *)
(***************************************************************************)
EXTENDS Naturals, Sequences

CONSTANTS
  MaxTime,           \* bound on the clock
  MaxOps,            \* bound on governance operations ever prepared
  MaxGeneration,     \* bound on replacements of a transaction, and on output paths
  AttestationAge,    \* MAX_ACTIVATION_ATTESTATION_AGE_SECS
  EvidenceAge        \* MAX_EVIDENCE_AGE_SECS

ASSUME ActivationAssumption ==
  /\ MaxTime \in Nat /\ MaxOps \in Nat /\ MaxGeneration \in Nat
  /\ AttestationAge \in Nat /\ EvidenceAge \in Nat

Times  == 1..MaxTime
Phases == {"schedule", "execute"}
Ids    == 0..(MaxOps - 1)
Generations == 0..MaxGeneration
\* An optional value is a sequence of at most one element.
None == <<>>
IsOption(o, S) == o = None \/ (Len(o) = 1 /\ o[1] \in S)

VARIABLES
  now,          \* the clock
  controllers,  \* certified controllers of the canister
  module,       \* certified module of the canister
  can,          \* the stable state of the canister the tool reads
  landed,       \* the attempt of the pending transaction that is final on Base
  seal,         \* the seal's reservation and receipt
  files,        \* the files of each phase
  driver        \* the command that runs

activationVars == <<can, landed, seal, files, driver>>

\* The module of the release, and of the profile the files are bound to.
Released == "v1"

\* Artifact, binding and confirmation have a path for each generation the
\* operator asks for; the authorization is copied along.
EmptyFiles ==
  [auth |-> None, art |-> [g \in Generations |-> None],
   bound |-> [g \in Generations |-> FALSE],
   conf |-> [g \in Generations |-> None], receipt |-> None]

Idle == [phase |-> "none", slot |-> 0, at |-> 0, got |-> None, todo |-> <<>>]

NewCanister ==
  [lifecycle |-> "Bootstrap", paused |-> TRUE, emergency |-> FALSE, attestedAt |-> 0,
   attestedPaused |-> TRUE, tx |-> None, timelock |-> None, last |-> None,
   done |-> {}, nextId |-> 0]

ActivationInit ==
  /\ can = NewCanister /\ landed = None
  /\ seal = [reserved |-> FALSE, receipt |-> None]
  /\ files = [p \in Phases |-> EmptyFiles]
  /\ driver = Idle

Artifacts == [phase : Phases, id : Ids, op : Ids, gen : Generations, signedAt : Times]
Receipts ==
  [id : Ids, op : Ids, signedAt : Times, authorizedAt : Times, verifiedAt : Times]

ActivationTypeOK ==
  /\ now \in Times
  /\ can.lifecycle \in {"Bootstrap", "OperationalConfigSealed", "Activated"}
  /\ IsOption(can.last, Artifacts) /\ IsOption(can.timelock, Ids)
  /\ can.nextId \in 0..MaxOps
  /\ driver.phase \in Phases \cup {"none", "seal"} /\ IsOption(driver.got, Artifacts)
  /\ \A p \in Phases :
       /\ IsOption(files[p].auth, Times) /\ IsOption(files[p].receipt, Receipts)
       /\ \A g \in Generations : IsOption(files[p].art[g], Artifacts)

----------------------------------------------------------------------------
(* The canister *)

Signed(tx) == tx.attempts # <<>>

\* signed_view: the artifact of the newest attempt.
Artifact(tx, gen) ==
  [phase |-> tx.phase, id |-> tx.id, op |-> tx.op, gen |-> gen,
   signedAt |-> tx.attempts[gen + 1]]
SignedView(tx) == Artifact(tx, Len(tx.attempts) - 1)

\* get_pending: a transaction without a signature makes the whole query an
\* error, so the list is read as empty only if nothing is pending.
PendingEmpty == can.tx = None
PendingSigned == can.tx # None /\ Signed(can.tx[1])

\* seal_operational_config, once: it stores the attestation of its preflight.
Sealed(c) ==
  IF c.lifecycle # "Bootstrap" THEN c
  ELSE [c EXCEPT !.lifecycle = "OperationalConfigSealed", !.attestedAt = now,
                 !.attestedPaused = TRUE]

\* Both flows of Base are open once the execution has landed.
BasePaused == can.paused /\ ~(landed # None /\ landed[1].ok /\ can.tx[1].phase = "execute")

\* attestation_refresh_expected_paused and the preflight behind it.
RefreshAllowed ==
  /\ can.lifecycle # "Bootstrap"
  /\ can.paused = (can.lifecycle = "OperationalConfigSealed")
  /\ BasePaused = can.paused
\* refresh_activation_attestation.
Attested(c) == [c EXCEPT !.attestedAt = now, !.attestedPaused = c.paused]

\* schedule_activation and execute_activation up to the signature: a pending
\* transaction of the phase is resumed, and Base agrees with the timelock.
Admitted(phase) ==
  /\ can.lifecycle = "OperationalConfigSealed" /\ can.paused
  /\ controllers = {"installer"}
  /\ IF can.tx # None THEN can.tx[1].phase = phase
     ELSE /\ can.nextId < MaxOps
          /\ (phase = "schedule") = (can.timelock = None)

Prepared(c, phase) ==
  IF c.tx # None THEN c
  ELSE LET op == IF phase = "schedule" THEN c.nextId ELSE c.timelock[1]
       IN  [c EXCEPT !.tx = <<[phase |-> phase, id |-> c.nextId, op |-> op,
                               attempts |-> <<>>]>>,
                     !.timelock = <<op>>, !.nextId = @ + 1]

\* The signature, or a replacement's: its time is read after the signer answered.
SignedNow(c) == [c EXCEPT !.tx = <<[c.tx[1] EXCEPT !.attempts = Append(@, now)]>>]

\* abort_prepared_governance_transaction_for_emergency.
Aborted(c) ==
  [c EXCEPT !.tx = None, !.timelock = IF c.tx[1].phase = "schedule" THEN None ELSE @]

\* confirm and complete_confirmed_activation: the receipt of one attempt settles
\* the transaction, and deposits resume unless an emergency is open.
Confirmed(c, gen, ok) ==
  LET tx == c.tx[1]
      settled == [c EXCEPT !.tx = None,
                           !.done = @ \cup {[id |-> tx.id, gen |-> gen, ok |-> ok]}]
      recorded == [settled EXCEPT !.last = <<Artifact(tx, gen)>>]
  IN  IF tx.phase = "schedule"
      THEN IF ok THEN recorded ELSE [settled EXCEPT !.timelock = None]
      ELSE IF ~ok THEN settled
      ELSE [recorded EXCEPT !.timelock = None, !.paused = c.emergency,
                            !.lifecycle = "Activated"]

----------------------------------------------------------------------------
(* What the tool checks.  A check reads the canister once. *)

\* validate_activation_time.
EvidenceCurrent(at) == at <= now /\ now - at <= EvidenceAge

\* validate_activation_attestation_time and _with_pause.
AttestationValid(paused) ==
  /\ can.attestedAt # 0 /\ now - can.attestedAt <= AttestationAge
  /\ can.attestedPaused = paused

\* gate_b_management_snapshot.
Management == controllers = {"installer"} /\ module = Released

\* validate_operational_config_seal_receipt, of the file alone: the attestation
\* it holds must have been valid when it was verified.
SealReceiptValid ==
  seal.receipt # None /\ seal.receipt[1].attested

\* gate_b_initial_activation_binding: the bundle expects the governance operation
\* the canister was installed with, and the timelock operation it leads to.
FirstOperation(x) == x.id = 0 /\ x.op = 0

\* validate_controller_schedule_receipt.
ScheduleReceiptValid ==
  /\ files["schedule"].receipt # None
  /\ LET r == files["schedule"].receipt[1]
     IN  EvidenceCurrent(r.authorizedAt) /\ FirstOperation(r)

\* The operation of an artifact: the first one, or the one of the schedule
\* receipt under a later governance operation.
OperationBound(art) ==
  IF art.phase = "schedule" THEN FirstOperation(art)
  ELSE /\ ScheduleReceiptValid
       /\ art.op = files["schedule"].receipt[1].op
       /\ art.id > files["schedule"].receipt[1].id

\* validate_controller_activation_authorization.
AuthorizationCurrent(phase) ==
  files[phase].auth # None /\ EvidenceCurrent(files[phase].auth[1])

\* controller_activation_authorization_is_fresh.
AuthorizationFresh(phase) == now - files[phase].auth[1] <= AttestationAge

\* verify_controller_activation_artifact_binding, after its live context.
ArtifactBound(phase, g) ==
  /\ AuthorizationCurrent(phase) /\ files[phase].bound[g]
  /\ OperationBound(files[phase].art[g][1])

\* validate_controller_activation_timeline: authorized, bound, confirmed, verified.
TimelineOrdered(phase, g) ==
  /\ files[phase].bound[g] /\ files[phase].conf[g] # None
  /\ EvidenceCurrent(files[phase].auth[1])

\* The status an activation receipt is written for.
StatusMatches(phase, g) ==
  LET art == files[phase].art[g][1]
  IN  /\ can.last = <<art>>
      /\ IF phase = "schedule" THEN can.paused /\ can.timelock = <<art.op>>
                               ELSE ~can.paused /\ can.timelock = None

\* verify_controller_schedule_receipt_live, after its live context.
ScheduleReceiptLive ==
  /\ ScheduleReceiptValid
  /\ LET r == files["schedule"].receipt[1]
     IN  /\ can.paused /\ can.timelock = <<r.op>> /\ can.last # None
         /\ can.last[1].phase = "schedule" /\ can.last[1].id = r.id
         /\ can.last[1].op = r.op /\ can.last[1].signedAt = r.signedAt

----------------------------------------------------------------------------
(* The commands, as the steps the drivers run one after the other *)

\* verify_live: verify_live_inputs, the management state, the attestation.
VerifyLive == <<"Status", "Pending", "Management", "Attestation">>

\* validate_operational_config_seal_receipt in the contexts PrePrepare,
\* PendingResume and ScheduleFinalization, and ExecuteFinalization.
LiveContext == <<"Lifecycle", "Attestation", "Status">>
PrePrepare == VerifyLive \o <<"SealReceipt">>
Resume     == LiveContext \o <<"SealReceipt">>
Finalization(phase) ==
  IF phase = "schedule" THEN Resume
  ELSE <<"Activated", "OpenAttestation", "Open", "SealReceipt">>

\* production_validate_gate gate-b-live; for execute it ends with the receipt of
\* the schedule, verify_controller_schedule_receipt_live.
GateLive(phase) ==
  <<"TryRefresh">> \o VerifyLive \o
  (IF phase = "execute" THEN Resume \o <<"ScheduleLive", "Management">> ELSE <<>>)

\* production-seal-driver.sh after the reservation.
SealCall  == <<"CallSeal">>
ProveSeal == VerifyLive \o <<"Lifecycle", "ReadAttestation", "Status", "Pending",
                             "WriteSealReceipt">>

\* A mutated form: the authorization is dated after the last observation.
AuthorizeDatedLate == PrePrepare \o VerifyLive \o
                      <<"Stamp", "WriteAuthorization">>

\* controller_activation_authorization with an output.
Authorize == PrePrepare \o <<"Stamp">> \o VerifyLive \o <<"WriteAuthorization">>

\* controller_activation_authorization with an existing file.
VerifyAuthorization == Resume \o <<"Authorized">>

\* verify_controller_activation_authorization_fresh, then the controller's call.
PrepareCall ==
  VerifyAuthorization \o <<"Fresh", "CallPrepare", "Answer", "WriteArtifact", "Bind">>

\* The prepare step with and without an authorization on file.
PrepareNew(phase) == GateLive(phase) \o Authorize \o PrepareCall
PrepareAgain == VerifyAuthorization \o <<"Recover", "WriteArtifact", "Bind">>
PrepareUnrecovered(phase) == GateLive(phase) \o PrepareCall

\* The replace step; its new paths are the next slot.
Replacement ==
  VerifyAuthorization \o LiveContext \o
  <<"ArtifactBound", "CallReplace", "WriteArtifact", "Bind">>

\* The confirm step, ending in verify_controller_activation.
Confirmation(phase) ==
  <<"ArtifactBound", "CallConfirm", "WriteConfirmation", "Refresh">>
  \o Finalization(phase) \o <<"StatusMatches", "WriteReceipt">>

Step == driver.todo[1]
Doing(step) == driver.todo # <<>> /\ Step = step
\* The driver after a step; an empty rest ends the command.
Then(d) == IF Tail(d.todo) = <<>> THEN Idle ELSE [d EXCEPT !.todo = Tail(d.todo)]
ThenDo(d, rest) == [d EXCEPT !.todo = rest]

----------------------------------------------------------------------------
(* The steps of a command *)

envVars == <<now, controllers, module>>

Start(phase, slot, todo) ==
  /\ driver = Idle
  /\ driver' = [phase |-> phase, slot |-> slot, at |-> 0, got |-> None, todo |-> todo]
  /\ UNCHANGED <<envVars, can, landed, seal, files>>

\* production-seal-driver.sh: a receipt is never written again, and an existing
\* reservation means the update may have been sent.
StartSeal ==
  /\ seal.receipt = None
  /\ driver = Idle
  /\ driver' = [Idle EXCEPT !.phase = "seal",
                            !.todo = IF seal.reserved THEN ProveSeal
                                                      ELSE SealCall \o ProveSeal]
  /\ seal' = [seal EXCEPT !.reserved = TRUE]
  /\ UNCHANGED <<envVars, can, landed, files>>

\* production-activate-driver.sh; outputs without an authorization are refused,
\* and execute needs the receipt of the schedule.
StartPrepare(phase) ==
  /\ seal.receipt # None
  /\ phase = "execute" => files["schedule"].receipt # None
  /\ LET f == files[phase]
     IN  IF f.auth = None
         THEN f.art[0] = None /\ ~f.bound[0] /\ Start(phase, 0, PrepareNew(phase))
         ELSE Start(phase, 0, PrepareAgain)

StartReplace(phase, g) ==
  /\ g + 1 \in Generations /\ files[phase].bound[g]
  /\ Start(phase, g, Replacement)

StartConfirm(phase, g) ==
  /\ files[phase].bound[g] /\ files[phase].receipt = None
  /\ Start(phase, g, Confirmation(phase))

\* What a step that only reads has to find.  In verify_live: the status, the pending
\* transactions, the certified management state and the attestation.
LiveInputPasses(step) ==
  \/ step = "Status" /\ can.paused
  \/ step = "Open" /\ ~can.paused
  \/ step = "Pending" /\ PendingEmpty
  \/ step = "Management" /\ Management
  \/ step = "Attestation" /\ AttestationValid(TRUE)

\* In the live part of the check of the seal receipt.
LiveContextPasses(step) ==
  \/ step = "OpenAttestation" /\ AttestationValid(FALSE)
  \/ step = "Lifecycle" /\ can.lifecycle = "OperationalConfigSealed"
  \/ step = "Activated" /\ can.lifecycle = "Activated"
  \/ step = "SealReceipt" /\ SealReceiptValid /\ Management

\* In the verification that ends a confirmation.
VerificationPasses(step) ==
  /\ step = "StatusMatches"
  /\ TimelineOrdered(driver.phase, driver.slot)
  /\ files[driver.phase].conf[driver.slot][1]
  /\ OperationBound(files[driver.phase].art[driver.slot][1])
  /\ StatusMatches(driver.phase, driver.slot)

Passes(step) ==
  \/ LiveInputPasses(step)
  \/ LiveContextPasses(step)
  \/ step = "ScheduleLive" /\ ScheduleReceiptLive
  \/ step = "Authorized" /\ AuthorizationCurrent(driver.phase) /\ Management
  \/ step = "Fresh" /\ AuthorizationFresh(driver.phase)
  \/ step = "ArtifactBound" /\ SealReceiptValid /\ Management
                            /\ ArtifactBound(driver.phase, driver.slot)
  \/ VerificationPasses(step)

CheckPasses ==
  /\ driver.todo # <<>> /\ Passes(Step)
  /\ driver' = Then(driver)
  /\ UNCHANGED <<envVars, can, landed, seal, files>>

\* A failed check, an error, or the operator's machine stopping.
Abort ==
  /\ driver # Idle
  /\ driver' = Idle
  /\ UNCHANGED <<envVars, can, landed, seal, files>>

\* The seal call reaches the canister or is lost; whether its answer arrives makes
\* no difference to what has to be proved afterwards.
CallSeal ==
  /\ Doing("CallSeal")
  /\ can' \in {can, Sealed(can)}
  /\ driver' = Then(driver)
  /\ UNCHANGED <<envVars, landed, seal, files>>

\* The attestation kept in the seal receipt.
ReadAttestation ==
  /\ Doing("ReadAttestation") /\ can.attestedAt # 0
  /\ driver' = Then([driver EXCEPT !.at = can.attestedAt])
  /\ UNCHANGED <<envVars, can, landed, seal, files>>

\* write_operational_config_seal_receipt.
WriteSealReceipt ==
  /\ Doing("WriteSealReceipt") /\ Management /\ seal.receipt = None
  /\ seal' = [seal EXCEPT !.receipt = <<[attested |-> now - driver.at <= AttestationAge]>>]
  /\ driver' = Idle
  /\ UNCHANGED <<envVars, can, landed, files>>

\* refresh_activation_attestation: the gate goes on after a failure, the confirm
\* step does not.
Refresh ==
  /\ \/ /\ Doing("Refresh") \/ Doing("TryRefresh")
        /\ RefreshAllowed
        /\ can' = Attested(can)
     \/ Doing("TryRefresh") /\ UNCHANGED can
  /\ driver' = Then(driver)
  /\ UNCHANGED <<envVars, landed, seal, files>>

Stamp ==
  /\ Doing("Stamp")
  /\ driver' = Then([driver EXCEPT !.at = now])
  /\ UNCHANGED <<envVars, can, landed, seal, files>>

WriteAuthorization ==
  /\ Doing("WriteAuthorization")
  /\ Management /\ files[driver.phase].auth = None /\ EvidenceCurrent(driver.at)
  /\ files' = [files EXCEPT ![driver.phase].auth = <<driver.at>>]
  /\ driver' = Then([driver EXCEPT !.at = 0])
  /\ UNCHANGED <<envVars, can, landed, seal>>

\* The controller's schedule_activation or execute_activation, up to the stored
\* transaction.
CallPrepare ==
  /\ Doing("CallPrepare") /\ Admitted(driver.phase)
  /\ can' = Prepared(can, driver.phase)
  /\ driver' = Then(driver)
  /\ UNCHANGED <<envVars, landed, seal, files>>

Answer ==
  /\ Doing("Answer") /\ PendingSigned /\ can.tx[1].phase = driver.phase
  /\ driver' = Then([driver EXCEPT !.got = <<SignedView(can.tx[1])>>])
  /\ UNCHANGED <<envVars, can, landed, seal, files>>

\* recover-activation: the pending transaction, unless it predates the
\* authorization; else the live gate and a call of the controller again.
Recoverable ==
  /\ PendingSigned /\ can.tx[1].phase = driver.phase
  /\ SignedView(can.tx[1]).signedAt >= files[driver.phase].auth[1]

Recover ==
  /\ Doing("Recover")
  /\ driver' = IF Recoverable
               THEN Then([driver EXCEPT !.got = <<SignedView(can.tx[1])>>])
               ELSE ThenDo(driver, PrepareUnrecovered(driver.phase))
  /\ UNCHANGED <<envVars, can, landed, seal, files>>

\* writeOrMatchArtifact.
WriteArtifact ==
  /\ Doing("WriteArtifact")
  /\ files[driver.phase].art[driver.slot] \in {None, driver.got}
  /\ files' = [files EXCEPT ![driver.phase].art[driver.slot] = driver.got]
  /\ driver' = Then([driver EXCEPT !.got = None])
  /\ UNCHANGED <<envVars, can, landed, seal>>

\* write_prepare_receipt, or the binding that is there.
Bind ==
  /\ Doing("Bind")
  /\ files' = [files EXCEPT ![driver.phase].bound[driver.slot] = TRUE]
  /\ driver' = Then(driver)
  /\ UNCHANGED <<envVars, can, landed, seal>>

\* replace-activation: a replacement of the artifact on file is signed, or it is
\* there already; it goes to the next paths.
CallReplace ==
  /\ Doing("CallReplace") /\ PendingSigned
  /\ LET tx == can.tx[1]
         art == files[driver.phase].art[driver.slot][1]
     IN  \/ /\ art = SignedView(tx) /\ Len(tx.attempts) <= MaxGeneration
            /\ Admitted(driver.phase) /\ ~can.emergency
            /\ can' = SignedNow(can)
         \/ /\ SignedView(tx) = [art EXCEPT !.gen = @ + 1, !.signedAt = SignedView(tx).signedAt]
            /\ UNCHANGED can
  /\ driver' = Then([driver EXCEPT !.slot = @ + 1, !.got = <<SignedView(can'.tx[1])>>])
  /\ UNCHANGED <<envVars, landed, seal, files>>

\* confirm_base_governance_transaction(op, attempt): the transaction is settled
\* by this call, or it was.
Settled(art) == {d \in can.done : d.id = art.id /\ d.gen = art.gen}
Pends(art) == can.tx # None /\ can.tx[1].id = art.id
LineageOk(art) ==
  Pends(art) => \E g \in 0..(Len(can.tx[1].attempts) - 1) : Artifact(can.tx[1], g) = art

\* The relayer's confirm: an unsigned transaction spoils the query before it, and
\* a call that finds the attempt reverted is an error.
CallConfirm ==
  /\ Doing("CallConfirm") /\ (PendingEmpty \/ PendingSigned)
  /\ LET art == files[driver.phase].art[driver.slot][1]
     IN  /\ LineageOk(art)
         /\ \/ /\ Pends(art) /\ landed # None /\ landed[1].gen = art.gen
               /\ can' = Confirmed(can, art.gen, landed[1].ok)
               /\ landed' = None
               /\ driver' = IF landed[1].ok THEN Then([driver EXCEPT !.at = 1]) ELSE Idle
            \/ /\ ~Pends(art)
               /\ \E d \in Settled(art) :
                    driver' = Then([driver EXCEPT !.at = IF d.ok THEN 1 ELSE 0])
               /\ UNCHANGED <<can, landed>>
  /\ UNCHANGED <<envVars, seal, files>>

\* writeOrMatchConfirmationEvidence.
WriteConfirmation ==
  /\ Doing("WriteConfirmation")
  /\ LET conf == <<driver.at = 1>>
     IN  /\ files[driver.phase].conf[driver.slot] \in {None, conf}
         /\ files' = [files EXCEPT ![driver.phase].conf[driver.slot] = conf]
  /\ driver' = Then([driver EXCEPT !.at = 0])
  /\ UNCHANGED <<envVars, can, landed, seal>>

\* The end of verify_controller_activation.
WriteReceipt ==
  /\ Doing("WriteReceipt") /\ files[driver.phase].receipt = None
  /\ Management /\ TimelineOrdered(driver.phase, driver.slot)
  /\ LET f == files[driver.phase]
         art == f.art[driver.slot][1]
     IN  files' = [files EXCEPT ![driver.phase].receipt =
           <<[id |-> art.id, op |-> art.op, signedAt |-> art.signedAt,
              authorizedAt |-> f.auth[1], verifiedAt |-> now]>>]
  /\ driver' = Idle
  /\ UNCHANGED <<envVars, can, landed, seal>>

----------------------------------------------------------------------------
(* The canister, Base and other callers *)

\* A call of the controller outside the drivers.
ControllerPrepares(phase) ==
  /\ Admitted(phase) /\ can.tx = None
  /\ can' = Prepared(can, phase)
  /\ UNCHANGED <<envVars, landed, seal, files, driver>>

\* The signer answers; an open emergency drops the transaction instead.
CanisterSigns ==
  /\ can.tx # None /\ ~Signed(can.tx[1]) /\ can.paused
  /\ can' = IF can.emergency THEN Aborted(can) ELSE SignedNow(can)
  /\ UNCHANGED <<envVars, landed, seal, files, driver>>

\* Anybody relays an attempt; one of them becomes final.
Lands(gen, ok) ==
  /\ PendingSigned /\ landed = None /\ gen < Len(can.tx[1].attempts)
  /\ landed' = <<[gen |-> gen, ok |-> ok]>>
  /\ UNCHANGED <<envVars, can, seal, files, driver>>

\* emergency_pause; the transactions it calls for are not part of this module, so
\* the emergency stays open.
EmergencyPause ==
  /\ can.lifecycle # "Bootstrap" /\ ~can.emergency
  /\ can' = [can EXCEPT !.emergency = TRUE, !.paused = TRUE]
  /\ UNCHANGED <<envVars, landed, seal, files, driver>>

\* The confirmation relayer refreshes the attestation.
RelayerRefreshes ==
  /\ RefreshAllowed
  /\ can' = Attested(can)
  /\ UNCHANGED <<envVars, landed, seal, files, driver>>

\* The operator gives up a phase's files and names new paths.
NewPaths(phase) ==
  /\ driver = Idle /\ files[phase].auth # None /\ files[phase].receipt = None
  /\ files' = [files EXCEPT ![phase] = EmptyFiles]
  /\ UNCHANGED <<envVars, can, landed, seal, driver>>

Tick ==
  /\ now < MaxTime
  /\ now' = now + 1
  /\ UNCHANGED <<controllers, module, activationVars>>

DriverStep ==
  \/ CheckPasses \/ Abort
  \/ CallSeal \/ ReadAttestation \/ WriteSealReceipt
  \/ Refresh \/ Stamp \/ WriteAuthorization
  \/ CallPrepare \/ Answer \/ Recover \/ WriteArtifact \/ Bind
  \/ CallReplace \/ CallConfirm \/ WriteConfirmation \/ WriteReceipt

ActivationNext ==
  \/ StartSeal
  \/ \E phase \in Phases :
       \/ StartPrepare(phase) \/ ControllerPrepares(phase) \/ NewPaths(phase)
       \/ \E g \in Generations : StartReplace(phase, g) \/ StartConfirm(phase, g)
  \/ DriverStep
  \/ CanisterSigns \/ \E g \in Generations, ok \in BOOLEAN : Lands(g, ok)
  \/ EmergencyPause \/ RelayerRefreshes

----------------------------------------------------------------------------
\* Every activation receipt is of a transaction the canister signed after the
\* operator had authorized it, and the execution was authorized after its
\* schedule had been verified (the comment in controller_activation_authorization
\* on the time of an authorization, and recover-activation).  The times compared
\* come from the canister and from separate runs of the tool.
SignedUnderAuthorization ==
  /\ \A p \in Phases : files[p].receipt # None =>
       files[p].receipt[1].authorizedAt <= files[p].receipt[1].signedAt
  /\ files["execute"].receipt # None =>
       LET s == files["schedule"].receipt
           e == files["execute"].receipt[1]
       IN  /\ s # None /\ s[1].op = e.op /\ s[1].id < e.id
           /\ s[1].verifiedAt <= e.authorizedAt
============================================================================
