--------------------------- MODULE ReleaseUpgrade ---------------------------
(***************************************************************************)
(* How an activated canister is upgraded and handed over to the SNS, and   *)
(* what the release tool may report of it: the upgrade the installer       *)
(* sends, and the verification of an SNS upgrade proposal.                 *)
(*                                                                         *)
(* A command is a session: the steps it still has to take and what it has  *)
(* read.  Anything may happen between two reads of the canister.  A read   *)
(* that does not find what the tool asks for ends the session; what the    *)
(* tool asks for beyond the state modelled here (bindings, reserve,        *)
(* storage integrity) can only end it too.                                 *)
(*                                                                         *)
(* What the queries of a snapshot answer is kept only as far as it is      *)
(* judged.  That the canister was used between two snapshots ends the      *)
(* session at their comparison, as any other failure does.                 *)
(*                                                                         *)
(* The operator is asked to wait after an upgrade whose outcome is not     *)
(* known, and may run the command at once all the same: nothing in the     *)
(* tool prevents it.  That they did is recorded in installer.early.        *)
(*                                                                         *)
(* The management canister, SNS Root and SNS Governance are modelled from  *)
(* how the tool uses them: an update is signed with an expiry and may run  *)
(* at any time until then, or never; Root acknowledges an upgrade before   *)
(* or after it runs, and it may trap.                                      *)
(***************************************************************************)
EXTENDS ReleaseActivation

CONSTANTS
  IngressLife,      \* life of a signed update
  RetryWait,        \* the wait the operator is asked for after an unresolved upgrade
  MaxUpgrades       \* bound on upgrades sent and upgrade proposals together

ASSUME UpgradeAssumption ==
  /\ IngressLife \in Nat /\ RetryWait \in Nat /\ IngressLife < RetryWait
  /\ MaxUpgrades \in Nat

Modules == {Released, "v2"}

VARIABLES
  observation,   \* RELEASE_UPGRADE_OBSERVATION
  chunks,        \* the modules whose chunks the canister's chunk store holds
  installer,     \* the upgrades the installer sent
  sns,           \* the registration and the upgrade proposals
  rootRan,       \* when Root last upgraded the canister to a module
  session,       \* the command that runs
  report         \* what the last command reported

upgradeVars == <<observation, chunks, installer, sns, rootRan, session, report>>
\* What a step of a session that only reads leaves alone.
sessionEnv == <<envVars, activationVars, observation, chunks, installer, sns, rootRan>>

NoSession ==
  [kind |-> "none", expect |-> Released, candidate |-> Released, id |-> 0, expiry |-> 0,
   before |-> None, todo |-> <<>>]

UpgradeInit ==
  /\ observation = None /\ chunks = {}
  /\ installer = [sends |-> 0, live |-> {}, ran |-> None, waitUntil |-> 0,
                  early |-> FALSE]
  /\ sns = [registered |-> FALSE, at |-> 0, proposals |-> <<>>]
  /\ rootRan = [m \in Modules |-> 0]
  /\ session = NoSession /\ report = None

Upgrades == 1..MaxUpgrades
Requests == [id : Upgrades, module : Modules, expiry : Nat]
Proposals == [module : Modules, runs : BOOLEAN, at : 0..MaxTime]

UpgradeTypeOK ==
  /\ controllers \in {{"installer"}, {"installer", "root"}, {"root"}}
  /\ module \in Modules /\ chunks \subseteq Modules
  /\ IsOption(observation, [at : Times, by : {"installer", "root"}])
  /\ rootRan \in [Modules -> 0..MaxTime]
  /\ \A r \in installer.live : r \in Requests
  /\ installer.early \in BOOLEAN
  /\ \A n \in DOMAIN sns.proposals : sns.proposals[n] \in Proposals
  /\ session.kind \in {"none", "direct", "sns"}
  /\ IsOption(report, [kind : {"direct", "sns"}, module : Modules, over : Modules,
                       id : Upgrades])

----------------------------------------------------------------------------
(* What the tool checks *)

\* production_upgrade_request_has_time, its margin left out.
HasTime(expiry) == expiry > now

\* The controllers and the registration of the modes sole-unregistered and
\* root-registered.
ExpectedControllers == IF session.kind = "direct" THEN {"installer"} ELSE {"root"}
ExpectedRegistered == session.kind = "sns"

\* validate_production_current_state_core and the pause of the attestation.
CurrentStateOk ==
  /\ can.lifecycle = "Activated" /\ ~can.paused /\ can.timelock = None
  /\ can.last # None /\ can.last[1].phase = "execute"
  /\ PendingEmpty /\ ~can.attestedPaused
CurrentCertifiedOk == controllers = ExpectedControllers /\ module = session.expect

\* ensure_sns_bridge_registration_unchanged, both counts being the expected one.
RegistrationOk == sns.registered = ExpectedRegistered

\* ensure_production_observation_unchanged.
CertifiedView == <<controllers, module>>
Unchanged == session.before = <<CertifiedView>>

\* classify_production_upgrade_observation: CandidatePreserved, where
\* preserved_across_upgrade lets only the module differ.
CandidatePreserved ==
  /\ module = session.candidate
  /\ controllers = session.before[1][1]

\* verified_executed_proposal, of the registration and of an upgrade.
RegistrationExecuted == sns.at # 0
ProposalExecuted(p) == p.at # 0

\* validate_sns_upgrade_action.
ActionMatches(p) == p.module = session.expect

\* A mutated form: any upgrade by Root since the handover will do.
CompletionAllowedLoose(byRoot, completed, decided, handover) ==
  byRoot /\ decided > 0 /\ completed >= handover /\ completed <= now

\* sns_upgrade_completion_allowed.
CompletionAllowed(byRoot, completed, decided, handover) ==
  /\ byRoot
  /\ decided > 0 /\ completed >= decided /\ completed >= handover /\ completed <= now

\* validate_sns_upgrade_completion.
UpgradeObserved(p) ==
  /\ observation # None
  /\ CompletionAllowed(observation[1].by = "root", observation[1].at, p.at, sns.at)

----------------------------------------------------------------------------
(* The commands *)

\* production_upgrade_current_state_snapshot, kept or compared with the one kept.
Snapshot == <<"Snapshot">>
Compare  == <<"Compare">>

\* verify_production_current_profile_state: a snapshot whose parts are judged, and
\* all of it again.
VerifyCurrent ==
  <<"CurrentState", "CurrentCertified", "Registration",
    "CurrentState", "CurrentCertified", "Registration">>

\* execute_production_canister_upgrade: before the update is sent, and after.
DirectSend ==
  Snapshot \o VerifyCurrent \o Compare \o
  <<"Sign", "StoredChunks", "Upload", "ModuleStill">> \o Compare \o <<"Send">>
DirectOutcome == <<"Outcome">> \o VerifyCurrent \o <<"Report">>

\* verify_sns_registration_live, and verify_sns_upgrade_live around it.
RegistrationLive == <<"RegistrationExecuted">> \o VerifyCurrent
SnsUpgradeLive ==
  RegistrationLive \o Snapshot \o
  <<"RegistrationExecuted", "ProposalExecuted", "UpgradeObserved",
    "Compare">> \o VerifyCurrent \o <<"Report">>

At(step) == session.todo # <<>> /\ session.todo[1] = step
Rest(s) == [s EXCEPT !.todo = Tail(s.todo)]

----------------------------------------------------------------------------
(* The steps of a session *)

Upgradable == installer.sends + Len(sns.proposals) < MaxUpgrades

\* What was reported and what ran before is of no concern to a new command.
Begin(kind, expect, candidate, id, todo, early) ==
  /\ session = NoSession /\ driver = Idle
  /\ session' = [NoSession EXCEPT !.kind = kind, !.expect = expect,
                                  !.candidate = candidate, !.id = id, !.todo = todo]
  /\ installer' = [installer EXCEPT !.ran = None, !.early = early]
  /\ report' = None
  /\ UNCHANGED <<envVars, activationVars, observation, chunks, sns, rootRan>>

\* production-canister-upgrade.sh execute: the candidate differs from the module
\* reviewed.  Whether the wait is over is not looked at.
StartDirect(current, candidate) ==
  /\ Upgradable /\ current # candidate
  /\ Begin("direct", current, candidate, 0, DirectSend,
           installer.early \/ now < installer.waitUntil)

StartSnsCheck(m, id) ==
  /\ id <= Len(sns.proposals)
  /\ Begin("sns", m, m, id, SnsUpgradeLive, installer.early)

\* What a read has to find.
Finds(step) ==
  \/ step = "Compare" /\ Unchanged
  \/ step = "CurrentState" /\ CurrentStateOk
  \/ step = "CurrentCertified" /\ CurrentCertifiedOk
  \/ step = "Registration" /\ RegistrationOk
  \/ step = "ModuleStill" /\ module = session.expect
  \/ step = "StoredChunks" /\ HasTime(session.expiry) /\ "installer" \in controllers
                           /\ chunks \subseteq {session.candidate}
  \/ step = "RegistrationExecuted" /\ RegistrationExecuted
  \/ step = "ProposalExecuted" /\ ProposalExecuted(sns.proposals[session.id])
                               /\ ActionMatches(sns.proposals[session.id])
  \/ step = "UpgradeObserved" /\ UpgradeObserved(sns.proposals[session.id])

Reads ==
  /\ session.todo # <<>> /\ Finds(session.todo[1])
  /\ session' = Rest(session)
  /\ UNCHANGED <<sessionEnv, report>>

KeepSnapshot ==
  /\ At("Snapshot")
  /\ session' = Rest([session EXCEPT !.before = <<CertifiedView>>])
  /\ UNCHANGED <<sessionEnv, report>>

\* A failed check, a lost answer, or the operator's machine stopping.
Stops ==
  /\ session # NoSession
  /\ session' = NoSession
  /\ UNCHANGED <<sessionEnv, report>>

\* build_production_upgrade_submission: every update of the session is signed here.
Sign ==
  /\ At("Sign")
  /\ session' = Rest([session EXCEPT !.expiry = now + IngressLife])
  /\ UNCHANGED <<sessionEnv, report>>

\* The chunks are stored; the session goes on if the answers arrive.
Upload ==
  /\ At("Upload") /\ HasTime(session.expiry) /\ "installer" \in controllers
  /\ chunks' = chunks \cup {session.candidate}
  /\ session' = Rest(session)
  /\ UNCHANGED <<envVars, activationVars, observation, installer, sns, rootRan, report>>

\* The update is sent.  An answer comes after it ran and an error at any time;
\* both lead to the same observation.  From here on the outcome is not known: a
\* command that ends before its report leaves the operator a wait.
Send ==
  /\ At("Send") /\ HasTime(session.expiry)
  /\ LET id == installer.sends + 1
     IN  /\ installer' = [installer EXCEPT
              !.sends = id, !.waitUntil = now + RetryWait,
              !.live = @ \cup {[id |-> id, module |-> session.candidate,
                                expiry |-> session.expiry]}]
         /\ session' = [session EXCEPT !.id = id, !.expiry = 0, !.todo = DirectOutcome]
  /\ UNCHANGED <<envVars, activationVars, observation, chunks, sns, rootRan, report>>

\* A mutated form: the module observed is taken for the outcome, whichever it is.
OutcomeAnyModule ==
  /\ At("Outcome") /\ controllers = session.before[1][1]
  /\ session' = Rest([session EXCEPT !.expect = module, !.before = None,
                                     !.candidate = session.expect])
  /\ UNCHANGED <<sessionEnv, report>>

\* The module observed decides; from here on the candidate is expected, and the
\* reviewed module is kept for the report.
Outcome ==
  /\ At("Outcome") /\ CandidatePreserved
  /\ session' = Rest([session EXCEPT !.expect = session.candidate, !.before = None,
                                     !.candidate = session.expect])
  /\ UNCHANGED <<sessionEnv, report>>

\* After an upgrade reported as complete there is nothing to wait for.
Report ==
  /\ At("Report")
  /\ report' = <<[kind |-> session.kind, module |-> session.expect,
                  over |-> session.candidate, id |-> session.id]>>
  /\ session' = NoSession
  /\ installer' = IF session.kind = "direct" THEN [installer EXCEPT !.waitUntil = 0]
                                             ELSE installer
  /\ UNCHANGED <<envVars, activationVars, observation, chunks, sns, rootRan>>

----------------------------------------------------------------------------
(* The management canister, the installer and the SNS *)

\* finish_post_upgrade: a trap publishes nothing, and stable state is kept.
Upgraded(m, by) ==
  /\ module' = m
  /\ observation' = <<[at |-> now, by |-> by]>>

\* install_chunked_code of a signed request, at most once: it fails, or traps, or
\* succeeds.
RequestRuns(r) ==
  /\ \/ /\ "installer" \in controllers /\ r.module \in chunks
        /\ Upgraded(r.module, "installer")
        /\ installer' = [installer EXCEPT !.live = @ \ {r},
                                          !.ran = <<[id |-> r.id, over |-> module]>>]
     \/ /\ installer' = [installer EXCEPT !.live = @ \ {r}]
        /\ UNCHANGED <<module, observation>>
  /\ UNCHANGED <<now, controllers, activationVars, chunks, sns, rootRan, session, report>>

\* Time passes: a request past its expiry can no longer run.
RequestsExpire ==
  /\ installer' = [installer EXCEPT
       !.live = {r \in @ : now' <= r.expiry},
       !.waitUntil = IF now' >= @ THEN 0 ELSE @]
  /\ UNCHANGED <<observation, chunks, sns, rootRan, session, report>>

PausedMeanwhile == EmergencyPause /\ UNCHANGED upgradeVars

\* The installer clears the canister's chunk store, between two commands.
ClearChunks ==
  /\ session = NoSession /\ "installer" \in controllers /\ chunks # {}
  /\ chunks' = {}
  /\ UNCHANGED <<envVars, activationVars, observation, installer, sns, rootRan, session,
                 report>>

\* The installer makes Root a controller for the handover.
AddRoot ==
  /\ controllers = {"installer"}
  /\ controllers' = {"installer", "root"}
  /\ UNCHANGED <<now, module, activationVars, upgradeVars>>

\* The registration proposal: Root takes the canister over, then the proposal
\* counts as executed.
RootRegisters ==
  /\ controllers = {"installer", "root"}
  /\ controllers' = {"root"} /\ sns' = [sns EXCEPT !.registered = TRUE]
  /\ UNCHANGED <<now, module, activationVars, observation, chunks, installer, rootRan,
                 session, report>>

\* What only the proposals of the SNS change.
SnsChanges(new) ==
  /\ sns' = new
  /\ UNCHANGED <<envVars, activationVars, observation, chunks, installer, rootRan, session,
                 report>>

RegistrationCounts ==
  sns.registered /\ sns.at = 0 /\ SnsChanges([sns EXCEPT !.at = now])

\* An adopted upgrade proposal: Root is asked to upgrade.  One proposal at a time
\* waits for its answer.
ProposalCalls(m) ==
  /\ sns.registered /\ Upgradable
  /\ \A n \in DOMAIN sns.proposals : sns.proposals[n].at # 0
  /\ SnsChanges([sns EXCEPT !.proposals =
                   Append(@, [module |-> m, runs |-> TRUE, at |-> 0])])

\* Governance records that Root acknowledged, whether or not the upgrade ran; a
\* proposal that fails is never executed.
ProposalCounts(id) ==
  /\ id <= Len(sns.proposals) /\ sns.proposals[id].at = 0
  /\ SnsChanges([sns EXCEPT !.proposals[id].at = now])

\* Root's upgrade runs once: it fails, or traps, or succeeds.
RootUpgrades(id) ==
  /\ id <= Len(sns.proposals) /\ sns.proposals[id].runs
  /\ sns' = [sns EXCEPT !.proposals[id].runs = FALSE]
  /\ LET m == sns.proposals[id].module
     IN  \/ Upgraded(m, "root") /\ rootRan' = [rootRan EXCEPT ![m] = now]
         \/ UNCHANGED <<module, observation, rootRan>>
  /\ UNCHANGED <<now, controllers, activationVars, chunks, installer, session, report>>

UpgradeNext ==
  \/ \E m, n \in Modules : StartDirect(m, n)
  \/ \E m \in Modules : ProposalCalls(m) \/ \E id \in Upgrades : StartSnsCheck(m, id)
  \/ Reads \/ KeepSnapshot \/ Stops \/ Sign \/ Upload \/ Send \/ Outcome \/ Report
  \/ PausedMeanwhile \/ \E r \in installer.live : RequestRuns(r)
  \/ ClearChunks \/ AddRoot \/ RootRegisters \/ RegistrationCounts
  \/ \E id \in Upgrades : RootUpgrades(id) \/ ProposalCounts(id)

----------------------------------------------------------------------------
Reports == {report[n] : n \in DOMAIN report}

\* An upgrade proposal reported as verified was followed by an upgrade of the
\* canister to that very module by SNS Root, completed no earlier than the
\* proposal's execution (verify_sns_upgrade_live); an acknowledgement alone, or an
\* earlier upgrade to the same Wasm, does not pass.
VerifiedUpgradeRan ==
  \A r \in Reports : r.kind = "sns" =>
    rootRan[r.module] > 0 /\ rootRan[r.module] >= sns.proposals[r.id].at

\* An upgrade the installer's tool reports as complete is the one it sent: that
\* request ran, over the module the operator had reviewed, and no request sent
\* until then can still run (execute_production_canister_upgrade).  This assumes an
\* operator who keeps to the wait the tool and the runbook ask for after an
\* unresolved upgrade; the code does not make them.
ReportedUpgradeSettled ==
  ~installer.early =>
    \A r \in Reports : r.kind = "direct" =>
      installer.ran = <<[id |-> r.id, over |-> r.over]>> /\ installer.live = {}
=============================================================================
