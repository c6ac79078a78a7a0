----------------------------- MODULE FundingAttempt -----------------------------
(***************************************************************************)
(* How a deposit's KINIC gets into escrow: request_deposit stores a funding *)
(* attempt, marks it Dispatched and pulls the tokens with                  *)
(* icrc2_transfer_from; the answer promotes the attempt to a deposit       *)
(* record, removes it or leaves it for a retry (api.rs).  A timer          *)
(* (scheduler.rs recover_one_funding_attempt) takes over attempts whose    *)
(* handler never came back.  The two do not exclude each other: every      *)
(* write compares the whole stored attempt with the copy its author read.  *)
(*                                                                         *)
(* A pull identity is the deposit with the attempt's created_at_time; the  *)
(* memo is derived from the deposit id alone.  The ledger and its index    *)
(* are external; their pages are those of LedgerSettlement, abstracted to  *)
(* a first read that fixes the tip and a later one that decides.           *)
(***************************************************************************)
EXTENDS Integers, Sequences

CONSTANTS
    Deposits,
    DedupWindow,   \* LEDGER_DEDUP_NS
    Margin,        \* LEDGER_DEDUP_EXPIRY_MARGIN_NS, and LEDGER_PERMITTED_DRIFT_NS
    Slack,         \* how far past the window the ledger still accepts an identity
    MaxSkew,       \* largest difference between canister and ledger clocks
    RecoverDelay,  \* FUNDING_RECOVERY_INTERVAL_SECONDS, 30 s
    PruneDelay,    \* 120 s
    MaxTime,       \* bound: both clocks stop here
    MaxCalls       \* bound: pull calls per deposit

ASSUME WindowAssumption == /\ DedupWindow \in Nat
                           /\ Margin \in Nat
                           /\ Slack \in Nat
                           /\ MaxSkew \in Nat
                           /\ RecoverDelay \in Nat
                           /\ PruneDelay \in Nat
                           /\ MaxTime \in Nat
                           /\ MaxCalls \in Nat

\* The expiry margin covers the ledger's own slack and the difference of the
\* two clocks.
ASSUME SkewAssumption == Slack + MaxSkew <= Margin

VARIABLES
    now,     \* the canister's clock
    lnow,    \* the ledger's clock
    ledger,  \* external: the ledger's blocks, as the pull identities they executed
    net,     \* external: pull calls not yet delivered
    paused,  \* admin_state.deposits_paused
    att,     \* the stored funding attempt
    rec,     \* the deposit record, with its open funding hold
    hscan,   \* the stored reconciliation scan of that hold
    calls,   \* pull calls made so far: names the calls
    req,     \* the request_deposit handler or settlement run that holds the guard
    rcv,     \* the run of the recovery timer
    fault    \* the recovery marked a scheduler fault

vars == <<now, lnow, ledger, net, paused, att, rec, hscan, calls, req, rcv, fault>>
world == <<now, lnow, ledger, paused>>

Attempt(s, c, t, n, f, sc) ==
    [state |-> s, created |-> c, at |-> t, next |-> n, final |-> f, scan |-> sc]
Fresh == [open |-> FALSE, tip |-> 0]
NoAttempt == Attempt("None", 0, 0, 0, FALSE, Fresh)
NoRecord == [state |-> "None", created |-> 0, block |-> 0]
Idle == [pc |-> "idle", seen |-> NoAttempt, call |-> 0, answer |-> "none", block |-> 0]
Asleep == [pc |-> "idle", seen |-> NoAttempt, found |-> "none", block |-> 0, scan |-> Fresh]

Scans == [open : BOOLEAN, tip : Nat]
Attempts == [state : {"None", "Prepared", "Dispatched", "Retryable", "Reconciling"},
             created : Nat, at : Nat, next : Nat, final : BOOLEAN, scan : Scans]
Identities == [dep : Deposits, created : Nat]
Outcomes == {"none", "confirmed", "rejected", "unavailable", "tooOld"}

TypeOK ==
    /\ now \in Nat /\ lnow \in Nat
    /\ ledger \in Seq(Identities)
    /\ net \subseteq [id : Identities, call : Nat]
    /\ paused \in BOOLEAN /\ fault \in BOOLEAN
    /\ att \in [Deposits -> Attempts]
    /\ rec \in [Deposits -> [state : {"None", "Hold", "Escrowed", "Cancelled"},
                             created : Nat, block : Nat]]
    /\ hscan \in [Deposits -> Scans]
    /\ calls \in [Deposits -> Nat]
    /\ req \in [Deposits -> [pc : {"idle", "pull", "preflight", "hold"}, seen : Attempts,
                             call : Nat, answer : Outcomes, block : Nat]]
    /\ rcv \in [Deposits -> [pc : {"idle", "read", "apply"}, seen : Attempts,
                             found : {"none", "block", "absent", "page"}, block : Nat, scan : Scans]]

Init ==
    /\ now = 0 /\ lnow = 0
    /\ ledger = <<>> /\ net = {} /\ paused = FALSE /\ fault = FALSE
    /\ att = [d \in Deposits |-> NoAttempt]
    /\ rec = [d \in Deposits |-> NoRecord]
    /\ hscan = [d \in Deposits |-> Fresh]
    /\ calls = [d \in Deposits |-> 0]
    /\ req = [d \in Deposits |-> Idle]
    /\ rcv = [d \in Deposits |-> Asleep]
-----------------------------------------------------------------------------
(* The clocks, the pause switch and the ledger: external. *)

CanisterTick ==
    /\ now < MaxTime /\ now + 1 - lnow <= MaxSkew
    /\ now' = now + 1
    /\ UNCHANGED <<lnow, ledger, net, paused, att, rec, hscan, calls, req, rcv, fault>>

LedgerTick ==
    /\ lnow < MaxTime /\ lnow + 1 - now <= MaxSkew
    /\ lnow' = lnow + 1
    /\ UNCHANGED <<now, ledger, net, paused, att, rec, hscan, calls, req, rcv, fault>>

SetPause ==
    /\ paused' = ~paused
    /\ UNCHANGED <<now, lnow, ledger, net, att, rec, hscan, calls, req, rcv, fault>>

InWindow(m) == lnow <= m.created + DedupWindow + Slack
Executed(m) == \E i \in 1..Len(ledger) : ledger[i] = m
Identity(d, c) == [dep |-> d, created |-> c]

\* The answer goes to the handler that made this call, if it still waits.
Answers(q, outcome) ==
    LET d == q.id.dep IN
    req' = IF req[d].pc \in {"pull", "hold"} /\ req[d].call = q.call
           THEN [req EXCEPT ![d] = [pc |-> req[d].pc, seen |-> req[d].seen, call |-> q.call,
                                    answer |-> outcome, block |-> 0]]
           ELSE req

\* A call in the window is executed once; a repetition is a duplicate.
LedgerExecutes(q) ==
    /\ InWindow(q.id)
    /\ ledger' = IF Executed(q.id) THEN ledger ELSE Append(ledger, q.id)
    /\ Answers(q, "confirmed")

LedgerTooOld(q) ==
    /\ ~InWindow(q.id)
    /\ Answers(q, "tooOld")
    /\ UNCHANGED ledger

\* BadFee, InsufficientAllowance... (definitive), or TemporarilyUnavailable,
\* CreatedInFuture... (retryable).
LedgerRefuses(q) ==
    /\ \E outcome \in {"rejected", "unavailable"} : Answers(q, outcome)
    /\ UNCHANGED ledger

LedgerProcesses(q) ==
    /\ q \in net
    /\ LedgerExecutes(q) \/ LedgerTooOld(q) \/ LedgerRefuses(q)
    /\ net' = net \ {q}
    /\ UNCHANGED <<now, lnow, paused, att, rec, hscan, calls, rcv, fault>>
-----------------------------------------------------------------------------
(* request_deposit. *)

\* Mutant: any stored attempt may be overwritten.
CurrentUnchecked(d, a) == TRUE

\* expect_blob: the stored attempt is still the one its author read.
Current(d, a) == att[d] = a

Dispatchable(d) ==
    \/ att[d].state \in {"None", "Prepared"}
    \/ att[d].state = "Retryable" /\ now >= att[d].next

\* A new attempt gets created_at_time = time(); a stored one keeps its own.
CreatedAt(d) == IF att[d].state = "None" THEN now ELSE att[d].created

Pull(d, c, wait, a) ==
    /\ net' = net \cup {[id |-> Identity(d, c), call |-> calls[d] + 1]}
    /\ calls' = [calls EXCEPT ![d] = @ + 1]
    /\ req' = [req EXCEPT ![d] = [pc |-> wait, seen |-> a, call |-> calls[d] + 1,
                                  answer |-> "none", block |-> 0]]

\* Prepare (when there is none) and dispatch in one message, then the pull.
RequestDeposit(d) ==
    LET a == Attempt("Dispatched", CreatedAt(d), now, 0, FALSE, Fresh) IN
    /\ ~paused /\ rec[d].state = "None" /\ req[d].pc = "idle" /\ calls[d] < MaxCalls
    /\ Dispatchable(d)
    /\ att' = [att EXCEPT ![d] = a]
    /\ Pull(d, CreatedAt(d), "pull", a)
    /\ UNCHANGED <<world, rec, hscan, rcv, fault>>

\* The attempt is stored but its dispatch is not: StorageFailure.
PrepareOnly(d) ==
    /\ ~paused /\ rec[d].state = "None" /\ req[d].pc = "idle"
    /\ att[d].state = "None"
    /\ att' = [att EXCEPT ![d] = Attempt("Prepared", now, now, 0, FALSE, Fresh)]
    /\ UNCHANGED <<world, net, rec, hscan, calls, req, rcv, fault>>

\* admit_deposit: the record replaces the attempt, in one transaction.
Promote(d, a, s, i) ==
    IF Current(d, a) /\ rec[d].state = "None"
    THEN /\ att' = [att EXCEPT ![d] = NoAttempt]
         /\ rec' = [rec EXCEPT ![d] = [state |-> s, created |-> a.created, block |-> i]]
    ELSE UNCHANGED <<att, rec>>

\* update_deposit_funding_attempt and remove_deposit_funding_attempt.
Replace(d, a, b) ==
    /\ att' = IF Current(d, a) THEN [att EXCEPT ![d] = b] ELSE att
    /\ UNCHANGED rec

EndRequest(d) == req' = [req EXCEPT ![d] = Idle]

BlockOf(m) == CHOOSE i \in 1..Len(ledger) : ledger[i] = m

\* Mutant: an ambiguous answer gives the attempt up.
FundingDecisionLoses(outcome) == CASE outcome \in {"none", "tooOld"} -> "Release"
                                   [] outcome = "confirmed" -> "PromoteSuccess"
                                   [] outcome = "rejected" -> "Release"
                                   [] OTHER -> "Retain"

\* funding_attempt_decision of the classified answer; TooOld is ambiguous.
FundingDecision(outcome) == CASE outcome = "confirmed" -> "PromoteSuccess"
                              [] outcome \in {"none", "tooOld"} -> "PromoteAmbiguous"
                              [] outcome = "rejected" -> "Release"
                              [] OTHER -> "Retain"

\* Success: the Base preflight is awaited before the record is stored.
PullSucceeded(d) ==
    /\ req[d].pc = "pull" /\ FundingDecision(req[d].answer) = "PromoteSuccess"
    /\ req' = [req EXCEPT ![d] =
           [pc |-> "preflight", seen |-> req[d].seen, call |-> req[d].call,
            answer |-> req[d].answer, block |-> BlockOf(Identity(d, req[d].seen.created))]]
    /\ UNCHANGED <<world, net, att, rec, hscan, calls, rcv, fault>>

PreflightReturns(d) ==
    /\ req[d].pc = "preflight"
    /\ Promote(d, req[d].seen, "Escrowed", req[d].block)
    /\ EndRequest(d)
    /\ UNCHANGED <<world, net, hscan, calls, rcv, fault>>

\* Mutant: an ambiguous answer counts as funded.
PullAmbiguousFunds(d) ==
    /\ req[d].pc = "pull" /\ FundingDecision(req[d].answer) = "PromoteAmbiguous"
    /\ Promote(d, req[d].seen, "Escrowed", 0)
    /\ EndRequest(d)
    /\ UNCHANGED <<world, net, hscan, calls, rcv, fault>>

\* The record waits in FundingReconciliationHold with an open hold.
PullAmbiguous(d) ==
    /\ req[d].pc = "pull" /\ FundingDecision(req[d].answer) = "PromoteAmbiguous"
    /\ Promote(d, req[d].seen, "Hold", 0)
    /\ EndRequest(d)
    /\ UNCHANGED <<world, net, hscan, calls, rcv, fault>>

PullRefused(d) ==
    /\ req[d].pc = "pull" /\ FundingDecision(req[d].answer) = "Release"
    /\ Replace(d, req[d].seen, NoAttempt)
    /\ EndRequest(d)
    /\ UNCHANGED <<world, net, hscan, calls, rcv, fault>>

PullUnavailable(d) ==
    /\ req[d].pc = "pull" /\ FundingDecision(req[d].answer) = "Retain"
    /\ Replace(d, req[d].seen,
               Attempt("Retryable", req[d].seen.created, now, now + RecoverDelay, FALSE, Fresh))
    /\ EndRequest(d)
    /\ UNCHANGED <<world, net, hscan, calls, rcv, fault>>

\* A trap in the callback or an upgrade: the handler, or a settlement run of
\* the hold, is gone.
LoseRequest(d) ==
    /\ req[d].pc # "idle"
    /\ EndRequest(d)
    /\ UNCHANGED <<world, net, att, rec, hscan, calls, rcv, fault>>
-----------------------------------------------------------------------------
(* recover_one_funding_attempt. *)

\* Mutant: a dispatched attempt is never looked at again.
DueAtNever(a) == IF a.state = "Dispatched" THEN MaxTime + 1 ELSE a.next

\* funding_recovery_due_ns.
DueAt(a) == CASE a.state \in {"Prepared", "Retryable"} -> a.at + PruneDelay
              [] a.state = "Dispatched" -> a.at + RecoverDelay
              [] OTHER -> a.next

\* FundingRecoveryGuard: one run at a time, none while deposits are paused.
MayRecover(d) ==
    /\ ~paused /\ \A e \in Deposits : rcv[e].pc = "idle"
    /\ att[d].state # "None" /\ now >= DueAt(att[d])

PruneAttempt(d) ==
    /\ MayRecover(d) /\ att[d].state \in {"Prepared", "Retryable"}
    /\ att' = [att EXCEPT ![d] = NoAttempt]
    /\ UNCHANGED <<world, net, rec, hscan, calls, req, rcv, fault>>

StartRecovery(d) ==
    LET a == IF att[d].state = "Dispatched"
             THEN Attempt("Reconciling", att[d].created, now, now, FALSE, Fresh)
             ELSE att[d]
    IN /\ MayRecover(d) /\ att[d].state \in {"Dispatched", "Reconciling"}
       /\ att' = [att EXCEPT ![d] = a]
       /\ rcv' = [rcv EXCEPT ![d] = [pc |-> "read", seen |-> a, found |-> "none", block |-> 0,
                                     scan |-> a.scan]]
       /\ UNCHANGED <<world, net, rec, hscan, calls, req, fault>>

RecoveryRead(d, found, i, s) ==
    /\ rcv[d].pc = "read"
    /\ rcv' = [rcv EXCEPT ![d] = [pc |-> "apply", seen |-> rcv[d].seen, found |-> found,
                                  block |-> i, scan |-> s]]
    /\ UNCHANGED <<world, net, att, rec, hscan, calls, req, fault>>

\* One reconcile_step of a scan: a page or the index shows the identity...
RecoveryFindsBlock(d) ==
    \E i \in 1..Len(ledger) :
        /\ ledger[i] = Identity(d, rcv[d].seen.created)
        /\ RecoveryRead(d, "block", i, rcv[d].scan)

\* The first page fixes the tip of the scan.
Opened(s) == IF s.open THEN s ELSE [open |-> TRUE, tip |-> Len(ledger)]

\* ... or there are pages left...
RecoveryReadsPage(d) == RecoveryRead(d, "page", 0, Opened(rcv[d].scan))

\* Every block below the tip was read, and the index has them too.
Absent(m, s) == s.open /\ \A j \in 1..s.tip : ledger[j] # m

\* ... or the scan is complete without a match...
RecoveryFindsNothing(d) ==
    /\ Absent(Identity(d, rcv[d].seen.created), rcv[d].scan)
    /\ RecoveryRead(d, "absent", 0, rcv[d].scan)

\* ... or nothing could be read (NoProgress).
RecoveryReadFails(d) == RecoveryRead(d, "page", 0, rcv[d].scan)

EndRecovery(d) ==
    /\ rcv' = [rcv EXCEPT ![d] = Asleep]
    /\ UNCHANGED <<world, net, hscan, calls, req>>

Fault(b) == fault' = (fault \/ b)

RecoveryPromotes(d) ==
    /\ rcv[d].pc = "apply" /\ rcv[d].found = "block"
    /\ Promote(d, rcv[d].seen, "Escrowed", rcv[d].block)
    /\ Fault(~Current(d, rcv[d].seen) /\ rec[d].state = "None")
    /\ EndRecovery(d)

RecoveryProgresses(d) ==
    LET a == rcv[d].seen IN
    /\ rcv[d].pc = "apply" /\ rcv[d].found = "page"
    /\ Replace(d, a, Attempt("Reconciling", a.created, now, now + RecoverDelay, a.final, rcv[d].scan))
    /\ Fault(~Current(d, a))
    /\ EndRecovery(d)

\* Mutants: the margin is forgotten; the final scan starts at once.
ExpiryBoundaryWithoutMargin(c) == c + DedupWindow
FinalScanAtOnce(c) == now

\* funding_dedup_expiry_boundary_ns, funding_final_scan_at_ns.
ExpiryBoundary(c) == c + DedupWindow + Margin
FinalScanAt(c) == ExpiryBoundary(c) + 1

Larger(a, b) == IF a < b THEN b ELSE a

\* RestartFresh: absence before the window closed proves nothing yet.
RecoveryRestarts(d) ==
    LET a == rcv[d].seen IN
    /\ rcv[d].pc = "apply" /\ rcv[d].found = "absent" /\ ~a.final
    /\ Replace(d, a, Attempt("Reconciling", a.created, now,
                             Larger(FinalScanAt(a.created), now), TRUE, Fresh))
    /\ Fault(~Current(d, a))
    /\ EndRecovery(d)

\* Release, after a final scan that began when the identity was dead; a
\* complete final scan with the window still open (Wait) is a fault.
RecoveryReleases(d) ==
    LET a == rcv[d].seen IN
    /\ rcv[d].pc = "apply" /\ rcv[d].found = "absent" /\ a.final
    /\ IF now > ExpiryBoundary(a.created)
       THEN Replace(d, a, NoAttempt) /\ Fault(~Current(d, a))
       ELSE UNCHANGED <<att, rec>> /\ Fault(TRUE)
    /\ EndRecovery(d)

\* A trap or an upgrade ends the run.
LoseRecovery(d) ==
    /\ rcv[d].pc # "idle"
    /\ UNCHANGED <<att, rec, fault>>
    /\ EndRecovery(d)
-----------------------------------------------------------------------------
(* advance_hold for a funding hold, run under the deposit's in-flight guard. *)

\* Mutant: the drift allowance is forgotten.
StillAcceptableWithoutDrift(d) == now <= rec[d].created + DedupWindow

\* ledger_identity_can_still_be_accepted.
StillAcceptable(d) == now <= rec[d].created + DedupWindow + Margin

HoldRun(d) == rec[d].state = "Hold" /\ req[d].pc = "idle"

HoldPulls(d) ==
    /\ HoldRun(d) /\ StillAcceptable(d) /\ calls[d] < MaxCalls
    /\ Pull(d, rec[d].created, "hold", NoAttempt)
    /\ UNCHANGED <<world, att, rec, hscan, rcv, fault>>

Resolve(d, s, i) == rec' = [rec EXCEPT ![d] = [state |-> s, created |-> rec[d].created, block |-> i]]

\* Only a confirmed block closes the hold.
HoldAnswered(d) ==
    /\ req[d].pc = "hold"
    /\ IF req[d].answer = "confirmed"
       THEN Resolve(d, "Escrowed", BlockOf(Identity(d, rec[d].created)))
       ELSE UNCHANGED rec
    /\ EndRequest(d)
    /\ UNCHANGED <<world, net, att, hscan, calls, rcv, fault>>

HoldReadsPage(d) ==
    /\ HoldRun(d) /\ ~StillAcceptable(d)
    /\ hscan' = [hscan EXCEPT ![d] = Opened(hscan[d])]
    /\ UNCHANGED <<world, net, att, rec, calls, req, rcv, fault>>

HoldFindsBlock(d) ==
    /\ HoldRun(d) /\ ~StillAcceptable(d)
    /\ \E i \in 1..Len(ledger) : ledger[i] = Identity(d, rec[d].created) /\ Resolve(d, "Escrowed", i)
    /\ hscan' = [hscan EXCEPT ![d] = Fresh]
    /\ UNCHANGED <<world, net, att, calls, req, rcv, fault>>

AfterFundingAbsence == "Cancelled"

\* FundingAbsent cancels the deposit.
HoldFindsNothing(d) ==
    /\ HoldRun(d) /\ ~StillAcceptable(d)
    /\ Absent(Identity(d, rec[d].created), hscan[d])
    /\ Resolve(d, AfterFundingAbsence, 0)
    /\ hscan' = [hscan EXCEPT ![d] = Fresh]
    /\ UNCHANGED <<world, net, att, calls, req, rcv, fault>>
-----------------------------------------------------------------------------
Environment == CanisterTick \/ LedgerTick \/ SetPause \/ \E q \in net : LedgerProcesses(q)

Request(d) ==
    \/ RequestDeposit(d) \/ PrepareOnly(d) \/ LoseRequest(d)
    \/ PullSucceeded(d) \/ PreflightReturns(d)
    \/ PullAmbiguous(d) \/ PullRefused(d) \/ PullUnavailable(d)

Recovery(d) ==
    \/ PruneAttempt(d) \/ StartRecovery(d) \/ LoseRecovery(d)
    \/ RecoveryFindsBlock(d) \/ RecoveryReadsPage(d) \/ RecoveryFindsNothing(d) \/ RecoveryReadFails(d)
    \/ RecoveryPromotes(d) \/ RecoveryProgresses(d) \/ RecoveryRestarts(d) \/ RecoveryReleases(d)

Hold(d) ==
    HoldPulls(d) \/ HoldAnswered(d) \/ HoldReadsPage(d) \/ HoldFindsBlock(d) \/ HoldFindsNothing(d)

Next == Environment \/ \E d \in Deposits : Request(d) \/ Recovery(d) \/ Hold(d)

Spec == Init /\ [][Next]_vars

\* The clocks run; the timer keeps firing and a claimed hold keeps being
\* continued; a run that keeps being retried is not lost, and its reads do
\* not fail, every time.
Fairness ==
    /\ WF_vars(CanisterTick) /\ WF_vars(LedgerTick)
    /\ \A d \in Deposits :
           /\ WF_vars(PruneAttempt(d)) /\ WF_vars(StartRecovery(d))
           /\ SF_vars(RecoveryReadsPage(d)) /\ SF_vars(RecoveryFindsBlock(d) \/ RecoveryFindsNothing(d))
           /\ WF_vars(RecoveryProgresses(d)) /\ SF_vars(RecoveryProgresses(d) /\ rcv[d].scan.open)
           /\ SF_vars(RecoveryPromotes(d))
           /\ SF_vars(RecoveryRestarts(d)) /\ SF_vars(RecoveryReleases(d))
           /\ WF_vars(HoldAnswered(d))
           /\ SF_vars(HoldReadsPage(d)) /\ SF_vars(HoldFindsBlock(d) \/ HoldFindsNothing(d))

FairSpec == Spec /\ Fairness
-----------------------------------------------------------------------------
(* Properties. *)

Tracked(d, c) == \/ att[d].state # "None" /\ att[d].created = c
                 \/ rec[d].state \in {"Hold", "Escrowed"} /\ rec[d].created = c

\* Every pull the ledger executed belongs to the stored attempt or to the
\* record of its deposit: no path through request_deposit, the recovery timer
\* or the hold forgets tokens that reached escrow, and nobody pays twice for
\* one deposit.
NoForgottenPull == \A i \in 1..Len(ledger) : Tracked(ledger[i].dep, ledger[i].created)

\* One block per deposit: an attempt that was given up is never executed
\* afterwards, so a later attempt of the same deposit cannot pull a second time.
PulledAtMostOnce ==
    \A i, j \in 1..Len(ledger) : ledger[i].dep = ledger[j].dep => i = j

\* A record that promises escrow points at the ledger block that paid it.
EscrowedIsFunded ==
    \A d \in Deposits :
        rec[d].state = "Escrowed" =>
            /\ rec[d].block \in 1..Len(ledger)
            /\ ledger[rec[d].block] = Identity(d, rec[d].created)

\* admit_deposit replaces the attempt by the record; a handler or a recovery
\* run that comes back late never brings the attempt back.
AttemptOrRecord == \A d \in Deposits : att[d].state = "None" \/ rec[d].state = "None"

\* The recovery never meets an attempt that changed under it, nor a complete
\* final scan inside the window: recover_one_funding_attempt marks no fault.
RecoveryIsCurrent == ~fault

\* Bound: the clock still reaches the end of the attempt's window.
WindowEnds(d) == ExpiryBoundary(att[d].created) < MaxTime

\* Once deposits stay unpaused, a dispatched pull does not stay undecided,
\* whatever became of its handler: the attempt becomes a funded record or is
\* given up, and an opened hold is closed.
FundingSettles ==
    (<>[]~paused) =>
        \A d \in Deposits :
            (att[d].state = "Dispatched" /\ WindowEnds(d))
                ~> (att[d].state = "None" /\ rec[d].state # "Hold")
-----------------------------------------------------------------------------
(* The inductive invariant, in parts. *)

\* Somebody still answers for this identity: an attempt whose call is out, or
\* the record that replaced it.
Pursued(d, c) ==
    \/ att[d].state \in {"Dispatched", "Reconciling"} /\ att[d].created = c
    \/ rec[d].state \in {"Hold", "Escrowed"} /\ rec[d].created = c

\* The canister's clock is never more than MaxSkew ahead.
SkewBounded == now - lnow <= MaxSkew

\* Calls are numbered; a call that the ledger can still execute is pursued.
CallsArePursued(d) ==
    \A q \in net : q.id.dep = d => /\ q.call <= calls[d]
                                   /\ InWindow(q.id) => Pursued(d, q.id.created)

\* So is every block, and there is at most one.
BlocksArePursued(d) ==
    \A i \in 1..Len(ledger) : ledger[i].dep = d => Pursued(d, ledger[i].created)
OneBlock(d) ==
    \A i, j \in 1..Len(ledger) : ledger[i].dep = d /\ ledger[j].dep = d => i = j

\* No call of the deposit but number n can be executed any more.
OnlyCall(d, n) == \A q \in net : q.id.dep = d /\ InWindow(q.id) => q.call = n
NoCall(d) == \A q \in net : q.id.dep = d => ~InWindow(q.id)

\* The call the handler waits for carries the identity c, and is answered once.
Awaits(d, c) ==
    /\ \A q \in net : q.id.dep = d /\ q.call = req[d].call =>
           q.id = Identity(d, c) /\ req[d].answer = "none"
    /\ req[d].answer = "confirmed" => Executed(Identity(d, c))

\* A request_deposit handler that waits for its pull: while the attempt is
\* the one it stored, its call is the only one, and a refusal is final.
PullFits(d) ==
    req[d].pc = "pull" =>
        /\ req[d].seen.state = "Dispatched"
        /\ Awaits(d, req[d].seen.created)
        /\ Current(d, req[d].seen) =>
               /\ req[d].answer \in {"none", "rejected", "unavailable"} =>
                      ~Executed(Identity(d, req[d].seen.created))
               /\ req[d].answer = "none" => OnlyCall(d, req[d].call)
               /\ req[d].answer \in {"rejected", "unavailable"} => NoCall(d)

HasBlock(d, i, c) == i \in 1..Len(ledger) /\ ledger[i] = Identity(d, c)

PreflightFits(d) ==
    req[d].pc = "preflight" => /\ req[d].seen.state = "Dispatched"
                               /\ HasBlock(d, req[d].block, req[d].seen.created)

\* A resend is awaited only for a hold that no scan has been opened for.
HoldFits(d) ==
    req[d].pc = "hold" => /\ rec[d].state = "Hold" /\ ~hscan[d].open
                          /\ Awaits(d, rec[d].created)

\* A scan of a dead identity: no match can appear behind its tip.
Evidence(m, s) ==
    s.open => /\ s.tip <= Len(ledger)
              /\ \A i \in 1..Len(ledger) : s.tip < i => ledger[i] # m

HoldScanFits(d) ==
    hscan[d].open => /\ rec[d].state = "Hold" /\ ~StillAcceptable(d)
                     /\ Evidence(Identity(d, rec[d].created), hscan[d])

\* A final scan is not begun before the identity is dead.
FinalFits(d) ==
    att[d].state = "Reconciling" /\ att[d].final =>
        /\ att[d].next >= FinalScanAt(att[d].created)
        /\ att[d].scan.open => /\ now > ExpiryBoundary(att[d].created)
                               /\ Evidence(Identity(d, att[d].created), att[d].scan)

\* Nobody changes the attempt under a recovery run, and what the run found
\* is still so.
RecoveryFits(d) ==
    rcv[d].pc # "idle" =>
        /\ Current(d, rcv[d].seen) /\ rcv[d].seen.state = "Reconciling"
        /\ rcv[d].seen.final => /\ now > ExpiryBoundary(rcv[d].seen.created)
                                /\ Evidence(Identity(d, rcv[d].seen.created), rcv[d].scan)
        /\ rcv[d].found = "block" => HasBlock(d, rcv[d].block, rcv[d].seen.created)
        /\ rcv[d].found = "absent" /\ rcv[d].seen.final =>
               Absent(Identity(d, rcv[d].seen.created), rcv[d].scan)

RecordFits(d) ==
    /\ att[d].state = "None" \/ rec[d].state = "None"
    /\ rec[d].state = "Escrowed" => HasBlock(d, rec[d].block, rec[d].created)
    /\ req[d].call <= calls[d]

FundingInv(d) ==
    /\ CallsArePursued(d) /\ BlocksArePursued(d) /\ OneBlock(d) /\ RecordFits(d)
    /\ PullFits(d) /\ PreflightFits(d) /\ HoldFits(d)
    /\ HoldScanFits(d) /\ FinalFits(d) /\ RecoveryFits(d)

\* Why no pull is forgotten or repeated: each step of the handler, the timer,
\* the hold and the ledger keeps these facts (request_deposit,
\* recover_one_funding_attempt, advance_hold).
IndInv == TypeOK /\ SkewBounded /\ RecoveryIsCurrent /\ \A d \in Deposits : FundingInv(d)
=============================================================================
