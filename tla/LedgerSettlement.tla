---------------------------- MODULE LedgerSettlement ----------------------------
(***************************************************************************)
(* How the bridge canister pays what it owes on the ICP ledger: the refund *)
(* of a deposit and the release of a withdrawal (tasks.rs advance_deposit, *)
(* advance_withdrawal, advance_hold; bridge-core withdrawal.rs and         *)
(* reconciliation.rs; ledger.rs).                                          *)
(*                                                                         *)
(* A liability is paid by an ICRC-1 transfer with a fixed identity         *)
(* (created_at_time, memo, amount, accounts).  The ledger executes an      *)
(* identity at most once inside its deduplication window and refuses it    *)
(* afterwards.  A call may be lost, answered late or executed after the    *)
(* canister gave up; the canister then holds the liability, resends the    *)
(* SAME identity while the ledger could still accept it, and after that    *)
(* scans the ledger and its index; only a complete scan without a match    *)
(* gives the liability a new identity.                                     *)
(*                                                                         *)
(* The ledger, its index canister and the network between are external.    *)
(* Attempt numbers stand for memos: a retry memo is derived from the hold  *)
(* id and differs from every earlier one.                                  *)
(***************************************************************************)
EXTENDS Integers, Sequences, FiniteSets

CONSTANTS
    Refunds,      \* liabilities of deposits
    Releases,     \* liabilities of withdrawals
    DedupWindow,  \* the ledger's deduplication window (LEDGER_DEDUP_NS)
    Drift,        \* LEDGER_PERMITTED_DRIFT_NS
    Slack,        \* how far past the window the ledger still accepts an identity
    MaxSkew,      \* largest difference between canister and ledger clocks
    Page,         \* blocks read by one ledger page of a history scan
    MaxTime,      \* bound: both clocks stop here
    MaxAttempts   \* bound: identities per liability

Liabilities == Refunds \cup Releases

ASSUME WindowAssumption == /\ DedupWindow \in Nat
                           /\ Drift \in Nat
                           /\ Slack \in Nat
                           /\ MaxSkew \in Nat
                           /\ MaxTime \in Nat
                           /\ MaxAttempts \in Nat
                           /\ Page \in Nat \ {0}

\* The drift allowance of tasks.rs covers the ledger's own slack and the real
\* difference of the two clocks.
ASSUME SkewAssumption == Slack + MaxSkew <= Drift

ASSUME LiabilityAssumption == Refunds \cap Releases = {}

VARIABLES
    now,      \* the canister's clock
    lnow,     \* the ledger's clock
    ledger,   \* external: the ledger's blocks, as the identities they executed
    indexed,  \* external: number of blocks the index canister has synced
    net,      \* external: transfer requests sent so far; any may still arrive
    pay,      \* the liability's record and, in a hold, the open hold record
    scan,     \* the reconciliation scan stored for the hold
    run,      \* what the settlement run that holds the in-flight guard waits for
    answer,   \* the ledger's answer to that run's call
    steps     \* external steps the current run has made

vars == <<now, lnow, ledger, indexed, net, pay, scan, run, answer, steps>>
canister == <<pay, scan, run, answer, steps>>
world == <<now, lnow, ledger, indexed, net>>

States == {"None", "Pending", "Hold", "Paid"}
Outcomes == {"none", "confirmed", "rejected", "unavailable", "tooOld"}
NoScan == [phase |-> "none", next |-> 0, tip |-> 0]

Identity(l) == [liab |-> l, no |-> pay[l].no, created |-> pay[l].created]
PayRecords == [state : States, no : Nat, created : Nat, block : Nat]
Identities == [liab : Liabilities, no : Nat, created : Nat]

TypeOK ==
    /\ now \in Nat /\ lnow \in Nat
    /\ ledger \in Seq(Identities)
    /\ indexed \in Nat
    /\ net \subseteq Identities
    /\ pay \in [Liabilities -> PayRecords]
    /\ scan \in [Liabilities -> [phase : {"none", "ledger", "index"}, next : Nat, tip : Nat]]
    /\ run \in [Liabilities -> {"idle", "ready", "transfer", "hold"}]
    /\ answer \in [Liabilities -> Outcomes]
    /\ steps \in [Liabilities -> Nat]

Init ==
    /\ now = 0 /\ lnow = 0
    /\ ledger = <<>> /\ indexed = 0 /\ net = {}
    /\ pay = [l \in Liabilities |-> [state |-> "None", no |-> 0, created |-> 0, block |-> 0]]
    /\ scan = [l \in Liabilities |-> NoScan]
    /\ run = [l \in Liabilities |-> "idle"]
    /\ answer = [l \in Liabilities |-> "none"]
    /\ steps = [l \in Liabilities |-> 0]
-----------------------------------------------------------------------------
(* The clocks, the ledger and its index: external. *)

CanisterTick ==
    /\ now < MaxTime /\ now + 1 - lnow <= MaxSkew
    /\ now' = now + 1
    /\ UNCHANGED <<lnow, ledger, indexed, net, canister>>

LedgerTick ==
    /\ lnow < MaxTime /\ lnow + 1 - now <= MaxSkew
    /\ lnow' = lnow + 1
    /\ UNCHANGED <<now, ledger, indexed, net, canister>>

IndexSync ==
    /\ indexed < Len(ledger)
    /\ indexed' = indexed + 1
    /\ UNCHANGED <<now, lnow, ledger, net, canister>>

InWindow(m) == lnow <= m.created + DedupWindow + Slack
Executed(m) == \E i \in 1..Len(ledger) : ledger[i] = m

\* The answer reaches the run that waits for this identity, or is lost.
Answers(m, outcome) ==
    \/ UNCHANGED answer
    \/ /\ run[m.liab] \in {"transfer", "hold"}
       /\ m = Identity(m.liab)
       /\ answer[m.liab] = "none"
       /\ answer' = [answer EXCEPT ![m.liab] = outcome]

\* A request in the window is executed once; a repetition is a duplicate.
LedgerExecutes(m) ==
    /\ InWindow(m)
    /\ ledger' = IF Executed(m) THEN ledger ELSE Append(ledger, m)
    /\ Answers(m, "confirmed")

\* TooOld: classified as ambiguous by classify_transfer.
LedgerTooOld(m) ==
    /\ ~InWindow(m)
    /\ Answers(m, "tooOld")
    /\ UNCHANGED ledger

\* BadFee, InsufficientFunds... (definitive) or TemporarilyUnavailable...
LedgerRefuses(m) ==
    /\ \E outcome \in {"rejected", "unavailable"} : Answers(m, outcome)
    /\ UNCHANGED ledger

LedgerProcesses(m) ==
    /\ m \in net
    /\ LedgerExecutes(m) \/ LedgerTooOld(m) \/ LedgerRefuses(m)
    /\ UNCHANGED <<now, lnow, indexed, net, pay, scan, run, steps>>
-----------------------------------------------------------------------------
(* The canister. *)

\* Mutants: the drift allowance is forgotten; the window never closes.
IdentityStillAcceptableWithoutDrift(l) == now <= pay[l].created + DedupWindow
IdentityNeverExpires(l) == TRUE

IdentityStillAcceptable(l) == now <= pay[l].created + DedupWindow + Drift

\* StartRefund (claim_refund_start) or StartRelease (notify_withdrawal or
\* advance_withdrawal): attempt 0 with created_at_time = time().
StartPayment(l) ==
    /\ pay[l].state = "None"
    /\ pay' = [pay EXCEPT ![l] = [state |-> "Pending", no |-> 0, created |-> now, block |-> 0]]
    /\ UNCHANGED <<world, scan, run, answer, steps>>

\* A claimed job acquires the in-flight guard: the timer for refunds, an
\* explicit continue_* call for either.
ClaimRun(l) ==
    /\ run[l] = "idle"
    /\ pay[l].state \in {"Pending", "Hold"}
    /\ run' = [run EXCEPT ![l] = "ready"]
    /\ steps' = [steps EXCEPT ![l] = 0]
    /\ UNCHANGED <<world, pay, scan, answer>>

\* The run ends without a result: superseded lease (ensure_current), a trap
\* in the callback, or an upgrade.
LoseRun(l) ==
    /\ run[l] # "idle"
    /\ run' = [run EXCEPT ![l] = "idle"]
    /\ answer' = [answer EXCEPT ![l] = "none"]
    /\ UNCHANGED <<world, pay, scan, steps>>

\* ledger::refund or ledger::release with the recorded identity.
SendIdentity(l, wait) ==
    /\ net' = net \cup {Identity(l)}
    /\ run' = [run EXCEPT ![l] = wait]
    /\ steps' = [steps EXCEPT ![l] = @ + 1]
    /\ UNCHANGED <<now, lnow, ledger, indexed, pay, scan, answer>>

SendTransfer(l) ==
    /\ run[l] = "ready" /\ pay[l].state = "Pending"
    /\ SendIdentity(l, "transfer")

ResendHold(l) ==
    /\ run[l] = "ready" /\ pay[l].state = "Hold"
    /\ IdentityStillAcceptable(l)
    /\ SendIdentity(l, "hold")

\* The run returns; its answer is consumed.
EndRun(l) ==
    /\ run' = [run EXCEPT ![l] = "idle"]
    /\ answer' = [answer EXCEPT ![l] = "none"]

BlockOf(m) == CHOOSE i \in 1..Len(ledger) : ledger[i] = m

\* The record with the same attempt in another state.
Mark(l, s, i) == [state |-> s, no |-> pay[l].no, created |-> pay[l].created, block |-> i]

\* Mutant: a zero-based block index is stored.
RecordPaidOffByOne(l, i) == pay' = [pay EXCEPT ![l] = Mark(l, "Paid", i - 1)]

RecordPaid(l, i) == pay' = [pay EXCEPT ![l] = Mark(l, "Paid", i)]

\* RefundSucceeded / ReleaseSucceeded on Succeeded or Duplicate; a lost or
\* undecodable answer and TooOld are ambiguous; a refusal leaves it pending.
StateAfterTransfer(outcome) == CASE outcome = "confirmed" -> "Paid"
                                 [] outcome \in {"none", "tooOld"} -> "Hold"
                                 [] OTHER -> "Pending"

OnTransferAnswer(l) ==
    /\ run[l] = "transfer"
    /\ IF answer[l] = "confirmed"
       THEN RecordPaid(l, BlockOf(Identity(l)))
       ELSE pay' = [pay EXCEPT ![l] = Mark(l, StateAfterTransfer(answer[l]), 0)]
    /\ EndRun(l)
    /\ UNCHANGED <<world, scan, steps>>

\* A hold is closed only by a confirmed block; anything else stops the run.
OnHoldAnswer(l) ==
    /\ run[l] = "hold"
    /\ IF answer[l] = "confirmed" THEN RecordPaid(l, BlockOf(Identity(l))) ELSE UNCHANGED pay
    /\ EndRun(l)
    /\ UNCHANGED <<world, scan, steps>>
-----------------------------------------------------------------------------
(* History reconciliation: one reconcile_step of a run.  A step of the code *)
(* may read several pages, and the index, before it stores its progress:   *)
(* that is several of these actions, one after the other.                  *)

ScanReady(l) == run[l] = "ready" /\ pay[l].state = "Hold" /\ ~IdentityStillAcceptable(l)
Smaller(a, b) == IF a < b THEN a ELSE b
Larger(a, b) == IF a < b THEN b ELSE a

\* The exclusive tip is fixed by the log length of the first page.
ScanTip(l) == IF scan[l].phase = "none" THEN Len(ledger) ELSE scan[l].tip
ScanFrom(l) == IF scan[l].phase = "none" THEN 0 ELSE scan[l].next
PageEnd(l) == Smaller(ScanTip(l), ScanFrom(l) + Page)

EndScanRun(l) ==
    /\ EndRun(l)
    /\ steps' = [steps EXCEPT ![l] = @ + 1]

\* Mutant: the first page is taken for the whole history.
PhaseAfterOnePage(l) == "index"

PhaseAfterPage(l) == IF PageEnd(l) >= ScanTip(l) THEN "index" ELSE "ledger"

\* A ledger page without a match: the next page, or the index phase.
ScanLedgerPage(l) ==
    /\ ScanReady(l) /\ scan[l].phase \in {"none", "ledger"}
    /\ \A i \in ScanFrom(l) + 1 .. PageEnd(l) : ledger[i] # Identity(l)
    /\ scan' = [scan EXCEPT ![l] = [phase |-> PhaseAfterPage(l), next |-> PageEnd(l), tip |-> ScanTip(l)]]
    /\ EndScanRun(l)
    /\ UNCHANGED <<world, pay>>

\* A page or the index shows the identity: resolve_reconciliation_success.
ScanFound(l) ==
    /\ ScanReady(l)
    /\ \/ /\ scan[l].phase \in {"none", "ledger"}
          /\ \E i \in ScanFrom(l) + 1 .. PageEnd(l) : ledger[i] = Identity(l) /\ RecordPaid(l, i)
       \/ /\ scan[l].phase = "index" /\ indexed >= scan[l].tip
          /\ \E i \in 1..indexed : ledger[i] = Identity(l) /\ RecordPaid(l, i)
    /\ scan' = [scan EXCEPT ![l] = NoScan]
    /\ EndScanRun(l)
    /\ UNCHANGED world

NextAttempt(l) ==
    [state |-> "Pending", no |-> pay[l].no + 1, created |-> Larger(now, pay[l].created + 1), block |-> 0]

\* Mutant: a page without a match is taken for absence.
AbsenceOnOnePage(l) == scan[l].phase \in {"ledger", "index"}

\* The index has synced the whole scanned prefix and has no match either.
AbsenceProved(l) ==
    /\ scan[l].phase = "index"
    /\ indexed >= scan[l].tip
    /\ \A i \in 1..indexed : ledger[i] # Identity(l)

\* A refund's run goes on with the new identity; a withdrawal's returns.
AfterAbsence(l) == IF l \in Refunds THEN "ready" ELSE "idle"

\* resolve_reconciliation_absence stores the next attempt.
ScanAbsent(l) ==
    /\ ScanReady(l) /\ AbsenceProved(l)
    /\ pay[l].no + 1 < MaxAttempts
    /\ pay' = [pay EXCEPT ![l] = NextAttempt(l)]
    /\ scan' = [scan EXCEPT ![l] = NoScan]
    /\ run' = [run EXCEPT ![l] = AfterAbsence(l)]
    /\ answer' = [answer EXCEPT ![l] = "none"]
    /\ steps' = [steps EXCEPT ![l] = @ + 1]
    /\ UNCHANGED world

\* A page could not be read, or the index lags: Stopped, the scan is kept.
ScanStalls(l) ==
    /\ ScanReady(l)
    /\ EndScanRun(l)
    /\ UNCHANGED <<world, pay, scan>>
-----------------------------------------------------------------------------
Environment == CanisterTick \/ LedgerTick \/ IndexSync \/ \E m \in net : LedgerProcesses(m)

Settle(l) ==
    \/ StartPayment(l) \/ ClaimRun(l) \/ LoseRun(l)
    \/ SendTransfer(l) \/ OnTransferAnswer(l)
    \/ ResendHold(l) \/ OnHoldAnswer(l)
    \/ ScanLedgerPage(l) \/ ScanFound(l) \/ ScanAbsent(l) \/ ScanStalls(l)

Next == Environment \/ \E l \in Liabilities : Settle(l)

Spec == Init /\ [][Next]_vars

\* The clocks run; the index keeps syncing; a run's timeout fires; somebody
\* keeps continuing an unfinished settlement (the timer, or a continue_* call
\* by any principal); and a run that keeps being retried is not lost, and its
\* history reads do not fail, every time.
Fairness ==
    /\ WF_vars(CanisterTick) /\ WF_vars(LedgerTick) /\ WF_vars(IndexSync)
    /\ \A l \in Liabilities :
           /\ WF_vars(ClaimRun(l))
           /\ WF_vars(OnTransferAnswer(l)) /\ WF_vars(OnHoldAnswer(l))
           /\ SF_vars(ScanLedgerPage(l)) /\ SF_vars(ScanFound(l) \/ ScanAbsent(l))

FairSpec == Spec /\ Fairness
-----------------------------------------------------------------------------
(* Properties. *)

\* The ledger never pays a liability twice, whatever is lost, late, resent
\* or retried under a new identity (advance_hold,
\* resolve_reconciliation_absence).
PaidAtMostOnce ==
    \A i, j \in 1..Len(ledger) : ledger[i].liab = ledger[j].liab => i = j

\* A liability recorded as paid (Refunded, Paid) names a ledger block that
\* executed its current identity.
PaidIsOnLedger ==
    \A l \in Liabilities : pay[l].state = "Paid" =>
        /\ pay[l].block \in 1..Len(ledger)
        /\ ledger[pay[l].block] = Identity(l)

\* A new identity (retry_after_absence) is stored only from a hold, when no
\* identity of the liability has been executed and none sent can be any more.
NewIdentityOnlyAfterAbsence ==
    [][\A l \in Liabilities : pay'[l].no # pay[l].no =>
           /\ pay[l].state = "Hold"
           /\ \A i \in 1..Len(ledger) : ledger[i].liab # l
           /\ \A m \in net : m.liab = l => ~InWindow(m)]_vars

\* One continue_withdrawal call makes at most one external step (transfer,
\* resend or reconciliation step); a new identity waits for the next call.
OneStepPerWithdrawalCall == \A l \in Releases : steps[l] <= 1

\* No hold is stuck: it is paid, or absence is proved and a new identity
\* stored, provided the clocks run past the window (MaxTime) and an attempt
\* is left (MaxAttempts).
HoldResolves ==
    \A l \in Liabilities, k \in 0..MaxAttempts - 2 :
        (/\ pay[l].state = "Hold" /\ pay[l].no = k
         /\ pay[l].created + DedupWindow + Drift < MaxTime)
        ~> (pay[l].state = "Paid" \/ pay[l].no > k)

(* The inductive invariant behind the safety properties. *)

\* The canister's clock is never more than MaxSkew ahead.
SkewBounded == now - lnow <= MaxSkew

\* The index never runs ahead of the ledger.
IndexBehind == indexed <= Len(ledger)

\* Every request sent carries the current identity, or an earlier one that
\* the ledger can no longer accept.
SentIsCurrentOrDead ==
    \A m \in net : /\ pay[m.liab].state # "None"
                   /\ \/ m = Identity(m.liab)
                      \/ m.no < pay[m.liab].no /\ ~InWindow(m)

\* Blocks come from requests, and no superseded identity was ever executed.
ExecutedIsCurrent ==
    \A i \in 1..Len(ledger) : ledger[i] \in net /\ ledger[i] = Identity(ledger[i].liab)

\* A confirmation is about a block that exists.
ConfirmedIsExecuted == \A l \in Liabilities : answer[l] = "confirmed" => Executed(Identity(l))

\* A run waits for a transfer only while the liability is pending, for a
\* resend only while it is held; an unrecorded liability has used no attempt.
RunFitsState ==
    \A l \in Liabilities : /\ run[l] = "transfer" => pay[l].state = "Pending"
                           /\ run[l] = "hold" => pay[l].state = "Hold"
                           /\ pay[l].state = "None" => pay[l].no = 0

\* What a stored scan has established: the identity is dead, no resend of it
\* is awaited, and it is in no block already read nor in any block after the
\* fixed tip.
ScanIsEvidence ==
    \A l \in Liabilities : scan[l].phase # "none" =>
        /\ pay[l].state = "Hold"
        /\ ~IdentityStillAcceptable(l)
        /\ run[l] # "hold"
        /\ scan[l].tip <= Len(ledger)
        /\ \A i \in 1..Len(ledger) : i <= scan[l].next \/ scan[l].tip < i => ledger[i] # Identity(l)
        /\ scan[l].phase = "index" => scan[l].tip <= scan[l].next

\* The step budget of a withdrawal's run.
BudgetUnspent == \A l \in Releases : steps[l] <= 1 /\ (run[l] = "ready" => steps[l] = 0)

\* Why a liability is paid at most once: the facts above together are kept by
\* every step of the protocol (advance_hold, reconcile_step and the ledger).
IndInv ==
    /\ TypeOK
    /\ SkewBounded
    /\ IndexBehind
    /\ SentIsCurrentOrDead
    /\ ExecutedIsCurrent
    /\ PaidAtMostOnce
    /\ ConfirmedIsExecuted
    /\ PaidIsOnLedger
    /\ RunFitsState
    /\ ScanIsEvidence
    /\ BudgetUnspent
-----------------------------------------------------------------------------
\* The protocol keeps the promise of OutgoingPayment.
Phase == [l \in Liabilities |-> CASE pay[l].state = "None" -> "none"
                                  [] pay[l].state = "Paid" -> "closed"
                                  [] OTHER -> "owed"]
Blocks(l) == {i \in 1..Len(ledger) : ledger[i].liab = l}
Moved == [l \in Liabilities |-> Cardinality(Blocks(l))]
Promise == INSTANCE OutgoingPayment WITH phase <- Phase, moved <- Moved
KeepsPromise == Promise!Spec
=============================================================================
