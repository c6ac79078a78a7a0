------------------------------ MODULE FeePayout ------------------------------
(***************************************************************************)
(* The fee reserve and the payouts made from it: admin.rs (roles, payout   *)
(* requests, SNS proposals), the fee_payouts table of storage, and         *)
(* advance_fee_payout of tasks.rs.                                         *)
(*                                                                         *)
(* A payout is one ledger transfer under one fixed identity.  Its run      *)
(* (SettlementJobs says when runs start) sends the identity, or, when the  *)
(* ledger can no longer accept it, reads one page of history.  The ledger  *)
(* is external: it executes an identity once while its window is open,     *)
(* answers TooOld afterwards, and refuses every transfer whose fee is not  *)
(* its own, before it looks for a duplicate.  It also refuses a transfer   *)
(* to its minting account and, when it is no duplicate, one its account    *)
(* cannot pay.  LedgerSettlement models the clocks behind the window and   *)
(* the pages behind the scan.                                              *)
(*                                                                         *)
(* The operational configuration is sealed (BaseGovernance opens the       *)
(* gate).                                                                  *)
(***************************************************************************)
EXTENDS Integers, Sequences, FiniteSets, FiniteSetsExt

CONSTANTS Principals,       \* callers and owners of accounts
          Governance, Relayer, Installer,   \* the fixed roles; the first pause principal
          FirstRecipient,   \* owner of the configured fee recipient
          Anonymous,
          Minter,           \* owner of the ledger's minting account
          Amounts,          \* amounts a payout may ask for
          LedgerFee,        \* KINIC_LEDGER_FEE
          FeeAmounts,       \* service fees that are confirmed
          MaxEarned,        \* bound on the fees earned
          MaxPayouts,       \* bound on the payouts requested
          Pages             \* pages of history a scan reads

ASSUME RolesAssumption ==
  /\ {Governance, Relayer, Installer, FirstRecipient} \subseteq Principals \ {Anonymous}
  /\ Cardinality({Governance, Relayer, Installer, FirstRecipient}) = 4
ASSUME AmountAssumption == Amounts \subseteq Nat /\ FeeAmounts \subseteq Nat /\ LedgerFee \in Nat \ {0}
ASSUME BoundAssumption == MaxEarned \in Nat /\ MaxPayouts \in Nat /\ Pages \in Nat

VARIABLES
  payouts,       \* fee_payouts: sequence of [amount, to, state, block, scan]
  reserve,       \* accounting.fee_reserve
  earned,        \* confirmed_deposit_fees + confirmed_withdrawal_fees
  pendingDebit,  \* counters.pending_fee_payout_debit
  recipient,     \* admin_state.fee_recipient
  pauser,        \* admin_state.pause_principal
  run,           \* per payout: "idle", "sent", "scan" (waiting for the ledger)
  reply,         \* per payout: the ledger's answer to the run that waits
  net,           \* transfers on their way to the ledger: <<payout, "live" or "late">>
  window,        \* per payout: "open", "closing" (the ledger rejects), "closed" (so does the canister)
  ledger,        \* blocks: sequence of payouts
  feeChanged     \* the ledger's fee is no longer KINIC_LEDGER_FEE

vars == <<payouts, reserve, earned, pendingDebit, recipient, pauser, run, reply, net, window,
          ledger, feeChanged>>
books == <<payouts, reserve, earned, pendingDebit>>
roles == <<recipient, pauser>>
external == <<net, window, ledger, feeChanged>>

NoScan == -1
NoBlock == 0
Ids == 1..Len(payouts)
States == {"pending", "hold", "succeeded", "failed"}

TypeOK ==
  /\ payouts \in Seq([amount : Amounts, to : Principals, state : States,
                      block : 0..MaxPayouts, scan : {NoScan} \cup 0..Pages])
  /\ Len(payouts) <= MaxPayouts
  /\ {reserve, earned, pendingDebit} \subseteq 0..MaxEarned
  /\ {recipient, pauser} \subseteq Principals
  /\ run \in [Ids -> {"idle", "sent", "scan"}]
  /\ reply \in [Ids -> {"none", "confirmed", "ambiguous", "refused", "retry"}]
  /\ net \subseteq Ids \X {"live", "late"}
  /\ window \in [Ids -> {"open", "closing", "closed"}]
  /\ ledger \in Seq(Ids)
  /\ feeChanged \in BOOLEAN

Init ==
  /\ payouts = <<>> /\ run = <<>> /\ reply = <<>> /\ window = <<>> /\ ledger = <<>>
  /\ reserve = 0 /\ earned = 0 /\ pendingDebit = 0
  /\ recipient = FirstRecipient /\ pauser = Installer
  /\ net = {} /\ feeChanged = FALSE

-----------------------------------------------------------------------------
(* Roles. *)

\* administrator_authorized for the payout and rotate actions
Authorized(caller) == caller = Governance

\* Mutant: the recipient may change under an unfinished payout
RotationAllowedAnyway(caller, next) ==
  /\ next # Anonymous
  /\ Authorized(caller)
  /\ next \notin {Governance, pauser, Relayer}

\* fee_recipient_rotation_decision = Allow
RotationAllowed(caller, next) ==
  /\ next # Anonymous
  /\ Authorized(caller)
  /\ next \notin {Governance, pauser, Relayer}
  /\ pendingDebit = 0

RotateFeeRecipient(caller, next) ==
  /\ RotationAllowed(caller, next)
  /\ recipient' = next
  /\ UNCHANGED <<pauser, run, reply, books, external>>

RotatePausePrincipal(caller, next) ==
  /\ next # Anonymous
  /\ Authorized(caller)
  /\ next \notin {Governance, recipient, Relayer}
  /\ pauser' = next
  /\ UNCHANGED <<recipient, run, reply, books, external>>

-----------------------------------------------------------------------------
(* The books. *)

\* confirm_fee, by the installation of a signature or a withdrawal record
ConfirmFee(fee) ==
  /\ earned + fee <= MaxEarned
  /\ reserve' = reserve + fee
  /\ earned' = earned + fee
  /\ UNCHANGED <<payouts, pendingDebit, roles, run, reply, external>>

IsPending(p) == p.state \in {"pending", "hold"}

\* payout_debit
Debit(p) == p.amount + LedgerFee

\* adjust_pending_fee_payout_debit from record p to record q
AdjustPendingDebit(p, q) ==
  pendingDebit - (IF IsPending(p) THEN Debit(p) ELSE 0) + (IF IsPending(q) THEN Debit(q) ELSE 0)

\* Mutant: what is already promised is not deducted
PayoutDecisionGross(amount) == amount + LedgerFee <= reserve

\* payout_decision grants the payout.
PayoutDecision(amount) ==
  /\ pendingDebit <= reserve
  /\ amount + LedgerFee <= reserve - pendingDebit

\* fee_payout_capacity
Capacity == IF reserve - pendingDebit <= LedgerFee THEN 0 ELSE reserve - pendingDebit - LedgerFee

\* request_fee_payout and commit_fee_payout_request: record, identity, job and
\* counter in one transaction.  No await, so FeePayoutCreation is never busy.
RequestFeePayout(caller, amount) ==
  /\ Authorized(caller)
  /\ amount # 0
  /\ PayoutDecision(amount)
  /\ Len(payouts) < MaxPayouts
  /\ payouts' = Append(payouts, [amount |-> amount, to |-> recipient, state |-> "pending",
                                 block |-> NoBlock, scan |-> NoScan])
  /\ pendingDebit' = pendingDebit + amount + LedgerFee
  /\ run' = Append(run, "idle")
  /\ reply' = Append(reply, "none")
  /\ window' = Append(window, "open")
  /\ UNCHANGED <<reserve, earned, roles, net, ledger, feeChanged>>

\* check_sns_fee_identity: a proposal names the id, amount and recipient.  A
\* new payout takes the next id, an existing one must be the one voted on.
SnsIdentityMatches(caller, id, amount, to, continuation) ==
  /\ Authorized(caller)
  /\ amount > 0
  /\ IF id \in Ids
     THEN /\ payouts[id].to = to /\ payouts[id].amount = amount
          /\ continuation => payouts[id].state # "failed"
     ELSE /\ recipient = to /\ ~continuation /\ id = Len(payouts) + 1
          /\ amount <= Capacity

\* sns_request_fee_payout; repeating an executed proposal changes nothing.
SnsRequestFeePayout(caller, id, amount, to) ==
  /\ SnsIdentityMatches(caller, id, amount, to, FALSE)
  /\ id \notin Ids
  /\ RequestFeePayout(caller, amount)

\* transition_fee_payout to state st: record, scan, counter and accounting
\* change together; money leaves the reserve only on success.
Transition(id, st, block) ==
  LET p == payouts[id]
      q == [p EXCEPT !.state = st, !.block = block,
                     !.scan = IF st \in {"succeeded", "failed"} THEN NoScan ELSE @]
  IN /\ payouts' = [payouts EXCEPT ![id] = q]
     /\ pendingDebit' = AdjustPendingDebit(p, q)
     /\ reserve' = IF st = "succeeded" /\ IsPending(p) THEN reserve - Debit(p) ELSE reserve
     /\ UNCHANGED earned

-----------------------------------------------------------------------------
(* The ledger. *)

Executed(id) == \E b \in DOMAIN ledger : ledger[b] = id
BlockOf(id) == CHOOSE b \in DOMAIN ledger : ledger[b] = id

\* The sum of d[1], ..., d[n].
Total(d, n) ==
  LET sum[i \in 0..n] == IF i = 0 THEN 0 ELSE sum[i - 1] + d[i]
  IN  sum[n]

\* What the ledger has taken from the bridge's account for payouts.
Moved ==
  Total([id \in Ids |-> IF Executed(id) THEN Debit(payouts[id]) ELSE 0], Len(payouts))

\* The definitive answers of classify_transfer: BadFee, BadBurn and
\* InsufficientFunds.  What backs the deposits is in the same account and may
\* all have been released, so the fees left are all it surely holds.
Refuses(id) ==
  \/ feeChanged
  \/ payouts[id].to = Minter
  \/ window[id] = "open" /\ ~Executed(id) /\ earned - Moved < Debit(payouts[id])

\* The answer reaches the run that still waits for this transfer.
Answer(id, kind, r) == reply' = IF kind = "live" THEN [reply EXCEPT ![id] = r] ELSE reply

LedgerProcesses(id, kind) ==
  /\ <<id, kind>> \in net
  /\ net' = net \ {<<id, kind>>}
  /\ \/ Refuses(id) /\ Answer(id, kind, "refused") /\ UNCHANGED ledger
     \/ /\ ~feeChanged /\ payouts[id].to # Minter /\ window[id] = "open"
        /\ ledger' = IF Executed(id) THEN ledger ELSE Append(ledger, id)
        /\ Answer(id, kind, "confirmed")
     \/ /\ ~feeChanged /\ payouts[id].to # Minter /\ window[id] # "open"
        /\ Answer(id, kind, "ambiguous")
        /\ UNCHANGED ledger
     \/ Answer(id, kind, "retry") /\ UNCHANGED ledger
  /\ UNCHANGED <<books, roles, run, window, feeChanged>>

\* A bounded call times out or its reply is lost; the transfer may still arrive.
CallAmbiguous(id) ==
  /\ run[id] = "sent" /\ reply[id] = "none"
  /\ reply' = [reply EXCEPT ![id] = "ambiguous"]
  /\ \/ net' = (net \ {<<id, "live">>}) \cup {<<id, "late">>}
     \/ net' = net \ {<<id, "live">>}
  /\ UNCHANGED <<books, roles, run, window, ledger, feeChanged>>

\* The deduplication window ends, on the ledger's clock and, a permitted drift
\* later, by ledger_identity_can_still_be_accepted.
WindowEnds(id) ==
  /\ window[id] # "closed"
  /\ window' = [window EXCEPT ![id] = IF @ = "open" THEN "closing" ELSE "closed"]
  /\ UNCHANGED <<books, roles, run, reply, net, ledger, feeChanged>>

LedgerFeeChanges ==
  /\ ~feeChanged
  /\ feeChanged' = TRUE
  /\ UNCHANGED <<books, roles, run, reply, net, window, ledger>>

-----------------------------------------------------------------------------
(* A run of advance_fee_payout. *)

\* Mutant: the canister gives the identity up while the ledger may accept it
StillAcceptableNoDrift(id) == FALSE

\* ledger_identity_can_still_be_accepted
StillAcceptable(id) == window[id] # "closed"

\* ledger::release with the fixed identity, first or again
SendTransfer(id) ==
  /\ run[id] = "idle"
  /\ payouts[id].state = "pending" \/ (payouts[id].state = "hold" /\ StillAcceptable(id))
  /\ run' = [run EXCEPT ![id] = "sent"]
  /\ reply' = [reply EXCEPT ![id] = "none"]
  /\ net' = net \cup {<<id, "live">>}
  /\ UNCHANGED <<books, roles, window, ledger, feeChanged>>

\* The answer to a run: success and refusal are final, an ambiguous first
\* answer starts the hold, anything else stops the run.
OnAnswer(id) ==
  /\ run[id] = "sent" /\ reply[id] # "none"
  /\ run' = [run EXCEPT ![id] = "idle"]
  /\ reply' = [reply EXCEPT ![id] = "none"]
  /\ CASE reply[id] = "confirmed" -> Transition(id, "succeeded", BlockOf(id))
       [] reply[id] = "refused" -> Transition(id, "failed", NoBlock)
       [] reply[id] = "ambiguous" -> Transition(id, "hold", NoBlock)
       [] reply[id] = "retry" -> UNCHANGED books
  /\ UNCHANGED <<roles, external>>

\* commit_fee_payout_scan, then one reconcile_step
StartScan(id) ==
  /\ run[id] = "idle"
  /\ payouts[id].state = "hold" /\ ~StillAcceptable(id)
  /\ payouts' = [payouts EXCEPT ![id].scan = IF @ = NoScan THEN 0 ELSE @]
  /\ run' = [run EXCEPT ![id] = "scan"]
  /\ UNCHANGED <<reserve, earned, pendingDebit, roles, reply, external>>

\* update_fee_payout_scan; a page that could not be read, or an index that
\* lags behind the ledger, leaves the scan where it is.
ScanProgress(id) ==
  /\ run[id] = "scan"
  /\ run' = [run EXCEPT ![id] = "idle"]
  /\ \/ payouts' = [payouts EXCEPT ![id].scan = Min({@ + 1, Pages})]
     \/ UNCHANGED payouts
  /\ UNCHANGED <<reserve, earned, pendingDebit, roles, reply, external>>

\* resolve_reconciliation_success
ScanFindsBlock(id) ==
  /\ run[id] = "scan" /\ Executed(id)
  /\ run' = [run EXCEPT ![id] = "idle"]
  /\ Transition(id, "succeeded", BlockOf(id))
  /\ UNCHANGED <<roles, reply, external>>

\* resolve_reconciliation_absence: the money stays in the reserve.
ScanFindsNothing(id) ==
  /\ run[id] = "scan" /\ ~Executed(id) /\ payouts[id].scan = Pages
  /\ run' = [run EXCEPT ![id] = "idle"]
  /\ Transition(id, "failed", NoBlock)
  /\ UNCHANGED <<roles, reply, external>>

\* The run traps, or its lease is gone when the call returns: its answer is
\* dropped and the transfer, if it is still on its way, is nobody's.
LoseRun(id) ==
  /\ run[id] # "idle"
  /\ run' = [run EXCEPT ![id] = "idle"]
  /\ reply' = [reply EXCEPT ![id] = "none"]
  /\ net' = IF <<id, "live">> \in net THEN (net \ {<<id, "live">>}) \cup {<<id, "late">>} ELSE net
  /\ UNCHANGED <<books, roles, window, ledger, feeChanged>>

Next ==
  \/ \E caller, next \in Principals :
       RotateFeeRecipient(caller, next) \/ RotatePausePrincipal(caller, next)
  \/ \E fee \in FeeAmounts : ConfirmFee(fee)
  \/ \E caller \in Principals, amount \in Amounts :
       \/ RequestFeePayout(caller, amount)
       \/ \E id \in 1..MaxPayouts, to \in Principals : SnsRequestFeePayout(caller, id, amount, to)
  \/ \E id \in Ids :
       \/ \E kind \in {"live", "late"} : LedgerProcesses(id, kind)
       \/ CallAmbiguous(id) \/ WindowEnds(id)
       \/ SendTransfer(id) \/ OnAnswer(id)
       \/ StartScan(id) \/ ScanProgress(id) \/ ScanFindsBlock(id) \/ ScanFindsNothing(id)
       \/ LoseRun(id)
  \/ LedgerFeeChanges

Spec == Init /\ [][Next]_vars

-----------------------------------------------------------------------------
(* Properties. *)

\* ADR 0004: "Fee payouts may use only the finalized fee reserve and cannot
\* spend assets backing Bridge Exposure".  What was moved never exceeds what
\* was earned and what is promised never exceeds what is left, as long as the
\* ledger keeps the fee every identity is made with: a changed fee refuses the
\* resend of a held payout that was executed (audit 2026-09-08).
PayoutsWithinEarnedFees ==
  /\ pendingDebit <= reserve
  /\ ~feeChanged => Moved <= earned

\* A payout recorded as paid points at its own block; one recorded as failed
\* was not executed, and no transfer that is still under way can execute it.
RecordedOutcomeIsTrue ==
  \A id \in Ids :
    /\ payouts[id].state = "succeeded" => payouts[id].block \in DOMAIN ledger /\ ledger[payouts[id].block] = id
    /\ (payouts[id].state = "failed" /\ ~feeChanged) =>
         /\ ~Executed(id)
         /\ window[id] = "open" /\ payouts[id].to # Minter =>
              \A kind \in {"live", "late"} : <<id, kind>> \notin net

\* ADR 0004: "A Fee Recipient change assigns the entire unpaid finalized fee
\* reserve to the new recipient": nothing unpaid is promised to an earlier
\* recipient, whatever order requests, rotations and runs come in; and no
\* sequence of rotations lets two of the four roles meet.
UnpaidFeesBelongToRecipient ==
  /\ \A id \in Ids : IsPending(payouts[id]) => payouts[id].to = recipient
  /\ Cardinality({Governance, Relayer, pauser, recipient}) = 4

=============================================================================
