--------------------------- MODULE Notifications ---------------------------
(***************************************************************************)
(* Notifications: anyone names a Base transaction, and the canister finds  *)
(* out from the providers of BaseObservation whether it is a finalized     *)
(* withdrawal or mint, then records it: lib.rs notify_withdrawal and       *)
(* notify_deposit_mint, api.rs, evm_rpc.rs.                                *)
(*                                                                         *)
(* A notification is a message with several awaits: each RPC request, sent *)
(* and answered, is one step, and the chain, the providers and the other   *)
(* messages move in between.  What a notification may cost is the subject  *)
(* of module CycleReserve, with the fee guard and the quotas: here any     *)
(* request may be refused for want of cycles, and any ingestion by the     *)
(* guard or the quota.  A recorded withdrawal keeps its place, paid (by    *)
(* module LedgerSettlement) or not.                                        *)
(***************************************************************************)
EXTENDS BaseObservation

CONSTANTS
  MinimumId,      \* minimum_withdrawal_id
  InFlightLimit   \* NOTIFICATION_IN_FLIGHT_GLOBAL_LIMIT

ASSUME NotificationsAssumption == MinimumId \in Nat \ {0} /\ InFlightLimit \in Nat

VARIABLES
  proc,         \* the notification of a transaction that is in flight
  records,      \* withdrawal records by id: none, or the fields of the event
  txIndex,      \* withdrawal_notification_index: the id a transaction recorded
  minted,       \* mints recorded as final
  progress      \* the last finalized block that was stored

store == <<records, txIndex, minted, progress>>
canister == <<proc, store>>
notificationVars == <<baseVars, canister>>

Ids == 1..MaxHeight

\* What a notification holds over an await.
Awaits(phase, receipt, final0) ==
  [phase |-> phase, receipt |-> receipt, final |-> final0, checkpoint |-> 0, eligible |-> {}]
AwaitsCheckpoint(receipt, checkpoint, eligible) ==
  [phase |-> "checkpoint", receipt |-> receipt, final |-> <<>>, checkpoint |-> checkpoint,
   eligible |-> eligible]
Idle == Awaits("idle", <<>>, <<>>)

NotificationInit ==
  /\ BaseInit
  /\ proc = [t \in Txs |-> Idle]
  /\ records = [i \in Ids |-> <<>>] /\ txIndex = [t \in Txs |-> 0] /\ minted = {}
  /\ progress = [number |-> 0, hash |-> 0]

----------------------------------------------------------------------------
(* A notification begins, asks, and ends                                   *)

InFlight == {t \in Txs : proc[t].phase # "idle"}

\* A withdrawal is looked up by its receipt, a mint in the finalized state.
FirstPhase(t) == IF Kind[t] = "withdrawal" THEN "receipt" ELSE "head"

Notify(t) ==
  /\ t \notin InFlight /\ Cardinality(InFlight) < InFlightLimit
  /\ txIndex[t] = 0 /\ t \notin minted
  /\ proc' = [proc EXCEPT ![t] = Awaits(FirstPhase(t), <<>>, <<>>)]
  /\ UNCHANGED <<baseVars, store>>

Continue(t, p) == proc' = [proc EXCEPT ![t] = p] /\ UNCHANGED store
Ends(t) == proc' = [proc EXCEPT ![t] = Idle]
Rejected(t) == Ends(t) /\ UNCHANGED store

\* require_external_call_cycle_budget refuses the next request.
Refused(t) ==
  /\ t \in InFlight /\ Rejected(t)
  /\ UNCHANGED baseVars

Asks(t, phase) == proc[t].phase = phase /\ UNCHANGED baseVars

\* The receipt is not newer than the finalized block: its block is probed.
Correlated(t, receipt, final0) ==
  IF receipt.block.number > final0.number THEN Rejected(t)
  ELSE Continue(t, Awaits("probe", <<receipt>>, <<final0>>))

ReceiptAnswers(t) ==
  /\ Asks(t, "receipt")
  /\ \E r \in Results([p \in Correct |-> TransactionReceipt(p, t)]) :
       IF r = <<>> THEN Rejected(t)
       ELSE IF r[1] = <<>> THEN Rejected(t)
       ELSE IF Kind[t] = "mint" THEN Correlated(t, r[1][1], proc[t].final[1])
       ELSE Continue(t, Awaits("head", r[1], <<>>))

\* finalized_observation has its block.
Finalized(t, b) ==
  IF Kind[t] = "withdrawal" THEN Correlated(t, proc[t].receipt[1], b)
  ELSE Continue(t, Awaits("state", <<>>, <<b>>))

\* Two heads that agree are final; two that differ leave a common checkpoint.
HeadResult(a) ==
  LET b == ExactQuorum(a)
      checkpoint == CommonCheckpoint(a)
  IN  IF b # <<>> \/ Cardinality(Answered(a)) < 2
      THEN [block |-> b, checkpoint |-> 0, eligible |-> {}]
      ELSE [block |-> b, checkpoint |-> checkpoint, eligible |-> Reached(a, checkpoint)]

HeadAnswers(t) ==
  /\ Asks(t, "head")
  /\ \E h \in {HeadResult(a) : a \in Answers([p \in Correct |-> FinalizedHead(p)], AnyBlock)} :
       IF h.block # <<>> THEN Finalized(t, h.block[1])
       ELSE IF h.eligible # {}
       THEN Continue(t, AwaitsCheckpoint(proc[t].receipt, h.checkpoint, h.eligible))
       ELSE Rejected(t)

CheckpointAnswers(t) ==
  /\ Asks(t, "checkpoint")
  /\ \E b \in CheckpointResults(proc[t].eligible, proc[t].checkpoint) :
       IF b = <<>> THEN Rejected(t) ELSE Finalized(t, b[1])

\* exact_mint_receipt_evidence holds: the deposit is recorded as minted.
RecordMint(t) ==
  /\ minted' = minted \cup {t}
  /\ Ends(t)
  /\ UNCHANGED <<records, txIndex, progress>>

\* The block of the receipt is canonical, and the transaction succeeded.
ProbeAnswers(t) ==
  /\ Asks(t, "probe")
  /\ \E v \in Results([p \in Correct |-> CallAt(p, proc[t].receipt[1].block)]) :
       IF v = <<>> \/ ~proc[t].receipt[1].ok THEN Rejected(t)
       ELSE IF Kind[t] = "mint" THEN RecordMint(t)
       ELSE Continue(t, Awaits("state", proc[t].receipt, proc[t].final))
----------------------------------------------------------------------------
(* ingest_notified_withdrawal                                              *)

\* observe_finalized
Observes(b) ==
  b.number >= progress.number /\ (b.number = progress.number => b.hash = progress.hash)

Record(t, id, payload, b) ==
  /\ records' = [records EXCEPT ![id] = <<payload>>]
  /\ txIndex' = [txIndex EXCEPT ![t] = id]
  /\ progress' = b
  /\ Ends(t) /\ UNCHANGED minted

\* An id that is taken is a duplicate or a conflict; the fee guard, an older
\* finalized block and the ingestion quota refuse a new one.
Ingest(t, id, payload, b) ==
  \/ Rejected(t)
  \/ /\ id >= MinimumId /\ records[id] = <<>> /\ Observes(b)
     /\ Record(t, id, payload, b)

\* is_same_committed_withdrawal: the event is what the finalized bridge holds.
SameCommitted(receipt, state) ==
  [id |-> receipt.id, payload |-> receipt.payload] \in state.withdrawals

StateAnswers(t) ==
  /\ Asks(t, "state")
  /\ LET b == proc[t].final[1] IN
     \E v \in Results([p \in Correct |-> CallAt(p, b)]) :
       IF v = <<>> THEN Rejected(t)
       ELSE IF Kind[t] = "mint"
       THEN IF t \in v[1].state.processed
            THEN Continue(t, Awaits("receipt", <<>>, <<b>>)) ELSE Rejected(t)
       ELSE LET r == proc[t].receipt[1]
            IN  IF SameCommitted(r, v[1].state) THEN Ingest(t, r.id, r.payload, b)
                ELSE Rejected(t)
----------------------------------------------------------------------------
Base ==
  /\ \/ \E t \in Txs, ok \in BOOLEAN : Mine(t, ok)
     \/ \E n \in 0..MaxHeight : Reorganise(n)
     \/ Finalize
     \/ \E p \in Correct, n \in 0..MaxHeight : ProviderSyncs(p, n)
  /\ UNCHANGED canister

NotificationNext ==
  \/ Base
  \/ \E t \in Txs :
       \/ Notify(t)
       \/ Refused(t)
       \/ ReceiptAnswers(t)
       \/ HeadAnswers(t)
       \/ CheckpointAnswers(t)
       \/ ProbeAnswers(t)
       \/ StateAnswers(t)

NotificationSpec == NotificationInit /\ [][NotificationNext]_notificationVars

----------------------------------------------------------------------------
(* Properties                                                              *)

\* Whatever the canister recorded from Base is on the finalized chain, with the
\* recorded fields, and so for ever: although one provider answers anything, the
\* others lag or still show blocks that were replaced, and the chain moves
\* between the requests of a notification (notified_withdrawal_outcome,
\* notify_deposit_mint).
RecordedIsFinal ==
  LET base == BridgeState(chain, final) IN
  /\ \A i \in Ids : records[i] # <<>> =>
       [id |-> i, payload |-> records[i][1]] \in base.withdrawals
  /\ minted \subseteq base.processed
============================================================================
