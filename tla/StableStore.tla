---------------------------- MODULE StableStore ----------------------------
(***************************************************************************)
(* The canister's stable store: the tables of deposits, funding attempts,  *)
(* withdrawals and reconciliation holds, the indexes, counts and counters  *)
(* kept beside them, the audit log, the rebuild of the history indexes     *)
(* after a schema upgrade, and the storage validation a controller runs in *)
(* chunks between all of these.                                            *)
(*                                                                         *)
(* The store is one record `db`.  A table is a function from its keys to   *)
(* its values, and a row count is kept beside it by the statements that    *)
(* insert and delete.  A statement is an operator from the store to the    *)
(* store; one that its checks refuse clears `ok`, and the transaction it   *)
(* is part of then leaves the store as it was.                             *)
(*                                                                         *)
(* Every value of a record that no index, count or counter depends on is   *)
(* left out.  A key is a number that sorts as the key does.  The rows of   *)
(* fee_payouts and settlement_jobs belong to FeePayout and SettlementJobs: *)
(* both tables stay empty here.                                            *)
(***************************************************************************)
EXTENDS Naturals, Sequences, FiniteSets, FiniteSetsExt, TLC

CONSTANTS
  Owners,               \* callers of deposits, 0..n
  PerOwner,             \* deposits one owner makes
  Withdrawals,          \* withdrawals of Base, 1..n
  MaxRecords,           \* bound: funding attempts, deposits and withdrawals stored
  MaxHolds,             \* bound: holds opened
  MaxAudits,            \* bound: audit events appended
  OwnerIndexLimit,      \* MAX_OWNER_DEPOSIT_INDEX_ENTRIES
  AuditLimit,           \* MAX_AUDIT_EVENTS
  HistoryBatch,         \* rows of one history message
  ChunkRows             \* the max_rows a controller asks for

ASSUME StoreAssumption ==
  /\ Owners \subseteq Nat /\ Withdrawals \subseteq Nat \ {0}
  /\ PerOwner \in Nat /\ MaxRecords \in Nat /\ MaxHolds \in Nat /\ MaxAudits \in Nat
  /\ OwnerIndexLimit \in Nat \ {0} /\ AuditLimit \in Nat \ {0}
  /\ HistoryBatch \in Nat \ {0} /\ ChunkRows \subseteq Nat \ {0}

VARIABLES
  db,                   \* the tables and singletons
  progress,             \* storage_validation: none, running or stale
  armed,                \* HISTORY_INDEX_TIMER is set
  verdict               \* "ok", or what went wrong first

vars == <<db, progress, armed, verdict>>

----------------------------------------------------------------------------
(* Tables, in the order the validation scans them *)

ValidationTables ==
  <<"deposits", "deposit_funding_attempts", "withdrawals", "reconciliation_holds",
    "reconciliation_scans", "audit_events", "fee_payouts", "deposit_owner_index",
    "nonterminal_deposit_owner_index", "deposit_authorization_deadline_index",
    "pull_pending_deposit_index", "release_pending_withdrawal_index",
    "open_hold_index", "owner_deposit_sequences", "withdrawal_liability_index",
    "withdrawal_notification_index", "withdrawal_requester_index",
    "withdrawal_transaction_index", "withdrawal_stop_reason_counts",
    "settlement_jobs">>

Tables == {ValidationTables[i] : i \in DOMAIN ValidationTables}

\* A deposit is the n-th of its owner: its id binds both.
Deposits == {o * PerOwner + n : o \in Owners, n \in 0..(PerOwner - 1)}
OwnerOf(d) == d \div PerOwner
SequenceOf(d) == d % PerOwner

\* deposit_owner_index_key: the newest of an owner sorts first.
NonterminalKey(d) == OwnerOf(d) * PerOwner + (PerOwner - 1 - SequenceOf(d))
OwnerIndexKey(owner, n) == owner * Cardinality(Deposits) + (Cardinality(Deposits) - 1 - n)
OwnerPrefix(owner) ==
  (owner * Cardinality(Deposits))..(owner * Cardinality(Deposits) + Cardinality(Deposits) - 1)

\* The hash of the transaction that burnt a withdrawal; it does not sort as
\* the withdrawal's id does.
HashOf(w) == Cardinality(Withdrawals) + 1 - w
MintAmount(d) == d + 1
AmountOut(w) == w
LedgerFeeExceedsServiceFee == 1

NoRows == [k \in {} |-> 0]
Rows(t, table) == DOMAIN t.tab[table]
Has(t, table, key) == key \in Rows(t, table)
Without(f, key) == [k \in DOMAIN f \ {key} |-> f[k]]

\* SELECT ... WHERE key > after ORDER BY key LIMIT n, as the set of its keys.
Page(keys, n) == {k \in keys : Cardinality({j \in keys : j < k}) < n}

----------------------------------------------------------------------------
(* Statements that keep the row counts *)

Refuse(t) == [t EXCEPT !.ok = FALSE]

IncrementTableCount(t, table) == [t EXCEPT !.count[table] = @ + 1]
DecrementTableCount(t, table) ==
  IF t.count[table] = 0 THEN Refuse(t) ELSE [t EXCEPT !.count[table] = @ - 1]

Put(t, table, key, value) ==
  [t EXCEPT !.tab[table] = (key :> value) @@ @]

InsertTracked(t, table, key, value) ==
  IF Has(t, table, key) THEN Refuse(t)
  ELSE IncrementTableCount(Put(t, table, key, value), table)

DeleteTracked(t, table, key) ==
  IF ~Has(t, table, key) THEN Refuse(t)
  ELSE DecrementTableCount([t EXCEPT !.tab[table] = Without(@, key)], table)

\* An entry's key before and after, each present or not.
TransitionTracked(t, table, was, is, key) ==
  CASE was /\ ~is -> DeleteTracked(t, table, key)
    [] ~was /\ is -> InsertTracked(t, table, key, key)
    [] was /\ is  -> IF Has(t, table, key) THEN Put(t, table, key, key) ELSE Refuse(t)
    [] OTHER      -> t

Upsert(t, table, key, value) ==
  IF Has(t, table, key) THEN Put(t, table, key, value)
  ELSE InsertTracked(t, table, key, value)

Remove(t, table, key) ==
  IF Has(t, table, key) THEN DeleteTracked(t, table, key) ELSE t

\* checked_counter_transition
AdjustActive(n, was, is) == IF was = is THEN n ELSE IF is THEN n + 1 ELSE n - 1
Underflows(n, was, is) == was /\ ~is /\ n = 0

----------------------------------------------------------------------------
(* What a record is counted and indexed by *)

IsPendingDeposit(s) == s \in {"FundingPending", "RefundPending"}
IsTerminalDeposit(s) == s \in {"Refunded", "Cancelled", "Minted"}
IsMintReserved(s) == s \in {"AuthorizationPending", "AuthorizationAvailable"}
HasDeadline(s) == s \in {"AuthorizationPending", "AuthorizationAvailable"}
IsPendingWithdrawal(s) == s = "ReleasePending"
IsNonterminalWithdrawal(s) == s \in {"Observed", "ReleasePending", "ReconciliationHold"}

\* The states one event of the deposit leads to by way of put_deposit.
DepositSuccessors(s) ==
  CASE s = "EscrowedUnquoted"       -> {"AuthorizationPending", "RefundAvailable"}
    [] s = "AuthorizationPending"   -> {"AuthorizationAvailable", "RefundAvailable"}
    [] s = "AuthorizationAvailable" -> {"RefundAvailable", "Minted"}
    [] s = "RefundAvailable"        -> {"RefundPending", "Minted"}
    [] s = "RefundPending"          -> {"Refunded"}
    [] OTHER                        -> {}

AdjustPending(t, was, is) ==
  IF Underflows(t.pending, was, is) THEN Refuse(t)
  ELSE [t EXCEPT !.pending = AdjustActive(@, was, is)]

AdjustReservedAmount(t, d, was, is) ==
  IF IsMintReserved(was) /\ t.reservedAmount < MintAmount(d) THEN Refuse(t)
  ELSE [t EXCEPT !.reservedAmount = (IF IsMintReserved(was) THEN @ - MintAmount(d) ELSE @)
                                    + (IF IsMintReserved(is) THEN MintAmount(d) ELSE 0)]

AdjustReservedOperations(t, was, is) ==
  IF Underflows(t.reservedOperations, IsMintReserved(was), IsMintReserved(is)) THEN Refuse(t)
  ELSE [t EXCEPT !.reservedOperations = AdjustActive(@, IsMintReserved(was), IsMintReserved(is))]

----------------------------------------------------------------------------
(* Withdrawal rows and what follows them *)

AdjustStopReason(t, reason, add) ==
  LET n == IF Has(t, "withdrawal_stop_reason_counts", reason)
           THEN t.tab["withdrawal_stop_reason_counts"][reason] ELSE 0
  IN  CASE add -> Upsert(t, "withdrawal_stop_reason_counts", reason, n + 1)
        [] ~add /\ n = 0 -> Refuse(t)
        [] ~add /\ n = 1 -> DeleteTracked(t, "withdrawal_stop_reason_counts", reason)
        [] OTHER -> Put(t, "withdrawal_stop_reason_counts", reason, n - 1)

\* The amount owed, and the count of the reason, of a withdrawal not paid.
AdjustLiability(t, w, record, add) ==
  LET owed == [t EXCEPT !.liability = IF add THEN @ + AmountOut(w) ELSE @ - AmountOut(w)]
  IN  CASE ~IsNonterminalWithdrawal(record.state) -> t
        [] ~add /\ t.liability < AmountOut(w) -> Refuse(t)
        [] record.reason = <<>> -> owed
        [] OTHER -> AdjustStopReason(owed, record.reason[1], add)

WriteWithdrawalHistory(t, w) == Upsert(t, "withdrawal_requester_index", w, w)

WriteWithdrawalTransaction(t, w, hash) ==
  IF /\ Has(t, "withdrawal_transaction_index", w)
     /\ t.tab["withdrawal_transaction_index"][w] # hash
  THEN Refuse(t)
  ELSE Upsert(t, "withdrawal_transaction_index", w, hash)

\* Mutated form: the history row is left to the rebuild.
ReplaceWithdrawalRowNoHistory(t, w, next) ==
  LET old == t.tab["withdrawals"][w]
      exists == Has(t, "withdrawals", w)
      was == exists /\ IsNonterminalWithdrawal(old.state)
      listed == TransitionTracked(t, "withdrawal_liability_index", was,
                                  IsNonterminalWithdrawal(next.state), w)
      stored == IF exists THEN Put(AdjustLiability(listed, w, old, FALSE), "withdrawals", w, next)
                ELSE InsertTracked(listed, "withdrawals", w, next)
  IN  AdjustLiability(stored, w, next, TRUE)

ReplaceWithdrawalRow(t, w, next) ==
  LET old == t.tab["withdrawals"][w]
      exists == Has(t, "withdrawals", w)
      was == exists /\ IsNonterminalWithdrawal(old.state)
      listed == TransitionTracked(t, "withdrawal_liability_index", was,
                                  IsNonterminalWithdrawal(next.state), w)
      stored == IF exists THEN Put(AdjustLiability(listed, w, old, FALSE), "withdrawals", w, next)
                ELSE InsertTracked(listed, "withdrawals", w, next)
  IN  AdjustLiability(WriteWithdrawalHistory(stored, w), w, next, TRUE)

----------------------------------------------------------------------------
(* The audit log: contiguous sequences, the oldest pruned at the limit *)

PrepareAuditBatch(t, n) ==
  LET events == t.nextAudit..(t.nextAudit + n - 1)
      kept == Rows(t, "audit_events")
      prune == IF Cardinality(kept) + n > AuditLimit THEN Cardinality(kept) + n - AuditLimit ELSE 0
      oldest == Page(kept, prune)
  IN  [events |-> events, pruned |-> oldest,
       ok |-> /\ Cardinality(oldest) = prune
              /\ oldest = t.prunedCount..(t.prunedCount + prune - 1)]

CommitAuditBatch(t, n) ==
  LET audit == PrepareAuditBatch(t, n)
      log == t.tab["audit_events"]
      keys == (DOMAIN log \cup audit.events) \ audit.pruned
  IN  IF ~audit.ok \/ audit.events \cap DOMAIN log # {} THEN Refuse(t)
      ELSE [t EXCEPT !.tab["audit_events"] = [k \in keys |-> k],
                     !.count["audit_events"] = @ + n - Cardinality(audit.pruned),
                     !.nextAudit = @ + n,
                     !.prunedCount = @ + Cardinality(audit.pruned)]

----------------------------------------------------------------------------
(* Deposit bundles *)

FundingRecoveryDue(state) ==
  CASE state \in {"Prepared", "Retryable"} -> "updated + 120 s"
    [] state = "Dispatched" -> "dispatched + 30 s"
    [] OTHER -> "next check"

Attempt(state) == [state |-> state, due |-> FundingRecoveryDue(state)]

NextSequence(t, owner) ==
  IF Has(t, "owner_deposit_sequences", owner) THEN t.tab["owner_deposit_sequences"][owner] ELSE 0

PrepareDepositFundingAttempt(t, d) ==
  LET stored == InsertTracked(t, "deposit_funding_attempts", d, Attempt("Prepared"))
  IN  [InsertTracked(stored, "nonterminal_deposit_owner_index", NonterminalKey(d), d)
       EXCEPT !.reservations = @ \cup {d}]

UpdateDepositFundingAttempt(t, d, state) ==
  Put(t, "deposit_funding_attempts", d, Attempt(state))

\* A failed transfer gives back the attempt's row, index entry and reservation.
RemoveDepositFundingAttempt(t, d) ==
  LET dropped == DeleteTracked(t, "deposit_funding_attempts", d)
  IN  [DeleteTracked(dropped, "nonterminal_deposit_owner_index", NonterminalKey(d))
       EXCEPT !.reservations = @ \ {d}]

OpenHold(t, kind, id) ==
  LET h == t.nextHold
      stored == InsertTracked(t, "reconciliation_holds", h, [kind |-> kind, id |-> id, open |-> TRUE])
  IN  [InsertTracked(stored, "open_hold_index", h, h) EXCEPT !.nextHold = @ + 1]

\* The entry of the owner's index that one more would push out, if any.
ExcessKey(t, owner) ==
  LET kept == Rows(t, "deposit_owner_index") \cap OwnerPrefix(owner)
      page == Page(kept, OwnerIndexLimit)
  IN  IF Cardinality(page) < OwnerIndexLimit THEN {}
      ELSE {Max(page)}

\* admit_deposit as the funding attempt's promotion: the deposit's row and
\* indexes replace the attempt's, a hold is opened when the outcome of the
\* transfer is unknown, and the owner's sequence moves on.
AdmitDeposit(t, d, state) ==
  LET owner == OwnerOf(d)
      row == InsertTracked(t, "deposits", d, state)
      listed == [InsertTracked(row, "deposit_owner_index", OwnerIndexKey(owner, t.nextIndex), d)
                 EXCEPT !.nextIndex = @ + 1]
      indexed == Upsert(listed, "nonterminal_deposit_owner_index", NonterminalKey(d), d)
      pruned == IF ExcessKey(t, owner) = {} THEN indexed
                ELSE DeleteTracked(indexed, "deposit_owner_index",
                                   CHOOSE k \in ExcessKey(t, owner) : TRUE)
      held == IF state = "FundingReconciliationHold" THEN OpenHold(pruned, "funding", d) ELSE pruned
      moved == DeleteTracked(held, "deposit_funding_attempts", d)
  IN  [Upsert(moved, "owner_deposit_sequences", owner, NextSequence(t, owner) + 1)
       EXCEPT !.reservations = @ \ {d}]

IndexNonterminal(t, d, state) ==
  IF IsTerminalDeposit(state)
  THEN Remove(t, "nonterminal_deposit_owner_index", NonterminalKey(d))
  ELSE Upsert(t, "nonterminal_deposit_owner_index", NonterminalKey(d), d)

PutDeposit(t, d, next) ==
  LET was == t.tab["deposits"][d]
      counted == AdjustReservedOperations(
                   AdjustReservedAmount(
                     AdjustPending(t, IsPendingDeposit(was), IsPendingDeposit(next)), d, was, next),
                   was, next)
      unpulled == IF IsPendingDeposit(was) THEN Remove(counted, "pull_pending_deposit_index", d)
                  ELSE counted
      undated == IF HasDeadline(was) THEN Remove(unpulled, "deposit_authorization_deadline_index", d)
                 ELSE unpulled
      pulled == IF IsPendingDeposit(next) THEN Upsert(undated, "pull_pending_deposit_index", d, d)
                ELSE undated
      dated == IF HasDeadline(next) THEN Upsert(pulled, "deposit_authorization_deadline_index", d, d)
               ELSE pulled
  IN  Upsert(IndexNonterminal(dated, d, next), "deposits", d, next)

----------------------------------------------------------------------------
(* Withdrawal and hold bundles *)

Withdrawal(state, reason) == [state |-> state, reason |-> reason]

IndexNotification(t, w) ==
  WriteWithdrawalTransaction(InsertTracked(t, "withdrawal_notification_index", HashOf(w), w),
                             w, HashOf(w))

CommitNewWithdrawalRelease(t, w, audits) ==
  LET row == ReplaceWithdrawalRow(AdjustPending(t, FALSE, TRUE), w, Withdrawal("ReleasePending", <<>>))
  IN  CommitAuditBatch(
        InsertTracked(IndexNotification(row, w), "release_pending_withdrawal_index", w, w), audits)

CommitFeeGuardTrip(t, w, audits) ==
  CommitAuditBatch(
    IndexNotification(
      ReplaceWithdrawalRow(t, w, Withdrawal("Observed", <<LedgerFeeExceedsServiceFee>>)), w),
    audits)

CommitFeeGuardUpdate(t, w, next, audits) ==
  LET release == IsPendingWithdrawal(next.state)
      row == ReplaceWithdrawalRow(
               AdjustPending(t, IsPendingWithdrawal(t.tab["withdrawals"][w].state), release), w, next)
  IN  CommitAuditBatch(
        IF release THEN InsertTracked(row, "release_pending_withdrawal_index", w, w) ELSE row,
        audits)

PutWithdrawal(t, w, next) ==
  LET was == t.tab["withdrawals"][w].state
      counted == AdjustPending(t, IsPendingWithdrawal(was), IsPendingWithdrawal(next.state))
      removed == IF IsPendingWithdrawal(was)
                 THEN Remove(counted, "release_pending_withdrawal_index", w) ELSE counted
      added == IF IsPendingWithdrawal(next.state)
               THEN Upsert(removed, "release_pending_withdrawal_index", w, w) ELSE removed
  IN  ReplaceWithdrawalRow(added, w, next)

\* The parent's place among the pending operations before and after a hold.
MovePendingIndex(t, table, key, was, is) ==
  LET removed == IF was THEN DeleteTracked(t, table, key) ELSE t
  IN  IF Has(t, table, key) # was THEN Refuse(t)
      ELSE IF is THEN InsertTracked(removed, table, key, key) ELSE removed

CommitDepositHold(t, d) ==
  LET counted == AdjustPending(t, TRUE, FALSE)
      row == Put(counted, "deposits", d, "RefundReconciliationHold")
  IN  OpenHold(MovePendingIndex(row, "pull_pending_deposit_index", d, TRUE, FALSE), "refund", d)

CommitWithdrawalHold(t, w) ==
  LET counted == AdjustPending(t, TRUE, FALSE)
      row == ReplaceWithdrawalRow(counted, w,
               [t.tab["withdrawals"][w] EXCEPT !.state = "ReconciliationHold"])
  IN  OpenHold(MovePendingIndex(row, "release_pending_withdrawal_index", w, TRUE, FALSE),
               "withdrawal", w)

\* The parent's state once the history scan or a replay settled its hold.
ResolvedDeposit(kind, found) ==
  CASE kind = "funding" /\ found  -> "EscrowedUnquoted"
    [] kind = "funding" /\ ~found -> "Cancelled"
    [] kind = "refund" /\ found   -> "Refunded"
    [] OTHER                      -> "RefundPending"

ResolvedWithdrawal(found) == IF found THEN "Paid" ELSE "ReleasePending"

ResolveDepositParent(t, d, next) ==
  LET counted == AdjustPending(t, FALSE, IsPendingDeposit(next))
      row == IndexNonterminal(Put(counted, "deposits", d, next), d, next)
  IN  MovePendingIndex(row, "pull_pending_deposit_index", d, FALSE, IsPendingDeposit(next))

ResolveWithdrawalParent(t, w, next) ==
  LET counted == AdjustPending(t, FALSE, IsPendingWithdrawal(next))
      row == ReplaceWithdrawalRow(counted, w, [t.tab["withdrawals"][w] EXCEPT !.state = next])
  IN  MovePendingIndex(row, "release_pending_withdrawal_index", w, FALSE, IsPendingWithdrawal(next))

PersistResolvedHold(t, h, found, scanned) ==
  LET hold == t.tab["reconciliation_holds"][h]
      parent == IF hold.kind = "withdrawal"
                THEN ResolveWithdrawalParent(t, hold.id, ResolvedWithdrawal(found))
                ELSE ResolveDepositParent(t, hold.id, ResolvedDeposit(hold.kind, found))
      closed == DeleteTracked(Put(parent, "reconciliation_holds", h, [hold EXCEPT !.open = FALSE]),
                              "open_hold_index", h)
  IN  IF scanned THEN DeleteTracked(closed, "reconciliation_scans", h) ELSE closed

PutReconciliationScan(t, h) == Upsert(t, "reconciliation_scans", h, h)

\* A settlement run ends: the reason it stopped for is kept on the record.
FinishSettlementJob(t, w, reason) ==
  ReplaceWithdrawalRow(t, w, [t.tab["withdrawals"][w] EXCEPT !.reason = reason])

----------------------------------------------------------------------------
(* Schema migration and the history indexes *)

EmptyStore ==
  [tab |-> [x \in Tables |-> NoRows], count |-> [x \in Tables |-> 0],
   pending |-> 0, reservedAmount |-> 0, reservedOperations |-> 0,
   nextHold |-> 0, nextIndex |-> 0, nextAudit |-> 0, prunedCount |-> 0,
   reservations |-> {}, liability |-> 0,
   schema |-> 36, consent |-> TRUE, activation |-> "recorded", pausePrincipal |-> "current",
   stage |-> 2, cursor |-> 0, ok |-> TRUE]

\* A store an earlier release left behind, of schema 35 or of schema 36 before
\* the consent counter, that holds these withdrawals.
PredecessorRow(w, state, t) ==
  CASE state = "absent" -> t
    [] state = "Observed" -> CommitFeeGuardTrip(t, w, 0)
    [] state = "ReleasePending" -> CommitNewWithdrawalRelease(t, w, 0)
    [] OTHER -> PutWithdrawal(CommitNewWithdrawalRelease(t, w, 0), w, Withdrawal("Paid", <<>>))

PredecessorStore(states, schema, activation, pausePrincipal) ==
  [FoldSet(LAMBDA w, t : PredecessorRow(w, states[w], t),
           CommitAuditBatch(EmptyStore, 1), Withdrawals)
   EXCEPT !.schema = schema, !.consent = FALSE, !.activation = activation,
          !.pausePrincipal = pausePrincipal]

CreateHistoryIndexes(t) ==
  [t EXCEPT !.tab["withdrawal_requester_index"] = NoRows,
            !.tab["withdrawal_transaction_index"] = NoRows,
            !.count["withdrawal_requester_index"] = 0,
            !.count["withdrawal_transaction_index"] = 0,
            !.stage = 0, !.cursor = 0]

\* The admission record must account for the activation it is in or past: by a
\* confirmed activation on record, by one derived from the last completed
\* transaction, which is then recorded, or not at all, and the migration fails.
MigratePreviousSchema(t) ==
  IF t.schema = 35
  THEN [CreateHistoryIndexes(t) EXCEPT !.schema = 36, !.activation = "recorded",
                                       !.ok = @ /\ t.activation # "unexplained"]
  ELSE t

MigrateConsentAdmission(t) == [t EXCEPT !.consent = TRUE]

\* Once, while the bootstrap principal of the first release is still in place; a
\* principal that is neither that one nor its successor, or a role they would
\* share, is a conflict.
MigrateBootstrapPausePrincipal(t) ==
  CASE t.pausePrincipal = "current" -> t
    [] t.pausePrincipal = "bootstrap" -> [CommitAuditBatch(t, 1) EXCEPT !.pausePrincipal = "current"]
    [] t.pausePrincipal = "conflicting" -> [t EXCEPT !.ok = FALSE]

\* A store the upgrade cannot take over: post_upgrade traps.
Unmigratable(t) ==
  \/ t.schema = 35 /\ t.activation = "unexplained"
  \/ t.pausePrincipal = "conflicting"

VerifyCurrentSchemaShape(t) ==
  /\ t.schema = 36 /\ t.consent
  /\ t.stage \in 0..2 /\ (t.stage = 2 => t.cursor = 0)

HistoryRow(t, k) ==
  IF t.stage = 0
  THEN WriteWithdrawalTransaction(t, t.tab["withdrawal_notification_index"][k], k)
  ELSE WriteWithdrawalHistory(t, k)

\* One message of the rebuild: at most HistoryBatch rows and the cursor.
AdvanceHistoryIndexes(t) ==
  LET table == IF t.stage = 0 THEN "withdrawal_notification_index" ELSE "withdrawals"
      keys == Page({k \in Rows(t, table) : k > t.cursor}, HistoryBatch)
      last == Cardinality(keys) < HistoryBatch
      written == FoldSet(LAMBDA k, u : HistoryRow(u, k), t, keys)
  IN  IF t.stage = 2 THEN t
      ELSE [written EXCEPT !.stage = IF last THEN @ + 1 ELSE @,
                           !.cursor = IF last THEN 0 ELSE Max(keys)]

----------------------------------------------------------------------------
(* validate_storage_row: what the validation demands of a row, by table *)

DepositRowValid(t, d) ==
  LET state == t.tab["deposits"][d]
  IN  /\ HasDeadline(state) => Has(t, "deposit_authorization_deadline_index", d)
      /\ Has(t, "nonterminal_deposit_owner_index", NonterminalKey(d)) <=> ~IsTerminalDeposit(state)

AttemptRowValid(t, d) ==
  /\ t.tab["deposit_funding_attempts"][d].due
       = FundingRecoveryDue(t.tab["deposit_funding_attempts"][d].state)
  /\ Has(t, "nonterminal_deposit_owner_index", NonterminalKey(d))
  /\ d \in t.reservations

WithdrawalRowValid(t, w) ==
  /\ t.stage = 2 => Has(t, "withdrawal_requester_index", w)
  /\ IsNonterminalWithdrawal(t.tab["withdrawals"][w].state)
       => Has(t, "withdrawal_liability_index", w)

ScanRowValid(t, h) == Has(t, "reconciliation_holds", h)

AuditRowValid(t, k) == t.tab["audit_events"][k] = k

OwnerIndexRowValid(t, k) == Has(t, "deposits", t.tab["deposit_owner_index"][k])

NonterminalRowValid(t, k) ==
  LET d == t.tab["nonterminal_deposit_owner_index"][k]
      funding == Has(t, "deposit_funding_attempts", d)
      deposit == Has(t, "deposits", d)
  IN  /\ funding # deposit
      /\ deposit => ~IsTerminalDeposit(t.tab["deposits"][d])
      /\ k = NonterminalKey(d)

DeadlineRowValid(t, d) == Has(t, "deposits", d) /\ HasDeadline(t.tab["deposits"][d])

PendingRowValid(t, primary, k) == Has(t, primary, k)

OpenHoldRowValid(t, h) ==
  Has(t, "reconciliation_holds", h) /\ t.tab["reconciliation_holds"][h].open

LiabilityRowValid(t, w) ==
  Has(t, "withdrawals", w) /\ IsNonterminalWithdrawal(t.tab["withdrawals"][w].state)

RequesterRowValid(t, w) == Has(t, "withdrawals", w)

TransactionRowValid(t, w) ==
  LET hash == t.tab["withdrawal_transaction_index"][w]
  IN  /\ Has(t, "withdrawal_notification_index", hash)
      /\ t.tab["withdrawal_notification_index"][hash] = w

NotificationRowValid(t, hash) ==
  LET w == t.tab["withdrawal_notification_index"][hash]
  IN  /\ Has(t, "withdrawals", w)
      /\ t.stage = 2 => /\ Has(t, "withdrawal_transaction_index", w)
                        /\ t.tab["withdrawal_transaction_index"][w] = hash

StopReasonRowValid(t, k) == t.tab["withdrawal_stop_reason_counts"][k] > 0

ValidateStorageRow(t, table, k) ==
  CASE table = "deposits" -> DepositRowValid(t, k)
    [] table = "deposit_funding_attempts" -> AttemptRowValid(t, k)
    [] table = "withdrawals" -> WithdrawalRowValid(t, k)
    [] table = "reconciliation_scans" -> ScanRowValid(t, k)
    [] table = "audit_events" -> AuditRowValid(t, k)
    [] table = "deposit_owner_index" -> OwnerIndexRowValid(t, k)
    [] table = "nonterminal_deposit_owner_index" -> NonterminalRowValid(t, k)
    [] table = "deposit_authorization_deadline_index" -> DeadlineRowValid(t, k)
    [] table = "pull_pending_deposit_index" -> PendingRowValid(t, "deposits", k)
    [] table = "release_pending_withdrawal_index" -> PendingRowValid(t, "withdrawals", k)
    [] table = "open_hold_index" -> OpenHoldRowValid(t, k)
    [] table = "withdrawal_liability_index" -> LiabilityRowValid(t, k)
    [] table = "withdrawal_requester_index" -> RequesterRowValid(t, k)
    [] table = "withdrawal_transaction_index" -> TransactionRowValid(t, k)
    [] table = "withdrawal_notification_index" -> NotificationRowValid(t, k)
    [] table = "withdrawal_stop_reason_counts" -> StopReasonRowValid(t, k)
    [] OTHER -> TRUE

----------------------------------------------------------------------------
(* continue_storage_validation *)

NoValidation ==
  [status |-> "none", phase |-> 1, cursor |-> <<>>, rows |-> 0, pending |-> 0,
   nonterminal |-> 0, holds |-> 0, amount |-> 0, operations |-> 0, attempts |-> 0]
StartedValidation == [NoValidation EXCEPT !.status = "running"]

\* The revision a running validation expects is the one its last write left:
\* any other write that changes the store makes it stale for good.
AfterUpdate(p) == IF p.status = "running" THEN [NoValidation EXCEPT !.status = "stale"] ELSE p

ValidationRows(t, p, n) ==
  LET table == ValidationTables[p.phase]
  IN  Page({k \in Rows(t, table) : p.cursor # <<>> => k > p.cursor[1]}, n)

\* The totals a chunk adds to.
Tally(t, p, keys) ==
  LET table == ValidationTables[p.phase]
      Of(name) == IF table = name THEN keys ELSE {}
      reserved == {d \in Of("deposits") : IsMintReserved(t.tab["deposits"][d])}
      pulls == {d \in Of("deposits") : IsPendingDeposit(t.tab["deposits"][d])}
      releases == {w \in Of("withdrawals") : IsPendingWithdrawal(t.tab["withdrawals"][w].state)}
      owed == {w \in Of("withdrawals") : IsNonterminalWithdrawal(t.tab["withdrawals"][w].state)}
      open == {h \in Of("reconciliation_holds") : t.tab["reconciliation_holds"][h].open}
  IN  [p EXCEPT !.rows = @ + Cardinality(keys),
                !.pending = @ + Cardinality(pulls) + Cardinality(releases),
                !.nonterminal = @ + Cardinality(owed),
                !.holds = @ + Cardinality(open),
                !.amount = @ + MapThenSumSet(MintAmount, reserved),
                !.operations = @ + Cardinality(reserved),
                !.attempts = @ + Cardinality(Of("deposit_funding_attempts")),
                !.cursor = IF keys = {} THEN <<>> ELSE <<Max(keys)>>]

PhaseCountValid(t, p) == t.count[ValidationTables[p.phase]] = p.rows

TotalsValid(t, p) ==
  /\ t.pending = p.pending
  /\ t.count["withdrawal_liability_index"] = p.nonterminal
  /\ t.count["open_hold_index"] = p.holds
  /\ t.reservedAmount = p.amount
  /\ t.reservedOperations = p.operations
  /\ Cardinality(t.reservations) = p.attempts

\* One call: the rows it reads, the end of a table, the end of the scan.
ValidationChunk(t, p, n) ==
  LET keys == ValidationRows(t, p, n)
      tallied == Tally(t, p, keys)
      ends == Cardinality(keys) < n
      next == IF ends THEN [tallied EXCEPT !.phase = @ + 1, !.rows = 0, !.cursor = <<>>]
              ELSE tallied
      complete == next.phase > Len(ValidationTables)
  IN  [ok |-> /\ \A k \in keys : ValidateStorageRow(t, ValidationTables[p.phase], k)
              /\ ends => PhaseCountValid(t, tallied)
              /\ complete => TotalsValid(t, next),
       p |-> IF complete THEN NoValidation ELSE next]

----------------------------------------------------------------------------
(* The canister *)

Settled(word) == IF verdict = "ok" THEN word ELSE verdict

\* RevisionedHandle::update: all of a transaction or nothing, and a new revision.
Update(t) ==
  /\ db' = IF t.ok THEN t ELSE db
  /\ progress' = IF t.ok THEN AfterUpdate(progress) ELSE progress
  /\ verdict' = IF t.ok THEN verdict ELSE Settled("refused")
  /\ UNCHANGED armed

Running == db.schema = 36 /\ db.consent
State(w) == db.tab["withdrawals"][w].state

RoomForRecord ==
  Cardinality(Rows(db, "deposit_funding_attempts"))
    + Cardinality(Rows(db, "deposits")) + Cardinality(Rows(db, "withdrawals")) < MaxRecords

PrepareFunding(d) ==
  /\ Running /\ RoomForRecord
  /\ ~Has(db, "deposits", d) /\ ~Has(db, "deposit_funding_attempts", d)
  /\ SequenceOf(d) = NextSequence(db, OwnerOf(d))
  /\ Update(PrepareDepositFundingAttempt(db, d))

AttemptStates == {"Dispatched", "Retryable", "Reconciling"}

UpdateFunding(d) ==
  /\ Running /\ Has(db, "deposit_funding_attempts", d)
  /\ \E state \in AttemptStates : Update(UpdateDepositFundingAttempt(db, d, state))

RemoveFunding(d) ==
  /\ Running /\ Has(db, "deposit_funding_attempts", d)
  /\ Update(RemoveDepositFundingAttempt(db, d))

\* promote_funding_success and promote_funding_ambiguous
PromoteFunding(d) ==
  /\ Running /\ Has(db, "deposit_funding_attempts", d)
  /\ db.tab["deposit_funding_attempts"][d].state \in AttemptStates
  /\ \/ Update(AdmitDeposit(db, d, "EscrowedUnquoted"))
     \/ /\ db.nextHold < MaxHolds
        /\ Update(AdmitDeposit(db, d, "FundingReconciliationHold"))

AdvanceDeposit(d) ==
  /\ Running /\ Has(db, "deposits", d)
  /\ \E next \in DepositSuccessors(db.tab["deposits"][d]) : Update(PutDeposit(db, d, next))

HoldDeposit(d) ==
  /\ Running /\ Has(db, "deposits", d) /\ db.tab["deposits"][d] = "RefundPending"
  /\ db.nextHold < MaxHolds
  /\ Update(CommitDepositHold(db, d))

\* A finalized withdrawal is taken in, to be released or behind the fee guard;
\* the observation, and the guard's trip, are audited with it.
IngestWithdrawal(w) ==
  /\ Running /\ RoomForRecord
  /\ ~Has(db, "withdrawals", w) /\ ~Has(db, "withdrawal_notification_index", HashOf(w))
  /\ \/ \E audits \in 0..1 :
          /\ db.nextAudit + audits <= MaxAudits
          /\ Update(CommitNewWithdrawalRelease(db, w, audits))
     \/ /\ db.nextAudit < MaxAudits
        /\ Update(CommitFeeGuardTrip(db, w, 1))

\* advance_withdrawal at Observed: the fee still exceeds the charge, or no longer does.
AdvanceObserved(w) ==
  /\ Running /\ Has(db, "withdrawals", w) /\ State(w) = "Observed"
  /\ \E audits \in 0..1 :
       /\ db.nextAudit + audits <= MaxAudits
       /\ \/ Update(CommitFeeGuardUpdate(db, w, Withdrawal("ReleasePending", <<>>), audits))
          \/ Update(CommitFeeGuardUpdate(
                      db, w, Withdrawal("Observed", <<LedgerFeeExceedsServiceFee>>), audits))

PayWithdrawal(w) ==
  /\ Running /\ Has(db, "withdrawals", w) /\ State(w) = "ReleasePending"
  /\ Update(PutWithdrawal(db, w, [db.tab["withdrawals"][w] EXCEPT !.state = "Paid"]))

HoldWithdrawal(w) ==
  /\ Running /\ Has(db, "withdrawals", w) /\ State(w) = "ReleasePending"
  /\ db.nextHold < MaxHolds
  /\ Update(CommitWithdrawalHold(db, w))

FinishJob(w) ==
  /\ Running /\ Has(db, "withdrawals", w)
  /\ \E reason \in {<<>>, <<LedgerFeeExceedsServiceFee>>} :
       /\ IsNonterminalWithdrawal(State(w)) \/ reason = <<>>
       /\ Update(FinishSettlementJob(db, w, reason))

ScanHold(h) ==
  /\ Running /\ Has(db, "open_hold_index", h)
  /\ Update(PutReconciliationScan(db, h))

\* A scan that settled the hold deletes its row; a replay the ledger
\* confirmed as a duplicate knows of no scan.
ResolveHold(h) ==
  /\ Running /\ Has(db, "open_hold_index", h)
  /\ \/ /\ Has(db, "reconciliation_scans", h)
        /\ \E found \in BOOLEAN : Update(PersistResolvedHold(db, h, found, TRUE))
     \/ Update(PersistResolvedHold(db, h, TRUE, FALSE))

AppendAuditEvent ==
  /\ Running /\ db.nextAudit < MaxAudits
  /\ Update(CommitAuditBatch(db, 1))

\* The history timer's message; it arms the next one until the rebuild is done.
HistoryTimer ==
  /\ Running /\ armed
  /\ LET t == AdvanceHistoryIndexes(db)
     IN  /\ db' = IF t.ok THEN t ELSE db
         /\ progress' = IF t.ok THEN AfterUpdate(progress) ELSE progress
         /\ verdict' = IF t.ok THEN verdict ELSE Settled("refused")
         /\ armed' = (t.ok /\ t.stage # 2)

\* post_upgrade: the timer is lost and armed again, the store is migrated and
\* reopened; the schema migration alone gives the store no new revision.  A
\* migration that fails traps, and the canister stays what it was.
PostUpgrade ==
  LET reopened == MigrateConsentAdmission(MigratePreviousSchema(db))
      t == MigrateBootstrapPausePrincipal(reopened)
      sound == VerifyCurrentSchemaShape(reopened) /\ t.ok
  IN  /\ db' = IF sound THEN t ELSE db
      /\ progress' = IF sound /\ (~db.consent \/ db.pausePrincipal = "bootstrap")
                     THEN AfterUpdate(progress) ELSE progress
      /\ armed' = (sound \/ armed)
      /\ verdict' = IF sound \/ Unmigratable(db) THEN verdict ELSE Settled("refused")

StartStorageValidation ==
  /\ Running
  /\ progress' = StartedValidation
  /\ UNCHANGED <<db, armed, verdict>>

ContinueStorageValidation ==
  /\ Running /\ progress.status # "none"
  /\ \E n \in ChunkRows :
       LET chunk == ValidationChunk(db, progress, n)
       IN  IF progress.status = "stale"
           THEN progress' = NoValidation /\ UNCHANGED verdict
           ELSE /\ progress' = IF chunk.ok THEN chunk.p ELSE progress
                /\ verdict' = IF chunk.ok THEN verdict ELSE Settled("invalid")
  /\ UNCHANGED <<db, armed>>

----------------------------------------------------------------------------

PredecessorStates == [Withdrawals -> {"absent", "Observed", "ReleasePending", "Paid"}]

Init ==
  /\ \/ /\ db = EmptyStore
        /\ progress = NoValidation
     \/ /\ \E states \in PredecessorStates,
              old \in {35} \X {"recorded", "derivable", "unexplained"} \cup {<<36, "recorded">>},
              principal \in {"bootstrap", "current", "conflicting"} :
             db = PredecessorStore(states, old[1], old[2], principal)
        /\ progress \in {NoValidation, StartedValidation}
  /\ armed = FALSE
  /\ verdict = "ok"

DepositNext ==
  \E d \in Deposits :
    \/ PrepareFunding(d) \/ UpdateFunding(d) \/ RemoveFunding(d) \/ PromoteFunding(d)
    \/ AdvanceDeposit(d) \/ HoldDeposit(d)

WithdrawalNext ==
  \E w \in Withdrawals :
    \/ IngestWithdrawal(w) \/ AdvanceObserved(w) \/ PayWithdrawal(w)
    \/ HoldWithdrawal(w) \/ FinishJob(w)

HoldNext == \E h \in 0..(MaxHolds - 1) : ScanHold(h) \/ ResolveHold(h)

Next ==
  \/ DepositNext \/ WithdrawalNext \/ HoldNext
  \/ AppendAuditEvent \/ HistoryTimer \/ PostUpgrade
  \/ StartStorageValidation \/ ContinueStorageValidation

Spec == Init /\ [][Next]_vars

----------------------------------------------------------------------------

\* Every row agrees with its indexes, counts and counters after any sequence
\* of writes, whatever point the history rebuild has reached: no chunk of a
\* storage validation (continue_storage_validation) run between them reports
\* a failure, and no write is refused for a row or count that is missing.
ValidationNeverFails == verdict = "ok"
============================================================================
