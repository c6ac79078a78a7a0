# TLA+ models of the KINIC–Base Bridge

The bridge moves KINIC between the Internet Computer and Base. A canister
(`src/canister`) escrows KINIC on the ICP ledger and signs mint authorizations
for the contract on Base (`src/contracts`), and releases KINIC for tokens burnt
on Base. Everything hard about it is asynchronous: ledger calls that time out
and still execute, histories that are scanned over many calls, Base blocks that
are final, recent or reorganised away, signatures that return late, timers that
run beside requests, administrators that act on two chains, upgrades in the
middle of all that. This directory models those parts in TLA+, checks them with
TLC on small instances and proves the central safety properties with TLAPS for
every value of the constants.

## The system

| Part | State | Operations | Where | Module |
|---|---|---|---|---|
| Ledger settlement | liability record (refund, release), hold, scan | prepare, transfer, hold, resend, scan, found, absent | `tasks.rs`, `ledger.rs`, bridge-core `withdrawal.rs`, `reconciliation.rs` | `LedgerSettlement` |
| Deposit after funding | deposit record, authorization, signature, reservation, accounts | quote, commit, sign, notify mint, refund, sweep | bridge-core `deposit.rs`, `authorization.rs`; `tasks.rs`, `lib.rs` | `DepositLifecycle` |
| Deposit funding | funding attempt, record, funding hold, recovery scan | request, pull, promote, retain, release, prune, recover | `api.rs`, `scheduler.rs`, `storage/mod.rs` | `FundingAttempt` |
| Admission | quota windows, funding reservations, shared Base snapshot, mint capacity | consume, reserve, release, roll back, refresh | `storage/admission.rs`, `storage/mod.rs`, `api.rs`, bridge-core `kernel.rs` | `Admission` |
| Settlement jobs | due queue, lanes, leases with generations, retries | enqueue, claim, renew, finish, park | `storage/settlement.rs`, `storage/mod.rs`, `scheduler.rs` | `SettlementJobs` |
| Withdrawal and mint notifications | withdrawal record, transaction index, in-flight guard | notify, verify, ingest | `api.rs`, `lib.rs` | `Notifications` |
| Base RPC quorum | three providers' answers | heads, checkpoint, block identity, quorum read | `evm_rpc.rs` | `BaseObservation` |
| Cycle reserve | balance, slots, quotas, cooldowns, fee guard | admit, pay, ingest, top up | `lib.rs`, `signer.rs`, bridge-core `reserve.rs` | `CycleReserve` |
| Fee payouts | fee reserve, payout records, roles | request, transfer, hold, fail, finish, rotate | `admin.rs`, `tasks.rs`, bridge-core `accounting.rs` | `FeePayout` |
| Base administration, timelock | roles, pauses, fee, scheduled operations | pause, set fee, schedule, execute, cancel, rotate | `contracts/src` | `BaseContracts` |
| Canister-side governance | nonce lanes, pending transactions, keys, emergency | prepare, sign, replace, abort, confirm, emergency pause | `base_governance.rs`, `storage/mod.rs` | `BaseGovernance` |
| Stable store | tables, indexes, counters, audit log | every transaction, migration, rebuild, validation | `storage/` | `StableStore` |
| Release tool | receipts, authorizations, upgrade sessions | seal, activate, upgrade, verify an SNS upgrade | `tools/bridge-profile`, `scripts` | `ReleaseActivation`, `ReleaseUpgrade`, `Release` |

A deposit is *admitted*, goes through *funding* (tokens reach escrow), the
*lifecycle* (signed, then minted or refunded) and, if it is refunded, *ledger
settlement*. A withdrawal is *notified*, verified against Base, and then is a
liability of ledger settlement. Settlement runs are started by the *jobs*. What
one module abstracts another one models: the header comment of each module says
which steps it takes in one that another splits. `PROJECT.json` lists every
component, and under "hazards" each place where the code can go wrong in a way a
test would hardly reach, with the properties that cover it.

"map" in `PROJECT.json` gives the source lines of every definition. The
definitions named by "as" under "mutants" are wrong versions of a definition
after them; no specification uses them. They document which mistake each
property would reveal.

## Modules

`OutgoingPayment` is the promise of a payment: owed, moved at most once, closed
only after it moved. Each `MC` module is the instance for TLC, with its
constants in the `.cfg`. Modules named `...Proofs` hold theorems; `ReserveProofs`
holds those of `FeePayout` and `CycleReserve`, `AwaitProofs` those of
`SettlementJobs` and `Notifications` (whose specification is therefore named
`NotificationSpec`).

### LedgerSettlement

`pay[l]` is the liability's record with the attempt (`no`, `created`); an
identity is the liability, attempt number and created time. Attempt numbers
stand for memos: `retry_memo` hashes the hold id, and each hold has its own.
`run[l]` is the settlement run that holds the guard and where it waits,
`answer[l]` what the ledger told it, `scan[l]` the stored scan. `net` holds the
transfer requests sent; the ledger may process any of them at any time and any
number of times, which covers late delivery, the resends of a hold, and answers
lost to a bounded-wait timeout. `LoseRun` is a lost lease, a trap or an upgrade.

The ledger accepts an identity while its own clock is at most
`created + DedupWindow + Slack`, and executes it once. The canister resends while
*its* clock is at most `created + DedupWindow + Drift`. The clocks differ by at
most `MaxSkew`. `SkewAssumption`, `Slack + MaxSkew <= Drift`, is exactly what
the 60 s allowance of `tasks.rs` has to cover; the theorems of this module rest on it and
the mutant without drift violates `PaidAtMostOnce`.

A code step reads up to four pages of 1000 blocks, then possibly the index; the
model stores its progress after each page, so a step of the code is a sequence
of model steps and all its intermediate interleavings are allowed. The archive
ranges of a page are read as one page; the ledger is append-only, so what a
page shows does not change between its calls. Fee payouts are not liabilities
of this module: on a definitive refusal they behave differently (`FeePayout`).

### DepositLifecycle

`dep[d]` is the record, `pc[d]` the await where the handler that holds the
deposit's guard stands, `obs[d]` what RPC answered to it. The canister's clock
`now` and Base's `bhead` are unrelated. A mint lands in any block that is not
final and may be reorganised away until it is. RPC answers with any finalized
block: the quorum is trusted to report finalized blocks truthfully, not to be
recent (`BaseObservation` models the quorum itself). `ReleaseExpired`, the
sweep, takes no guard and runs between any two steps. A contract that is paused,
has another epoch or has used up its window refuses a mint: here that mint does
not happen, which is always allowed. `Abandon` ends a handler at its await
(error, refusal, deadline, lease, trap, upgrade). The refund's transfer is the
single step `RefundSucceeded`, justified by `LedgerSettlement`.

`escrow`, `fees` and `supply` are the deposit's own share of the three global
amounts that `asset_backed` relates; the global equation is the sum over
deposits. No action reads another deposit's variables, so one deposit is enough
for TLC, and the theorems are for any set.

### FundingAttempt

`att[d]` is the stored attempt, `rec[d]` the deposit record that replaces it,
`req[d]` the handler (or the settlement run of the hold) with its copy `seen`
of the attempt, `rcv[d]` the recovery run with its own copy. The recovery takes
no deposit guard, so its start, its read and its write are separate actions,
and every write goes through `Current`, the comparison of the stored blob with
the copy. Each call is delivered once or not yet (`net`), so an answer means
that call is over; a handler that was lost or timed out leaves its call in
`net`. `fault` records `mark_fault`.

### SettlementJobs

`job[r]` is the row of a deposit, withdrawal or payout, `run[r]` the run in
flight. Time is relative: every deadline is a countdown. A lease generation is
only ever compared with the generation of the run in flight, so it is the flag
`run[r].current`. A signature is a call without a bound (`Unbounded`); every
other call ends within `CallTicks`, and `LeaseAssumption` is the compile-time
assertion of `scheduler.rs` that a lease outlives them. A trap ends a run
without `finish`; the timer finds its row when the lease has run out.

### FeePayout

A payout is one transfer under one fixed identity. `window[id]` says whether the
ledger still accepts it, `net` which calls are under way. The ledger refuses for
three reasons (`Refuses`): its fee changed, the recipient is the minting account
`Minter` (a transfer there is a burn with a fee), or the account holds too little.
The account is assumed to hold at least the fees earned and not yet paid, so the
last is judged from the books, and `FundsSuffice` proves that it never happens. A
ledger whose fee changed refuses before it looks for a duplicate, and the handler
then returns the debit to the reserve. That boundary is documented (`docs/audits/2026-09-08-deposit-timelock.md:24`), so the two
properties about the ledger speak of a ledger that keeps its fee (`~feeChanged`).
Roles are rotated between any two steps of a payout.

### BaseContracts and BaseGovernance

`BaseContracts` has the administration of `Bridge.sol` and the timelock as
operators from the contracts' storage to a result; `BaseGovernance` is the
canister that signs for them. Three chain-key accounts are three nonce lanes; a
lane holds one transaction at a time until its finalized receipt is confirmed.
Anybody relays a signed transaction, in any order, or never. One guard admits one
handler at a time and every handler is split at its awaits; `emergency_pause`
needs no guard and runs between any two of them. `HandlerEnds` is a handler that
stops at an await. `StoreRefused` is a preparation whose transaction the store does
not take: the nonce it read for a lane without one stays, in a statement of its own
before. `carried` is auxiliary: the lanes that held a transaction while
a rotation of the keys was confirmed. Gas, RLP and calldata are abstract; the fee
of a replacement is kept because the code limits it.

### Admission

Requests consume a quota of their window and a funding reservation; the shared
snapshot of Base is refreshed by one caller at a time under a lock that can be
taken over when it is stale; an authorization reserves mint capacity against the
contract's rolling window. Base is a chain of blocks, each with the bridge's
storage; an observation answers with any finalized one. A claim that finds its deposit
processed goes on to read the mint's evidence (`MintEvidence`), and everything else may
move in between. `overlooked` is
auxiliary: the mints that `notify_deposit_mint` recorded from a block that it did
not store as progress (see the observations below).

### BaseObservation and Notifications

`BaseObservation` is Base with a finalized prefix and replaceable blocks after
it, providers of which at most one answers anything and the others show the
chain of some earlier moment, and the rules by which `evm_rpc.rs` combines three
answers. `Notifications` has `notify_withdrawal` and `notify_deposit_mint` over
it; each RPC request is a step and everything else moves in between. A request
may be refused for want of cycles at any time (`CycleReserve` says when).

### CycleReserve

One balance pays every outgoing request and signature. `Liabilities`, deposits and
the notifications in flight hold slots; quotas, cooldowns and the fee guard decide
who may start. The costs of calls are constants that bound what a call burns;
refunds of unused cycles are left out, which only lowers the balance.

### StableStore

The store is one record; a statement is an operator from the store to the store,
and one that its checks refuse undoes its transaction. The model starts from an
empty store of the current schema or a populated one of either older schema.
Validation runs in chunks between writes, migrations and the rebuild of the
history indexes, and restarts when its snapshot is stale. The model covers the
tables of deposits, funding attempts, withdrawals, holds, scans and audits. The
evidence of an activation is recorded, derivable or unexplained, and the pause
principal that of the bootstrap, current or conflicting; the migration refuses the
last of each, and the upgrade then traps and changes nothing (`Unmigratable`). Left
out: the rows of `settlement_jobs` and `fee_payouts`.
Validation is a controller's operation (`docs/runbooks/operations.md:53-59`); the
exhaustive `validate_relations` exists in test builds only.

### ReleaseActivation, ReleaseUpgrade and Release

The tool runs on the operator's machine and reads the canister by separate
queries, so canister and Base move between any two of its reads; a command may
stop anywhere and is run again over the files that exist. `ReleaseActivation` has
the seal and the two activation phases, `ReleaseUpgrade` the installer's upgrade
and the verification of an SNS upgrade, `Release` composes them over one canister
and one clock. A time is kept only where it is compared with another party's or
with an age, and a step that reads only the operator's files is part of the step
beside it. An emergency stays open; transactions of other nonce lanes are not
included; the answer to the seal call makes no difference and is dropped; upgrades
are considered from an activated canister. The contents of a snapshot are kept as
far as they are judged: that a session stops is `Stops`. The read-only SNS
preflight (`main.rs` 8900-9221) is not modelled.

## Runs

| Run | Instance | States | Shows |
|---|---|---|---|
| `ledger_settlement` | one refund, one release; window 1, drift 1, slack 0, skew 1; page 1; time 3; 2 attempts | 246,144 | One refund and one release through lost, late and repeated transfers, resends, scans and a new identity: each is paid at most once, the protocol implements OutgoingPayment, and a held liability is paid or gets a new identity when runs keep being tried and the clock passes the window (`IndInv`, `PaidAtMostOnce`, `PaidIsOnLedger`, `NewIdentityOnlyAfterAbsence`, `KeepsPromise`, `HoldResolves`) |
| `deposit_lifecycle` | one deposit; lifetime 2; amounts 5/2/1; time 5 | 15,473 | A deposit between escrow and its end, with reorganisations, old RPC answers, late signatures and the unguarded sweep: it is never both minted and refunded, its books always balance, and an owner who keeps asking gets one of the two (`IndInv`, `NeverMintedAndRefunded`, `MintedIsFinal`, `MintableIsReserved`, `Backed`, `SettledIsStable`, `Settles`) |
| `funding_attempt` | one deposit; window 1, margin 1, skew 1, no delays; time 3; 2 calls | 34,720 | request_deposit, its recovery timer and the funding hold race over one attempt: no executed pull is forgotten or repeated, and unless deposits stay paused it ends as a record or as no attempt (`IndInv`, `NoForgottenPull`, `PulledAtMostOnce`, `EscrowedIsFunded`, `AttemptOrRecord`, `RecoveryIsCurrent`, `FundingSettles`) |
| `settlement_jobs` | one record of each kind; one place per lane; lease 2, manual lease 1, call 1; 2 calls, 2 failures | 340,882 | A deposit, a withdrawal and a payout compete for two lanes through traps, late signatures, refunds, notifications and upgrades: leases outlive the calls they cover, a run that lost its row changes nothing, and no due deposit or payout job is stranded (`BoundedCallKeepsLease`, `LaneCapacityUnlessLate`, `StaleRunInert`, `DueJobsDispatched`) |
| `fee_payout` | amounts 1 and 2, fee 1; 4 earned; 3 principals, one of them the minting account; 2 payouts; 1 page | 1,024,944 | Fee payouts through ambiguous transfers, holds, scans, refusals and a rotation of the recipient: no more is paid than was earned and a recorded outcome is what the ledger did (`PayoutsWithinEarnedFees`, `RecordedOutcomeIsTrue`, `UnpaidFeesBelongToRecipient`) |
| `base_governance` | 4 operations, 2 nonces, 1 rotation, 1 replacement | 1,598,392 | Fee changes, activation, key rotation and emergencies on Base, with lost handlers, relays in any order and receipts of either outcome: nonces stay usable, an emergency holds back what began before it, no timelock operation is forgotten (`NoncesUsable`, `RolesFollowRotation`, `NoForgottenTimelock`, `NoDangerInEmergency`) |
| `admission` | 2 deposits of 2, window limit 2; time 2; 3 blocks; 2 refreshes; 1 administrative change | 1,898,007 | Requests, the shared Base snapshot, reservations, signatures, claims, notified mints and the contract that spends the window: what Base accepts fits its mint window, quotas hold across windows, and the snapshot never goes back although its refresh lock may be taken over (`CapacityHonoured`, `QuotaBoundsFunding`, `SnapshotNeverRegresses`) |
| `notifications` | 3 providers, 1 of them faulty; 3 transactions; height 2; 1 replaced block; 1 in flight | 1,079,603 | Two withdrawals and a mint are notified while blocks are replaced and finalized, two providers lag and a third answers anything: whatever the canister records is on the finalized chain (`RecordedIsFinal`) |
| `cycle_reserve` | 3 transactions, limits 3/1/2; 12 cycles; 1 deposit; time 1 | 1,095,540 | Notifications, deposits, signatures, the fee guard, quotas, cooldowns and top-ups share one cycles balance: it always covers every liability and every notification in flight (`LiabilitiesFunded`) |
| `stable_store` | 1 owner, 2 deposits, 2 withdrawals; 2 records, 1 hold, 2 audits; limits 1; chunk 2 | 493,312 | Deposits, withdrawals, holds, audits, upgrades from two older stores and the rebuild of the history indexes interleave with a validation run in chunks: it never reports a failure and no write is refused (`ValidationNeverFails`) |
| `release` | time 3, 2 operations, 2 upgrades | 2,499,226 | The release tool seals, activates, upgrades and hands over a canister that changes between its reads, with commands that stop anywhere: its receipts are in order and an SNS upgrade it verifies ran; an upgrade it reports is the one it sent, provided the operator waits out a request whose fate is unknown, as the tool and the runbook ask and no code enforces (`SignedUnderAuthorization`, `VerifiedUpgradeRan`, `ReportedUpgradeSettled`) |
| `nonce_reuse` | as base_governance, with a pause and the rotation as operations | violated | A key rotation confirmed while another lane still holds a transaction lets two operations be signed for one account nonce (`OneOperationPerNonce`) |

Why the bounds are enough for the cases that matter. *Ledger settlement, funding:*
the time bounds let an identity die (window + drift + 1) and a second one be
created; with page 1 and two liabilities a scan takes several pages and new blocks
appear behind its tip; two attempts are needed and enough for a double payment;
two pulls are a request and its retry or the resend from a hold. *Lifecycle:* time
5 with TTL 2 lets Base be ahead of and behind the canister around the deadline.
*Jobs:* one place per lane and three records make a full lane, a lost lease and
its reclaim meet; the second failure parks a job. *Payouts:* two payouts compete
for a reserve that covers one or both. *Governance:* four operations are a
schedule, an execution, a cancellation and a fee change or a pause; two nonces let
a lane be used again, one rotation lets a lane be overtaken. *Admission:* two
deposits of amount 2 against a window of 2, so that one must wait for the other's
window, expiry or refund; three blocks are a mint, a later window and a lagging
answer. *Notifications:* three providers are the configuration; two withdrawals
can take each other's id when the one block that may be replaced is; one
notification at a time is in flight, and the theorem is for any limit. *Reserve:* 12 cycles pay
for some and not all of three notifications. *Store:* two records per kind, an
index limit and an audit limit of 1 reach every eviction. *Release:* two upgrades
let an old request run after a new one was sent.

Deadlock is not checked where clocks stop at their bound or a finished payment has
nothing left to do; `settlement_jobs` and `stable_store` check it.

The mutated definitions listed in `PROJECT.json` show that each property is
sensitive to the code: TLC finds every one violated.

### Fairness

Only liveness properties need any. `ledger_settlement`, `deposit_lifecycle` and
`funding_attempt` assume that clocks and Base blocks advance; that a run is claimed
again (the timer, or any caller of `continue_*`; for a refund, an owner who keeps
asking); and that an external read which is tried for ever succeeds some time, when
the run is not lost at that very moment every time (strong fairness). Nothing is
assumed about the delivery or execution of a ledger call. Awaits end, since
inter-canister calls are bounded: weak fairness of the continuation or of
`Abandon`. `FundingSettles` is conditional on deposits being unpaused in the end,
because `funding_recovery_paused` stops the recovery, and on the clock's bound
(`WindowEnds`), as are `HoldResolves` and `Settles`. In `funding_attempt` the
delays are 0 because a due time past the clock's bound would never come.
`settlement_jobs` assumes that time passes although other steps keep happening
(strong fairness of `Tick`), that the armed timer fires and that a bounded call
returns; it assumes nothing about requests, traps or signatures.

### An assumption about the operator

`ReportedUpgradeSettled` and its theorem assume something the code does not enforce.
A direct upgrade whose answer is lost may still run until its request expires. The
tool then tells the operator not to retry for 6 minutes (`main.rs` 8502, 8514, 8531), and so does
`docs/runbooks/operations.md:135` for any ambiguous response; a command that dies after
it sent leaves such a response too, without the message. `StartDirect` does not look
at the wait: an operator may begin at once, and the model records in `installer.early`
that they did. The property has the conjunct `~installer.early` as its antecedent and is
violated without it: the second command may take the first one's upgrade for its own.
After a command that reported success there is nothing to wait for.

## Proofs

Every theorem holds for all values of the constants that satisfy the named
`ASSUME`s of its module, the bounds included. Each follows the same pattern: an
inductive invariant implied by `Init`, kept by every action, and strong enough for
the properties. `PROJECT.json` lists the theorems; the argument behind each is this.

**LedgerSettlement** (`PaidAtMostOnce`, `PaidIsOnLedger`,
`NewIdentityOnlyAfterAbsence`, the refinement `KeepsPromise`). "Paid at most once"
is not inductive: it breaks in a state where an old identity is still deliverable
while a new one is in use. `IndInv` adds that a request on the network is of the
current identity or of one the ledger no longer accepts (`SentIsCurrentOrDead`),
that every block is of the current identity (`ExecutedIsCurrent`), and that a stored
scan has looked at every block before its position (`ScanIsEvidence`). The heart is
the step that declares absence (`ScanAbsent`): the scan's tip was read after the
identity had died by the canister's clock, and `SkewAssumption` makes it dead by the
ledger's. `Implementation` shows that every step is a step of `OutgoingPayment` or a
stutter, with `moved` the number of the liability's blocks. `OneStepPerCall`, that
a `continue_withdrawal` makes at most one external step, is proved and not a run of its own.

**DepositLifecycle** (`NeverMintedAndRefunded`, `MintedIsFinal`,
`MintableIsReserved`, `Backed`, `SettledIsStable`). The invariant says of each
deposit that an observation, once received, stays true while Base moves on
(`ReplyStaysTrue`), that Base mints only what is signed and in time, that the record
has not left the state a waiting handler saw (`AwaitFitsState`), and that an outcome
is recorded only when Base has decided it (`OutcomeIsDecided`). It speaks of one
deposit at a time, so a frame lemma disposes of the others. That a
signature returning late is never installed is part of `SettledIsStable`.

**FundingAttempt** (`NoForgottenPull`, `PulledAtMostOnce`, `EscrowedIsFunded`,
`AttemptOrRecord`, `RecoveryIsCurrent`). `FundingInv` relates, per deposit, the calls
under way and the blocks on the ledger to the attempt or record that pursues them,
the scan of a hold to the history it has read, and the recovery's copy to what it may
still write. The actions change what is stored in four ways (promotion, giving up,
reconciliation, a handler that moves on), and each is shown once. `SkewAssumption`
enters in one lemma, that an identity given up is dead. Two conjuncts were found by
the proof: a call is answered once, and a resend is awaited only before a scan is
opened.

**SettlementJobs** (`BoundedCallKeepsLease`, `LaneCapacityUnlessLate`,
`StaleRunInert`). A run in a bounded call has more lease left than the call has time
(`Covers`): the clock takes from both alike, a renewal precedes the call, and only an
expired row is claimed by anybody else. That needs two more facts: an observation for
a refund or a mint holds the guard that a run of the same deposit needs, and a record
that does not exist yet has neither row nor run. For the lanes, a lease is counted
from a claim that found room, and a renewal keeps its place unless the lease had run
out, which is the exception the property names.

**FeePayout** (`PayoutsWithinEarnedFees`, `RecordedOutcomeIsTrue`,
`UnpaidFeesBelongToRecipient`). `Books` says that the reserve is what was
earned less the debits of the payouts that succeeded, and that the counter of pending
debits is the sum of the unfinished ones and within the reserve; `Evidence` says what
a run, its answer and a recorded outcome establish about the ledger. From both follows
that the ledger finds the money for a payout it has not executed (`FundsSuffice`). The sums are a recursive function; what is needed of
it is proved by descent from a least counterexample, because the library's induction
theorems cannot be instantiated.

**BaseGovernance** (`NoncesUsable`, `RolesFollowRotation`, `NoForgottenTimelock`,
`NoDangerInEmergency`). The three invariants need each other. That an operation is
over rests on what its receipt says of Base, and that rests on which transactions can
still be included: the numbering of operations and nonces, what the canister has on
record, the lanes, what a waiting handler has read, how far a rotation has come, and
what every receipt implies.

**CycleReserve** (`LiabilitiesFunded`; in `ReserveProofs`, with FeePayout). A
notification holds two slots. The requests of one notification may use up the first,
because the second is still there for every notification in flight, the paying one
included.

**Notifications** (`RecordedIsFinal`; in `AwaitProofs`, with SettlementJobs). A quorum of two out of three contains a correct
provider. What that one shows as finalized is finalized, and two chains that agree on
the hash of a block agree on everything before it. The invariant says for each await
what the answers received so far establish.

**Admission** (`CapacityHonoured`, `QuotaBoundsFunding`, `SnapshotNeverRegresses`).
That capacity is honoured says nothing of blocks the canister saw earlier, which are
what it decides from. `Accounted` does: whatever is in Base's window now was in it at
that earlier block or has been minted since, by authorizations that block did not show
as expired. `Released` is the other half: a signed authorization that reserves nothing
any more was minted or expired at the block observed last, or is one of the overlooked
mints. So, when a signature is installed, everything Base has spent since the observed
block and everything it may still spend was counted by the preflight
(`InstallCapacity`). Every other step of the canister only closes or rewrites records
(`CanisterStep`), and a block of Base moves an amount from what may be spent to what
is. The sums are folds over sets of deposits. What is needed of them (a sum over a
set with one more element, over a smaller set, over two that overlap) is proved from
a smallest set for which it fails, and so is that the sweep of the oldest
reservations chooses among the expired. For the quota, `Counters` says that the
counters are the numbers of requests counted in their window and that no request is
counted in a later one, so a rollback finds its own request there or leaves the
counters alone.

**Release** (`VerifiedUpgradeRan`, `ReportedUpgradeSettled`,
`SignedUnderAuthorization`). A command of the tool is the sequence of the steps it has
still to do, so what holds in its middle is said by which steps are left: a check that
is no longer to come has passed, and what it established has survived everything that
ran since. Of the order of the steps three facts are enough, and all three survive the
removal of the first step: which steps are left, which pairs are never in the wrong
order (`NeverAfter`), which step is always followed by another (`Followed`). Every
command is shown once to begin so (`Plan`), in segments put together by one lemma
(`Fits`). `UpgradeInv` then says for an SNS upgrade that Root's last installation is not
older than the proposal once both were read in that order, and for the installer's own
that at most one request, of the candidate over the reviewed module, can still run,
and none after its expiry, which the wait outlives (all of it only as long as
`Patient`, the operator's part, holds; see the assumption above). Here the controllers matter:
they only move from the installer to Root, so a step that reads the canister again
either finds the installer alone or stops. `ActivationInv` says that no attempt of the
pending transaction was signed before the authorization on file: the stamp is taken
before the look at the pending transactions and written after it, and everything signed
later is later than the stamp. For an execution it adds that the receipt of the schedule
was there before the stamp, and that the artifact was compared with it before the
receipt is written; also that a replacement is asked for only when the artifact before
it is bound.

TLC checks the inductive invariants of the first three as part of their runs. Those
of the other seven live in the proof modules; TLC has checked each on the instance of
its component's run, with no violation.

### Only model-checked

- Liveness (`HoldResolves`, `Settles`, `FundingSettles`, `DueJobsDispatched`): the
  proof system does not reason about fairness.
- `ValidationNeverFails` compares incrementally kept counters and indexes with
  counts over the tables, for every statement of the store; a proof would repeat
  each of them with cardinalities.

## Where code and documents disagree

`nonce_reuse` is a finding. When a rotation of the keys is confirmed,
`apply_governance_completion` (`storage/mod.rs:6382`) resets the nonce of every lane,
also of one that still holds a signed transaction. A replacement of that transaction
is signed by the new key under the old nonce, and the lane's next operation reads the
same number from the new account: two operations are signed for one account nonce,
where `docs/runbooks/operations.md:83` lets only unused nonces be reused. Only one of
the two can be included.

Modelling showed the following, which no run states as a property because no document
promises otherwise, or only in passing:

- A prepared or signed transaction that is carried across a rotation is signed again
  with its old nonce. If that is not 0 it cannot be included before the new account
  gets there, and a carried fee change cannot be aborted, so the drain of the emergency
  waits for it.
- If Base is paused after an execution has landed and before it is confirmed, the
  postcondition of the confirmation does not hold while Base stays paused.
- After both pauses of an emergency were confirmed as already in force, an execution
  signed earlier that lands afterwards clears the cancellation flag and the canister
  resumes (`docs/runbooks/operations.md:83`).
- A lease renewed after it ran out may put its lane over capacity (ADR 0019,
  line 11, speaks of separate limits); `LaneCapacityUnlessLate` says by which leases.
- `notify_deposit_mint` releases a reservation at a block it does not store as observed
  progress, so the strict capacity bound of `docs/canister-state-machine.md:60` fails
  for those mints; `CapacityHonoured` is the bound without them (`overlooked`).
- A prepared, unsigned governance transaction makes the whole query of pending
  transactions an error, so `verify_live` refuses and the activation driver can neither
  resume nor write a new authorization (`scripts/production-activate-driver.sh:223-225`
  and `deployments/README.md:59` say it can).
- A seal receipt whose attestation was already too old when it was verified is written
  once and never valid again.
- The installation by an SNS proposal may complete before the proposal's executed
  timestamp; verification then refuses an upgrade that ran.
- A payout whose ledger changed its fee is returned to the reserve without asking
  whether an earlier call executed, as documented
  (`docs/audits/2026-09-08-deposit-timelock.md:24`).

## Not modelled

Cryptography (threshold signatures, EIP-712, RLP), encodings and the SQL layout,
JSON-RPC decoding, consent messages, the user interface and the operator tools other
than the release tool are outside the models; `PROJECT.json` gives the reason for each.
Corrupted stable memory, two dishonest RPC providers of three, or a ledger that breaks
its deduplication are outside the system's assumptions and so outside these.
