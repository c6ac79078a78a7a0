---------------------------- MODULE CycleReserve ----------------------------
(***************************************************************************)
(* What a notification may cost: the canister pays every request to Base   *)
(* and every signature from its cycles balance, of which it keeps a floor  *)
(* and a fixed amount for each liability, each deposit and each            *)
(* notification in flight (reserve.rs, lib.rs, signer.rs), and it limits   *)
(* notifications by slots, windowed quotas and cooldowns (lib.rs,          *)
(* storage/mod.rs).                                                        *)
(*                                                                         *)
(* What the requests of a notification answer is the subject of module     *)
(* Notifications: here a request that was paid for goes on, fails, or ends *)
(* with a record.  A withdrawal that was recorded is a liability until it  *)
(* is paid (module LedgerSettlement).  Only attached cycles are counted,   *)
(* and no refund of them.                                                  *)
(***************************************************************************)
EXTENDS Naturals, FiniteSets, FiniteSetsExt

CONSTANTS
  Txs, Mints,           \* notified transactions; those that are mints
  Callers, ConfirmationRelayer,   \* who notifies; confirmation_relayer_principal
  NoCaller,
  Fee,                  \* the service fee charged in a withdrawal
  LedgerFees,           \* the ledger fees that releases of the code may carry
  InFlightLimit, ProtectedInFlight, CallerInFlight,   \* NotificationQuotaGuard
  VerificationLimit, ProtectedLimit, CallerLimit, IngestionLimit,
  Window, Cooldown,     \* the quota window and the pause after a failure
  Floor, Ceiling,       \* ReservePolicy
  CallCost,             \* cycles attached to a request
  InitialCycles, TopUpThreshold, TopUpAmount,
  MaxDeposits, MaxTime  \* bounds of the model

ASSUME ReserveAssumption ==
  /\ {Floor, Ceiling, CallCost, InitialCycles, TopUpAmount} \subseteq Nat
  /\ InitialCycles >= Floor /\ NoCaller \notin Callers
ASSUME QuotaAssumption ==
  /\ ConfirmationRelayer \in Callers /\ Mints \subseteq Txs /\ IsFiniteSet(Txs)
  /\ Fee \in [Txs -> Nat] /\ LedgerFees \subseteq Nat
  /\ ProtectedInFlight <= InFlightLimit /\ ProtectedLimit <= VerificationLimit
  /\ Window \in Nat \ {0}

VARIABLES
  now,
  flight,       \* who notifies a transaction at the moment
  record,       \* the state of the withdrawal that a transaction created
  feeGuard,     \* withdrawal_fee_guard is set
  ledgerFee,    \* KINIC_LEDGER_FEE of the installed code
  quota,        \* NotificationAdmissionControl
  seen,         \* verifications per caller, in memory
  cooldown,     \* until when a failed notification of a caller is refused
  cycles, deposits   \* the liquid balance; nonterminal and funding deposits

limits == <<quota, seen, cooldown>>
reserveVars == <<now, flight, record, feeGuard, ledgerFee, limits, cycles, deposits>>

EmptyQuota(w) == [window |-> w, public |-> 0, protected |-> 0, ingestion |-> 0]
NothingSeen == [c \in Callers |-> [window |-> 0, count |-> 0]]

ReserveInit ==
  /\ now = 0 /\ flight = [t \in Txs |-> NoCaller]
  /\ record = [t \in Txs |-> "none"] /\ feeGuard = FALSE /\ ledgerFee \in LedgerFees
  /\ quota = EmptyQuota(0) /\ seen = NothingSeen
  /\ cooldown = [c \in Callers |-> [t \in Txs |-> 0]]
  /\ cycles = InitialCycles /\ deposits = 0

----------------------------------------------------------------------------
(* The cycle reserve: reserve.rs, lib.rs                                   *)

InFlight == {t \in Txs : flight[t] # NoCaller}

\* withdrawal_liability_index
Liabilities == {t \in Txs : record[t] \in {"observed", "pending", "held"}}

\* notification_reservation_slots: the verification and the liability it may add.
OneSlot(n) == n
NotificationSlots(n) == 2 * n

\* deposit_reserve_token
Reserved == Cardinality(Liabilities) + NotificationSlots(Cardinality(InFlight))

RequiredCycles(withdrawals, candidates) ==
  Floor + Ceiling * (withdrawals + deposits + candidates)

HasLiabilityBudget(candidates) == cycles > RequiredCycles(Reserved, candidates)
HasNotificationBudget == HasLiabilityBudget(2)

\* external_call_cycle_requirement: a notification may use its own two slots.
ExcludingOwner(total, isOwner) == IF isOwner THEN total - 2 ELSE total
CallRequirement(isOwner) ==
  RequiredCycles(ExcludingOwner(Reserved, isOwner), 0) + CallCost + Ceiling
Affordable(isOwner) == cycles >= CallRequirement(isOwner)

----------------------------------------------------------------------------
(* Quotas: NotificationQuotaGuard, NotificationAdmissionGuard, storage     *)

SlotFree(c) ==
  /\ Cardinality(InFlight) <
       (IF c = ConfirmationRelayer THEN InFlightLimit ELSE InFlightLimit - ProtectedInFlight)
  /\ Cardinality({t \in InFlight : flight[t] = c}) < CallerInFlight

CurrentQuota ==
  IF quota.window = now \div Window THEN quota ELSE EmptyQuota(now \div Window)

CallerCount(c) == IF seen[c].window = now \div Window THEN seen[c].count ELSE 0

LaneFree(protected) ==
  IF protected THEN CurrentQuota.protected < ProtectedLimit
  ELSE CurrentQuota.public < VerificationLimit - ProtectedLimit

ConsumeVerification(protected) ==
  IF protected THEN [CurrentQuota EXCEPT !.protected = @ + 1]
  ELSE [CurrentQuota EXCEPT !.public = @ + 1]

RecordSeen(c) == [seen EXCEPT ![c] = [window |-> now \div Window, count |-> CallerCount(c) + 1]]

IngestionFree == CurrentQuota.ingestion < IngestionLimit
ConsumeIngestion == [CurrentQuota EXCEPT !.ingestion = @ + 1]

\* failed_transactions of the quota row: the entries that have run out go when
\* another one is recorded.  (Its limit of 4096 entries is left out.)
CoolingDown(c, t) == now < cooldown[c][t]
Unexpired(until) == IF now < until THEN until ELSE 0
RecordFailure(c, t) ==
  [[d \in Callers |-> [u \in Txs |-> Unexpired(cooldown[d][u])]]
     EXCEPT ![c][t] = Max({@, now + Cooldown})]
----------------------------------------------------------------------------
(* A notification begins, pays its requests, and ends                      *)

Notify(t, c) ==
  /\ t \notin InFlight /\ record[t] = "none"
  /\ ~CoolingDown(c, t) /\ HasNotificationBudget /\ SlotFree(c)
  /\ LaneFree(c = ConfirmationRelayer) /\ CallerCount(c) < CallerLimit
  /\ quota' = ConsumeVerification(c = ConfirmationRelayer) /\ seen' = RecordSeen(c)
  /\ flight' = [flight EXCEPT ![t] = c]
  /\ UNCHANGED <<now, record, feeGuard, ledgerFee, cooldown, cycles, deposits>>

Ends(t) == flight' = [flight EXCEPT ![t] = NoCaller]
Fails(t) ==
  Ends(t) /\ cooldown' = RecordFailure(flight[t], t) /\ UNCHANGED <<record, feeGuard, quota>>

\* InsufficientCycles: the request is not sent.
Unaffordable(t) ==
  /\ t \in InFlight /\ ~Affordable(TRUE)
  /\ Fails(t)
  /\ UNCHANGED <<now, ledgerFee, seen, cycles, deposits>>

\* A request is paid, and the notification goes on.
Paid(t) == t \in InFlight /\ Affordable(TRUE) /\ cycles' = cycles - CallCost

RequestAnswered(t) ==
  /\ Paid(t)
  /\ UNCHANGED <<now, flight, record, feeGuard, ledgerFee, limits, deposits>>

RequestFails(t) ==
  /\ Paid(t) /\ Fails(t)
  /\ UNCHANGED <<now, ledgerFee, seen, deposits>>

\* The last request of a mint's notification; of a withdrawal's, which is then
\* ingested.  A fee that no longer covers the ledger's sets the fee guard, and
\* the record waits as Observed; the caller sees an error.
MintConfirmed(t) ==
  /\ t \in Mints /\ Paid(t)
  /\ record' = [record EXCEPT ![t] = "minted"] /\ Ends(t)
  /\ UNCHANGED <<now, feeGuard, ledgerFee, limits, deposits>>

Ingest(t) ==
  /\ t \notin Mints /\ Paid(t)
  /\ ~feeGuard /\ IngestionFree
  /\ LET short == ledgerFee > Fee[t] IN
     /\ record' = [record EXCEPT ![t] = IF short THEN "observed" ELSE "pending"]
     /\ feeGuard' = short
     /\ cooldown' = IF short THEN RecordFailure(flight[t], t) ELSE cooldown
  /\ quota' = ConsumeIngestion
  /\ Ends(t)
  /\ UNCHANGED <<now, ledgerFee, seen, deposits>>

----------------------------------------------------------------------------
(* Liabilities                                                             *)

SetState(t, state) == [record EXCEPT ![t] = state]

\* A run of the settlement of an Observed record: the fee guard stays or goes.
ContinueObserved(t) ==
  /\ record[t] = "observed"
  /\ IF ledgerFee > Fee[t]
     THEN feeGuard' = TRUE /\ UNCHANGED record
     ELSE feeGuard' = FALSE /\ record' = SetState(t, "pending")
  /\ UNCHANGED <<now, flight, ledgerFee, limits, cycles, deposits>>

Settle(t, from, to) ==
  /\ record[t] = from
  /\ record' = SetState(t, to)
  /\ UNCHANGED <<now, flight, feeGuard, ledgerFee, limits, cycles, deposits>>

Pay(t) == Settle(t, "pending", "paid")
Hold(t) == Settle(t, "pending", "held")
ResolveHold(t) == Settle(t, "held", "paid") \/ Settle(t, "held", "pending")

----------------------------------------------------------------------------
(* The other users of the reserve                                          *)

\* prepare_deposit_funding_attempt
AdmitDeposit ==
  /\ deposits < MaxDeposits /\ cycles >= RequiredCycles(Reserved, 1)
  /\ deposits' = deposits + 1
  /\ UNCHANGED <<now, flight, record, feeGuard, ledgerFee, limits, cycles>>

FinishDeposit ==
  /\ deposits > 0 /\ deposits' = deposits - 1
  /\ UNCHANGED <<now, flight, record, feeGuard, ledgerFee, limits, cycles>>

\* A signature or another observation, paid by no notification.
OtherCall ==
  /\ Affordable(FALSE) /\ cycles' = cycles - CallCost
  /\ UNCHANGED <<now, flight, record, feeGuard, ledgerFee, limits, deposits>>

\* admit_control_plane_external_call takes part in the protected quota.
ControlPlaneCall ==
  /\ HasLiabilityBudget(1) /\ LaneFree(TRUE)
  /\ quota' = ConsumeVerification(TRUE)
  /\ UNCHANGED <<now, flight, record, feeGuard, ledgerFee, seen, cooldown, cycles, deposits>>

TopUp ==
  /\ cycles < TopUpThreshold
  /\ cycles' = cycles + TopUpAmount
  /\ UNCHANGED <<now, flight, record, feeGuard, ledgerFee, limits, deposits>>

\* Another release of the code; the canister is stopped, memory is lost.
Upgrade(fee) ==
  /\ InFlight = {} /\ fee # ledgerFee
  /\ ledgerFee' = fee /\ seen' = NothingSeen
  /\ UNCHANGED <<now, flight, record, feeGuard, quota, cooldown, cycles, deposits>>

Tick ==
  /\ now < MaxTime /\ now' = now + 1
  /\ UNCHANGED <<flight, record, feeGuard, ledgerFee, limits, cycles, deposits>>

ReserveNext ==
  \/ \E t \in Txs :
       \/ \E c \in Callers : Notify(t, c)
       \/ Unaffordable(t) \/ RequestAnswered(t) \/ RequestFails(t)
       \/ MintConfirmed(t) \/ Ingest(t)
       \/ ContinueObserved(t) \/ Pay(t) \/ Hold(t) \/ ResolveHold(t)
  \/ AdmitDeposit
  \/ FinishDeposit
  \/ OtherCall
  \/ ControlPlaneCall
  \/ TopUp
  \/ \E fee \in LedgerFees : Upgrade(fee)
  \/ Tick

ReserveSpec == ReserveInit /\ [][ReserveNext]_reserveVars

----------------------------------------------------------------------------
(* Properties                                                              *)

\* The balance always covers the floor and one settlement for every liability,
\* every deposit and every notification in flight, however their paid requests
\* interleave: a notification may spend its verification slot and never what
\* another one, or the liability it is about to add, needs
\* (require_external_call_cycle_budget, has_notification_cycle_budget).
LiabilitiesFunded ==
  cycles >= Floor + Ceiling * (Cardinality(Liabilities) + deposits + Cardinality(InFlight))
============================================================================
