----------------------------- MODULE Admission -----------------------------
(***************************************************************************)
(* How a deposit is admitted: the request quota and the funding            *)
(* reservation it takes, the shared snapshot of the bridge on Base, and    *)
(* the mint capacity that its authorization reserves, against the contract *)
(* that will spend that capacity.                                          *)
(*                                                                         *)
(* Base is a chain of blocks, each with the bridge's storage at that       *)
(* block.  An observation by the canister answers with some finalized      *)
(* block, possibly an older one than an earlier observation: providers lag *)
(* by different amounts (module BaseObservation models how three of them   *)
(* are combined).  A run that stops without changing a record, because an  *)
(* RPC or signing call failed, is a stuttering step.  A message or run     *)
(* that waits holds the guard of its deposit (InFlightGuard): but for the  *)
(* sweep and the recovery of its funding, nothing else moves the deposit.  *)
(*                                                                         *)
(* The payments of a deposit are in FundingAttempt and DepositLifecycle;   *)
(* here a pull or a refund is the one step that ends it.                   *)
(***************************************************************************)
EXTENDS Integers, Sequences, FiniteSets, FiniteSetsExt

CONSTANTS
  Deposits, Owners,
  Owner,              \* the principal that requests a deposit
  Gross,              \* the amount of a deposit
  UserMaxFee,         \* the largest service fee the user of a deposit accepts
  Fees,               \* the service fees the bridge may be set to
  MintWindowLimit, MintWindowDuration,
  AuthorizationTtl,   \* validity of a mint authorization
  SnapshotTtl, StaleLock, Cooldown,   \* BASE_SNAPSHOT_*_NS
  QuotaWindow, GlobalLimit, PerPrincipalLimit,   \* the deposit quota
  FundingSlots,       \* funding reservations of all callers
  SweepLimit,         \* reservations released per sweep
  MaxTime, MaxBlocks, MaxAdmin, MaxRefreshes   \* bounds of the model

ASSUME AdmissionAssumption ==
  /\ IsFiniteSet(Deposits) /\ Owner \in [Deposits -> Owners]
  /\ Gross \in [Deposits -> Nat] /\ UserMaxFee \in [Deposits -> Nat]
  /\ Fees \subseteq Nat /\ Fees # {}
  /\ QuotaWindow \in Nat \ {0} /\ SweepLimit \in Nat \ {0}
  /\ {MintWindowLimit, MintWindowDuration, AuthorizationTtl, SnapshotTtl, StaleLock,
      Cooldown, GlobalLimit, PerPrincipalLimit, FundingSlots, MaxTime, MaxBlocks,
      MaxAdmin, MaxRefreshes} \subseteq Nat

VARIABLES
  now,            \* time, of the IC and of the next Base block
  blocks,         \* the chain of Base
  final,          \* its finalized height
  dep,            \* the deposit records
  progress,       \* last_finalized_base_block
  cache,          \* base_snapshot of the admission control
  refresh,        \* the refresh lock of the admission control
  waiting,        \* the refresh, or the evidence, that a message about a deposit awaits
  quota,          \* the request quota of the current window
  reservations,   \* funding reservation of a deposit: its quota window, or None
  admittedIn,     \* history: the window an accepted, not failed, request counted in
  overlooked      \* history: mints recorded ahead of the observed progress

vars == <<now, blocks, final, dep, progress, cache, refresh, waiting, quota,
          reservations, admittedIn, overlooked>>

None == -1
NoWait == [kind |-> "none", owner |-> None]
EvidenceWait == [kind |-> "evidence", owner |-> None]
FreshDeposit == [phase |-> "none", deadline |-> 0, epoch |-> 0, fee |-> 0, signed |-> FALSE]

----------------------------------------------------------------------------
(* Base: Bridge.sol, MintAuthorizationPolicy.sol, MintAccounting.sol       *)

Latest == blocks[Len(blocks)]

WindowExpired(time, b) == time >= b.start + MintWindowDuration

Consumed(time, b) == IF WindowExpired(time, b) THEN 0 ELSE b.minted

\* evaluateMint: whether a mint is accepted, and the storage after it.
MintAccepted(time, b, d, auth) ==
  /\ ~b.paused
  /\ time <= auth.deadline
  /\ auth.deadline <= time + AuthorizationTtl
  /\ auth.epoch = b.epoch
  /\ d \notin b.processed
  /\ Consumed(time, b) + Gross[d] - auth.fee <= MintWindowLimit

AfterMint(time, b, d, auth) ==
  [b EXCEPT !.processed = @ \cup {d},
            !.start = IF WindowExpired(time, b) THEN time ELSE @,
            !.minted = Consumed(time, b) + Gross[d] - auth.fee]

----------------------------------------------------------------------------
(* The snapshot: BaseMintSnapshot of bridge-core                           *)

EffectiveMinted(s) ==
  IF s.time >= s.start + MintWindowDuration THEN 0 ELSE s.minted

Net(d, fee) == Gross[d] - fee

FeeRejected(s, d) == s.fee > UserMaxFee[d] \/ s.fee >= Gross[d]

WindowFull(s, d) == EffectiveMinted(s) + Net(d, s.fee) > MintWindowLimit

\* deposit_admission_decision: consumed, reserved and candidate fit the window.
AdmissionDecision(s, d, reserved) ==
  EffectiveMinted(s) + reserved + Net(d, s.fee) <= MintWindowLimit

----------------------------------------------------------------------------
(* Records                                                                 *)

Unsigned == {"pending", "dispatched"}
ReservesMint(d) == dep[d].phase \in Unsigned \cup {"available"}
ReservedMint == [d \in Deposits |-> IF ReservesMint(d) THEN Net(d, dep[d].fee) ELSE 0]
ReservedTotal == SumFunctionOnSet(ReservedMint, Deposits)

Funding == {d \in Deposits : reservations[d] # None}
FundingExcluding(d) == SumFunctionOnSet(Gross, Funding \ {d})

\* deposit_reservation_preflight
ReservationPreflight(d, s) ==
  AdmissionDecision(s, d, ReservedTotal - ReservedMint[d] + FundingExcluding(d))

\* An owner has one sequence of deposits; a request is for the next of them.
NextInSequence(d) ==
  \A e \in Deposits : (Owner[e] = Owner[d] /\ e < d) => dep[e].phase \notin {"none", "funding"}

----------------------------------------------------------------------------
(* The request quota and the funding reservations: storage/admission.rs    *)

\* A new window starts from zero.
CurrentQuota(q) ==
  LET window == now \div QuotaWindow
  IN  IF q.window = window THEN q
      ELSE [window |-> window, global |-> 0, callers |-> [o \in Owners |-> 0]]

QuotaAvailable(q, o) == q.global < GlobalLimit /\ q.callers[o] < PerPrincipalLimit

Consume(q, o) == [q EXCEPT !.global = @ + 1, !.callers[o] = @ + 1]

SlotAvailable(o) ==
  /\ Cardinality(Funding) < FundingSlots
  /\ \A e \in Funding : Owner[e] # o

\* A failed request returns its quota only to the window it was taken from.
RollBackAlways(q, d) == [q EXCEPT !.global = @ - 1, !.callers[Owner[d]] = @ - 1]
RollBack(q, d) ==
  IF reservations[d] # q.window THEN q
  ELSE [q EXCEPT !.global = @ - 1, !.callers[Owner[d]] = @ - 1]

Release(d) == [reservations EXCEPT ![d] = None]
----------------------------------------------------------------------------
(* Observations and the shared snapshot: storage/mod.rs, external.rs       *)

Snapshot(f) == blocks[f]

\* observe_finalized: an older block than the last one is refused.
ObservesAny(f) == TRUE
Observes(f) == f >= progress

CacheOf(f, d) == [block |-> f, for |-> d, at |-> now]

Fresh(c) == now - c.at <= SnapshotTtl

\* cached_base_mint_snapshot
CachedSnapshotUsable == cache.block # None /\ Fresh(cache) /\ cache.block >= progress

\* cached_authorization_observation, fresh
CachedFor(d) == cache.for = d /\ cache.block = progress /\ Fresh(cache)

\* begin_base_snapshot_refresh
RefreshAllowed ==
  /\ refresh.started = None \/ now - refresh.started >= StaleLock
  /\ now >= refresh.nextAt
  /\ refresh.gen < MaxRefreshes

Begin(cooldown) ==
  [gen |-> refresh.gen + 1, owner |-> refresh.gen + 1, started |-> now,
   nextAt |-> now + cooldown]

RefreshOwned(owner) == refresh.owner = owner
Unlocked == [refresh EXCEPT !.owner = None, !.started = None]

\* release_expired_deposit_reservations: by deadline, a bounded number at a time.
ExpiredFromDeadline(time) == {d \in Deposits : ReservesMint(d) /\ dep[d].deadline <= time}
ExpiredAt(time) == {d \in Deposits : ReservesMint(d) /\ dep[d].deadline < time}

Sweep(time) ==
  LET expired == ExpiredAt(time)
  IN  CHOOSE S \in SUBSET expired :
        /\ Cardinality(S) = Min({SweepLimit, Cardinality(expired)})
        /\ \A x \in S, y \in expired \ S : dep[x].deadline <= dep[y].deadline

Backlog(time) == Sweep(time) # ExpiredAt(time)

Refundable(S) == [d \in Deposits |->
  IF d \in S THEN [dep[d] EXCEPT !.phase = "refund"] ELSE dep[d]]
----------------------------------------------------------------------------
(* request_deposit                                                         *)

Admit(d) ==
  LET q == CurrentQuota(quota) IN
  /\ dep[d].phase = "none" /\ NextInSequence(d)
  /\ SlotAvailable(Owner[d]) /\ QuotaAvailable(q, Owner[d])
  /\ quota' = Consume(q, Owner[d])
  /\ reservations' = [reservations EXCEPT ![d] = q.window]
  /\ admittedIn' = [admittedIn EXCEPT ![d] = q.window]
  /\ dep' = [dep EXCEPT ![d].phase = "funding"]
  /\ UNCHANGED <<now, blocks, final, progress, cache, refresh, waiting, overlooked>>

\* promote_funding_success: the record replaces the attempt and its reservation.
Promoted(records, d) ==
  IF records[d].phase = "funding" THEN [records EXCEPT ![d].phase = "escrowed"] ELSE records

\* The pull succeeded; the paid preflight starts unless another refresh runs.
PullSucceeds(d) ==
  /\ dep[d].phase = "funding" /\ waiting[d] = NoWait
  /\ IF RefreshAllowed
     THEN /\ refresh' = Begin(0)
          /\ waiting' = [waiting EXCEPT ![d] = [kind |-> "preflight", owner |-> refresh.gen + 1]]
          /\ UNCHANGED <<dep, reservations>>
     ELSE /\ dep' = Promoted(dep, d) /\ reservations' = Release(d)
          /\ UNCHANGED <<refresh, waiting>>
  /\ UNCHANGED <<now, blocks, final, progress, cache, quota, admittedIn, overlooked>>

\* Definitive failure: the attempt and its reservation go, the quota is returned.
PullFails(d) ==
  /\ dep[d].phase = "funding" /\ waiting[d] = NoWait
  /\ dep' = [dep EXCEPT ![d].phase = "none"]
  /\ quota' = RollBack(quota, d)
  /\ reservations' = Release(d)
  /\ admittedIn' = [admittedIn EXCEPT ![d] = None]
  /\ UNCHANGED <<now, blocks, final, progress, cache, refresh, waiting, overlooked>>

\* An ambiguous pull becomes a record on hold, for good if the pull is found absent.
PullAmbiguous(d) ==
  /\ dep[d].phase = "funding" /\ waiting[d] = NoWait
  /\ dep' = [dep EXCEPT ![d].phase = "held"]
  /\ reservations' = Release(d)
  /\ UNCHANGED <<now, blocks, final, progress, cache, refresh, waiting, quota, admittedIn,
                 overlooked>>

HoldResolves(d) ==
  /\ dep[d].phase = "held"
  /\ dep' = [dep EXCEPT ![d].phase = "escrowed"]
  /\ UNCHANGED <<now, blocks, final, progress, cache, refresh, waiting, quota,
                 reservations, admittedIn, overlooked>>

\* Reconciliation promotes an attempt whose message has not come back.
RecoverFunding(d) ==
  /\ dep[d].phase = "funding" /\ waiting[d] # NoWait
  /\ dep' = Promoted(dep, d) /\ reservations' = Release(d)
  /\ UNCHANGED <<now, blocks, final, progress, cache, refresh, waiting, quota, admittedIn,
                 overlooked>>

\* A refresh ends: the snapshot and the progress are stored together, only by
\* the refresh that still owns the lock, and only for a block that is not older.
FinishRefresh(d, f, for) ==
  IF ~RefreshOwned(waiting[d].owner) THEN UNCHANGED <<refresh, cache, progress>>
  ELSE IF Observes(f)
       THEN /\ cache' = CacheOf(f, for) /\ progress' = f /\ refresh' = Unlocked
       ELSE refresh' = Unlocked /\ UNCHANGED <<cache, progress>>

Finished(d, f) == RefreshOwned(waiting[d].owner) /\ Observes(f)

PreflightAnswers(d, f) ==
  /\ waiting[d].kind = "preflight" /\ f \in 1..final
  /\ FinishRefresh(d, f, d)
  /\ dep' = Promoted(IF Finished(d, f) THEN Refundable(Sweep(Snapshot(f).time)) ELSE dep, d)
  /\ reservations' = Release(d)
  /\ waiting' = [waiting EXCEPT ![d] = NoWait]
  /\ UNCHANGED <<now, blocks, final, quota, admittedIn, overlooked>>

PreflightFails(d) ==
  /\ waiting[d].kind = "preflight"
  /\ refresh' = IF RefreshOwned(waiting[d].owner) THEN Unlocked ELSE refresh
  /\ dep' = Promoted(dep, d) /\ reservations' = Release(d)
  /\ waiting' = [waiting EXCEPT ![d] = NoWait]
  /\ UNCHANGED <<now, blocks, final, progress, cache, quota, admittedIn, overlooked>>
----------------------------------------------------------------------------
(* advance_deposit: quote, reserve, sign                                   *)

\* commit_deposit_authorization: the reservations of this very moment count.
Commit(d, s) ==
  IF ~ReservationPreflight(d, s) THEN dep
  ELSE [dep EXCEPT ![d] =
         [phase |-> "pending", deadline |-> now + AuthorizationTtl, epoch |-> s.epoch,
          fee |-> s.fee, signed |-> FALSE]]

\* prepare_escrowed_deposit, and what advance_deposit does with its answer.
Prepare(d, f) ==
  LET s == Snapshot(f) IN
  /\ dep[d].phase = "escrowed" /\ waiting[d] = NoWait
  /\ \/ CachedFor(d) /\ f = cache.block
     \/ ~CachedFor(d) /\ f \in 1..final /\ Observes(f)
  /\ progress' = f
  /\ dep' = IF s.paused \/ FeeRejected(s, d) \/ WindowFull(s, d)
            THEN [dep EXCEPT ![d].phase = "refund"]
            ELSE Commit(d, s)
  /\ UNCHANGED <<now, blocks, final, cache, refresh, waiting, quota, reservations,
                 admittedIn, overlooked>>

\* authorization_still_matches_base: on a new observation, the snapshot still
\* carries the authorization and the window still has room for it.
StillMatchesBase(d, s) ==
  /\ ~s.paused /\ s.epoch = dep[d].epoch /\ s.fee = dep[d].fee
  /\ ~FeeRejected(s, d) /\ ~WindowFull(s, d)
  /\ ReservationPreflight(d, s)

Dispatch(d, f) ==
  /\ dep[d].phase = "pending" /\ waiting[d] = NoWait /\ now < dep[d].deadline
  /\ f \in 1..final /\ Observes(f)
  /\ progress' = f
  /\ dep' = IF StillMatchesBase(d, Snapshot(f))
            THEN [dep EXCEPT ![d].phase = "dispatched"] ELSE dep
  /\ UNCHANGED <<now, blocks, final, cache, refresh, waiting, quota, reservations,
                 admittedIn, overlooked>>

Install(d, f) ==
  /\ dep[d].phase = "dispatched" /\ waiting[d] = NoWait /\ now < dep[d].deadline
  /\ f \in 1..final /\ Observes(f)
  /\ progress' = f
  /\ dep' = IF StillMatchesBase(d, Snapshot(f))
            THEN [dep EXCEPT ![d].phase = "available", ![d].signed = TRUE] ELSE dep
  /\ UNCHANGED <<now, blocks, final, cache, refresh, waiting, quota, reservations,
                 admittedIn, overlooked>>
----------------------------------------------------------------------------
(* request_deposit_refund and notify_deposit_mint                          *)

\* The snapshot is used: expired reservations go, and the claimed one if it is
\* expired too and no backlog was left.
Claimed(d, time) ==
  LET swept == Refundable(Sweep(time))
  IN  IF ~Backlog(time) /\ swept[d].phase \in Unsigned /\ time > swept[d].deadline
      THEN [swept EXCEPT ![d].phase = "refund"] ELSE swept

\* A claim on an authorization not yet signed goes through the shared snapshot.
ClaimUnsigned(d) ==
  /\ dep[d].phase \in Unsigned /\ waiting[d] = NoWait
  /\ \/ /\ CachedSnapshotUsable
        /\ dep' = Claimed(d, Snapshot(cache.block).time)
        /\ UNCHANGED <<refresh, waiting>>
     \/ /\ ~CachedSnapshotUsable /\ RefreshAllowed
        /\ refresh' = Begin(Cooldown)
        /\ waiting' = [waiting EXCEPT ![d] = [kind |-> "claim", owner |-> refresh.gen + 1]]
        /\ UNCHANGED dep
  /\ UNCHANGED <<now, blocks, final, progress, cache, quota, reservations, admittedIn,
                 overlooked>>

ClaimAnswers(d, f) ==
  /\ waiting[d].kind = "claim" /\ f \in 1..final
  /\ FinishRefresh(d, f, None)
  /\ dep' = IF Finished(d, f) THEN Claimed(d, Snapshot(f).time) ELSE dep
  /\ waiting' = [waiting EXCEPT ![d] = NoWait]
  /\ UNCHANGED <<now, blocks, final, quota, reservations, admittedIn, overlooked>>

ClaimFails(d) ==
  /\ waiting[d].kind = "claim"
  /\ refresh' = IF RefreshOwned(waiting[d].owner) THEN Unlocked ELSE refresh
  /\ waiting' = [waiting EXCEPT ![d] = NoWait]
  /\ UNCHANGED <<now, blocks, final, dep, progress, cache, quota, reservations,
                 admittedIn, overlooked>>

\* A claim on a signed one reads expiry and mint at one finalized block.  Expired, it
\* is refundable; unless it was minted the refund starts, or is refused for now.  Of
\* a mint the evidence is asked for next.
ClaimSigned(d, f) ==
  LET s == Snapshot(f)
      minted == s.time > dep[d].deadline /\ d \in s.processed
  IN
  /\ dep[d].phase \in {"available", "refund"} /\ dep[d].signed /\ waiting[d] = NoWait
  /\ ~(CachedFor(d) /\ Snapshot(cache.block).time <= dep[d].deadline)
  /\ f \in 1..final /\ Observes(f)
  /\ cache' = CacheOf(f, d) /\ progress' = f
  /\ \/ s.time <= dep[d].deadline /\ UNCHANGED dep
     \/ s.time > dep[d].deadline /\ dep' = [dep EXCEPT ![d].phase = "refund"]
     \/ s.time > dep[d].deadline /\ ~minted /\ dep' = [dep EXCEPT ![d].phase = "refunded"]
  /\ waiting' = IF minted THEN [waiting EXCEPT ![d] = EvidenceWait] ELSE waiting
  /\ UNCHANGED <<now, blocks, final, refresh, quota, reservations, admittedIn, overlooked>>

\* exact_mint_evidence answers, or fails and leaves the deposit as it is.
MintEvidence(d) ==
  /\ waiting[d].kind = "evidence"
  /\ waiting' = [waiting EXCEPT ![d] = NoWait]
  /\ \/ UNCHANGED dep
     \/ /\ dep[d].phase \in {"available", "refund"} /\ dep[d].signed
        /\ dep' = [dep EXCEPT ![d].phase = "minted"]
  /\ UNCHANGED <<now, blocks, final, progress, cache, refresh, quota, reservations,
                 admittedIn, overlooked>>

RefundUnsigned(d) ==
  /\ dep[d].phase = "refund" /\ ~dep[d].signed /\ waiting[d] = NoWait
  /\ dep' = [dep EXCEPT ![d] = [FreshDeposit EXCEPT !.phase = "refunded"]]
  /\ UNCHANGED <<now, blocks, final, progress, cache, refresh, waiting, quota,
                 reservations, admittedIn, overlooked>>

\* A notified mint is recorded at the block the call observed, which is not
\* stored as progress.
NotifyDepositMint(d, f) ==
  /\ dep[d].phase \in {"available", "refund"} /\ dep[d].signed /\ waiting[d] = NoWait
  /\ f \in 1..final /\ d \in Snapshot(f).processed
  /\ overlooked' = IF ReservesMint(d) /\ f > progress THEN overlooked \cup {d} ELSE overlooked
  /\ dep' = [dep EXCEPT ![d].phase = "minted"]
  /\ UNCHANGED <<now, blocks, final, progress, cache, refresh, waiting, quota,
                 reservations, admittedIn>>
----------------------------------------------------------------------------
(* Blocks of Base and time                                                 *)

Append1(b) == blocks' = Append(blocks, [b EXCEPT !.time = now])

MintDepositWithAuthorization(d) ==
  /\ Len(blocks) < MaxBlocks
  /\ dep[d].signed /\ MintAccepted(now, Latest, d, dep[d])
  /\ Append1(AfterMint(now, Latest, d, dep[d]))
  /\ UNCHANGED <<now, final, dep, progress, cache, refresh, waiting, quota, reservations,
                 admittedIn, overlooked>>

\* A pause or unpause, which changes the epoch, or another service fee.
Administer ==
  /\ Len(blocks) < MaxBlocks /\ Latest.changes < MaxAdmin
  /\ \/ Append1([Latest EXCEPT !.paused = ~@, !.epoch = @ + 1, !.changes = @ + 1])
     \/ \E fee \in Fees \ {Latest.fee} : Append1([Latest EXCEPT !.fee = fee, !.changes = @ + 1])
  /\ UNCHANGED <<now, final, dep, progress, cache, refresh, waiting, quota, reservations,
                 admittedIn, overlooked>>

\* A block without a call to the bridge.
OtherBlock ==
  /\ Len(blocks) < MaxBlocks /\ Latest.time < now
  /\ Append1(Latest)
  /\ UNCHANGED <<now, final, dep, progress, cache, refresh, waiting, quota, reservations,
                 admittedIn, overlooked>>

Finalize ==
  /\ final < Len(blocks) /\ final' = final + 1
  /\ UNCHANGED <<now, blocks, dep, progress, cache, refresh, waiting, quota, reservations,
                 admittedIn, overlooked>>

Tick ==
  /\ now < MaxTime /\ now' = now + 1
  /\ UNCHANGED <<blocks, final, dep, progress, cache, refresh, waiting, quota,
                 reservations, admittedIn, overlooked>>

----------------------------------------------------------------------------
Init ==
  /\ now = 0
  /\ blocks = <<[time |-> 0, start |-> 0, minted |-> 0, epoch |-> 1, paused |-> FALSE,
                 fee |-> Min(Fees), processed |-> {}, changes |-> 0]>>
  /\ final = 1 /\ progress = 0
  /\ dep = [d \in Deposits |-> FreshDeposit]
  /\ cache = [block |-> None, for |-> None, at |-> 0]
  /\ refresh = [gen |-> 0, owner |-> None, started |-> None, nextAt |-> 0]
  /\ waiting = [d \in Deposits |-> NoWait]
  /\ quota = [window |-> 0, global |-> 0, callers |-> [o \in Owners |-> 0]]
  /\ reservations = [d \in Deposits |-> None]
  /\ admittedIn = [d \in Deposits |-> None]
  /\ overlooked = {}

Observing(d, f) ==
  \/ PreflightAnswers(d, f) \/ ClaimAnswers(d, f)
  \/ Prepare(d, f) \/ Dispatch(d, f) \/ Install(d, f)
  \/ ClaimSigned(d, f) \/ NotifyDepositMint(d, f)

Local(d) ==
  \/ Admit(d) \/ PullSucceeds(d) \/ PullFails(d) \/ PullAmbiguous(d)
  \/ HoldResolves(d) \/ RecoverFunding(d) \/ PreflightFails(d)
  \/ ClaimUnsigned(d) \/ ClaimFails(d) \/ MintEvidence(d) \/ RefundUnsigned(d)

Next ==
  \/ \E d \in Deposits : Local(d) \/ MintDepositWithAuthorization(d)
  \/ \E d \in Deposits, f \in 1..MaxBlocks : Observing(d, f)
  \/ Administer \/ OtherBlock \/ Finalize \/ Tick

Spec == Init /\ [][Next]_vars

----------------------------------------------------------------------------
(* Properties                                                              *)

\* An authorization that Base would accept now, window limit aside.
Mintable(d) ==
  /\ dep[d].signed /\ dep[d].epoch = Latest.epoch /\ ~Latest.paused
  /\ d \notin Latest.processed /\ now <= dep[d].deadline

NetOf == [d \in Deposits |-> Net(d, dep[d].fee)]

\* A published authorization is never refused for lack of capacity: what Base
\* has consumed in its window and every authorization it would still accept fit
\* the limit together, whichever of them are submitted and in whatever order.
\* deposit_reservation_preflight counts the other reservations at quote and
\* before each use of the signature, and a reservation is released only on
\* evidence that no older observation contradicts.  The one exception is the
\* amount of mints that notify_deposit_mint recorded from a block it did not
\* store: an older block still passes observe_finalized afterwards.
CapacityHonoured ==
  Consumed(now, Latest) + SumFunctionOnSet(NetOf, {d \in Deposits : Mintable(d)})
    <= MintWindowLimit + SumFunctionOnSet(NetOf, overlooked)

\* Requests accepted in one quota window, and not definitively failed since, stay
\* within both limits, and the counter of the current window is exactly their
\* number: rollback_failed_deposit_admission neither returns a request twice nor
\* to a window that did not count it.
QuotaBoundsFunding ==
  \A w \in 0..MaxTime :
    LET counted == {d \in Deposits : admittedIn[d] = w} IN
    /\ Cardinality(counted) <= GlobalLimit
    /\ \A o \in Owners : Cardinality({d \in counted : Owner[d] = o}) <= PerPrincipalLimit
    /\ w = quota.window => quota.global = Cardinality(counted)

\* The shared snapshot and the observed progress never go back, and the snapshot
\* is never ahead of the progress, although a refresh whose lock was taken over
\* may still answer, and callers without the lock store snapshots too
\* (finish_base_snapshot_refresh..., cache_deposit_authorization_observation).
SnapshotNeverRegresses ==
  [][cache'.block >= cache.block /\ progress' >= progress /\ cache'.block <= progress']_vars
============================================================================
