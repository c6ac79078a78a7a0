--------------------------- MODULE SettlementJobs ---------------------------
(***************************************************************************)
(* The stable settlement executor: the settlement_jobs table of storage,   *)
(* the one-shot timer of scheduler.rs that dispatches due jobs, the manual *)
(* continuations of lib.rs, and the runs they start.                       *)
(*                                                                         *)
(* One run is one execution of run_claimed: a chain of external calls,     *)
(* each preceded by a renewal of the lease, ended by finish.  A run holds  *)
(* the in-flight guard of its record, so there is at most one per record;  *)
(* a mint notification and a refund request that is still observing Base   *)
(* hold the same guard of a deposit across their own calls.                *)
(*                                                                         *)
(* Time is relative: every deadline is a countdown that Tick decrements.   *)
(* A lease generation is compared for equality only, with the generation   *)
(* of the run that is in flight, so it is modelled by run.current: does    *)
(* the row still carry the generation this run was given?                  *)
(***************************************************************************)
EXTENDS Integers, FiniteSets, FiniteSetsExt

CONSTANTS Deposits, Withdrawals, Payouts,  \* the records of each kind
          Signing,            \* deposits whose run asks for a threshold signature
          Capacity,           \* leases a lane may hold: [Lanes -> Nat]
          LeaseTicks,         \* LEASE_NS
          ManualLeaseTicks,   \* the 120 s lease of a manual claim
          CallTicks,          \* longest bounded call sequence under one renewal
          MaxCalls,           \* calls one deposit run makes at most: its states move forward
          OverdueTicks,       \* the 300 s after which a scheduled job is overdue
          BusyTicks,          \* BUSY_RETRY_NS
          RetryTicks,         \* settlement_retry_interval_seconds
          MaxRetryTicks,      \* MAX_TRANSIENT_RETRY_NS
          MaxFailures         \* MAX_CONSECUTIVE_AUTOMATIC_FAILURES

Records == Deposits \cup Withdrawals \cup Payouts
Lanes == {"automatic", "manual"}

\* scheduler.rs asserts at compile time that a lease outlives three RPC rounds.
ASSUME LeaseAssumption == CallTicks \in Nat /\ LeaseTicks \in Nat /\ CallTicks < LeaseTicks
ASSUME CapacityAssumption == Capacity \in [Lanes -> Nat \ {0}]
ASSUME TicksAssumption == ManualLeaseTicks \in Nat /\ OverdueTicks \in Nat
ASSUME RecordsAssumption == IsFiniteSet(Records)

VARIABLES
  job,      \* settlement_jobs: NoJob or [st, t, attempts, lane] of each record; late is
            \* auxiliary: this lease was renewed after it had run out
  run,      \* NoRun or the run in flight: [left, calls, current, by]; its copy of the row agrees
            \* with the row while it is current
  held,     \* who else holds a deposit's in-flight guard
  phase,    \* coarse state of the record (DepositLifecycle, LedgerSettlement refine it)
  stop,     \* a deposit's last_settlement_stop_reason is one continue_deposit may retry
  timer     \* SETTLEMENT_TIMER: ticks to go, or NoTimer

vars == <<job, run, held, phase, stop, timer>>

NoJob == [st |-> "none"]
NoRun == [by |-> "none"]
NoTimer == -1
Unbounded == -1      \* left: the call has no timeout

Floor == -OverdueTicks   \* a deadline further in the past is still overdue

TypeOK ==
  /\ \A r \in Records :
       /\ \/ job[r] = NoJob
          \/ job[r] \in [st : {"scheduled", "leased", "stopped"}, t : Floor..(LeaseTicks + MaxRetryTicks),
                         attempts : 0..MaxFailures, lane : Lanes, late : BOOLEAN]
       /\ \/ run[r] = NoRun
          \/ run[r] \in [left : {Unbounded} \cup 0..CallTicks, calls : 0..MaxCalls, current : BOOLEAN,
                         by : {"timer", "deposit", "refund", "withdrawal", "fee"}]
  /\ held \in [Deposits -> {"free", "refund", "notify"}]
  /\ phase \in [Records -> {"none", "pending", "available", "closed"}]
  /\ stop \in [Records -> BOOLEAN]
  /\ timer \in {NoTimer} \cup 0..(LeaseTicks + MaxRetryTicks)

Init ==
  /\ job = [r \in Records |-> NoJob]
  /\ run = [r \in Records |-> NoRun]
  /\ held = [r \in Deposits |-> "free"]
  /\ phase = [r \in Records |-> "none"]
  /\ stop = [r \in Records |-> FALSE]
  /\ timer = NoTimer

-----------------------------------------------------------------------------
(* The job row. *)

\* SettlementJob as enqueue_settlement_job writes it.
Enqueued == [st |-> "scheduled", t |-> 0, attempts |-> 0, lane |-> "automatic", late |-> FALSE]

Leased(j, lane, ticks) ==
  [st |-> "leased", t |-> ticks, attempts |-> IF j = NoJob THEN 0 ELSE j.attempts, lane |-> lane,
   late |-> FALSE]

Rescheduled(ticks, attempts) ==
  [st |-> "scheduled", t |-> ticks, attempts |-> attempts, lane |-> "automatic", late |-> FALSE]

\* The lane of a row that is not leased is never read.
Parked(attempts) ==
  [st |-> "stopped", t |-> 0, attempts |-> attempts, lane |-> "automatic", late |-> FALSE]

Live(j) == j.st \in {"scheduled", "leased"}
IsActive(j) == j.st = "leased" /\ j.t > 0
IsExpired(j) == j.st = "leased" /\ j.t <= 0
IsOverdue(j) == j.st = "scheduled" /\ j.t <= Floor
IsDue(j) == Live(j) /\ j.t <= 0

ActiveIn(lane) == {r \in Records : IsActive(job[r]) /\ job[r].lane = lane}

\* next_settlement_wakeup_ns over the rows j, as arm() turns it into a delay.
Wakeup(j) ==
  LET live == {r \in Records : Live(j[r])}
  IN IF live = {} THEN NoTimer ELSE Max({0, Min({j[r].t : r \in live})})

\* InFlightGuard::acquire succeeds.
GuardFree(r) == run[r] = NoRun /\ (r \in Deposits => held[r] = "free")

-----------------------------------------------------------------------------
(* Claims. *)

\* manual_claim_allowed of the kernel.
ManualClaimDecision(scheduled, active, stopped, overdue, expired) ==
  (~active \/ expired) /\ (~scheduled \/ stopped \/ overdue \/ expired)

\* The target row's part of claim_settlement_job_transaction: the schedule is
\* authoritative for deposits and payouts, never for withdrawals.
ManualClaimAllowed(r) ==
  LET j == job[r]
  IN ManualClaimDecision(j.st = "scheduled" /\ r \notin Withdrawals, IsActive(j), j.st = "stopped",
                         IsOverdue(j), IsExpired(j))

\* Mutant: the lane's free slots are not counted
LaneHasRoomAny(lane) == TRUE

\* lease_lane_claim_decision on the number of unexpired leases in the lane.
LaneHasRoom(lane) == Cardinality(ActiveIn(lane)) < Capacity[lane]

\* claim_settlement_job_transaction up to the quota of its window, which may
\* refuse any call: a refused claim leaves everything as it is.
Claimable(r) == ManualClaimAllowed(r) /\ LaneHasRoom("manual")

-----------------------------------------------------------------------------
(* One stretch of a run: from its start or a callback to the next call or  *)
(* to its end.  A stretch is a record: the row, the run and the record     *)
(* state it leaves, and whether the caller reports an error.               *)

Stretch(j, ru, ph, st, err) == [job |-> j, run |-> ru, phase |-> ph, stop |-> st, err |-> err]

\* Mutant: the renewal grants no more than the manual lease
RenewBriefly(j) == [j EXCEPT !.t = ManualLeaseTicks, !.late = @ \/ IsExpired(j)]

\* renew_settlement_lease: also of a lease that ran out and was not reclaimed.
RenewLease(j) == [j EXCEPT !.t = LeaseTicks, !.late = @ \/ IsExpired(j)]

\* renew_before_external_call, then the call: an RPC or ledger call is a
\* bounded wait, a threshold signature has no timeout.
NextCall(r, j, ru) ==
  IF ru.calls = 0 \/ phase[r] = "available" THEN {}
  ELSE {Stretch(RenewLease(j), [ru EXCEPT !.left = left, !.calls = @ - 1], phase[r], stop[r], FALSE) :
          left \in {CallTicks} \cup (IF r \in Signing THEN {Unbounded} ELSE {})}

\* transient_retry_delay_ns
RetryDelay(attempts) == Min({RetryTicks * 2 ^ Min({attempts, 4}), MaxRetryTicks})

\* settlement_failure_count of a retryable failure; the saturating count only
\* matters up to the limit.
FailureCount(j) == IF j.lane = "automatic" THEN Min({j.attempts + 1, MaxFailures}) ELSE j.attempts

\* automatic_retry_allowed
RetryAllowed(j) == j.lane = "automatic" /\ FailureCount(j) < MaxFailures

RetryOrPark(j) ==
  IF RetryAllowed(j) THEN Rescheduled(RetryDelay(j.attempts), FailureCount(j))
  ELSE Parked(FailureCount(j))

\* Complete: the row is deleted and the record has moved on.
Completed(r) ==
  {Stretch(NoJob, NoRun, ph, FALSE, FALSE) :
     ph \in IF r \notin Deposits THEN {"closed"}
            ELSE IF phase[r] = "available" THEN {"available"} ELSE {"available", "closed"}}

\* finish_manual_withdrawal: a withdrawal that did not complete is parked.
FinishWithdrawal(j) ==
  {Stretch(Parked(j.attempts), NoRun, "pending", FALSE, err) : err \in BOOLEAN}

\* The outcomes of run_claimed_inner for a deposit and of
\* run_claimed_fee_payout that leave work to do: progress or a deferral starts
\* a new retry episode, a transient stop or a lack of cycles is retried or
\* parked, any other stop or error parks.
FinishAutomatic(r, j) ==
  IF phase[r] = "available" THEN {}
  ELSE {Stretch(Rescheduled(RetryDelay(0), 0), NoRun, "pending", FALSE, FALSE)}
       \cup {Stretch(RetryOrPark(j), NoRun, "pending", r \in Deposits, err) : err \in BOOLEAN}
       \cup {Stretch(Parked(j.attempts), NoRun, "pending", FALSE, err) : err \in BOOLEAN}

EndOfRun(r, j) ==
  Completed(r) \cup IF r \in Withdrawals THEN FinishWithdrawal(j) ELSE FinishAutomatic(r, j)

\* The advance_* functions between two awaits, when the lease is current.
Advance(r, j, ru) == NextCall(r, j, ru) \cup EndOfRun(r, j)

\* A withdrawal or payout run makes one call: a transfer or one history page.
NewRun(r, by) ==
  [left |-> 0, calls |-> IF r \in Deposits THEN MaxCalls ELSE 1, current |-> TRUE, by |-> by]

\* Does the caller of run_claimed arm the timer when the run has ended?  The
\* timer callback and continue_deposit always, continue_fee_payout unless it
\* returns an error, request_deposit_refund and continue_withdrawal never.
ArmsAtEnd(by, err) == by \in {"timer", "deposit"} \/ (by = "fee" /\ ~err)

\* The timer after a stretch: renewals arm it, and so does the end of the run.
TimerAfter(s, by, j) ==
  IF s.run # NoRun \/ ArmsAtEnd(by, s.err) THEN Wakeup(j) ELSE timer

\* Take stretch s of record r's run.
Take(r, s) ==
  /\ job' = [job EXCEPT ![r] = s.job]
  /\ run' = [run EXCEPT ![r] = s.run]
  /\ phase' = [phase EXCEPT ![r] = s.phase]
  /\ stop' = [stop EXCEPT ![r] = s.stop]

\* A claim that goes to another run takes the row from the run in flight.
LoseLease(r) == IF run[r] = NoRun THEN run ELSE [run EXCEPT ![r].current = FALSE]

-----------------------------------------------------------------------------
(* The timer. *)

\* claim_due_settlement_job picks the row with the earliest deadline; ties go
\* by kind and id, left open here because Floor merges old deadlines.
OldestDue ==
  {r \in Records : IsDue(job[r]) /\ \A q \in Records : IsDue(job[q]) => job[r].t <= job[q].t}

\* dispatch_due for a withdrawal row: parked for an explicit continuation.
DispatchWithdrawal(r) ==
  /\ r \in Withdrawals
  /\ job' = [job EXCEPT ![r] = Parked(@.attempts)]
  /\ run' = LoseLease(r)
  /\ timer' = Wakeup(job')
  /\ UNCHANGED <<held, phase, stop>>

\* run_claimed whose guard is taken: try again after BUSY_RETRY_NS.
DispatchBusy(r) ==
  /\ r \notin Withdrawals
  /\ ~GuardFree(r)
  /\ job' = [job EXCEPT ![r] = Rescheduled(BusyTicks, @.attempts)]
  /\ run' = LoseLease(r)
  /\ stop' = [stop EXCEPT ![r] = FALSE]
  /\ timer' = Wakeup(job')
  /\ UNCHANGED <<held, phase>>

\* Mutant: the run does not arm the timer before its first call
DispatchRunUnarmed(r) ==
  /\ r \notin Withdrawals
  /\ GuardFree(r)
  /\ LET j == Leased(job[r], "automatic", LeaseTicks)
     IN \E s \in Advance(r, j, NewRun(r, "timer")) :
          /\ Take(r, s)
          /\ timer' = IF s.run = NoRun THEN Wakeup(job') ELSE NoTimer
  /\ UNCHANGED <<held>>

\* run_claimed for a deposit or payout: the row is leased and the run starts.
DispatchRun(r) ==
  /\ r \notin Withdrawals
  /\ GuardFree(r)
  /\ LET j == Leased(job[r], "automatic", LeaseTicks)
     IN \E s \in Advance(r, j, NewRun(r, "timer")) :
          /\ Take(r, s)
          /\ timer' = TimerAfter(s, "timer", job')
  /\ UNCHANGED <<held>>

\* The timer callback of arm_at: the slot is emptied, one due job dispatched,
\* and the timer armed again; with the lane full, for its first lease to end.
TimerFires ==
  /\ timer = 0
  /\ IF LaneHasRoom("automatic")
     THEN IF OldestDue = {}
          THEN /\ timer' = Wakeup(job)
               /\ UNCHANGED <<job, run, held, phase, stop>>
          ELSE \E r \in OldestDue : DispatchWithdrawal(r) \/ DispatchBusy(r) \/ DispatchRun(r)
     ELSE /\ timer' = Min({job[r].t : r \in ActiveIn("automatic")})
          /\ UNCHANGED <<job, run, held, phase, stop>>

-----------------------------------------------------------------------------
(* Callbacks of a run. *)

\* settlement_lease_is_current: the row is leased under this generation.
LeaseIsCurrent(r) == job[r].st = "leased" /\ run[r].current

\* A call returns to a run that still owns its row.
Callback(r) ==
  /\ run[r] # NoRun
  /\ LeaseIsCurrent(r)
  /\ \E s \in Advance(r, job[r], run[r]) :
       /\ Take(r, s)
       /\ timer' = TimerAfter(s, run[r].by, job')
  /\ UNCHANGED <<held>>

\* Mutant: finish_settlement_job without the generation check
StaleCallbackFinishes(r) ==
  /\ run[r] # NoRun
  /\ ~LeaseIsCurrent(r)
  /\ run' = [run EXCEPT ![r] = NoRun]
  /\ job' = [job EXCEPT ![r] = NoJob]
  /\ timer' = IF ArmsAtEnd(run[r].by, TRUE) THEN Wakeup(job') ELSE timer
  /\ UNCHANGED <<held, phase, stop>>

\* ensure_current or the renewal fails with Busy, and finish does nothing to a
\* row of another generation: the run ends without a trace.
StaleCallback(r) ==
  /\ run[r] # NoRun
  /\ ~LeaseIsCurrent(r)
  /\ run' = [run EXCEPT ![r] = NoRun]
  /\ timer' = IF ArmsAtEnd(run[r].by, TRUE) THEN Wakeup(job) ELSE timer
  /\ UNCHANGED <<job, held, phase, stop>>

\* A callback traps: what it did since the call returned is rolled back, the
\* guard is dropped, and neither finish nor the arm at the end happens.
RunTraps(r) ==
  /\ run[r] # NoRun
  /\ run' = [run EXCEPT ![r] = NoRun]
  /\ UNCHANGED <<job, held, phase, stop, timer>>

-----------------------------------------------------------------------------
(* Endpoints. *)

\* A run started by an endpoint whose claim succeeded.
StartManualRun(r, by) ==
  LET j == Leased(job[r], "manual", ManualLeaseTicks)
  IN \E s \in Advance(r, j, NewRun(r, by)) :
       /\ Take(r, s)
       /\ timer' = TimerAfter(s, by, job')

\* The promotion of a funded deposit and request_fee_payout: record and job in
\* one transaction, then arm().  A withdrawal's notification saves no job.
RecordCreated(r) ==
  /\ phase[r] = "none"
  /\ phase' = [phase EXCEPT ![r] = "pending"]
  /\ IF r \in Withdrawals
     THEN UNCHANGED <<job, timer>>
     ELSE /\ job' = [job EXCEPT ![r] = Enqueued]
          /\ timer' = Wakeup(job')
  /\ UNCHANGED <<run, held, stop>>

\* continue_deposit: only a recovery phase whose last stop was transient.
ContinueDeposit(r) ==
  /\ GuardFree(r)
  /\ phase[r] = "pending" /\ stop[r]
  /\ Claimable(r)
  /\ StartManualRun(r, "deposit")
  /\ UNCHANGED held

\* continue_withdrawal: the first continuation creates the row.
ContinueWithdrawal(r) ==
  /\ GuardFree(r)
  /\ phase[r] = "pending"
  /\ Claimable(r)
  /\ StartManualRun(r, "withdrawal")
  /\ UNCHANGED held

\* continue_fee_payout
ContinueFeePayout(r) ==
  /\ GuardFree(r)
  /\ phase[r] = "pending"
  /\ Claimable(r)
  /\ StartManualRun(r, "fee")
  /\ UNCHANGED held

\* A refund's claim: the row is leased, the run starts and sends its transfer.
StartRefundRun(r) ==
  /\ job' = [job EXCEPT ![r] = RenewLease(Leased(@, "manual", ManualLeaseTicks))]
  /\ run' = [run EXCEPT ![r] = [NewRun(r, "refund") EXCEPT !.left = CallTicks, !.calls = @ - 1]]
  /\ phase' = [phase EXCEPT ![r] = "pending"]
  /\ timer' = Wakeup(job')

\* request_deposit_refund where no observation of Base is needed: an unsigned
\* refund, or one that is pending or on hold.
RefundWithoutObservation(r) ==
  /\ GuardFree(r)
  /\ phase[r] \in {"pending", "available"}
  /\ Claimable(r)
  /\ StartRefundRun(r)
  /\ UNCHANGED <<held, stop>>

\* request_deposit_refund of an authorization: the quota is prepaid
\* (reserve_settlement_quota), then Base is observed under the guard.
RefundObserves(r) ==
  /\ GuardFree(r)
  /\ phase[r] \in {"pending", "available"}
  /\ held' = [held EXCEPT ![r] = "refund"]
  /\ UNCHANGED <<job, run, phase, stop, timer>>

\* The observation failed, or the authorization is not expired.
RefundNotClaimable(r) ==
  /\ held[r] = "refund"
  /\ held' = [held EXCEPT ![r] = "free"]
  /\ UNCHANGED <<job, run, phase, stop, timer>>

\* The deposit was minted: MintReconciled.
RefundFindsMint(r) ==
  /\ held[r] = "refund"
  /\ phase[r] = "available"
  /\ held' = [held EXCEPT ![r] = "free"]
  /\ phase' = [phase EXCEPT ![r] = "closed"]
  /\ UNCHANGED <<job, run, stop, timer>>

\* Expired: the deposit is refundable from here on, whatever the claim says.
\* The guard is dropped, and claim_refund_start saves the refund and claims
\* the job in one transaction, or neither.
RefundClaims(r) ==
  /\ held[r] = "refund"
  /\ held' = [held EXCEPT ![r] = "free"]
  /\ \/ Claimable(r) /\ StartRefundRun(r)
     \/ /\ ~Claimable(r)
        /\ phase' = [phase EXCEPT ![r] = "available"]
        /\ UNCHANGED <<job, run, timer>>
  /\ UNCHANGED stop

\* notify_deposit_mint observes Base under the guard ...
NotifyMint(r) ==
  /\ GuardFree(r) /\ phase[r] = "available"
  /\ held' = [held EXCEPT ![r] = "notify"]
  /\ UNCHANGED <<job, run, phase, stop, timer>>

\* ... and confirms the mint of an available deposit, or fails.
MintNotified(r) ==
  /\ held[r] = "notify"
  /\ held' = [held EXCEPT ![r] = "free"]
  /\ \/ UNCHANGED phase
     \/ phase' = [phase EXCEPT ![r] = "closed"]
  /\ UNCHANGED <<job, run, stop, timer>>

-----------------------------------------------------------------------------
(* The environment. *)

\* An upgrade: the heap (runs, guards, timer) is gone, post_upgrade arms.
Upgrade ==
  /\ run' = [r \in Records |-> NoRun]
  /\ held' = [r \in Deposits |-> "free"]
  /\ timer' = Wakeup(job)
  /\ UNCHANGED <<job, phase, stop>>

\* One unit of time, minutes long: by its end a timer that was due has fired
\* and a bounded call whose time is up has returned.
Tick ==
  /\ timer # 0
  /\ \A r \in Records : run[r] # NoRun => run[r].left # 0
  /\ job' = [r \in Records |-> IF Live(job[r]) THEN [job[r] EXCEPT !.t = Max({@ - 1, Floor})] ELSE job[r]]
  /\ run' = [r \in Records |->
               IF run[r] = NoRun THEN NoRun
               ELSE [run[r] EXCEPT !.left = IF @ = Unbounded THEN @ ELSE @ - 1]]
  /\ timer' = IF timer > 0 THEN timer - 1 ELSE timer
  /\ UNCHANGED <<held, phase, stop>>

Next ==
  \/ TimerFires
  \/ \E r \in Records : Callback(r) \/ StaleCallback(r) \/ RunTraps(r) \/ RecordCreated(r)
  \/ \E r \in Deposits :
       \/ ContinueDeposit(r) \/ RefundWithoutObservation(r) \/ RefundObserves(r)
       \/ RefundNotClaimable(r) \/ RefundFindsMint(r) \/ RefundClaims(r)
       \/ NotifyMint(r) \/ MintNotified(r)
  \/ \E r \in Withdrawals : ContinueWithdrawal(r)
  \/ \E r \in Payouts : ContinueFeePayout(r)
  \/ Upgrade
  \/ Tick

\* Time diverges (SF: no infinite burst of steps in one instant), the IC fires
\* an armed timer, and a bounded call returns.  No fairness for a signature,
\* for another handler, or for any caller.
Fairness ==
  /\ SF_vars(Tick)
  /\ WF_vars(TimerFires)
  /\ WF_vars(\E r \in Records : run[r] # NoRun /\ run[r].left = 0 /\ (Callback(r) \/ StaleCallback(r)))

Spec == Init /\ [][Next]_vars /\ Fairness

-----------------------------------------------------------------------------
(* Properties. *)

\* A run that waits for a bounded call owns its row and its lease has not run
\* out: LEASE_NS covers the longest call sequence under one renewal, and the
\* rearmed timer does not reclaim a live generation (scheduler.rs, the comment
\* in renew_before_external_call).  A run that lost its row in an earlier,
\* unbounded call is found out before its next bounded one.
BoundedCallKeepsLease ==
  \A r \in Records :
    run[r] # NoRun /\ run[r].left # Unbounded => LeaseIsCurrent(r) /\ job[r].t > 0

\* ADR 0019: "lanes have separate concurrency limits": the unexpired leases of
\* a lane never exceed its capacity, except that renew_settlement_lease also
\* extends a lease that ran out during a signature and was not reclaimed yet,
\* when its place in the lane may have gone to another job.
LaneCapacityUnlessLate ==
  \A lane \in Lanes : Cardinality({r \in ActiveIn(lane) : ~job[r].late}) <= Capacity[lane]

\* ADR 0019: "An old callback returning after an expired lease has been
\* reclaimed cannot overwrite stable state": when a run that lost its row
\* ends, row, record and stop reason are as they were.
StaleRunInert ==
  [][\A r \in Records :
       (run[r] # NoRun /\ ~LeaseIsCurrent(r) /\ run'[r] = NoRun)
         => job'[r] = job[r] /\ phase'[r] = phase[r] /\ stop'[r] = stop[r]]_vars

\* No deposit or payout job is stranded: a row that is due, scheduled or left
\* leased by a run that died, is claimed in the end, although runs trap, hold
\* full lanes and end without arming the timer.
DueJobsDispatched ==
  \A r \in Deposits \cup Payouts : IsDue(job[r]) ~> ~IsDue(job[r])

=============================================================================
