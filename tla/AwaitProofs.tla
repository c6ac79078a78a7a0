----------------------------- MODULE AwaitProofs -----------------------------
(***************************************************************************)
(* The safety properties of the two components that hold state over an     *)
(* await while others run: the settlement jobs (SettlementJobs) and the    *)
(* notifications of withdrawals and mints (Notifications).                 *)
(***************************************************************************)
EXTENDS SettlementJobs, Notifications, FiniteSetTheorems, WellFoundedInduction, TLAPS

----------------------------------------------------------------------------
(* SettlementJobs, for any records, lane capacities and times that satisfy *)
(* its assumptions.                                                        *)
(*                                                                         *)
(* A run in a bounded call has more lease left than its call has time: the *)
(* clock takes from both alike, and nobody else claims an unexpired row.   *)
(* A lease is counted in its lane from a claim that found room; a renewal  *)
(* keeps its place, unless it had run out.                                 *)

----------------------------------------------------------------------------
(* The inductive invariant *)

Row(j) ==
  \/ j = NoJob
  \/ /\ j = [st |-> j.st, t |-> j.t, attempts |-> j.attempts, lane |-> j.lane, late |-> j.late]
     /\ j.st \in {"scheduled", "leased", "stopped"}
     /\ j.st = "leased" => j.t \in Int /\ j.lane \in Lanes /\ j.late \in BOOLEAN

Flight(u) ==
  \/ u = NoRun
  \/ /\ u = [left |-> u.left, calls |-> u.calls, current |-> u.current, by |-> u.by]
     /\ u.left = Unbounded \/ u.left \in 0..CallTicks
     /\ u.by # "none"

\* The lease outlives the call.
Covers(j, u) ==
  u # NoRun /\ u.left # Unbounded => j.st = "leased" /\ u.current /\ j.t > u.left

\* A record that does not exist has no job.
Exists(ph, j, u) == ph = "none" => j = NoJob /\ u = NoRun

\* An observation for a refund or a mint holds the guard that a run needs.
GuardIsExclusive == \A d \in Deposits : held[d] # "free" => run[d] = NoRun

Shape ==
  /\ DOMAIN job = Records /\ DOMAIN run = Records /\ DOMAIN held = Deposits
  /\ DOMAIN phase = Records /\ DOMAIN stop = Records
  /\ \A r \in Records : Row(job[r]) /\ Flight(run[r])

IndInv ==
  /\ Shape
  /\ \A r \in Records : Covers(job[r], run[r]) /\ Exists(phase[r], job[r], run[r])
  /\ GuardIsExclusive
  /\ LaneCapacityUnlessLate

----------------------------------------------------------------------------
(* Rows and leases *)

\* A lease that takes a place of its lane.
Counted(j, lane) == IsActive(j) /\ j.lane = lane /\ ~j.late

LEMMA CountedIn ==
  ASSUME NEW lane
  PROVE  {r \in ActiveIn(lane) : ~job[r].late} = {r \in Records : Counted(job[r], lane)}
  BY Zenon DEF ActiveIn, Counted

LEMMA MaxOfTwo ==
  ASSUME NEW a \in Int, NEW b \in Int
  PROVE  Max({a, b}) = IF a >= b THEN a ELSE b
  <1>1. CASE a >= b
    <2>1. \E x \in {a, b} : \A y \in {a, b} : x >= y
      BY <1>1
    <2>2. \A x \in {a, b} : (\A y \in {a, b} : x >= y) => x = a
      BY <1>1
    <2>3. Max({a, b}) = CHOOSE x \in {a, b} : \A y \in {a, b} : x >= y
      BY Zenon DEF Max
    <2> QED BY <1>1, <2>1, <2>2, <2>3, Zenon
  <1>2. CASE ~(a >= b)
    <2>1. \E x \in {a, b} : \A y \in {a, b} : x >= y
      BY <1>2
    <2>2. \A x \in {a, b} : (\A y \in {a, b} : x >= y) => x = b
      BY <1>2, Zenon
    <2>3. Max({a, b}) = CHOOSE x \in {a, b} : \A y \in {a, b} : x >= y
      BY Zenon DEF Max
    <2> QED BY <1>2, <2>1, <2>2, <2>3, Zenon
  <1> QED BY <1>1, <1>2, Zenon

\* Rows that are not leased.
LEMMA Unleased ==
  ASSUME NEW a, NEW b
  PROVE  /\ Row(NoJob) /\ NoJob.st # "leased"
         /\ Row(Rescheduled(a, b)) /\ Rescheduled(a, b).st # "leased"
         /\ Row(Parked(b)) /\ Parked(b).st # "leased"
         /\ Row(Enqueued) /\ Enqueued.st # "leased"
  BY Zenon DEF Row, NoJob, Rescheduled, Parked, Enqueued

LEMMA LeasedRow ==
  ASSUME NEW j, NEW lane \in Lanes, NEW n \in Int
  PROVE  /\ Row(Leased(j, lane, n)) /\ Leased(j, lane, n).st = "leased"
         /\ Leased(j, lane, n).t = n /\ Leased(j, lane, n).lane = lane /\ ~Leased(j, lane, n).late
  <1>1. PICK k : k = IF j = NoJob THEN 0 ELSE j.attempts
    BY Zenon
  <1>2. Leased(j, lane, n) = [st |-> "leased", t |-> n, attempts |-> k, lane |-> lane, late |-> FALSE]
    BY <1>1, Zenon DEF Leased
  <1> QED BY <1>2 DEF Row

LEMMA Renewed ==
  ASSUME NEW j, Row(j), j.st = "leased"
  PROVE  /\ Row(RenewLease(j)) /\ RenewLease(j).st = "leased" /\ RenewLease(j).t = LeaseTicks
         /\ RenewLease(j).lane = j.lane /\ RenewLease(j).late = (j.late \/ IsExpired(j))
  <1>1. PICK n, k, lane, late : /\ j = [st |-> "leased", t |-> n, attempts |-> k, lane |-> lane, late |-> late]
                                /\ n \in Int /\ lane \in Lanes /\ late \in BOOLEAN
    BY DEF Row, NoJob
  <1>2. PICK x \in BOOLEAN : x = (late \/ IsExpired(j))
    BY <1>1, Zenon DEF IsExpired
  <1>3. PICK y : y = [j EXCEPT !.t = LeaseTicks]
    BY Zenon
  <1>4. y = [st |-> "leased", t |-> LeaseTicks, attempts |-> k, lane |-> lane, late |-> late]
    BY ONLY <1>1, <1>3, Zenon
  <1>5. RenewLease(j) = [y EXCEPT !.late = x]
    BY <1>1, <1>2, <1>3, <1>4, Zenon DEF RenewLease
  <1>6. RenewLease(j) = [st |-> "leased", t |-> LeaseTicks, attempts |-> k, lane |-> lane, late |-> x]
    BY ONLY <1>4, <1>5, Zenon
  <1>7. RenewLease(j).st = "leased" /\ RenewLease(j).t = LeaseTicks /\ RenewLease(j).lane = j.lane
        /\ RenewLease(j).late = x /\ j.late = late
    BY ONLY <1>1, <1>6
  <1>8. Row(RenewLease(j))
    <2>1. PICK z : z = RenewLease(j)
      BY Zenon
    <2>2. z = [st |-> z.st, t |-> z.t, attempts |-> z.attempts, lane |-> z.lane, late |-> z.late]
      BY ONLY <1>6, <2>1, Zenon
    <2>3. LeaseTicks \in Int
      BY LeaseAssumption
    <2> QED BY <1>1, <1>2, <1>7, <2>1, <2>2, <2>3, Zenon DEF Row
  <1> QED BY <1>2, <1>7, <1>8, Zenon

----------------------------------------------------------------------------
(* A stretch of a run *)

\* A stretch ends the run and gives up the lease, or renews it and makes a call.
Continues(s, j) ==
  /\ s.run.left = Unbounded \/ s.run.left = CallTicks
  /\ s.run.current
  /\ s.job = RenewLease(j)
StretchOk(s, j) ==
  /\ Row(s.job) /\ Flight(s.run) /\ s.phase # "none"
  /\ \/ s.run = NoRun /\ s.job.st # "leased"
     \/ s.run # NoRun /\ Continues(s, j)

LEMMA NextCallOk ==
  ASSUME NEW r, NEW j, Row(j), j.st = "leased", NEW u, Flight(u), u # NoRun, u.current,
         phase[r] # "none", NEW s \in NextCall(r, j, u)
  PROVE  StretchOk(s, j)
  <1>1. PICK left : /\ left = CallTicks \/ left = Unbounded
                    /\ s = Stretch(RenewLease(j), [u EXCEPT !.left = left, !.calls = @ - 1], phase[r], stop[r], FALSE)
    BY Zenon DEF NextCall
  <1>2. PICK l0, c0, k0, b0 : u = [left |-> l0, calls |-> c0, current |-> k0, by |-> b0] /\ k0 /\ b0 # "none"
    BY Zenon DEF Flight
  <1>3. PICK v : v = [u EXCEPT !.left = left]
    BY Zenon
  <1>4. v = [left |-> left, calls |-> c0, current |-> k0, by |-> b0]
    BY ONLY <1>2, <1>3, Zenon
  <1>5. PICK c1 : c1 = c0 - 1
    BY Zenon
  <1>6. PICK w : w = [u EXCEPT !.left = left, !.calls = @ - 1]
    BY Zenon
  <1>7. w = [v EXCEPT !.calls = c1]
    BY <1>2, <1>3, <1>5, <1>6, Zenon
  <1>8. w = [left |-> left, calls |-> c1, current |-> k0, by |-> b0]
    BY ONLY <1>4, <1>7, Zenon
  <1>9. s.job = RenewLease(j) /\ s.run = w /\ s.phase # "none"
    BY <1>1, <1>6, Zenon DEF Stretch
  <1>10. w # NoRun /\ Flight(w) /\ w.current /\ w.left = left
    BY <1>1, <1>2, <1>8, LeaseAssumption DEF Flight, NoRun
  <1> QED BY <1>1, <1>9, <1>10, Renewed, Zenon DEF StretchOk, Continues

LEMMA EndOfRunOk ==
  ASSUME NEW r, NEW j, NEW s \in EndOfRun(r, j)
  PROVE  s.run = NoRun /\ Row(s.job) /\ s.job.st # "leased" /\ s.phase # "none"
  <1>1. PICK k, ph, st, err : /\ s = Stretch(k, NoRun, ph, st, err) /\ ph # "none"
                              /\ \/ k = NoJob
                                 \/ \E a, b : k = Rescheduled(a, b)
                                 \/ \E b : k = Parked(b)
    <2>1. CASE s \in Completed(r)
      <3>1. PICK ph \in {"closed", "available"} : s = Stretch(NoJob, NoRun, ph, FALSE, FALSE)
        BY <2>1, Zenon DEF Completed
      <3>2. ph # "none"
        BY Zenon
      <3> QED BY <3>1, <3>2, Zenon
    <2>0. "pending" # "none"
      BY Zenon
    <2>2. CASE s \in FinishWithdrawal(j)
      BY <2>0, <2>2, Zenon DEF FinishWithdrawal
    <2>3. CASE s \in FinishAutomatic(r, j)
      <3>1. \/ s \in {Stretch(Rescheduled(RetryDelay(0), 0), NoRun, "pending", FALSE, FALSE)}
            \/ s \in {Stretch(RetryOrPark(j), NoRun, "pending", r \in Deposits, err) : err \in BOOLEAN}
            \/ s \in {Stretch(Parked(j.attempts), NoRun, "pending", FALSE, err) : err \in BOOLEAN}
        BY <2>3, Zenon DEF FinishAutomatic
      <3>2. \/ \E a, b : RetryOrPark(j) = Rescheduled(a, b)
            \/ \E b : RetryOrPark(j) = Parked(b)
        BY Zenon DEF RetryOrPark
      <3>3. PICK k, st, err : /\ s = Stretch(k, NoRun, "pending", st, err)
                              /\ (\E a, b : k = Rescheduled(a, b)) \/ \E b : k = Parked(b)
        BY <3>1, <3>2, Zenon
      <3> QED BY <2>0, <3>3, Zenon
    <2> QED BY <2>1, <2>2, <2>3, Zenon DEF EndOfRun
  <1>2. s.run = NoRun /\ s.job = k /\ s.phase = ph
    BY <1>1, Zenon DEF Stretch
  <1> QED BY <1>1, <1>2, Unleased, Zenon

LEMMA AdvanceOk ==
  ASSUME NEW r, NEW j, Row(j), j.st = "leased", NEW u, Flight(u), u # NoRun, u.current,
         phase[r] # "none", NEW s \in Advance(r, j, u)
  PROVE  StretchOk(s, j)
  <1>1. CASE s \in NextCall(r, j, u)
    BY <1>1, NextCallOk, Zenon
  <1>2. CASE s \in EndOfRun(r, j)
    BY <1>2, EndOfRunOk, Zenon DEF StretchOk, Flight
  <1> QED BY <1>1, <1>2, Zenon DEF Advance

LEMMA NewRunOk ==
  ASSUME NEW r, NEW by, by # "none"
  PROVE  Flight(NewRun(r, by)) /\ NewRun(r, by) # NoRun /\ NewRun(r, by).current
  <1>1. PICK c : c = IF r \in Deposits THEN MaxCalls ELSE 1
    BY Zenon
  <1>2. NewRun(r, by) = [left |-> 0, calls |-> c, current |-> TRUE, by |-> by]
    BY <1>1, Zenon DEF NewRun
  <1> QED BY <1>2, LeaseAssumption DEF Flight, NoRun

\* What a stretch leaves: the lease covers the call, and takes no new place.
LEMMA StretchKeeps ==
  ASSUME NEW j, Row(j), j.st = "leased", NEW s, StretchOk(s, j)
  PROVE  /\ Row(s.job) /\ Flight(s.run) /\ Covers(s.job, s.run)
         /\ \A lane : Counted(s.job, lane) => Counted(j, lane)
  <1>1. CASE s.run = NoRun /\ s.job.st # "leased"
    BY <1>1, Zenon DEF StretchOk, Covers, Counted, IsActive
  <1>2. CASE s.run # NoRun /\ Continues(s, j)
    <2>1. /\ s.job.st = "leased" /\ s.job.t = LeaseTicks /\ s.job.lane = j.lane
          /\ s.job.late = (j.late \/ IsExpired(j))
      BY <1>2, Renewed, Zenon DEF Continues
    <2>2. j.t \in Int /\ j.late \in BOOLEAN
      BY DEF Row, NoJob
    <2>3. Covers(s.job, s.run)
      BY <1>2, <2>1, LeaseAssumption, Zenon DEF Covers, Continues
    <2>4. ASSUME NEW lane, Counted(s.job, lane) PROVE Counted(j, lane)
      <3>1. ~(j.late \/ IsExpired(j)) /\ j.lane = lane
        BY <2>1, <2>4, Zenon DEF Counted
      <3>2. j.t > 0
        BY <2>2, <3>1 DEF IsExpired
      <3> QED BY <3>1, <3>2, Zenon DEF Counted, IsActive
    <2> QED BY <2>3, <2>4, Zenon DEF StretchOk
  <1> QED BY <1>1, <1>2, Zenon DEF StretchOk

----------------------------------------------------------------------------
(* Steps of one record *)

\* StaleRunInert for one record: its run that lost the row leaves no trace.
Inert(r) ==
  run[r] # NoRun /\ ~LeaseIsCurrent(r) /\ run'[r] = NoRun
    => job'[r] = job[r] /\ phase'[r] = phase[r] /\ stop'[r] = stop[r]

Domains ==
  /\ DOMAIN job = Records /\ DOMAIN run = Records /\ DOMAIN held = Deposits
  /\ DOMAIN phase = Records /\ DOMAIN stop = Records

\* The step changes the row and the run of record r only.
Only(r) ==
  /\ Domains'
  /\ \A q \in Records : q # r => /\ job'[q] = job[q] /\ run'[q] = run[q]
                                /\ phase'[q] = phase[q] /\ stop'[q] = stop[q]

\* The row takes no place in a lane, or keeps its own, or takes one that is free.
Placed(r) ==
  \A lane \in Lanes : Counted(job'[r], lane) => Counted(job[r], lane) \/ LaneHasRoom(lane)

LEMMA LaneKept ==
  ASSUME IndInv, NEW r \in Records, Only(r), Placed(r)
  PROVE  LaneCapacityUnlessLate'
  <1> SUFFICES ASSUME NEW lane \in Lanes
               PROVE  Cardinality({q \in ActiveIn(lane) : ~job[q].late})' <= Capacity[lane]
    BY Zenon DEF LaneCapacityUnlessLate
  <1> DEFINE S == {q \in Records : Counted(job[q], lane)}
             T == {q \in Records : Counted(job'[q], lane)}
  <1>1. Cardinality(S) <= Capacity[lane]
    BY CountedIn, Zenon DEF IndInv, LaneCapacityUnlessLate
  <1>2. {q \in ActiveIn(lane) : ~job[q].late}' = T
    BY Zenon DEF ActiveIn, Counted
  <1>3. IsFiniteSet(S) /\ Cardinality(S) \in Nat /\ Capacity[lane] \in Nat
    <2>1. S \subseteq Records
      BY Zenon
    <2>2. IsFiniteSet(S)
      BY <2>1, RecordsAssumption, FS_Subset, Zenon
    <2>3. Cardinality(S) \in Nat
      BY <2>2, FS_CardinalityType, Zenon
    <2>4. Capacity[lane] \in Nat
      BY CapacityAssumption, Zenon
    <2> QED BY <2>2, <2>3, <2>4, Zenon
  <1>4. \A q \in Records : q # r => (q \in T <=> q \in S)
    BY Zenon DEF Only
  <1>5. CASE T \subseteq S
    <2>1. Cardinality(T) <= Cardinality(S) /\ Cardinality(T) \in Nat
      BY <1>3, <1>5, FS_Subset, FS_CardinalityType, Zenon
    <2> HIDE DEF S, T
    <2>2. Cardinality(T) <= Capacity[lane]
      BY <1>1, <1>3, <2>1
    <2> QED BY <1>2, <2>2, Zenon
  <1>6. CASE ~(T \subseteq S)
    <2>1. Counted(job'[r], lane) /\ ~Counted(job[r], lane)
      BY <1>4, <1>6, Zenon
    <2>2. Cardinality(ActiveIn(lane)) < Capacity[lane]
      BY <2>1, Zenon DEF Placed, LaneHasRoom
    <2>3. S \subseteq ActiveIn(lane) /\ ActiveIn(lane) \subseteq Records
      BY Zenon DEF Counted, ActiveIn
    <2>4. IsFiniteSet(ActiveIn(lane)) /\ Cardinality(ActiveIn(lane)) \in Nat
      BY <2>3, RecordsAssumption, FS_Subset, FS_CardinalityType, Zenon
    <2>5. Cardinality(S) <= Cardinality(ActiveIn(lane))
      BY <2>3, <2>4, FS_Subset, Zenon
    <2>6. T = S \cup {r} /\ r \notin S
      BY <1>4, <2>1, Zenon
    <2>7. Cardinality(T) = Cardinality(S) + 1
      BY <1>3, <2>6, FS_AddElement, Zenon
    <2> HIDE DEF S, T
    <2>8. Cardinality(T) <= Capacity[lane]
      BY <1>3, <2>2, <2>4, <2>5, <2>7
    <2> QED BY <1>2, <2>8, Zenon
  <1> QED BY <1>5, <1>6, Zenon

LEMMA OneRecord ==
  ASSUME IndInv, NEW r \in Records, Only(r), Placed(r), GuardIsExclusive', Inert(r),
         Row(job'[r]), Flight(run'[r]), Covers(job'[r], run'[r]), Exists(phase'[r], job'[r], run'[r])
  PROVE  IndInv' /\ \A q \in Records : Inert(q)
  <1>1. LaneCapacityUnlessLate'
    BY LaneKept, Zenon
  <1>2. ASSUME NEW q \in Records
        PROVE  /\ Row(job'[q]) /\ Flight(run'[q]) /\ Covers(job'[q], run'[q]) /\ Inert(q)
               /\ Exists(phase'[q], job'[q], run'[q])
    <2>1. CASE q = r
      BY <2>1, Zenon
    <2>2. CASE q # r
      <3>1. /\ job'[q] = job[q] /\ run'[q] = run[q] /\ phase'[q] = phase[q] /\ stop'[q] = stop[q]
        BY <2>2, Zenon DEF Only
      <3>2. Row(job[q]) /\ Flight(run[q]) /\ Covers(job[q], run[q]) /\ Exists(phase[q], job[q], run[q])
        BY Zenon DEF IndInv, Shape
      <3> QED BY <3>1, <3>2, Zenon DEF Inert
    <2> QED BY <2>1, <2>2, Zenon
  <1>3. Shape'
    BY <1>2, Zenon DEF Only, Domains, Shape, Row, Flight, Unbounded
  <1>4. \A q \in Records : Covers(job[q], run[q])' /\ Exists(phase[q], job[q], run[q])'
    BY <1>2, Zenon DEF Covers, Exists, Unbounded, NoRun, NoJob
  <1> QED BY <1>1, <1>2, <1>3, <1>4, Zenon DEF IndInv

\* Nothing is held when a guard is taken for a run, or the run was there.
LEMMA GuardKept ==
  ASSUME IndInv, NEW r \in Records, Only(r),
         \/ run'[r] = NoRun /\ UNCHANGED held
         \/ run[r] # NoRun /\ UNCHANGED held
         \/ GuardFree(r) /\ UNCHANGED held
         \/ r \in Deposits /\ held' = [held EXCEPT ![r] = "free"]
  PROVE  GuardIsExclusive'
  <1> SUFFICES ASSUME NEW d \in Deposits, held'[d] # "free" PROVE run'[d] = NoRun
    BY Zenon DEF GuardIsExclusive
  <1>1. d \in Records /\ DOMAIN held = Deposits
    BY Zenon DEF Records, IndInv, Shape
  <1>2. d = r => run'[d] = NoRun
    BY <1>1, Zenon DEF GuardFree, IndInv, GuardIsExclusive
  <1>3. d # r => held[d] # "free" /\ run'[d] = run[d]
    BY <1>1, Zenon DEF Only
  <1> QED BY <1>2, <1>3, Zenon DEF IndInv, GuardIsExclusive

\* A stretch of r's run that begins with the lease j.
LEMMA StretchTaken ==
  ASSUME IndInv, NEW r \in Records, NEW j, Row(j), j.st = "leased", NEW s, StretchOk(s, j), Take(r, s),
         \A lane \in Lanes : Counted(j, lane) => Counted(job[r], lane) \/ LaneHasRoom(lane),
         run[r] = NoRun \/ LeaseIsCurrent(r),
         \/ run[r] # NoRun /\ UNCHANGED held
         \/ GuardFree(r) /\ UNCHANGED held
         \/ r \in Deposits /\ held' = [held EXCEPT ![r] = "free"]
  PROVE  IndInv' /\ \A q \in Records : Inert(q)
  <1>1. Only(r) /\ job'[r] = s.job /\ run'[r] = s.run /\ phase'[r] = s.phase
    BY Zenon DEF Take, Only, Domains, IndInv, Shape
  <1>2. /\ Row(s.job) /\ Flight(s.run) /\ Covers(s.job, s.run)
        /\ \A lane : Counted(s.job, lane) => Counted(j, lane)
    BY StretchKeeps, Zenon
  <1>3. GuardIsExclusive'
    BY <1>1, GuardKept, Zenon
  <1>4. Placed(r)
    BY <1>1, <1>2, Zenon DEF Placed
  <1>5. Inert(r)
    BY Zenon DEF Inert
  <1>6. Exists(phase'[r], job'[r], run'[r])
    BY <1>1, Zenon DEF Exists, StretchOk
  <1> QED BY <1>1, <1>2, <1>3, <1>4, <1>5, <1>6, OneRecord, Zenon

----------------------------------------------------------------------------
(* The actions *)

\* The run that loses its row to another claim.
LEMMA Loses ==
  ASSUME IndInv, NEW r \in Records, run' = LoseLease(r), NEW j, Row(j), j.st # "leased",
         job' = [job EXCEPT ![r] = j], IsDue(job[r]), UNCHANGED <<held, phase>>,
         DOMAIN stop' = Records, \A q \in Records : q # r => stop'[q] = stop[q]
  PROVE  IndInv' /\ \A q \in Records : Inert(q)
  <1>0. Flight(run[r]) /\ Covers(job[r], run[r]) /\ Row(job[r])
    BY Zenon DEF IndInv, Shape
  <1>1. DOMAIN run' = Records /\ \A q \in Records : q # r => run'[q] = run[q]
    BY Zenon DEF LoseLease, IndInv, Shape
  <1>2. Only(r) /\ job'[r] = j
    BY <1>1, Zenon DEF Only, Domains, IndInv, Shape
  <1>3. /\ run[r] = NoRun => run'[r] = NoRun
        /\ run[r] # NoRun => run'[r] # NoRun /\ run'[r].left = run[r].left /\ Flight(run'[r])
    <2>1. CASE run[r] = NoRun
      BY <2>1, Zenon DEF LoseLease
    <2>2. CASE run[r] # NoRun
      <3>0. PICK u : u = run[r]
        BY Zenon
      <3>1. PICK l0, c0, k0, b0 : /\ u = [left |-> l0, calls |-> c0, current |-> k0, by |-> b0]
                                  /\ b0 # "none" /\ (l0 = Unbounded \/ l0 \in 0..CallTicks)
        BY <1>0, <2>2, <3>0, Zenon DEF Flight
      <3>2. run'[r] = [u EXCEPT !.current = FALSE]
        BY <2>2, <3>0, Zenon DEF LoseLease, IndInv, Shape
      <3>3. run'[r] = [left |-> l0, calls |-> c0, current |-> FALSE, by |-> b0]
        BY ONLY <3>1, <3>2, Zenon
      <3> QED BY <2>2, <3>0, <3>1, <3>3 DEF Flight, NoRun
    <2> QED BY <2>1, <2>2, Zenon
  <1>4. run[r] # NoRun => run[r].left = Unbounded
    <2> SUFFICES ASSUME run[r] # NoRun, run[r].left # Unbounded PROVE FALSE
      BY Zenon
    <2>1. job[r].t > run[r].left /\ run[r].left \in 0..CallTicks /\ job[r].t \in Int
      BY <1>0 DEF Covers, Flight, Row, NoJob
    <2> QED BY <2>1, LeaseAssumption DEF IsDue
  <1>5. Flight(run'[r]) /\ Covers(job'[r], run'[r])
    BY <1>3, <1>4, Zenon DEF Flight, Covers
  <1>6. Placed(r) /\ Inert(r)
    BY <1>2, <1>3, Zenon DEF Placed, Counted, IsActive, Inert
  <1>7. GuardIsExclusive'
    BY <1>2, <1>3, GuardKept, Zenon
  <1>8. Exists(phase'[r], job'[r], run'[r])
    BY DEF IndInv, Exists, IsDue, Live, NoJob
  <1> QED BY <1>2, <1>5, <1>6, <1>7, <1>8, OneRecord, Zenon

LEMMA TimerStep ==
  ASSUME IndInv, TimerFires
  PROVE  IndInv' /\ \A q \in Records : Inert(q)
  <1>1. CASE UNCHANGED <<job, run, held, phase, stop>>
    <2>1. IndInv'
      BY <1>1, Zenon DEF IndInv, Shape, GuardIsExclusive, LaneCapacityUnlessLate, ActiveIn
    <2> QED BY <1>1, <2>1, Zenon DEF Inert
  <1>2. ASSUME NEW r \in OldestDue, DispatchWithdrawal(r) PROVE IndInv' /\ \A q \in Records : Inert(q)
    <2>1. r \in Records /\ IsDue(job[r])
      BY Zenon DEF OldestDue
    <2>2. job' = [job EXCEPT ![r] = Parked(job[r].attempts)] /\ run' = LoseLease(r) /\ UNCHANGED <<held, phase, stop>>
      BY <1>2, <2>1, Zenon DEF DispatchWithdrawal, IndInv, Shape
    <2> QED BY <2>1, <2>2, Unleased, Loses, Zenon DEF IndInv, Shape
  <1>3. ASSUME NEW r \in OldestDue, DispatchBusy(r) PROVE IndInv' /\ \A q \in Records : Inert(q)
    <2>1. r \in Records /\ IsDue(job[r])
      BY Zenon DEF OldestDue
    <2>2. /\ job' = [job EXCEPT ![r] = Rescheduled(BusyTicks, job[r].attempts)] /\ run' = LoseLease(r)
          /\ UNCHANGED <<held, phase>> /\ stop' = [stop EXCEPT ![r] = FALSE]
      BY <1>3, <2>1, Zenon DEF DispatchBusy, IndInv, Shape
    <2>3. DOMAIN stop' = Records /\ \A q \in Records : q # r => stop'[q] = stop[q]
      BY <2>2, Zenon DEF IndInv, Shape
    <2>4. PICK j : j = Rescheduled(BusyTicks, job[r].attempts) /\ Row(j) /\ j.st # "leased"
      BY Unleased
    <2> QED BY <2>1, <2>2, <2>3, <2>4, Loses, Zenon
  <1>4. ASSUME NEW r \in OldestDue, LaneHasRoom("automatic"), DispatchRun(r)
        PROVE  IndInv' /\ \A q \in Records : Inert(q)
    <2>1. r \in Records /\ GuardFree(r) /\ UNCHANGED held
      BY <1>4, Zenon DEF OldestDue, DispatchRun
    <2>j. PICK j : j = Leased(job[r], "automatic", LeaseTicks)
      BY Zenon
    <2>2. PICK s \in Advance(r, j, NewRun(r, "timer")) : Take(r, s)
      BY <1>4, <2>j, Zenon DEF DispatchRun
    <2>3. Row(j) /\ j.st = "leased" /\ j.lane = "automatic"
      BY <2>j, LeasedRow, LeaseAssumption DEF Lanes
    <2>p. phase[r] # "none"
      BY <2>1 DEF OldestDue, IndInv, Exists, IsDue, Live, NoJob
    <2>4. StretchOk(s, j)
      BY <2>2, <2>3, <2>p, NewRunOk, AdvanceOk, Zenon
    <2>5. \A lane \in Lanes : Counted(j, lane) => Counted(job[r], lane) \/ LaneHasRoom(lane)
      BY <1>4, <2>3, Zenon DEF Counted
    <2>6. run[r] = NoRun
      BY <2>1, Zenon DEF GuardFree
    <2> QED BY <2>1, <2>2, <2>3, <2>4, <2>5, <2>6, StretchTaken, Zenon
  <1> QED BY <1>1, <1>2, <1>3, <1>4, Zenon DEF TimerFires

LEMMA CallbackStep ==
  ASSUME IndInv, NEW r \in Records, Callback(r)
  PROVE  IndInv' /\ \A q \in Records : Inert(q)
  <1>j. PICK j : j = job[r]
    BY Zenon
  <1>u. PICK u : u = run[r]
    BY Zenon
  <1>1. /\ u # NoRun /\ LeaseIsCurrent(r) /\ j.st = "leased" /\ u.current /\ UNCHANGED held
        /\ Row(j) /\ Flight(u) /\ phase[r] # "none"
    BY <1>j, <1>u, Zenon DEF Callback, LeaseIsCurrent, IndInv, Shape, Exists
  <1>2. PICK s \in Advance(r, j, u) : Take(r, s)
    BY <1>j, <1>u, Zenon DEF Callback
  <1>3. StretchOk(s, j)
    BY <1>1, <1>2, AdvanceOk, Zenon
  <1> QED BY <1>j, <1>u, <1>1, <1>2, <1>3, StretchTaken, Zenon

\* An endpoint's claim found a place in the manual lane.
LEMMA ManualStep ==
  ASSUME IndInv, NEW r \in Records, NEW by, by # "none", GuardFree(r), Claimable(r),
         phase[r] # "none", StartManualRun(r, by), UNCHANGED held
  PROVE  IndInv' /\ \A q \in Records : Inert(q)
  <1>j. PICK j : j = Leased(job[r], "manual", ManualLeaseTicks)
    BY Zenon
  <1>1. PICK s \in Advance(r, j, NewRun(r, by)) : Take(r, s)
    BY <1>j, Zenon DEF StartManualRun
  <1>2. Row(j) /\ j.st = "leased" /\ j.lane = "manual"
    BY <1>j, LeasedRow, TicksAssumption DEF Lanes
  <1>3. StretchOk(s, j)
    BY <1>1, <1>2, NewRunOk, AdvanceOk, Zenon
  <1>4. \A lane \in Lanes : Counted(j, lane) => Counted(job[r], lane) \/ LaneHasRoom(lane)
    BY <1>2, Zenon DEF Counted, Claimable
  <1>5. run[r] = NoRun
    BY Zenon DEF GuardFree
  <1> QED BY <1>1, <1>2, <1>3, <1>4, <1>5, StretchTaken, Zenon

\* So did a refund's, whose run sends its transfer at once.
LEMMA RefundStep ==
  ASSUME IndInv, NEW r \in Deposits, Claimable(r), StartRefundRun(r), run[r] = NoRun, UNCHANGED stop,
         \/ GuardFree(r) /\ UNCHANGED held
         \/ held' = [held EXCEPT ![r] = "free"]
  PROVE  IndInv' /\ \A q \in Records : Inert(q)
  <1>0. r \in Records
    BY Zenon DEF Records
  <1>j. PICK j : j = Leased(job[r], "manual", ManualLeaseTicks)
    BY Zenon
  <1>u. PICK u : u = [NewRun(r, "refund") EXCEPT !.left = CallTicks, !.calls = @ - 1]
    BY Zenon
  <1>1. Row(j) /\ j.st = "leased" /\ j.lane = "manual"
    BY <1>j, LeasedRow, TicksAssumption DEF Lanes
  <1>2. Row(RenewLease(j)) /\ RenewLease(j).st = "leased" /\ RenewLease(j).t = LeaseTicks
        /\ RenewLease(j).lane = "manual"
    BY <1>1, Renewed, Zenon
  <1>3. Flight(u) /\ u # NoRun /\ u.left = CallTicks /\ u.current
    <2>n. PICK n : n = NewRun(r, "refund")
      BY Zenon
    <2>1. PICK c0 : n = [left |-> 0, calls |-> c0, current |-> TRUE, by |-> "refund"]
      BY <2>n, Zenon DEF NewRun
    <2>2. PICK v : v = [n EXCEPT !.left = CallTicks]
      BY Zenon
    <2>3. v = [left |-> CallTicks, calls |-> c0, current |-> TRUE, by |-> "refund"]
      BY ONLY <2>1, <2>2, Zenon
    <2>4. PICK c1 : c1 = c0 - 1
      BY Zenon
    <2>5. u = [v EXCEPT !.calls = c1]
      <3>1. u = [n EXCEPT !.left = CallTicks, !.calls = @ - 1]
        BY <1>u, <2>n, Zenon
      <3> QED BY ONLY <2>1, <2>2, <2>4, <3>1, Zenon
    <2>6. u = [left |-> CallTicks, calls |-> c1, current |-> TRUE, by |-> "refund"]
      BY ONLY <2>3, <2>5, Zenon
    <2> QED BY <2>6, LeaseAssumption DEF Flight, NoRun
  <1>4. /\ Only(r) /\ job'[r] = RenewLease(j) /\ run'[r] = u /\ phase'[r] = "pending"
    BY <1>0, <1>j, <1>u, Zenon DEF StartRefundRun, Only, Domains, IndInv, Shape
  <1>5. Covers(job'[r], run'[r])
    BY <1>2, <1>3, <1>4, LeaseAssumption, Zenon DEF Covers
  <1>6. Placed(r) /\ Inert(r)
    BY <1>2, <1>3, <1>4, Zenon DEF Placed, Counted, Claimable, Inert
  <1>7. GuardIsExclusive'
    BY <1>0, <1>4, GuardKept, Zenon
  <1>8. Exists(phase'[r], job'[r], run'[r])
    BY <1>4, Zenon DEF Exists
  <1> QED BY <1>0, <1>2, <1>3, <1>4, <1>5, <1>6, <1>7, <1>8, OneRecord, Zenon

\* A step that leaves rows and runs alone, and takes a guard only for what is free.
LEMMA OtherStep ==
  ASSUME IndInv, UNCHANGED <<job, run>>, DOMAIN phase' = Records, DOMAIN stop' = Records, DOMAIN held' = Deposits,
         \A r \in Records : phase'[r] = phase[r] \/ phase'[r] # "none",
         \A d \in Deposits : held'[d] = "free" \/ held'[d] = held[d] \/ run[d] = NoRun
  PROVE  IndInv' /\ \A q \in Records : Inert(q)
  <1>1. GuardIsExclusive'
    BY Zenon DEF IndInv, GuardIsExclusive
  <1>2. Shape'
    BY Zenon DEF IndInv, Shape
  <1>3. LaneCapacityUnlessLate'
    BY Zenon DEF IndInv, LaneCapacityUnlessLate, ActiveIn
  <1>4. \A r \in Records : Covers(job[r], run[r])' /\ Exists(phase[r], job[r], run[r])'
    BY Zenon DEF IndInv, Exists
  <1>5. \A q \in Records : Inert(q)
    BY Zenon DEF Inert
  <1> QED BY <1>1, <1>2, <1>3, <1>4, <1>5, Zenon DEF IndInv

\* A run ends: it lost its row, or it trapped.
LEMMA RunEnds ==
  ASSUME IndInv, NEW r \in Records, run' = [run EXCEPT ![r] = NoRun], UNCHANGED <<job, held, phase, stop>>
  PROVE  IndInv' /\ \A q \in Records : Inert(q)
  <1>1. Only(r) /\ run'[r] = NoRun
    BY Zenon DEF Only, Domains, IndInv, Shape
  <1>2. Flight(run'[r]) /\ Covers(job'[r], run'[r]) /\ Exists(phase'[r], job'[r], run'[r])
    BY <1>1, Zenon DEF IndInv, Flight, Covers, Exists
  <1>3. Placed(r) /\ Inert(r) /\ Row(job'[r])
    BY Zenon DEF Placed, Inert, IndInv, Shape
  <1>4. GuardIsExclusive'
    BY <1>1, GuardKept, Zenon
  <1> QED BY <1>1, <1>2, <1>3, <1>4, OneRecord, Zenon

LEMMA UpgradeStep ==
  ASSUME IndInv, Upgrade
  PROVE  IndInv' /\ \A q \in Records : Inert(q)
  <1>1. /\ UNCHANGED <<job, phase, stop>> /\ run' = [r \in Records |-> NoRun]
        /\ held' = [r \in Deposits |-> "free"]
    BY Zenon DEF Upgrade
  <1>2. Shape'
    BY <1>1, Zenon DEF IndInv, Shape, Flight
  <1>3. LaneCapacityUnlessLate'
    BY <1>1, Zenon DEF IndInv, LaneCapacityUnlessLate, ActiveIn
  <1>4. GuardIsExclusive' /\ \A r \in Records : Covers(job[r], run[r])' /\ Exists(phase[r], job[r], run[r])'
    BY <1>1, Zenon DEF IndInv, Covers, Exists, GuardIsExclusive
  <1>5. \A q \in Records : Inert(q)
    BY <1>1, Zenon DEF Inert
  <1> QED BY <1>2, <1>3, <1>4, <1>5, Zenon DEF IndInv

LEMMA TickStep ==
  ASSUME IndInv, Tick
  PROVE  IndInv' /\ \A q \in Records : Inert(q)
  <1>0. /\ job' = [r \in Records |-> IF Live(job[r]) THEN [job[r] EXCEPT !.t = Max({@ - 1, Floor})] ELSE job[r]]
        /\ run' = [r \in Records |->
                     IF run[r] = NoRun THEN NoRun
                     ELSE [run[r] EXCEPT !.left = IF @ = Unbounded THEN @ ELSE @ - 1]]
        /\ UNCHANGED <<held, phase, stop>>
        /\ \A r \in Records : run[r] # NoRun => run[r].left # 0
    BY Zenon DEF Tick
  <1>1. ASSUME NEW r \in Records
        PROVE  /\ Row(job'[r]) /\ job'[r].st = job[r].st /\ (job[r] = NoJob => job'[r] = NoJob)
               /\ job[r].st = "leased" => /\ job'[r].lane = job[r].lane /\ job'[r].late = job[r].late
                                          /\ job[r].t > 1 => job'[r].t = job[r].t - 1
                                          /\ job'[r].t > 0 => job[r].t > 0
    <2>j. PICK j : j = job[r]
      BY Zenon
    <2>1. Row(j)
      BY <2>j, Zenon DEF IndInv, Shape
    <2>2. CASE ~Live(j)
      <3>1. job'[r] = j /\ j.st # "leased"
        BY <1>0, <2>2, <2>j, Zenon DEF Live
      <3> QED BY <2>1, <2>j, <3>1, Zenon
    <2>3. CASE Live(j)
      <3>n. PICK n : n = Max({j.t - 1, Floor})
        BY Zenon
      <3>1. PICK st, n0, k, lane, late : /\ j = [st |-> st, t |-> n0, attempts |-> k, lane |-> lane, late |-> late]
                                         /\ st \in {"scheduled", "leased", "stopped"}
                                         /\ st = "leased" => n0 \in Int /\ lane \in Lanes /\ late \in BOOLEAN
        BY <2>1, <2>3 DEF Row, NoJob, Live
      <3>2. job'[r] = [j EXCEPT !.t = n]
        BY <1>0, <2>3, <2>j, <3>n, Zenon
      <3>3. job'[r] = [st |-> st, t |-> n, attempts |-> k, lane |-> lane, late |-> late]
        BY ONLY <3>1, <3>2, Zenon
      <3>4. st = "leased" => n \in Int /\ (n0 > 1 => n = n0 - 1) /\ (n > 0 => n0 > 0)
        <4> SUFFICES ASSUME st = "leased" PROVE n \in Int /\ (n0 > 1 => n = n0 - 1) /\ (n > 0 => n0 > 0)
          BY Zenon
        <4>1. n0 \in Int /\ n0 - 1 \in Int /\ Floor \in Int /\ Floor <= 0 /\ j.t = n0
          BY <3>1, TicksAssumption DEF Floor
        <4>2. n = IF n0 - 1 >= Floor THEN n0 - 1 ELSE Floor
          BY <3>n, <4>1, MaxOfTwo, Zenon
        <4> QED BY <4>1, <4>2
      <3>z. PICK z : z = job'[r]
        BY Zenon
      <3>5. z = [st |-> z.st, t |-> z.t, attempts |-> z.attempts, lane |-> z.lane, late |-> z.late]
            /\ z.st = st /\ z.t = n /\ z.lane = lane /\ z.late = late
        BY ONLY <3>3, <3>z
      <3>6. Row(z)
        BY <3>1, <3>4, <3>5, Zenon DEF Row
      <3>7. j.st = st /\ j.t = n0 /\ j.lane = lane /\ j.late = late
        BY ONLY <3>1, Zenon
      <3>8. j # NoJob
        BY <2>3 DEF Live, NoJob
      <3> QED BY <2>j, <3>4, <3>5, <3>6, <3>7, <3>8, <3>z, Zenon
    <2> QED BY <2>2, <2>3, Zenon
  <1>2. ASSUME NEW r \in Records
        PROVE  /\ Flight(run'[r]) /\ (run'[r] = NoRun <=> run[r] = NoRun)
               /\ run[r] # NoRun => /\ run'[r].current = run[r].current
                                    /\ run[r].left = Unbounded => run'[r].left = Unbounded
                                    /\ run[r].left # Unbounded => run[r].left \in Nat \ {0}
                                                                  /\ run'[r].left = run[r].left - 1
    <2>u. PICK u : u = run[r]
      BY Zenon
    <2>1. CASE u = NoRun
      BY <1>0, <2>1, <2>u, Zenon DEF Flight
    <2>2. CASE u # NoRun
      <3>1. PICK l0, c0, k0, b0 : /\ u = [left |-> l0, calls |-> c0, current |-> k0, by |-> b0]
                                  /\ l0 = Unbounded \/ l0 \in 0..CallTicks
                                  /\ b0 # "none" /\ l0 # 0
        BY <1>0, <2>2, <2>u, Zenon DEF IndInv, Shape, Flight
      <3>l. PICK l : l = IF l0 = Unbounded THEN l0 ELSE l0 - 1
        BY Zenon
      <3>2. run'[r] = [u EXCEPT !.left = l]
        <4>1. run'[r] = [u EXCEPT !.left = IF @ = Unbounded THEN @ ELSE @ - 1]
          BY <1>0, <2>2, <2>u, Zenon
        <4>2. u.left = l0
          BY ONLY <3>1, Zenon
        <4>3. [u EXCEPT !.left = IF @ = Unbounded THEN @ ELSE @ - 1]
                = [u EXCEPT !.left = IF u.left = Unbounded THEN u.left ELSE u.left - 1]
          BY Zenon
        <4> QED BY <3>l, <4>1, <4>2, <4>3, Zenon
      <3>3. run'[r] = [left |-> l, calls |-> c0, current |-> k0, by |-> b0]
        BY ONLY <3>1, <3>2, Zenon
      <3>4. /\ l0 = Unbounded => l = Unbounded
            /\ l0 # Unbounded => l0 \in Nat \ {0} /\ l = l0 - 1 /\ l \in 0..CallTicks
        BY <3>1, <3>l, LeaseAssumption
      <3> QED BY <2>2, <2>u, <3>1, <3>3, <3>4 DEF Flight, NoRun
    <2> QED BY <2>1, <2>2, Zenon
  <1>3. Shape'
    BY <1>0, <1>1, <1>2, Zenon DEF IndInv, Shape, Row, Flight
  <1>4. ASSUME NEW r \in Records PROVE Covers(job[r], run[r])'
    <2> SUFFICES ASSUME run'[r] # NoRun, run'[r].left # Unbounded
                 PROVE  job'[r].st = "leased" /\ run'[r].current /\ job'[r].t > run'[r].left
      BY Zenon DEF Covers
    <2>1. run[r] # NoRun /\ run[r].left \in Nat \ {0} /\ run'[r].left = run[r].left - 1
          /\ run'[r].current = run[r].current
      BY <1>2, Zenon
    <2>2. job[r].st = "leased" /\ run[r].current /\ job[r].t > run[r].left /\ job[r].t \in Int
      BY <2>1 DEF IndInv, Shape, Covers, Row, NoJob, Unbounded
    <2> QED BY <1>1, <2>1, <2>2
  <1>5. LaneCapacityUnlessLate'
    <2> SUFFICES ASSUME NEW lane \in Lanes
                 PROVE  Cardinality({q \in ActiveIn(lane) : ~job[q].late})' <= Capacity[lane]
      BY Zenon DEF LaneCapacityUnlessLate
    <2> DEFINE S == {q \in Records : Counted(job[q], lane)}
               T == {q \in Records : Counted(job'[q], lane)}
    <2>1. Cardinality(S) <= Capacity[lane]
      BY CountedIn, Zenon DEF IndInv, LaneCapacityUnlessLate
    <2>2. {q \in ActiveIn(lane) : ~job[q].late}' = T
      BY Zenon DEF ActiveIn, Counted
    <2>3. T \subseteq S /\ S \subseteq Records
      BY <1>1, Zenon DEF Counted, IsActive
    <2> HIDE DEF S, T
    <2>4. IsFiniteSet(S) /\ Cardinality(S) \in Nat /\ Cardinality(T) <= Cardinality(S) /\ Cardinality(T) \in Nat
      BY <2>3, RecordsAssumption, FS_Subset, FS_CardinalityType, Zenon
    <2>5. Cardinality(T) <= Capacity[lane]
      BY <2>1, <2>4, CapacityAssumption
    <2> QED BY <2>2, <2>5, Zenon
  <1>6. GuardIsExclusive'
    <2>1. \A d \in Deposits : d \in Records
      BY Zenon DEF Records
    <2> QED BY <1>0, <1>2, <2>1, Zenon DEF IndInv, GuardIsExclusive
  <1>7. \A q \in Records : Inert(q)
    BY <1>2, Zenon DEF Inert
  <1>8. \A r \in Records : Exists(phase[r], job[r], run[r])'
    BY <1>0, <1>1, <1>2, Zenon DEF IndInv, Exists
  <1> QED BY <1>3, <1>4, <1>5, <1>6, <1>7, <1>8, Zenon DEF IndInv

----------------------------------------------------------------------------
(* The theorems *)

LEMMA InitInv == Init => IndInv
  <1> SUFFICES ASSUME Init PROVE IndInv
    BY Zenon
  <1>1. Shape
    BY Zenon DEF Init, Shape, Row, Flight
  <1>2. \A r \in Records : Covers(job[r], run[r]) /\ Exists(phase[r], job[r], run[r])
    BY Zenon DEF Init, Covers, Exists
  <1>3. GuardIsExclusive
    BY Zenon DEF Init, GuardIsExclusive
  <1>4. ASSUME NEW lane \in Lanes PROVE Cardinality({r \in ActiveIn(lane) : ~job[r].late}) <= Capacity[lane]
    <2>1. {r \in ActiveIn(lane) : ~job[r].late} = {}
      BY Zenon DEF Init, ActiveIn, IsActive, NoJob
    <2>2. Cardinality({}) = 0
      BY FS_EmptySet, Zenon
    <2>3. Capacity[lane] \in Nat
      BY CapacityAssumption, Zenon
    <2>4. 0 <= Capacity[lane]
      BY <2>3
    <2> QED BY <2>1, <2>2, <2>4, Zenon
  <1>5. LaneCapacityUnlessLate
    BY <1>4, Zenon DEF LaneCapacityUnlessLate
  <1> QED BY <1>1, <1>2, <1>3, <1>5, Zenon DEF IndInv

LEMMA Step ==
  ASSUME IndInv, [Next]_vars
  PROVE  IndInv' /\ \A q \in Records : Inert(q)
  <1>s. Shape /\ Deposits \subseteq Records /\ Withdrawals \subseteq Records /\ Payouts \subseteq Records
    BY Zenon DEF IndInv, Records
  <1>1. ASSUME NEW r \in Records, StaleCallback(r) \/ RunTraps(r) PROVE IndInv' /\ \A q \in Records : Inert(q)
    BY <1>1, RunEnds, Zenon DEF StaleCallback, RunTraps
  <1>2. ASSUME NEW r \in Records, RecordCreated(r) PROVE IndInv' /\ \A q \in Records : Inert(q)
    <2>0. UNCHANGED <<run, held, stop>> /\ phase' = [phase EXCEPT ![r] = "pending"] /\ DOMAIN phase' = Records
      BY <1>2, <1>s, Zenon DEF RecordCreated, Shape
    <2>1. CASE UNCHANGED job
      BY <1>s, <2>0, <2>1, OtherStep, Zenon DEF Shape
    <2>2. CASE job' = [job EXCEPT ![r] = Enqueued]
      <3>1. Only(r) /\ job'[r] = Enqueued /\ run'[r] = NoRun /\ phase'[r] = "pending"
        BY <1>2, <1>s, <2>0, <2>2, Zenon DEF RecordCreated, Only, Domains, Shape, IndInv, Exists
      <3>2. Row(job'[r]) /\ job'[r].st # "leased"
        BY <3>1, Unleased, Zenon
      <3>3. Flight(run'[r]) /\ Covers(job'[r], run'[r]) /\ Exists(phase'[r], job'[r], run'[r])
        BY <3>1, Zenon DEF Flight, Covers, Exists
      <3>4. Placed(r) /\ Inert(r)
        BY <1>2, <3>2, Zenon DEF Placed, Counted, IsActive, Inert, RecordCreated, IndInv, Exists
      <3>5. GuardIsExclusive'
        BY <2>0, <3>1, GuardKept, Zenon
      <3> QED BY <3>1, <3>2, <3>3, <3>4, <3>5, OneRecord, Zenon
    <2> QED BY <1>2, <2>1, <2>2, Zenon DEF RecordCreated
  <1>3. ASSUME NEW r \in Deposits, ContinueDeposit(r) PROVE IndInv' /\ \A q \in Records : Inert(q)
    BY <1>3, <1>s, ManualStep, Zenon DEF ContinueDeposit
  <1>4. ASSUME NEW r \in Withdrawals, ContinueWithdrawal(r) PROVE IndInv' /\ \A q \in Records : Inert(q)
    BY <1>4, <1>s, ManualStep, Zenon DEF ContinueWithdrawal
  <1>5. ASSUME NEW r \in Payouts, ContinueFeePayout(r) PROVE IndInv' /\ \A q \in Records : Inert(q)
    BY <1>5, <1>s, ManualStep, Zenon DEF ContinueFeePayout
  <1>6. ASSUME NEW r \in Deposits, RefundWithoutObservation(r) PROVE IndInv' /\ \A q \in Records : Inert(q)
    BY <1>6, RefundStep, Zenon DEF RefundWithoutObservation, GuardFree
  <1>7. ASSUME NEW r \in Deposits, RefundObserves(r) \/ NotifyMint(r)
        PROVE  IndInv' /\ \A q \in Records : Inert(q)
    <2>1. UNCHANGED <<job, run, phase, stop>> /\ run[r] = NoRun
          /\ \E h : held' = [held EXCEPT ![r] = h]
      BY <1>7, Zenon DEF RefundObserves, NotifyMint, GuardFree
    <2>2. DOMAIN held' = Deposits /\ \A d \in Deposits : held'[d] = held[d] \/ run[d] = NoRun
      BY <1>s, <2>1, Zenon DEF Shape
    <2> QED BY <1>s, <2>1, <2>2, OtherStep, Zenon DEF Shape
  <1>8. ASSUME NEW r \in Deposits, RefundNotClaimable(r) \/ RefundFindsMint(r) \/ MintNotified(r)
        PROVE  IndInv' /\ \A q \in Records : Inert(q)
    <2>1. /\ UNCHANGED <<job, run, stop>> /\ held' = [held EXCEPT ![r] = "free"]
          /\ UNCHANGED phase \/ phase' = [phase EXCEPT ![r] = "closed"]
      BY <1>8, Zenon DEF RefundNotClaimable, RefundFindsMint, MintNotified
    <2>2. DOMAIN held' = Deposits /\ \A d \in Deposits : held'[d] = "free" \/ held'[d] = held[d]
      BY <1>s, <2>1, Zenon DEF Shape
    <2>3. DOMAIN phase' = Records /\ \A q \in Records : phase'[q] = phase[q] \/ phase'[q] # "none"
      BY <1>s, <2>1, Zenon DEF Shape
    <2> QED BY <1>s, <2>1, <2>2, <2>3, OtherStep, Zenon DEF Shape
  <1>9. ASSUME NEW r \in Deposits, RefundClaims(r) PROVE IndInv' /\ \A q \in Records : Inert(q)
    <2>1. UNCHANGED stop /\ held' = [held EXCEPT ![r] = "free"] /\ run[r] = NoRun
      BY <1>9, Zenon DEF RefundClaims, IndInv, GuardIsExclusive
    <2>2. CASE Claimable(r) /\ StartRefundRun(r)
      BY <2>1, <2>2, RefundStep, Zenon
    <2>3. CASE UNCHANGED <<job, run>> /\ phase' = [phase EXCEPT ![r] = "available"]
      <3>1. DOMAIN held' = Deposits /\ \A d \in Deposits : held'[d] = "free" \/ held'[d] = held[d]
        BY <1>s, <2>1, Zenon DEF Shape
      <3>2. DOMAIN phase' = Records /\ \A q \in Records : phase'[q] = phase[q] \/ phase'[q] # "none"
        BY <1>s, <2>3, Zenon DEF Shape
      <3> QED BY <1>s, <2>1, <2>3, <3>1, <3>2, OtherStep, Zenon DEF Shape
    <2> QED BY <1>9, <2>2, <2>3, Zenon DEF RefundClaims
  <1>10. CASE UNCHANGED vars
    BY <1>10, <1>s, OtherStep, Zenon DEF vars, Shape
  <1> QED BY <1>1, <1>2, <1>3, <1>4, <1>5, <1>6, <1>7, <1>8, <1>9, <1>10, TimerStep, CallbackStep,
             UpgradeStep, TickStep, Zenon DEF Next

\* The inductive invariant: SettlementJobs keeps its rows, runs and guards in step.
THEOREM Invariance == Spec => []IndInv
  <1>1. IndInv /\ [Next]_vars => IndInv'
    BY Step, Zenon
  <1> QED BY <1>1, InitInv, PTL DEF Spec

\* For any records, lanes and times with CallTicks < LeaseTicks, no run loses its
\* lease while it waits for a bounded call.
THEOREM LeaseOutlivesCall == Spec => []BoundedCallKeepsLease
  <1>1. IndInv => BoundedCallKeepsLease
    <2> SUFFICES ASSUME IndInv, NEW r \in Records, run[r] # NoRun, run[r].left # Unbounded
                 PROVE  LeaseIsCurrent(r) /\ job[r].t > 0
      BY Zenon DEF BoundedCallKeepsLease
    <2>1. Row(job[r]) /\ Flight(run[r]) /\ Covers(job[r], run[r])
      BY Zenon DEF IndInv, Shape
    <2>2. job[r].st = "leased" /\ run[r].current /\ job[r].t > run[r].left
          /\ run[r].left \in 0..CallTicks /\ job[r].t \in Int
      BY <2>1 DEF Covers, Flight, Row, NoJob
    <2> QED BY <2>2, LeaseAssumption DEF LeaseIsCurrent
  <1> QED BY <1>1, Invariance, PTL

\* A lane never holds more leases than its capacity, but for those renewed after
\* they had run out.
THEOREM LanesKeepCapacity == Spec => []LaneCapacityUnlessLate
  <1>1. IndInv => LaneCapacityUnlessLate
    BY Zenon DEF IndInv
  <1> QED BY <1>1, Invariance, PTL

\* A run that lost its row changes neither row nor record when it ends.
THEOREM StaleRunsAreInert == Spec => StaleRunInert
  <1>1. IndInv /\ [Next]_vars =>
          [\A r \in Records : (run[r] # NoRun /\ ~LeaseIsCurrent(r) /\ run'[r] = NoRun)
             => job'[r] = job[r] /\ phase'[r] = phase[r] /\ stop'[r] = stop[r]]_vars
    BY Step, Zenon DEF Inert
  <1> QED BY <1>1, Invariance, PTL DEF Spec, StaleRunInert

----------------------------------------------------------------------------
(* Notifications: whatever a notification records is on the finalized      *)
(* chain of Base, for any number of transactions, any height and any       *)
(* number of reorganisations, however notifications interleave.            *)
(*                                                                         *)
(* A quorum of two contains a correct provider.  What a correct provider   *)
(* shows as finalized is finalized; what it answers at a block hash is     *)
(* what the chain holds there, because two chains that agree on the hash   *)
(* of a block agree on everything before it.                               *)

----------------------------------------------------------------------------
(* The inductive invariant *)

Block == [fork : Nat, tx : Txs, ok : BOOLEAN]
View  == [chain : Seq(Block), final : Nat]

ChainShape ==
  /\ chain \in Seq(Block) /\ Len(chain) <= MaxHeight
  /\ final \in Nat /\ final <= Len(chain)
  /\ fork \in Nat
  /\ view \in [Correct -> View]
  /\ DOMAIN proc = Txs /\ DOMAIN records = Ids

\* Two chains have the same first n blocks.
SamePrefix(c, d, n) == \A m \in 1..n : c[m] = d[m]

\* What a provider shows of the chain: its finalized part is finalized, and a
\* block with the hash of the chain's has the chain's history.  A block of the
\* present fork is still there.
Follows(v) ==
  /\ v.final <= final /\ v.final <= Len(v.chain) /\ Len(v.chain) <= MaxHeight
  /\ SamePrefix(v.chain, chain, v.final)
  /\ \A n \in 1..Len(v.chain) :
       /\ v.chain[n].fork <= fork
       /\ v.chain[n].fork = fork => n <= Len(chain) /\ chain[n].fork = fork
       /\ n <= Len(chain) /\ v.chain[n].fork = chain[n].fork => SamePrefix(v.chain, chain, n)

Forks ==
  /\ \A n \in 1..Len(chain) : chain[n].fork <= fork
  /\ \A p \in Correct : Follows(view[p])

IsFinal(b) == b.number \in 0..final /\ b = Identity(chain, b.number)

\* What a notification q of a transaction has established at each await.
HasFinal(t, q) == q.phase \in {"state", "probe"} \/ (Kind[t] = "mint" /\ q.phase = "receipt")
HasProof(t, q) == Kind[t] = "mint" /\ q.phase \in {"receipt", "probe"}

Evidence(t, q) ==
  /\ HasFinal(t, q) => IsFinal(q.final[1])
  /\ HasProof(t, q) => t \in BridgeState(chain, final).processed
  /\ q.phase = "checkpoint" =>
       /\ q.checkpoint \in Nat
       /\ \E p \in Correct : p \in q.eligible
       /\ \A p \in Correct : p \in q.eligible => view[p].final >= q.checkpoint

NotificationInv == ChainShape /\ Forks /\ RecordedIsFinal /\ \A t \in Txs : Evidence(t, proc[t])

----------------------------------------------------------------------------
(* Chains and what the bridge holds after a prefix of one *)

LEMMA ExecutedSame ==
  ASSUME NEW c, NEW d, NEW n \in Nat, NEW k, SamePrefix(c, d, n)
  PROVE  Executed(c, n, k) = Executed(d, n, k)
  BY Zenon DEF Executed, SamePrefix

\* The state depends on the prefix only.
LEMMA StateSame ==
  ASSUME NEW c, NEW d, NEW n \in Nat, SamePrefix(c, d, n)
  PROVE  BridgeState(c, n) = BridgeState(d, n)
  <1>1. Executed(c, n, "withdrawal") = Executed(d, n, "withdrawal")
    BY ExecutedSame
  <1>2. Executed(c, n, "mint") = Executed(d, n, "mint")
    BY ExecutedSame
  <1>3. \A m \in 1..n : c[m] = d[m]
    BY Zenon DEF SamePrefix
  <1>4. ASSUME NEW m \in 1..n PROVE WithdrawalId(c, m) = WithdrawalId(d, m)
    <2>1. m \in Nat /\ SamePrefix(c, d, m)
      BY <1>3 DEF SamePrefix
    <2>2. Executed(c, m, "withdrawal") = Executed(d, m, "withdrawal")
      BY <2>1, ExecutedSame
    <2> QED BY <2>2, Zenon DEF WithdrawalId
  <1> DEFINE Entry(e, m) == [id |-> WithdrawalId(e, m), payload |-> Payload[e[m].tx]]
  <1>5. \A m \in 1..n : Entry(c, m) = Entry(d, m)
    BY <1>3, <1>4, Zenon
  <1>6. \A k, m : m \in Executed(d, n, k) => m \in 1..n
    BY Zenon DEF Executed
  <1> HIDE DEF Entry
  <1>7. {Entry(c, m) : m \in Executed(c, n, "withdrawal")} = {Entry(d, m) : m \in Executed(d, n, "withdrawal")}
    BY <1>1, <1>5, <1>6, Zenon
  <1>8. {c[m].tx : m \in Executed(c, n, "mint")} = {d[m].tx : m \in Executed(d, n, "mint")}
    BY <1>2, <1>3, <1>6, Zenon
  <1> QED BY <1>7, <1>8, Zenon DEF BridgeState, Entry

\* A longer prefix holds everything that a shorter one does.
LEMMA StateGrows ==
  ASSUME NEW c, NEW n \in Nat, NEW m \in Nat, n <= m
  PROVE  /\ BridgeState(c, n).withdrawals \subseteq BridgeState(c, m).withdrawals
         /\ BridgeState(c, n).processed \subseteq BridgeState(c, m).processed
  <1>1. \A k : Executed(c, n, k) \subseteq Executed(c, m, k)
    BY DEF Executed
  <1> QED BY <1>1, Zenon DEF BridgeState

\* While the finalized part stays and grows, so do final blocks and the state.
LEMMA FinalStays ==
  ASSUME ChainShape, SamePrefix(chain, chain', final), final' \in Nat, final <= final'
  PROVE  /\ \A b : IsFinal(b) => IsFinal(b)'
         /\ BridgeState(chain, final).withdrawals \subseteq BridgeState(chain, final)'.withdrawals
         /\ BridgeState(chain, final).processed \subseteq BridgeState(chain, final)'.processed
  <1>0. final \in Nat
    BY Zenon DEF ChainShape
  <1>1. ASSUME NEW b, IsFinal(b) PROVE IsFinal(b)'
    <2>1. b.number \in 0..final /\ b = Identity(chain, b.number) /\ b.number \in 0..final'
      BY <1>0, <1>1 DEF IsFinal
    <2>2. Identity(chain, b.number) = Identity(chain', b.number)
      BY <1>0, <2>1 DEF Identity, SamePrefix
    <2> QED BY <2>1, <2>2, Zenon DEF IsFinal, Identity
  <1>2. BridgeState(chain, final) = BridgeState(chain', final)
    BY <1>0, StateSame, Zenon
  <1>3. /\ BridgeState(chain', final).withdrawals \subseteq BridgeState(chain', final').withdrawals
        /\ BridgeState(chain', final).processed \subseteq BridgeState(chain', final').processed
    BY <1>0, StateGrows, Zenon
  <1>4. BridgeState(chain, final)' = BridgeState(chain', final')
    BY Zenon DEF BridgeState, Executed, WithdrawalId
  <1> QED BY <1>1, <1>2, <1>3, <1>4, Zenon

----------------------------------------------------------------------------
(* Quorums *)

\* Two providers that agree are not both faulty.
LEMMA Quorum ==
  ASSUME NEW P \in SUBSET Providers, Cardinality(P) >= 2
  PROVE  \E p \in Correct : p \in P
  <1>1. SUFFICES ASSUME P \subseteq Faulty PROVE FALSE
    BY Zenon DEF Correct
  <1>2. IsFiniteSet(Faulty)
    BY ObservationAssumption, FS_Subset, Zenon
  <1>3. Cardinality(P) <= Cardinality(Faulty) /\ Cardinality(P) \in Nat /\ Cardinality(Faulty) \in Nat
    BY <1>1, <1>2, FS_Subset, FS_CardinalityType, Zenon
  <1> QED BY <1>3, ObservationAssumption

\* So the value of a quorum is the answer of a correct provider.
LEMMA QuorumValue ==
  ASSUME NEW a, ExactQuorum(a) # <<>>
  PROVE  \E p \in Correct : a[p] = ExactQuorum(a)
  <1>1. PICK q \in Providers : ExactQuorum(a) = a[q] /\ Agreed(a, a[q])
    BY Zenon DEF ExactQuorum
  <1> DEFINE P == {p \in Providers : a[p] = a[q]}
  <1>2. P \in SUBSET Providers /\ Cardinality(P) >= 2
    BY <1>1, Zenon DEF Agreed
  <1>3. \E p \in Correct : p \in P
    BY <1>2, Quorum, Zenon
  <1> QED BY <1>1, <1>3, Zenon

\* A correct provider that answers gives the honest answer.
LEMMA HonestAnswer ==
  ASSUME NEW honest, NEW wrong, NEW a \in Answers(honest, wrong), NEW p \in Correct, a[p] # <<>>
  PROVE  a[p] = honest[p]
  BY DEF Answers, Correct

LEMMA HonestResult ==
  ASSUME NEW honest, NEW r \in Results(honest), r # <<>>
  PROVE  \E p \in Correct : r = honest[p]
  <1>1. PICK a \in Answers(honest, {}) : r = ExactQuorum(a)
    BY Zenon DEF Results
  <1>2. PICK p \in Correct : a[p] = r
    BY <1>1, QuorumValue, Zenon
  <1> QED BY <1>2, HonestAnswer, Zenon

----------------------------------------------------------------------------
(* The common checkpoint *)

LEMMA Least ==
  ASSUME NEW T \in SUBSET Nat, T # {}
  PROVE  \E x \in T : \A y \in T : x <= y
  <1>1. PICK x \in T : \A y \in T : ~(<<y, x>> \in OpToRel(<, Nat))
    BY NatLessThanWellFounded, WFMin, Zenon
  <1>2. ASSUME NEW y \in T PROVE x <= y
    <2>1. ~(<<y, x>> \in OpToRel(<, Nat))
      BY <1>1, Zenon
    <2>2. ~(y < x)
      BY <2>1, Zenon DEF OpToRel
    <2> QED BY <2>2
  <1> QED BY <1>2, Zenon

LEMMA Greatest ==
  ASSUME NEW n \in Nat, NEW T \in SUBSET (0..n), T # {}
  PROVE  Max(T) \in T
  <1> DEFINE U == {n - x : x \in T}
  <1>1. U \in SUBSET Nat /\ U # {}
    <2>1. \A x \in T : x \in 0..n /\ n - x \in Nat
      OBVIOUS
    <2>2. PICK x \in T : TRUE
      BY Zenon
    <2>3. n - x \in U
      BY Zenon
    <2> QED BY <2>1, <2>3, Zenon
  <1>2. PICK u \in U : \A v \in U : u <= v
    BY <1>1, Least, Zenon
  <1>3. PICK x \in T : u = n - x
    BY Zenon
  <1>4. \A y \in T : n - x <= n - y
    BY <1>2, <1>3, Zenon
  <1>5. \A y \in T : x >= y
    BY <1>4
  <1> QED BY <1>5, Zenon DEF Max

\* The height that two heads have reached.
LEMMA Checkpoint ==
  ASSUME ChainShape, Forks,
         NEW a \in Answers([p \in Correct |-> FinalizedHead(p)], AnyBlock),
         Cardinality(Answered(a)) >= 2
  PROVE  /\ CommonCheckpoint(a) \in Nat
         /\ Cardinality(Reached(a, CommonCheckpoint(a))) >= 2
  <1> DEFINE H(p) == a[p][1].number
             Q == {q \in Answered(a) : Cardinality(Reached(a, H(q))) >= 2}
             S == {H(p) : p \in Q}
  <1>1. ASSUME NEW p \in Correct PROVE FinalizedHead(p)[1].number \in 0..MaxHeight
    <2>1. view[p].final \in Nat /\ view[p].final <= MaxHeight /\ MaxHeight \in Nat
      <3>1. view[p] \in View /\ Follows(view[p])
        BY Zenon DEF ChainShape, Forks
      <3> QED BY <3>1, ObservationAssumption DEF View, Follows, ChainShape
    <2> QED BY <2>1 DEF FinalizedHead, Identity
  <1>2. ASSUME NEW p \in Answered(a) PROVE H(p) \in 0..MaxHeight
    <2>0. p \in Providers /\ a[p] # <<>>
      BY Zenon DEF Answered
    <2>1. CASE p \in Correct
      <3>1. a[p] = FinalizedHead(p)
        BY <2>0, <2>1, HonestAnswer, Zenon
      <3> QED BY <1>1, <2>1, <3>1, Zenon
    <2>2. CASE p \in Faulty
      <3>1. a[p] \in AnyBlock \cup Range([q \in Correct |-> FinalizedHead(q)])
        BY <2>0, <2>2 DEF Answers
      <3>2. CASE a[p] \in AnyBlock
        BY <3>2 DEF AnyBlock
      <3>3. CASE a[p] \in Range([q \in Correct |-> FinalizedHead(q)])
        <4>1. PICK q \in Correct : a[p] = FinalizedHead(q)
          BY <3>3, Zenon DEF Range
        <4> QED BY <1>1, <4>1, Zenon
      <3> QED BY <3>1, <3>2, <3>3, Zenon
    <2> QED BY <2>0, <2>1, <2>2, Zenon DEF Correct
  <1> HIDE DEF H
  <1>3. Answered(a) # {}
    BY FS_EmptySet
  <1>4. PICK p \in Answered(a) : \A q \in Answered(a) : H(p) <= H(q)
    <2> DEFINE T == {H(q) : q \in Answered(a)}
    <2>1. T \in SUBSET Nat /\ T # {}
      BY <1>2, <1>3
    <2>2. PICK x \in T : \A y \in T : x <= y
      BY <2>1, Least, Zenon
    <2> QED BY <2>2, Zenon
  <1>5. Reached(a, H(p)) = Answered(a)
    BY <1>2, <1>4, Zenon DEF Reached, H
  <1>6. p \in Q
    BY <1>4, <1>5, Zenon
  <1>7. S \in SUBSET (0..MaxHeight) /\ S # {} /\ MaxHeight \in Nat
    BY <1>2, <1>6, ObservationAssumption, Zenon
  <1>8. Max(S) \in S
    BY <1>7, Greatest, Zenon
  <1>9. CommonCheckpoint(a) = Max(S)
    BY Zenon DEF CommonCheckpoint, H
  <1>10. PICK q \in Q : CommonCheckpoint(a) = H(q)
    BY <1>8, <1>9, Zenon
  <1> QED BY <1>2, <1>10

----------------------------------------------------------------------------
(* What an answer establishes *)

\* A block that a correct provider shows as finalized is.
LEMMA ShownIsFinal ==
  ASSUME ChainShape, Forks, NEW p \in Correct, NEW n \in Nat, n <= view[p].final
  PROVE  IsFinal(Identity(view[p].chain, n)) /\ n <= Len(view[p].chain)
  <1>1. view[p] \in View /\ Follows(view[p])
    BY Zenon DEF ChainShape, Forks
  <1>2. view[p].final \in Nat /\ view[p].chain \in Seq(Block)
    BY <1>1, Zenon DEF View
  <1>3. n \in 0..final /\ n <= Len(view[p].chain) /\ SamePrefix(view[p].chain, chain, view[p].final)
    BY <1>1, <1>2 DEF Follows, ChainShape
  <1>4. Identity(view[p].chain, n) = Identity(chain, n) /\ Identity(chain, n).number = n
    BY <1>2, <1>3 DEF Identity, SamePrefix
  <1> QED BY <1>3, <1>4, Zenon DEF IsFinal

\* Two equal heads are a final block.
LEMMA HeadIsFinal ==
  ASSUME ChainShape, Forks,
         NEW a \in Answers([p \in Correct |-> FinalizedHead(p)], AnyBlock), ExactQuorum(a) # <<>>
  PROVE  IsFinal(ExactQuorum(a)[1])
  <1>1. PICK p \in Correct : a[p] = ExactQuorum(a)
    BY QuorumValue, Zenon
  <1>2. ExactQuorum(a) = FinalizedHead(p)
    BY <1>1, HonestAnswer, Zenon
  <1>3. view[p].final \in Nat
    BY Zenon DEF ChainShape, View
  <1>4. IsFinal(Identity(view[p].chain, view[p].final))
    BY <1>3, ShownIsFinal
  <1> QED BY <1>2, <1>4 DEF FinalizedHead

\* So is the block at the checkpoint, of three or of two that have reached it.
LEMMA CheckpointIsFinal ==
  ASSUME ChainShape, Forks, NEW e, NEW n \in Nat,
         \E p \in Correct : p \in e, \A p \in Correct : p \in e => view[p].final >= n,
         NEW b \in CheckpointResults(e, n), b # <<>>
  PROVE  IsFinal(b[1])
  <1> DEFINE honest == [p \in Correct |-> BlockByNumber(p, n)]
  <1>1. PICK a \in Answers(honest, AnyBlock) : b = ExactFinalizedBlock(e, n, a)
    BY Zenon DEF CheckpointResults
  <1>2. ASSUME NEW p \in Correct, p \in e, a[p] # <<>> PROVE IsFinal(a[p][1])
    <2>1. a[p] = BlockByNumber(p, n)
      BY <1>2, HonestAnswer
    <2>2. view[p].final \in Nat /\ n <= view[p].final
      BY <1>2, Zenon DEF ChainShape, View
    <2>3. IsFinal(Identity(view[p].chain, n)) /\ n <= Len(view[p].chain)
      BY <2>2, ShownIsFinal, Zenon
    <2> QED BY <2>1, <2>3 DEF BlockByNumber
  <1>3. CASE Answered(a) = Providers /\ \A p, q \in Providers : a[p] = a[q]
    <2>1. PICK p \in Correct : p \in e
      BY Zenon
    <2>2. p \in Providers /\ (CHOOSE q \in Providers : TRUE) \in Providers
      BY Zenon DEF Correct
    <2>3. b = a[CHOOSE q \in Providers : TRUE]
      BY <1>1, <1>3, Zenon DEF ExactFinalizedBlock
    <2>4. b = a[p]
      BY <1>3, <2>2, <2>3, Zenon
    <2> QED BY <1>2, <2>1, <2>4, Zenon
  <1>4. CASE ~(Answered(a) = Providers /\ \A p, q \in Providers : a[p] = a[q])
    <2> DEFINE f == [p \in Providers |-> IF p \in e /\ a[p] # <<>> /\ a[p][1].number = n
                                         THEN a[p] ELSE <<>>]
    <2>1. b = ExactQuorum(f)
      BY <1>1, <1>4, Zenon DEF ExactFinalizedBlock
    <2>2. PICK p \in Correct : f[p] = b
      BY <2>1, QuorumValue, Zenon
    <2>3. p \in Providers
      BY Zenon DEF Correct
    <2>4. p \in e /\ a[p] # <<>> /\ b = a[p]
      BY <2>2, <2>3, Zenon
    <2> QED BY <1>2, <2>4, Zenon
  <1> QED BY <1>3, <1>4, Zenon

\* A call at a final block answers with what the chain holds there.
LEMMA CallIsTrue ==
  ASSUME ChainShape, Forks, NEW b, IsFinal(b),
         NEW v \in Results([p \in Correct |-> CallAt(p, b)]), v # <<>>
  PROVE  /\ v[1].state = BridgeState(chain, b.number)
         /\ v[1].state.withdrawals \subseteq BridgeState(chain, final).withdrawals
         /\ v[1].state.processed \subseteq BridgeState(chain, final).processed
  <1>1. PICK p \in Correct : v = CallAt(p, b)
    BY HonestResult
  <1>2. IsCanonical(view[p].chain, b) /\ v[1].state = BridgeState(view[p].chain, b.number)
    BY <1>1, Zenon DEF CallAt
  <1>3. /\ final \in Nat /\ b.number \in Nat /\ b.number <= final /\ b.number <= Len(chain)
        /\ b = Identity(chain, b.number) /\ Len(chain) \in Nat
    BY DEF IsFinal, ChainShape
  <1>4. view[p].chain \in Seq(Block) /\ Follows(view[p])
    BY Zenon DEF ChainShape, Forks, View
  <1>5. SamePrefix(view[p].chain, chain, b.number)
    <2>1. CASE b.number = 0
      BY <2>1 DEF SamePrefix
    <2>2. CASE b.number # 0
      <3>1. b.number \in 1..Len(view[p].chain)
        BY <1>2, <1>3, <1>4, <2>2 DEF IsCanonical
      <3>2. view[p].chain[b.number].fork = chain[b.number].fork
        BY <1>2, <1>3, <2>2 DEF IsCanonical, Identity
      <3> QED BY <1>3, <1>4, <3>1, <3>2, Zenon DEF Follows
    <2> QED BY <2>1, <2>2, Zenon
  <1>6. v[1].state = BridgeState(chain, b.number)
    BY <1>2, <1>3, <1>5, StateSame, Zenon
  <1> QED BY <1>3, <1>6, StateGrows, Zenon

----------------------------------------------------------------------------
(* Steps of Base *)

\* Base and the providers keep what the canister knows.
LEMMA BaseKeeps ==
  ASSUME NotificationInv, UNCHANGED canister, ChainShape', Forks',
         SamePrefix(chain, chain', final), final <= final',
         \A p \in Correct : view[p].final <= view'[p].final
  PROVE  NotificationInv'
  <1>0. ChainShape /\ Forks /\ RecordedIsFinal /\ \A t \in Txs : Evidence(t, proc[t])
    BY Zenon DEF NotificationInv
  <1>1. UNCHANGED <<proc, records, minted>>
    BY Zenon DEF canister, store
  <1>2. final' \in Nat
    BY Zenon DEF ChainShape
  <1>3. /\ \A b : IsFinal(b) => IsFinal(b)'
        /\ BridgeState(chain, final).withdrawals \subseteq BridgeState(chain, final)'.withdrawals
        /\ BridgeState(chain, final).processed \subseteq BridgeState(chain, final)'.processed
    BY <1>0, <1>2, FinalStays, Zenon
  <1>4. RecordedIsFinal'
    BY <1>0, <1>1, <1>3, Zenon DEF RecordedIsFinal
  <1>5. ASSUME NEW t \in Txs PROVE Evidence(t, proc[t])'
    <2>0. PICK q : q = proc[t]
      BY Zenon
    <2>1. Evidence(t, q) /\ proc'[t] = q
      BY <1>0, <1>1, <2>0, Zenon
    <2>2. ASSUME q.phase = "checkpoint"
          PROVE  \A p \in Correct : p \in q.eligible => view'[p].final >= q.checkpoint
      <3>1. ASSUME NEW p \in Correct, p \in q.eligible PROVE view'[p].final >= q.checkpoint
        <4>1. view[p].final >= q.checkpoint /\ q.checkpoint \in Nat /\ view[p].final <= view'[p].final
          BY <2>1, <2>2, <3>1, Zenon DEF Evidence
        <4>2. view[p].final \in Nat /\ view'[p].final \in Nat
          BY <1>0, Zenon DEF ChainShape, View
        <4> QED BY <4>1, <4>2
      <3> QED BY <3>1, Zenon
    <2>3. HasFinal(t, q) => IsFinal(q.final[1])'
      <3>1. HasFinal(t, q) => IsFinal(q.final[1])
        BY <2>1, Zenon DEF Evidence
      <3> QED BY <1>3, <3>1, Zenon
    <2>4. HasProof(t, q) => t \in BridgeState(chain, final)'.processed
      BY <1>3, <2>1, Zenon DEF Evidence
    <2> QED BY <2>1, <2>2, <2>3, <2>4, Zenon DEF Evidence, HasFinal, HasProof
  <1> QED BY <1>0, <1>4, <1>5, Zenon DEF NotificationInv

LEMMA MineStep ==
  ASSUME NotificationInv, NEW t \in Txs, NEW ok \in BOOLEAN, Mine(t, ok), UNCHANGED canister
  PROVE  NotificationInv'
  <1> DEFINE blk == [fork |-> fork, tx |-> t, ok |-> ok]
  <1>0. ChainShape /\ Forks
    BY Zenon DEF NotificationInv
  <1>1. /\ chain' = Append(chain, blk) /\ UNCHANGED <<final, fork, view, proc, records>>
        /\ Len(chain) < MaxHeight
    BY Zenon DEF Mine, canister, store
  <1>2. /\ chain \in Seq(Block) /\ blk \in Block /\ Len(chain) \in Nat /\ final \in Nat /\ final <= Len(chain)
        /\ fork \in Nat /\ MaxHeight \in Nat
    BY <1>0, ObservationAssumption DEF ChainShape, Block
  <1>3. /\ chain' \in Seq(Block) /\ Len(chain') = Len(chain) + 1
        /\ \A n \in 1..Len(chain) : chain'[n] = chain[n]
        /\ chain'[Len(chain) + 1].fork = fork
    BY <1>1, <1>2
  <1>4. ChainShape'
    BY <1>0, <1>1, <1>2, <1>3 DEF ChainShape
  <1>5. ASSUME NEW p \in Correct PROVE Follows(view[p])'
    <2>0. PICK v : v = view[p]
      BY Zenon
    <2>1. Follows(v) /\ v.final \in Nat /\ v.chain \in Seq(Block) /\ Len(v.chain) \in Nat /\ view'[p] = v
      BY <1>0, <1>1, <2>0 DEF ChainShape, Forks, View
    <2>2. v.final <= final' /\ v.final <= Len(v.chain) /\ Len(v.chain) <= MaxHeight
      BY <1>1, <2>1, Zenon DEF Follows
    <2>3. SamePrefix(v.chain, chain', v.final)
      BY <1>2, <1>3, <2>1 DEF Follows, SamePrefix
    <2>4. ASSUME NEW n \in 1..Len(v.chain)
          PROVE  /\ v.chain[n].fork <= fork'
                 /\ v.chain[n].fork = fork' => n <= Len(chain') /\ chain'[n].fork = fork'
                 /\ n <= Len(chain') /\ v.chain[n].fork = chain'[n].fork => SamePrefix(v.chain, chain', n)
      <3>1. /\ v.chain[n].fork <= fork
            /\ v.chain[n].fork = fork => n <= Len(chain) /\ chain[n].fork = fork
            /\ n <= Len(chain) /\ v.chain[n].fork = chain[n].fork => SamePrefix(v.chain, chain, n)
        BY <2>1, Zenon DEF Follows
      <3>2. v.chain[n].fork = fork' => n <= Len(chain') /\ chain'[n].fork = fork'
        BY <1>1, <1>2, <1>3, <2>1, <3>1
      <3>3. ASSUME n <= Len(chain'), v.chain[n].fork = chain'[n].fork PROVE SamePrefix(v.chain, chain', n)
        <4>1. n <= Len(chain)
          BY <1>2, <1>3, <2>1, <3>1, <3>3
        <4>2. SamePrefix(v.chain, chain, n)
          BY <1>3, <2>1, <3>1, <3>3, <4>1
        <4>3. \A m \in 1..n : m \in 1..Len(chain)
          BY <1>2, <2>1, <4>1
        <4> QED BY <1>3, <4>2, <4>3, Zenon DEF SamePrefix
      <3> QED BY <1>1, <3>1, <3>2, <3>3, Zenon
    <2> QED BY <2>1, <2>2, <2>3, <2>4, Zenon DEF Follows, SamePrefix
  <1>6. \A n \in 1..Len(chain') : chain'[n].fork <= fork'
    BY <1>0, <1>1, <1>2, <1>3 DEF Forks
  <1>7. Forks'
    BY <1>1, <1>5, <1>6, Zenon DEF Forks
  <1>8. SamePrefix(chain, chain', final) /\ final <= final'
    BY <1>1, <1>2, <1>3 DEF SamePrefix
  <1>9. \A p \in Correct : view[p].final <= view'[p].final
    BY <1>0, <1>1 DEF ChainShape, View
  <1> QED BY <1>4, <1>7, <1>8, <1>9, BaseKeeps, Zenon

LEMMA ReorganiseStep ==
  ASSUME NotificationInv, NEW k \in 0..MaxHeight, Reorganise(k), UNCHANGED canister
  PROVE  NotificationInv'
  <1>0. ChainShape /\ Forks
    BY Zenon DEF NotificationInv
  <1>1. /\ chain' = SubSeq(chain, 1, k) /\ fork' = fork + 1 /\ UNCHANGED <<final, view, proc, records>>
        /\ k \in final..(Len(chain) - 1)
    BY Zenon DEF Reorganise, canister, store
  <1>2. /\ chain \in Seq(Block) /\ Len(chain) \in Nat /\ final \in Nat /\ final <= Len(chain)
        /\ fork \in Nat /\ k \in Nat /\ Len(chain) <= MaxHeight /\ MaxHeight \in Nat
    BY <1>0, ObservationAssumption DEF ChainShape
  <1>3. /\ chain' \in Seq(Block) /\ Len(chain') = k /\ k <= Len(chain) /\ final <= k
        /\ \A n \in 1..k : chain'[n] = chain[n]
    BY <1>1, <1>2
  <1>4. ChainShape'
    BY <1>0, <1>1, <1>2, <1>3 DEF ChainShape
  <1>5. ASSUME NEW p \in Correct PROVE Follows(view[p])'
    <2>0. PICK v : v = view[p]
      BY Zenon
    <2>1. Follows(v) /\ v.final \in Nat /\ v.chain \in Seq(Block) /\ Len(v.chain) \in Nat /\ view'[p] = v
      BY <1>0, <1>1, <2>0 DEF ChainShape, Forks, View
    <2>2. v.final <= final' /\ v.final <= Len(v.chain) /\ Len(v.chain) <= MaxHeight /\ v.final <= k
      BY <1>1, <1>2, <1>3, <2>1 DEF Follows
    <2>3. SamePrefix(v.chain, chain', v.final)
      BY <1>2, <1>3, <2>1, <2>2 DEF Follows, SamePrefix
    <2>4. ASSUME NEW n \in 1..Len(v.chain)
          PROVE  /\ v.chain[n].fork <= fork'
                 /\ v.chain[n].fork = fork' => n <= Len(chain') /\ chain'[n].fork = fork'
                 /\ n <= Len(chain') /\ v.chain[n].fork = chain'[n].fork => SamePrefix(v.chain, chain', n)
      <3>1. /\ v.chain[n].fork <= fork
            /\ n <= Len(chain) /\ v.chain[n].fork = chain[n].fork => SamePrefix(v.chain, chain, n)
        BY <2>1, Zenon DEF Follows
      <3>2. v.chain[n].fork \in Nat
        <4>1. v.chain[n] \in Block
          BY <2>1
        <4> QED BY <4>1, Zenon DEF Block
      <3>3. v.chain[n].fork <= fork' /\ v.chain[n].fork # fork'
        BY <1>1, <1>2, <3>1, <3>2
      <3>4. ASSUME n <= Len(chain'), v.chain[n].fork = chain'[n].fork PROVE SamePrefix(v.chain, chain', n)
        <4>1. n <= k /\ n <= Len(chain) /\ chain'[n] = chain[n]
          BY <1>2, <1>3, <2>1, <3>4
        <4>2. SamePrefix(v.chain, chain, n)
          BY <3>1, <3>4, <4>1, Zenon
        <4> QED BY <1>2, <1>3, <2>1, <4>1, <4>2 DEF SamePrefix
      <3> QED BY <3>3, <3>4, Zenon
    <2> QED BY <2>1, <2>2, <2>3, <2>4, Zenon DEF Follows, SamePrefix
  <1>6. \A n \in 1..Len(chain') : chain'[n].fork <= fork'
    <2>1. ASSUME NEW n \in 1..Len(chain') PROVE chain'[n].fork <= fork'
      <3>1. n \in 1..Len(chain) /\ chain'[n] = chain[n]
        BY <1>2, <1>3
      <3>2. chain[n].fork <= fork /\ chain[n].fork \in Nat
        <4>1. chain[n] \in Block
          BY <1>2, <3>1
        <4>2. chain[n].fork <= fork
          BY <1>0, <3>1, Zenon DEF Forks
        <4> QED BY <4>1, <4>2, Zenon DEF Block
      <3> QED BY <1>1, <1>2, <3>1, <3>2
    <2> QED BY <2>1, Zenon
  <1>7. Forks'
    BY <1>1, <1>5, <1>6, Zenon DEF Forks
  <1>8. SamePrefix(chain, chain', final) /\ final <= final'
    BY <1>1, <1>2, <1>3 DEF SamePrefix
  <1>9. \A p \in Correct : view[p].final <= view'[p].final
    BY <1>0, <1>1 DEF ChainShape, View
  <1> QED BY <1>4, <1>7, <1>8, <1>9, BaseKeeps, Zenon

LEMMA FinalizeStep ==
  ASSUME NotificationInv, Finalize, UNCHANGED canister
  PROVE  NotificationInv'
  <1>0. ChainShape /\ Forks
    BY Zenon DEF NotificationInv
  <1>1. /\ final < Len(chain) /\ final' = final + 1 /\ UNCHANGED <<chain, fork, view, proc, records>>
    BY Zenon DEF Finalize, canister, store
  <1>2. chain \in Seq(Block) /\ Len(chain) \in Nat /\ final \in Nat
    BY <1>0 DEF ChainShape
  <1>3. ChainShape'
    BY <1>0, <1>1, <1>2 DEF ChainShape
  <1>4. ASSUME NEW p \in Correct PROVE Follows(view[p])'
    <2>0. PICK v : v = view[p]
      BY Zenon
    <2>1. Follows(v) /\ v.final \in Nat /\ view'[p] = v
      BY <1>0, <1>1, <2>0, Zenon DEF ChainShape, Forks, View
    <2>2. v.final <= final'
      BY <1>1, <1>2, <2>1 DEF Follows
    <2> QED BY <1>1, <2>1, <2>2, Zenon DEF Follows, SamePrefix
  <1>5. Forks'
    BY <1>0, <1>1, <1>4, Zenon DEF Forks
  <1>6. SamePrefix(chain, chain', final) /\ final <= final'
    BY <1>1, <1>2 DEF SamePrefix
  <1>7. \A p \in Correct : view[p].final <= view'[p].final
    BY <1>0, <1>1 DEF ChainShape, View
  <1> QED BY <1>3, <1>5, <1>6, <1>7, BaseKeeps, Zenon

LEMMA SyncStep ==
  ASSUME NotificationInv, NEW p \in Correct, NEW k \in 0..MaxHeight, ProviderSyncs(p, k), UNCHANGED canister
  PROVE  NotificationInv'
  <1>0. ChainShape /\ Forks
    BY Zenon DEF NotificationInv
  <1>1. /\ k \in view[p].final..final /\ UNCHANGED <<chain, final, fork, proc, records>>
        /\ view' = [view EXCEPT ![p] = [chain |-> chain, final |-> k]]
    BY Zenon DEF ProviderSyncs, canister, store
  <1>2. /\ chain \in Seq(Block) /\ Len(chain) \in Nat /\ final \in Nat /\ final <= Len(chain)
        /\ k \in Nat /\ view[p].final <= k /\ k <= final /\ Len(chain) <= MaxHeight
    BY <1>0, <1>1 DEF ChainShape, View
  <1>3. /\ view' \in [Correct -> View] /\ view'[p] = [chain |-> chain, final |-> k]
        /\ \A q \in Correct : q # p => view'[q] = view[q]
    BY <1>0, <1>1, <1>2, Zenon DEF ChainShape, View
  <1>4. ChainShape'
    BY <1>0, <1>1, <1>3, Zenon DEF ChainShape
  <1>5. ASSUME NEW q \in Correct PROVE Follows(view[q])'
    <2>1. CASE q = p
      <3>0. PICK v : v = view'[q]
        BY Zenon
      <3>1. v.chain = chain /\ v.final = k
        BY <1>3, <2>1, <3>0
      <3>2. \A n \in 1..Len(chain) : chain[n].fork <= fork
        BY <1>0, Zenon DEF Forks
      <3> QED BY <1>1, <1>2, <3>0, <3>1, <3>2 DEF Follows, SamePrefix
    <2>2. CASE q # p
      <3>0. PICK v : v = view[q]
        BY Zenon
      <3>1. Follows(v) /\ view'[q] = v
        BY <1>0, <1>3, <2>2, <3>0, Zenon DEF Forks
      <3> QED BY <1>1, <3>1, Zenon DEF Follows, SamePrefix
    <2> QED BY <2>1, <2>2, Zenon
  <1>6. Forks'
    BY <1>0, <1>1, <1>5, Zenon DEF Forks
  <1>7. SamePrefix(chain, chain', final) /\ final <= final'
    BY <1>1, <1>2 DEF SamePrefix
  <1>8. ASSUME NEW q \in Correct PROVE view[q].final <= view'[q].final
    <2>1. CASE q = p
      BY <1>2, <1>3, <2>1
    <2>2. CASE q # p
      <3>1. view'[q] = view[q] /\ view[q].final \in Nat
        BY <1>0, <1>3, <2>2, Zenon DEF ChainShape, View
      <3> QED BY <3>1
    <2> QED BY <2>1, <2>2, Zenon
  <1> QED BY <1>4, <1>6, <1>7, <1>8, BaseKeeps, Zenon

----------------------------------------------------------------------------
(* Steps of a notification *)

LEMMA BaseSame ==
  ASSUME UNCHANGED baseVars
  PROVE  /\ UNCHANGED <<chain, final, fork, view>>
         /\ BridgeState(chain, final)' = BridgeState(chain, final)
         /\ \A b : IsFinal(b)' <=> IsFinal(b)
         /\ Forks' <=> Forks
  <1>1. UNCHANGED <<chain, final, fork, view>>
    BY Zenon DEF baseVars
  <1>2. BridgeState(chain, final)' = BridgeState(chain, final)
    BY <1>1, Zenon DEF BridgeState, Executed, WithdrawalId
  <1>3. \A b : IsFinal(b)' <=> IsFinal(b)
    BY <1>1, Zenon DEF IsFinal, Identity
  <1>4. Forks' <=> Forks
    BY <1>1, Zenon DEF Forks, Follows, SamePrefix
  <1> QED BY <1>1, <1>2, <1>3, <1>4, Zenon

\* A notification moves on with evidence for where it is then.
LEMMA Moves ==
  ASSUME NotificationInv, UNCHANGED baseVars, NEW t \in Txs, NEW q, Evidence(t, q),
         proc' = [proc EXCEPT ![t] = q], DOMAIN records' = Ids, RecordedIsFinal'
  PROVE  NotificationInv'
  <1>0. ChainShape /\ Forks /\ \A s \in Txs : Evidence(s, proc[s])
    BY Zenon DEF NotificationInv
  <1>1. /\ UNCHANGED <<chain, final, fork, view>>
        /\ BridgeState(chain, final)' = BridgeState(chain, final)
        /\ \A b : IsFinal(b)' <=> IsFinal(b)
        /\ Forks'
    BY <1>0, BaseSame, Zenon
  <1>2. DOMAIN proc = Txs /\ DOMAIN proc' = Txs
    BY <1>0, Zenon DEF ChainShape
  <1>3. ChainShape'
    BY <1>0, <1>1, <1>2, Zenon DEF ChainShape
  <1>4. ASSUME NEW s \in Txs PROVE Evidence(s, proc[s])'
    <2>0. PICK r : r = proc'[s]
      BY Zenon
    <2>1. Evidence(s, r)
      <3>1. CASE s = t
        BY <1>2, <2>0, <3>1, Zenon
      <3>2. CASE s # t
        BY <1>0, <1>2, <2>0, <3>2, Zenon
      <3> QED BY <3>1, <3>2, Zenon
    <2>2. HasFinal(s, r) => IsFinal(r.final[1])'
      BY <1>1, <2>1, Zenon DEF Evidence
    <2>3. HasProof(s, r) => s \in BridgeState(chain, final)'.processed
      BY <1>1, <2>1, Zenon DEF Evidence
    <2> QED BY <1>1, <2>0, <2>1, <2>2, <2>3, Zenon DEF Evidence, HasFinal, HasProof
  <1> QED BY <1>1, <1>3, <1>4, Zenon DEF NotificationInv

\* The store stays as it is.
LEMMA ProcContinues ==
  ASSUME NotificationInv, UNCHANGED baseVars, UNCHANGED store, NEW t \in Txs, NEW q, Evidence(t, q),
         proc' = [proc EXCEPT ![t] = q]
  PROVE  NotificationInv'
  <1>1. UNCHANGED <<records, minted>> /\ BridgeState(chain, final)' = BridgeState(chain, final)
    BY BaseSame, Zenon DEF store
  <1>2. RecordedIsFinal'
    BY <1>1, Zenon DEF RecordedIsFinal, NotificationInv
  <1>3. DOMAIN records' = Ids
    BY <1>1, Zenon DEF NotificationInv, ChainShape
  <1> QED BY <1>2, <1>3, Moves, Zenon

LEMMA Rejects ==
  ASSUME NotificationInv, UNCHANGED baseVars, NEW t \in Txs, Rejected(t)
  PROVE  NotificationInv'
  <1>1. Evidence(t, Idle)
    BY Zenon DEF Evidence, Idle, Awaits, HasFinal, HasProof
  <1>2. proc' = [proc EXCEPT ![t] = Idle] /\ UNCHANGED store
    BY Zenon DEF Rejected, Ends
  <1> QED BY <1>1, <1>2, ProcContinues, Zenon

LEMMA NotifyStep ==
  ASSUME NotificationInv, NEW t \in Txs, Notify(t)
  PROVE  NotificationInv'
  <1>1. /\ proc' = [proc EXCEPT ![t] = Awaits(FirstPhase(t), <<>>, <<>>)]
        /\ UNCHANGED baseVars /\ UNCHANGED store
    BY Zenon DEF Notify
  <1>2. Evidence(t, Awaits(FirstPhase(t), <<>>, <<>>))
    BY Zenon DEF Evidence, HasFinal, HasProof, FirstPhase, Awaits
  <1> QED BY <1>1, <1>2, ProcContinues, Zenon

\* The receipt and a final block are in hand.
LEMMA CorrelatedStep ==
  ASSUME NotificationInv, NEW t \in Txs, NEW r, NEW b, Correlated(t, r, b), UNCHANGED baseVars,
         IsFinal(b), Kind[t] = "mint" => t \in BridgeState(chain, final).processed
  PROVE  NotificationInv'
  <1>1. CASE Rejected(t)
    BY <1>1, Rejects, Zenon
  <1>2. CASE Continue(t, Awaits("probe", <<r>>, <<b>>))
    <2>1. Evidence(t, Awaits("probe", <<r>>, <<b>>))
      BY Zenon DEF Evidence, HasFinal, HasProof, Awaits
    <2> QED BY <1>2, <2>1, ProcContinues, Zenon DEF Continue
  <1> QED BY <1>1, <1>2, Zenon DEF Correlated

LEMMA FinalizedStep ==
  ASSUME NotificationInv, NEW t \in Txs, NEW b, Finalized(t, b), UNCHANGED baseVars, IsFinal(b)
  PROVE  NotificationInv'
  <1>1. CASE Kind[t] = "withdrawal"
    <2>1. Correlated(t, proc[t].receipt[1], b)
      BY <1>1, Zenon DEF Finalized
    <2> QED BY <1>1, <2>1, CorrelatedStep, Zenon
  <1>2. CASE Kind[t] # "withdrawal"
    <2>1. Continue(t, Awaits("state", <<>>, <<b>>))
      BY <1>2, Zenon DEF Finalized
    <2>2. Evidence(t, Awaits("state", <<>>, <<b>>))
      BY <1>2, ObservationAssumption, Zenon DEF Evidence, HasFinal, HasProof, Awaits
    <2> QED BY <2>1, <2>2, ProcContinues, Zenon DEF Continue
  <1> QED BY <1>1, <1>2, Zenon

LEMMA ReceiptStep ==
  ASSUME NotificationInv, NEW t \in Txs, ReceiptAnswers(t)
  PROVE  NotificationInv'
  <1>0. proc[t].phase = "receipt" /\ UNCHANGED baseVars /\ Evidence(t, proc[t])
    BY Zenon DEF ReceiptAnswers, Asks, NotificationInv
  <1>1. PICK r : IF r = <<>> THEN Rejected(t)
                 ELSE IF r[1] = <<>> THEN Rejected(t)
                 ELSE IF Kind[t] = "mint" THEN Correlated(t, r[1][1], proc[t].final[1])
                 ELSE Continue(t, Awaits("head", r[1], <<>>))
    BY Zenon DEF ReceiptAnswers
  <1>2. CASE Rejected(t)
    BY <1>0, <1>2, Rejects, Zenon
  <1>3. CASE Kind[t] = "mint" /\ Correlated(t, r[1][1], proc[t].final[1])
    <2>1. IsFinal(proc[t].final[1]) /\ t \in BridgeState(chain, final).processed
      BY <1>0, <1>3, Zenon DEF Evidence, HasFinal, HasProof
    <2> QED BY <1>0, <1>3, <2>1, CorrelatedStep, Zenon
  <1>4. CASE Continue(t, Awaits("head", r[1], <<>>))
    <2>1. Evidence(t, Awaits("head", r[1], <<>>))
      BY Zenon DEF Evidence, HasFinal, HasProof, Awaits
    <2> QED BY <1>0, <1>4, <2>1, ProcContinues, Zenon DEF Continue
  <1> QED BY <1>1, <1>2, <1>3, <1>4, Zenon

LEMMA HeadStep ==
  ASSUME NotificationInv, NEW t \in Txs, HeadAnswers(t)
  PROVE  NotificationInv'
  <1>0. ChainShape /\ Forks /\ UNCHANGED baseVars /\ Evidence(t, proc[t])
    BY Zenon DEF HeadAnswers, Asks, NotificationInv
  <1>1. PICK a \in Answers([p \in Correct |-> FinalizedHead(p)], AnyBlock) :
          LET h == HeadResult(a) IN
          IF h.block # <<>> THEN Finalized(t, h.block[1])
          ELSE IF h.eligible # {}
          THEN Continue(t, AwaitsCheckpoint(proc[t].receipt, h.checkpoint, h.eligible))
          ELSE Rejected(t)
    BY Zenon DEF HeadAnswers
  <1>2. CASE Rejected(t)
    BY <1>0, <1>2, Rejects, Zenon
  <1>3. CASE ExactQuorum(a) # <<>>
    <2>1. HeadResult(a).block = ExactQuorum(a)
      BY <1>3, Zenon DEF HeadResult
    <2>2. Finalized(t, ExactQuorum(a)[1])
      BY <1>1, <1>3, <2>1, Zenon
    <2>3. IsFinal(ExactQuorum(a)[1])
      BY <1>0, <1>3, HeadIsFinal, Zenon
    <2> QED BY <1>0, <2>2, <2>3, FinalizedStep, Zenon
  <1>4. CASE ExactQuorum(a) = <<>> /\ Cardinality(Answered(a)) < 2
    <2>1. HeadResult(a).block = <<>> /\ HeadResult(a).eligible = {}
      BY <1>4, Zenon DEF HeadResult
    <2>2. Rejected(t)
      BY <1>1, <2>1, Zenon
    <2> QED BY <1>2, <2>2, Zenon
  <1>5. CASE ExactQuorum(a) = <<>> /\ ~(Cardinality(Answered(a)) < 2)
    <2> DEFINE n == CommonCheckpoint(a)
               e == Reached(a, n)
               q == AwaitsCheckpoint(proc[t].receipt, n, e)
    <2>1. HeadResult(a).block = <<>> /\ HeadResult(a).checkpoint = n /\ HeadResult(a).eligible = e
      BY <1>5, Zenon DEF HeadResult
    <2>2. Rejected(t) \/ Continue(t, q)
      BY <1>1, <2>1, Zenon
    <2>3. Answered(a) \subseteq Providers /\ e \subseteq Answered(a)
      BY Zenon DEF Answered, Reached
    <2>4. Cardinality(Answered(a)) >= 2
      <3>1. IsFiniteSet(Answered(a))
        BY <2>3, ObservationAssumption, FS_Subset, Zenon
      <3>2. Cardinality(Answered(a)) \in Nat
        BY <3>1, FS_CardinalityType, Zenon
      <3> QED BY <1>5, <3>2
    <2>5. n \in Nat /\ Cardinality(e) >= 2
      BY <1>0, <2>4, Checkpoint, Zenon
    <2>6. \E p \in Correct : p \in e
      BY <2>3, <2>5, Quorum, Zenon
    <2>7. ASSUME NEW p \in Correct, p \in e PROVE view[p].final >= n
      <3>1. a[p] # <<>> /\ a[p][1].number >= n
        BY <2>7, Zenon DEF Reached, Answered
      <3>2. a[p] = FinalizedHead(p)
        BY <3>1, HonestAnswer, Zenon
      <3> QED BY <3>1, <3>2 DEF FinalizedHead, Identity
    <2> HIDE DEF n, e
    <2>8. Evidence(t, q)
      BY <2>5, <2>6, <2>7, Zenon DEF Evidence, HasFinal, HasProof, AwaitsCheckpoint
    <2> HIDE DEF q
    <2>9. CASE Continue(t, q)
      BY <1>0, <2>8, <2>9, ProcContinues, Zenon DEF Continue
    <2> QED BY <1>2, <2>2, <2>9, Zenon
  <1> QED BY <1>3, <1>4, <1>5, Zenon

LEMMA CheckpointStep ==
  ASSUME NotificationInv, NEW t \in Txs, CheckpointAnswers(t)
  PROVE  NotificationInv'
  <1>0. ChainShape /\ Forks /\ UNCHANGED baseVars /\ Evidence(t, proc[t]) /\ proc[t].phase = "checkpoint"
    BY Zenon DEF CheckpointAnswers, Asks, NotificationInv
  <1>1. PICK b \in CheckpointResults(proc[t].eligible, proc[t].checkpoint) :
          IF b = <<>> THEN Rejected(t) ELSE Finalized(t, b[1])
    BY Zenon DEF CheckpointAnswers
  <1>2. CASE b = <<>>
    BY <1>0, <1>1, <1>2, Rejects, Zenon
  <1>3. CASE b # <<>>
    <2>1. /\ proc[t].checkpoint \in Nat
          /\ \E p \in Correct : p \in proc[t].eligible
          /\ \A p \in Correct : p \in proc[t].eligible => view[p].final >= proc[t].checkpoint
      BY <1>0, Zenon DEF Evidence
    <2>2. IsFinal(b[1])
      BY <1>0, <1>1, <1>3, <2>1, CheckpointIsFinal, Zenon
    <2> QED BY <1>0, <1>1, <1>3, <2>2, FinalizedStep, Zenon
  <1> QED BY <1>2, <1>3, Zenon

LEMMA ProbeStep ==
  ASSUME NotificationInv, NEW t \in Txs, ProbeAnswers(t)
  PROVE  NotificationInv'
  <1>0. UNCHANGED baseVars /\ Evidence(t, proc[t]) /\ proc[t].phase = "probe"
    BY Zenon DEF ProbeAnswers, Asks, NotificationInv
  <1>1. \/ Rejected(t)
        \/ Kind[t] = "mint" /\ RecordMint(t)
        \/ Kind[t] # "mint" /\ Continue(t, Awaits("state", proc[t].receipt, proc[t].final))
    BY Zenon DEF ProbeAnswers
  <1>2. CASE Rejected(t)
    BY <1>0, <1>2, Rejects, Zenon
  <1>3. CASE Kind[t] = "mint" /\ RecordMint(t)
    <2>1. /\ minted' = minted \cup {t} /\ UNCHANGED records /\ proc' = [proc EXCEPT ![t] = Idle]
          /\ t \in BridgeState(chain, final).processed
          /\ BridgeState(chain, final)' = BridgeState(chain, final)
      BY <1>0, <1>3, BaseSame, Zenon DEF RecordMint, Ends, Evidence, HasProof
    <2>2. RecordedIsFinal'
      BY <2>1, Zenon DEF NotificationInv, RecordedIsFinal
    <2>3. Evidence(t, Idle)
      BY Zenon DEF Evidence, Idle, Awaits, HasFinal, HasProof
    <2>4. DOMAIN records' = Ids
      BY <2>1, Zenon DEF NotificationInv, ChainShape
    <2> QED BY <1>0, <2>1, <2>2, <2>3, <2>4, Moves, Zenon
  <1>4. CASE Kind[t] # "mint" /\ Continue(t, Awaits("state", proc[t].receipt, proc[t].final))
    <2> DEFINE q == Awaits("state", proc[t].receipt, proc[t].final)
    <2>1. IsFinal(proc[t].final[1])
      BY <1>0, Zenon DEF Evidence, HasFinal
    <2>2. Evidence(t, q)
      BY <2>1, Zenon DEF Evidence, HasFinal, HasProof, Awaits
    <2> QED BY <1>0, <1>4, <2>2, ProcContinues, Zenon DEF Continue
  <1> QED BY <1>1, <1>2, <1>3, <1>4, Zenon

LEMMA StateStep ==
  ASSUME NotificationInv, NEW t \in Txs, StateAnswers(t)
  PROVE  NotificationInv'
  <1>0. ChainShape /\ Forks /\ UNCHANGED baseVars /\ Evidence(t, proc[t]) /\ proc[t].phase = "state"
    BY Zenon DEF StateAnswers, Asks, NotificationInv
  <1>b. PICK b : b = proc[t].final[1]
    BY Zenon
  <1>1. IsFinal(b)
    BY <1>0, <1>b, Zenon DEF Evidence, HasFinal
  <1>r. PICK r : r = proc[t].receipt[1]
    BY Zenon
  <1>2. PICK v \in Results([p \in Correct |-> CallAt(p, b)]) :
          \/ Rejected(t)
          \/ /\ v # <<>> /\ Kind[t] = "mint" /\ t \in v[1].state.processed
             /\ Continue(t, Awaits("receipt", <<>>, <<b>>))
          \/ /\ v # <<>> /\ SameCommitted(r, v[1].state)
             /\ Ingest(t, r.id, r.payload, b)
    BY <1>b, <1>r, Zenon DEF StateAnswers
  <1>3. CASE Rejected(t)
    BY <1>0, <1>3, Rejects, Zenon
  <1>4. CASE /\ v # <<>> /\ Kind[t] = "mint" /\ t \in v[1].state.processed
             /\ Continue(t, Awaits("receipt", <<>>, <<b>>))
    <2>1. t \in BridgeState(chain, final).processed
      BY <1>0, <1>1, <1>4, CallIsTrue, Zenon
    <2>2. Evidence(t, Awaits("receipt", <<>>, <<b>>))
      BY <1>1, <2>1, Zenon DEF Evidence, HasFinal, HasProof, Awaits
    <2> QED BY <1>0, <1>4, <2>2, ProcContinues, Zenon DEF Continue
  <1>5. CASE /\ v # <<>> /\ SameCommitted(r, v[1].state)
             /\ Record(t, r.id, r.payload, b)
    <2>1. [id |-> r.id, payload |-> r.payload] \in BridgeState(chain, final).withdrawals
      BY <1>0, <1>1, <1>5, CallIsTrue, Zenon DEF SameCommitted
    <2>2. /\ records' = [records EXCEPT ![r.id] = <<r.payload>>] /\ UNCHANGED minted
          /\ proc' = [proc EXCEPT ![t] = Idle]
          /\ BridgeState(chain, final)' = BridgeState(chain, final)
      BY <1>0, <1>5, BaseSame, Zenon DEF Record, Ends
    <2>3. DOMAIN records' = Ids /\ DOMAIN records = Ids
      BY <1>0, <2>2, Zenon DEF ChainShape
    <2>4. ASSUME NEW i \in Ids, records'[i] # <<>>
          PROVE  [id |-> i, payload |-> records'[i][1]] \in BridgeState(chain, final).withdrawals
      <3>1. CASE i = r.id
        BY <2>1, <2>2, <2>3, <3>1, Zenon
      <3>2. CASE i # r.id
        <4>1. records'[i] = records[i]
          BY <2>2, <2>3, <3>2, Zenon
        <4> QED BY <2>4, <4>1, Zenon DEF NotificationInv, RecordedIsFinal
      <3> QED BY <3>1, <3>2, Zenon
    <2>5. RecordedIsFinal'
      BY <2>2, <2>4, Zenon DEF NotificationInv, RecordedIsFinal
    <2>6. Evidence(t, Idle)
      BY Zenon DEF Evidence, Idle, Awaits, HasFinal, HasProof
    <2> QED BY <1>0, <2>2, <2>3, <2>5, <2>6, Moves, Zenon
  <1> QED BY <1>2, <1>3, <1>4, <1>5, Zenon DEF Ingest

----------------------------------------------------------------------------
(* The theorem *)

LEMMA NotificationInitially == NotificationInit => NotificationInv
  <1> SUFFICES ASSUME NotificationInit PROVE NotificationInv
    BY Zenon
  <1>1. /\ chain = <<>> /\ final = 0 /\ fork = 0 /\ proc = [t \in Txs |-> Idle]
        /\ view = [p \in Correct |-> [chain |-> <<>>, final |-> 0]]
        /\ records = [i \in Ids |-> <<>>] /\ minted = {}
    BY Zenon DEF NotificationInit, BaseInit
  <1>2. ChainShape
    BY <1>1, ObservationAssumption DEF ChainShape, View
  <1>3. Forks
    BY <1>1, ObservationAssumption DEF Forks, Follows, SamePrefix
  <1>4. RecordedIsFinal
    BY <1>1, Zenon DEF RecordedIsFinal
  <1>5. \A t \in Txs : Evidence(t, proc[t])
    BY <1>1, Zenon DEF Evidence, Idle, Awaits, HasFinal, HasProof
  <1> QED BY <1>2, <1>3, <1>4, <1>5, Zenon DEF NotificationInv

LEMMA NotificationInductive == NotificationInv /\ [NotificationNext]_notificationVars => NotificationInv'
  <1> SUFFICES ASSUME NotificationInv, [NotificationNext]_notificationVars PROVE NotificationInv'
    BY Zenon
  <1>1. CASE Base
    <2>0. UNCHANGED canister
      BY <1>1, Zenon DEF Base
    <2>1. CASE \E t \in Txs, ok \in BOOLEAN : Mine(t, ok)
      BY <2>0, <2>1, MineStep, Zenon
    <2>2. CASE \E n \in 0..MaxHeight : Reorganise(n)
      BY <2>0, <2>2, ReorganiseStep, Zenon
    <2>3. CASE Finalize
      BY <2>0, <2>3, FinalizeStep, Zenon
    <2>4. CASE \E p \in Correct, n \in 0..MaxHeight : ProviderSyncs(p, n)
      BY <2>0, <2>4, SyncStep, Zenon
    <2> QED BY <1>1, <2>1, <2>2, <2>3, <2>4, Zenon DEF Base
  <1>2. ASSUME NEW t \in Txs, Refused(t) PROVE NotificationInv'
    <2>1. Rejected(t) /\ UNCHANGED baseVars
      BY <1>2, Zenon DEF Refused
    <2> QED BY <2>1, Rejects, Zenon
  <1>3. CASE UNCHANGED notificationVars
    <2>1. UNCHANGED canister /\ UNCHANGED baseVars
      BY <1>3, Zenon DEF notificationVars
    <2>2. ChainShape' /\ Forks' /\ chain' = chain /\ final' = final /\ view' = view
      BY <2>1, BaseSame, Zenon DEF NotificationInv, ChainShape, canister, store
    <2>3. SamePrefix(chain, chain', final) /\ final <= final'
      <3>1. final \in Nat
        BY Zenon DEF NotificationInv, ChainShape
      <3>2. SamePrefix(chain, chain', final)
        BY <2>2, Zenon DEF SamePrefix
      <3> QED BY <2>2, <3>1, <3>2
    <2>4. \A p \in Correct : view[p].final <= view'[p].final
      <3>1. \A p \in Correct : view[p].final \in Nat
        BY Zenon DEF NotificationInv, ChainShape, View
      <3> QED BY <2>2, <3>1
    <2> QED BY <2>1, <2>2, <2>3, <2>4, BaseKeeps, Zenon
  <1> QED BY <1>1, <1>2, <1>3, NotifyStep, ReceiptStep, HeadStep, CheckpointStep, ProbeStep, StateStep,
             Zenon DEF NotificationNext

\* Whatever notify_withdrawal and notify_deposit_mint record is on the finalized
\* chain for ever, with the recorded fields: for any transactions, heights and
\* reorganisations, although a provider answers anything and the others lag.
THEOREM RecordsAreFinal == NotificationSpec => []RecordedIsFinal
  <1>1. NotificationInv => RecordedIsFinal
    BY Zenon DEF NotificationInv
  <1> QED BY <1>1, NotificationInitially, NotificationInductive, PTL DEF NotificationSpec
=============================================================================
