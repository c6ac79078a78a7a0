------------------------ MODULE FundingAttemptProofs ------------------------
(***************************************************************************)
(* The safety properties of FundingAttempt, for every set of deposits and  *)
(* every window, margin, skew and bound that satisfy its assumptions.      *)
(*                                                                         *)
(* The first part shows how each action keeps the facts about one deposit, *)
(* FundingInv: the ways in which an action may change what is stored, then *)
(* request_deposit, the recovery timer, the hold, the clocks and the       *)
(* ledger.  The second part has the types and the theorems.                *)
(***************************************************************************)
EXTENDS FundingAttempt, TLAPS

\* Nothing that the facts about deposit e speak of has changed.
Same(e) == /\ att'[e] = att[e] /\ rec'[e] = rec[e] /\ hscan'[e] = hscan[e]
           /\ calls'[e] = calls[e] /\ req'[e] = req[e] /\ rcv'[e] = rcv[e]
           /\ now' = now /\ lnow' = lnow /\ ledger' = ledger
           /\ \A q \in net' : q \in net \/ q.id.dep # e

\* An action of one deposit leaves the facts about the others alone: they
\* share the ledger and the clocks, which it only reads.
LEMMA Frame ==
    ASSUME NEW e \in Deposits, FundingInv(e), Same(e)
    PROVE  FundingInv(e)'
<1> USE DEF Same
<1>1. CallsArePursued(e)'
  BY Zenon DEF FundingInv, CallsArePursued, InWindow, Pursued
<1>2. BlocksArePursued(e)' /\ OneBlock(e)'
  BY Zenon DEF FundingInv, BlocksArePursued, OneBlock, Pursued
<1>3. RecordFits(e)'
  BY Zenon DEF FundingInv, RecordFits, HasBlock, Identity
<1>4. PullFits(e)'
  BY Zenon DEF FundingInv, PullFits, Awaits, OnlyCall, NoCall, Current, InWindow, Executed, Identity
<1>5. PreflightFits(e)'
  BY Zenon DEF FundingInv, PreflightFits, HasBlock, Identity
<1>6. HoldFits(e)'
  BY Zenon DEF FundingInv, HoldFits, Awaits, Executed, Identity
<1>7. HoldScanFits(e)'
  BY Zenon DEF FundingInv, HoldScanFits, StillAcceptable, Evidence, Identity
<1>8. FinalFits(e)'
  BY Zenon DEF FundingInv, FinalFits, FinalScanAt, ExpiryBoundary, Evidence, Identity
<1>9. RecoveryFits(e)'
  BY DEF FundingInv, RecoveryFits, ExpiryBoundary, Evidence, Identity, HasBlock, Absent, Current
<1> QED
  BY <1>1, <1>2, <1>3, <1>4, <1>5, <1>6, <1>7, <1>8, <1>9, Zenon DEF FundingInv
-----------------------------------------------------------------------------
(* Four ways in which an action changes the stored attempt and the record. *)

\* The clocks, the ledger and the calls stay as they are.
Quiet(d) == /\ now' = now /\ lnow' = lnow /\ ledger' = ledger /\ net' = net
            /\ calls'[d] = calls[d]

\* admit_deposit: the record takes over the identity of the attempt.
LEMMA Promotion ==
    ASSUME TypeOK, NEW d \in Deposits, FundingInv(d), Quiet(d), hscan'[d] = hscan[d],
           att[d].state \in {"Dispatched", "Reconciling"},
           NEW s, NEW i, s = "Hold" \/ (s = "Escrowed" /\ HasBlock(d, i, att[d].created)),
           att'[d] = NoAttempt, rec'[d] = [state |-> s, created |-> att[d].created, block |-> i],
           req'[d] = Idle \/ req'[d] = req[d],
           rcv'[d].pc = "idle"
    PROVE  FundingInv(d)'
<1> USE DEF Quiet
<1>0. /\ att'[d].state = "None" /\ rec'[d].state = s /\ rec'[d].created = att[d].created
      /\ rec'[d].block = i /\ rec[d].state = "None" /\ Idle.pc = "idle" /\ Idle.call = 0
  BY DEF NoAttempt, Attempt, FundingInv, RecordFits, Idle
<1>1. CallsArePursued(d)'
  BY <1>0, Zenon DEF FundingInv, CallsArePursued, InWindow, Pursued
<1>2. BlocksArePursued(d)' /\ OneBlock(d)'
  BY <1>0, Zenon DEF FundingInv, BlocksArePursued, OneBlock, Pursued
<1>3. RecordFits(d)'
  BY <1>0 DEF FundingInv, RecordFits, HasBlock, Identity, TypeOK
<1>4. PullFits(d)'
  <2>1. CASE req'[d] = Idle
    BY <2>1, <1>0, Zenon DEF PullFits
  <2>2. CASE req'[d] = req[d]
    <3>1. req[d].pc = "pull" => ~Current(d, req[d].seen)'
      BY <1>0, <2>2, Zenon DEF FundingInv, PullFits, Current
    <3> QED
      BY <2>2, <3>1, Zenon DEF FundingInv, PullFits, Awaits, Executed, Identity
  <2> QED
    BY <2>1, <2>2, Zenon
<1>5. PreflightFits(d)'
  BY <1>0, Zenon DEF FundingInv, PreflightFits, HasBlock, Identity
<1>6. HoldFits(d)'
  BY <1>0, Zenon DEF FundingInv, HoldFits
<1>7. HoldScanFits(d)'
  BY <1>0, Zenon DEF FundingInv, HoldScanFits
<1>8. FinalFits(d)' /\ RecoveryFits(d)'
  BY <1>0, Zenon DEF FinalFits, RecoveryFits
<1> QED
  BY <1>1, <1>2, <1>3, <1>4, <1>5, <1>6, <1>7, <1>8, Zenon DEF FundingInv

\* remove_deposit_funding_attempt, or back to Retryable: allowed when the
\* attempt has no block and no call of the deposit can be executed any more.
LEMMA GivingUp ==
    ASSUME TypeOK, NEW d \in Deposits, FundingInv(d), Quiet(d),
           hscan'[d] = hscan[d], rec'[d] = rec[d],
           att[d].state # "None",
           att'[d].state \in {"None", "Retryable"},
           ~Executed(Identity(d, att[d].created)), NoCall(d),
           req'[d] = Idle \/ req'[d] = req[d],
           rcv'[d].pc = "idle"
    PROVE  FundingInv(d)'
<1> USE DEF Quiet
<1>0. rec[d].state = "None" /\ Idle.pc = "idle" /\ Idle.call = 0
  BY Zenon DEF FundingInv, RecordFits, Idle
<1>1. CallsArePursued(d)'
  BY <1>0, Zenon DEF FundingInv, CallsArePursued, InWindow, NoCall
<1>2. \A i \in 1..Len(ledger) : ledger[i].dep # d
  <2> SUFFICES ASSUME NEW i \in 1..Len(ledger), ledger[i].dep = d PROVE FALSE
    BY Zenon
  <2>1. ledger[i].created = att[d].created
    BY <1>0, Zenon DEF FundingInv, BlocksArePursued, Pursued
  <2>2. ledger[i] \in Identities
    <3>1. ledger \in Seq(Identities)
      BY Zenon DEF TypeOK
    <3> QED
      BY <3>1
  <2>3. ledger[i] = [dep |-> ledger[i].dep, created |-> ledger[i].created]
    BY <2>2, Zenon DEF Identities
  <2>4. ledger[i] = Identity(d, att[d].created)
    BY <2>1, <2>3, Zenon DEF Identity
  <2> QED
    BY <2>4, Zenon DEF Executed
<1>3. BlocksArePursued(d)' /\ OneBlock(d)'
  BY <1>2, Zenon DEF BlocksArePursued, OneBlock
<1>4. RecordFits(d)'
  BY <1>0 DEF FundingInv, RecordFits, TypeOK
<1>5. PullFits(d)'
  <2>1. CASE req'[d] = Idle
    BY <2>1, <1>0, Zenon DEF PullFits
  <2>2. CASE req'[d] = req[d]
    <3>1. req[d].pc = "pull" => ~Current(d, req[d].seen)'
      BY <1>0, <2>2, Zenon DEF FundingInv, PullFits, Current
    <3> QED
      BY <2>2, <3>1, Zenon DEF FundingInv, PullFits, Awaits, Executed, Identity
  <2> QED
    BY <2>1, <2>2, Zenon
<1>6. PreflightFits(d)'
  BY <1>0, Zenon DEF FundingInv, PreflightFits, HasBlock, Identity
<1>7. HoldFits(d)' /\ HoldScanFits(d)'
  BY <1>0, Zenon DEF FundingInv, HoldFits, HoldScanFits
<1>8. FinalFits(d)' /\ RecoveryFits(d)'
  BY Zenon DEF FinalFits, RecoveryFits
<1> QED
  BY <1>1, <1>3, <1>4, <1>5, <1>6, <1>7, <1>8, Zenon DEF FundingInv

\* The recovery rewrites the attempt under the same identity.
LEMMA Reconciliation ==
    ASSUME TypeOK, NEW d \in Deposits, FundingInv(d), Quiet(d),
           hscan'[d] = hscan[d], rec'[d] = rec[d], req'[d] = req[d],
           att[d].state \in {"Dispatched", "Reconciling"},
           att'[d].state = "Reconciling", att'[d].created = att[d].created,
           FinalFits(d)', RecoveryFits(d)'
    PROVE  FundingInv(d)'
<1> USE DEF Quiet
<1>0. rec[d].state = "None"
  BY Zenon DEF FundingInv, RecordFits
<1>1. CallsArePursued(d)'
  BY Zenon DEF FundingInv, CallsArePursued, InWindow, Pursued
<1>2. BlocksArePursued(d)' /\ OneBlock(d)'
  BY Zenon DEF FundingInv, BlocksArePursued, OneBlock, Pursued
<1>3. RecordFits(d)'
  BY <1>0, Zenon DEF FundingInv, RecordFits
<1>4. PullFits(d)'
  <2>1. req[d].pc = "pull" => ~Current(d, req[d].seen)'
    BY Zenon DEF FundingInv, PullFits, Current
  <2> QED
    BY <2>1, Zenon DEF FundingInv, PullFits, Awaits, Executed, Identity
<1>5. PreflightFits(d)'
  BY Zenon DEF FundingInv, PreflightFits, HasBlock, Identity
<1>6. HoldFits(d)' /\ HoldScanFits(d)'
  BY <1>0, Zenon DEF FundingInv, HoldFits, HoldScanFits
<1> QED
  BY <1>1, <1>2, <1>3, <1>4, <1>5, <1>6, Zenon DEF FundingInv

\* Only the handler that holds the guard changes.
LEMMA HandlerMoves ==
    ASSUME TypeOK, NEW d \in Deposits, FundingInv(d), Quiet(d),
           hscan'[d] = hscan[d], rec'[d] = rec[d], att'[d] = att[d], rcv'[d] = rcv[d],
           req'[d].call <= calls[d], req'[d].pc \in {"idle", "preflight"}, PreflightFits(d)'
    PROVE  FundingInv(d)'
<1> USE DEF Quiet
<1>1. CallsArePursued(d)'
  BY Zenon DEF FundingInv, CallsArePursued, InWindow, Pursued
<1>2. BlocksArePursued(d)' /\ OneBlock(d)'
  BY Zenon DEF FundingInv, BlocksArePursued, OneBlock, Pursued
<1>3. RecordFits(d)'
  BY Zenon DEF FundingInv, RecordFits, HasBlock, Identity
<1>4. PullFits(d)' /\ HoldFits(d)'
  BY Zenon DEF PullFits, HoldFits
<1>5. HoldScanFits(d)'
  BY Zenon DEF FundingInv, HoldScanFits, StillAcceptable, Evidence, Identity
<1>6. FinalFits(d)'
  BY Zenon DEF FundingInv, FinalFits, FinalScanAt, ExpiryBoundary, Evidence, Identity
<1>7. RecoveryFits(d)'
  BY DEF FundingInv, RecoveryFits, ExpiryBoundary, Evidence, Identity, HasBlock, Absent, Current
<1> QED
  BY <1>1, <1>2, <1>3, <1>4, <1>5, <1>6, <1>7, Zenon DEF FundingInv

\* A handler that ends and changes nothing else.
LEMMA HandlerEnds ==
    ASSUME TypeOK, NEW d \in Deposits, FundingInv(d), req'[d] = Idle,
           UNCHANGED <<net, att, calls, rec, hscan, rcv, now, lnow, ledger>>
    PROVE  FundingInv(d)'
<1>1. Quiet(d) /\ hscan'[d] = hscan[d] /\ rec'[d] = rec[d] /\ att'[d] = att[d] /\ rcv'[d] = rcv[d]
  BY Zenon DEF Quiet
<1>2. req'[d].pc = "idle" /\ req'[d].call = 0
  BY DEF Idle
<1>3. req'[d].call <= calls[d]
  BY <1>2 DEF TypeOK
<1>4. PreflightFits(d)'
  BY <1>2, Zenon DEF PreflightFits
<1> QED
  BY <1>1, <1>2, <1>3, <1>4, HandlerMoves, Zenon

\* A confirmed identity has a block.
LEMMA BlockExists ==
    ASSUME NEW m, Executed(m)
    PROVE  BlockOf(m) \in 1..Len(ledger) /\ ledger[BlockOf(m)] = m
BY Zenon DEF Executed, BlockOf

\* A deposit that nobody pursues has neither a block nor a live call.
LEMMA NotPursued ==
    ASSUME NEW d \in Deposits, FundingInv(d),
           att[d].state \notin {"Dispatched", "Reconciling"},
           rec[d].state \notin {"Hold", "Escrowed"}
    PROVE  NoCall(d) /\ \A i \in 1..Len(ledger) : ledger[i].dep # d
BY Zenon DEF FundingInv, CallsArePursued, BlocksArePursued, Pursued, NoCall

\* No recovery run is out while the attempt is not being reconciled.
LEMMA NoRecovery ==
    ASSUME NEW d \in Deposits, FundingInv(d), att[d].state # "Reconciling"
    PROVE  rcv[d].pc = "idle"
BY Zenon DEF FundingInv, RecoveryFits, Current
-----------------------------------------------------------------------------
(* request_deposit. *)

\* The new call is the only one the ledger can execute.
LEMMA RequestDepositKeeps ==
    ASSUME TypeOK, NEW d \in Deposits, FundingInv(d), RequestDeposit(d)
    PROVE  FundingInv(d)'
<1>p1. PICK c : c = CreatedAt(d)
  BY Zenon
<1>p2. PICK a : a = Attempt("Dispatched", c, now, 0, FALSE, Fresh)
  BY Zenon
<1>p3. PICK n : n = calls[d] + 1
  BY Zenon
<1>p4. PICK q0 : q0 = [id |-> Identity(d, c), call |-> n]
  BY Zenon
<1>1. /\ rec[d].state = "None" /\ Dispatchable(d)
      /\ att'[d] = a
      /\ net' = net \cup {q0}
      /\ calls'[d] = n
      /\ req'[d] = [pc |-> "pull", seen |-> a, call |-> n, answer |-> "none", block |-> 0]
      /\ rec' = rec /\ hscan' = hscan /\ rcv' = rcv /\ now' = now /\ lnow' = lnow /\ ledger' = ledger
  BY <1>p1, <1>p2, <1>p3, <1>p4, Zenon DEF RequestDeposit, Pull, TypeOK, world
<1>2. /\ a.state = "Dispatched" /\ a.created = c
      /\ q0.id.dep = d /\ q0.id.created = c /\ q0.call = n /\ q0.id = Identity(d, c)
  BY <1>p2, <1>p4, Zenon DEF Attempt, Identity
<1>3. att[d].state \notin {"Dispatched", "Reconciling"}
  BY <1>1, Zenon DEF Dispatchable
<1>4. NoCall(d) /\ \A i \in 1..Len(ledger) : ledger[i].dep # d
  BY <1>1, <1>3, NotPursued, Zenon
<1>5. rcv[d].pc = "idle"
  BY <1>3, NoRecovery, Zenon
<1>6. calls[d] \in Nat /\ \A q \in net : q.call \in Nat
  BY Zenon DEF TypeOK
<1>7. \A q \in net : q.id.dep = d => q.call <= calls[d]
  BY Zenon DEF FundingInv, CallsArePursued
<1>8. n = calls[d] + 1
  BY <1>p3, Zenon
<1>9. CallsArePursued(d)'
  <2> SUFFICES ASSUME NEW q \in net', q.id.dep = d
               PROVE  q.call <= n /\ (InWindow(q.id)' => Pursued(d, q.id.created)')
    BY <1>1, Zenon DEF CallsArePursued
  <2>1. CASE q = q0
    BY <2>1, <1>1, <1>2, <1>6, <1>8 DEF Pursued
  <2>2. CASE q \in net
    BY <2>2, <1>1, <1>4, <1>6, <1>7, <1>8 DEF NoCall, InWindow
  <2> QED
    BY <2>1, <2>2, <1>1, Zenon
<1>10. BlocksArePursued(d)' /\ OneBlock(d)'
  BY <1>1, <1>4, Zenon DEF BlocksArePursued, OneBlock
<1>11. RecordFits(d)'
  BY <1>1, <1>6, <1>8 DEF RecordFits
<1>12. PullFits(d)'
  <2>1. ~Executed(Identity(d, c))'
    BY <1>1, <1>2, <1>4, Zenon DEF Executed, Identity
  <2>2. \A q \in net' : q.id.dep = d /\ q.call = n => q.id = Identity(d, c)
    BY <1>1, <1>2, <1>6, <1>7, <1>8
  <2>3. \A q \in net' : q.id.dep = d /\ InWindow(q.id)' => q.call = n
    BY <1>1, <1>2, <1>4, Zenon DEF NoCall, InWindow
  <2>4. /\ req'[d].pc = "pull" /\ req'[d].seen = a /\ req'[d].call = n /\ req'[d].answer = "none"
    <3>1. req'[d] = [pc |-> "pull", seen |-> a, call |-> n, answer |-> "none", block |-> 0]
      BY <1>1, Zenon
    <3> QED
      BY <3>1
  <2>5. Identity(d, req[d].seen.created)' = Identity(d, c)
    BY <2>4, <1>2, Zenon DEF Identity
  <2> QED
    BY <1>2, <2>1, <2>2, <2>3, <2>4, <2>5, Zenon DEF PullFits, Awaits, OnlyCall
<1>13. PreflightFits(d)' /\ HoldFits(d)'
  BY <1>1 DEF PreflightFits, HoldFits
<1>14. HoldScanFits(d)'
  BY <1>1, Zenon DEF FundingInv, HoldScanFits
<1>15. FinalFits(d)' /\ RecoveryFits(d)'
  BY <1>1, <1>2, <1>5, Zenon DEF FinalFits, RecoveryFits
<1> QED
  BY <1>9, <1>10, <1>11, <1>12, <1>13, <1>14, <1>15, Zenon DEF FundingInv

\* Preparing an attempt without dispatching it starts no call.
LEMMA PrepareOnlyKeeps ==
    ASSUME TypeOK, NEW d \in Deposits, FundingInv(d), PrepareOnly(d)
    PROVE  FundingInv(d)'
<1>1. /\ rec[d].state = "None" /\ att[d].state = "None" /\ req[d].pc = "idle"
      /\ att'[d].state = "Prepared"
      /\ UNCHANGED <<net, calls, req, rec, hscan, rcv, now, lnow, ledger>>
  BY Zenon DEF PrepareOnly, TypeOK, world, Attempt
<1>2. NoCall(d) /\ \A i \in 1..Len(ledger) : ledger[i].dep # d
  BY <1>1, NotPursued, Zenon
<1>3. rcv[d].pc = "idle"
  BY <1>1, NoRecovery, Zenon
<1>4. CallsArePursued(d)' /\ BlocksArePursued(d)' /\ OneBlock(d)'
  BY <1>1, <1>2, Zenon DEF FundingInv, CallsArePursued, BlocksArePursued, OneBlock, NoCall, InWindow
<1>5. RecordFits(d)' /\ PullFits(d)' /\ PreflightFits(d)' /\ HoldFits(d)' /\ HoldScanFits(d)'
  BY <1>1, Zenon DEF FundingInv, RecordFits, PullFits, PreflightFits, HoldFits, HoldScanFits
<1>6. FinalFits(d)' /\ RecoveryFits(d)'
  BY <1>1, <1>3, Zenon DEF FinalFits, RecoveryFits
<1> QED
  BY <1>4, <1>5, <1>6, Zenon DEF FundingInv

\* A lost handler leaves everything stored as it was.
LEMMA LoseRequestKeeps ==
    ASSUME TypeOK, NEW d \in Deposits, FundingInv(d), LoseRequest(d)
    PROVE  FundingInv(d)'
<1>1. req'[d] = Idle /\ UNCHANGED <<net, att, calls, rec, hscan, rcv, now, lnow, ledger>>
  BY Zenon DEF LoseRequest, EndRequest, TypeOK, world
<1> QED
  BY <1>1, HandlerEnds, Zenon

\* A confirmed answer names a block of the awaited identity.
LEMMA PullSucceededKeeps ==
    ASSUME TypeOK, NEW d \in Deposits, FundingInv(d), PullSucceeded(d)
    PROVE  FundingInv(d)'
<1>1. PICK m : m = Identity(d, req[d].seen.created)
  BY Zenon
<1>2. PICK b : b = BlockOf(m)
  BY Zenon
<1>3. /\ req[d].pc = "pull" /\ req[d].answer = "confirmed"
      /\ req'[d].pc = "preflight" /\ req'[d].seen = req[d].seen /\ req'[d].call = req[d].call
      /\ req'[d].block = b
      /\ UNCHANGED <<net, att, calls, rec, hscan, rcv, now, lnow, ledger>>
  BY <1>1, <1>2, Zenon DEF PullSucceeded, FundingDecision, TypeOK, world, Outcomes
<1>4. req[d].seen.state = "Dispatched" /\ Executed(m)
  BY <1>1, <1>3, Zenon DEF FundingInv, PullFits, Awaits
<1>5. b \in 1..Len(ledger) /\ ledger[b] = m
  BY <1>2, <1>4, BlockExists, Zenon
<1>6. PreflightFits(d)'
  BY <1>1, <1>3, <1>4, <1>5, Zenon DEF PreflightFits, HasBlock, Identity
<1>7. req'[d].call <= calls[d]
  BY <1>3, Zenon DEF FundingInv, RecordFits
<1> QED
  BY <1>3, <1>6, <1>7, HandlerMoves, Zenon DEF Quiet

\* The two promotions by the handler: with a block, or into a hold.
LEMMA HandlerPromotes ==
    ASSUME TypeOK, NEW d \in Deposits, FundingInv(d),
           UNCHANGED <<world, net, hscan, calls, rcv>>, EndRequest(d),
           req[d].seen.state = "Dispatched",
           NEW s, NEW i, Promote(d, req[d].seen, s, i),
           s = "Hold" \/ (s = "Escrowed" /\ HasBlock(d, i, req[d].seen.created))
    PROVE  FundingInv(d)'
<1>1. /\ UNCHANGED <<net, calls, hscan, rcv, now, lnow, ledger>>
      /\ req'[d] = Idle /\ Idle.pc = "idle" /\ Idle.call = 0 /\ calls[d] \in Nat
  BY Zenon DEF EndRequest, TypeOK, world, Idle
<1>2. CASE Current(d, req[d].seen) /\ rec[d].state = "None"
  <2>0. att[d] = req[d].seen
    BY <1>2, Zenon DEF Current
  <2>1. att'[d] = NoAttempt /\ rec'[d] = [state |-> s, created |-> att[d].created, block |-> i]
    <3>1. /\ att' = [att EXCEPT ![d] = NoAttempt]
          /\ rec' = [rec EXCEPT ![d] = [state |-> s, created |-> att[d].created, block |-> i]]
      BY <1>2, <2>0, Zenon DEF Promote
    <3>2. d \in DOMAIN att /\ d \in DOMAIN rec
      BY Zenon DEF TypeOK
    <3> QED
      BY <3>1, <3>2, Zenon
  <2>2. rcv'[d].pc = "idle"
    BY <2>0, <1>1, NoRecovery, Zenon
  <2> QED
    BY <1>1, <2>0, <2>1, <2>2, Promotion, Zenon DEF Quiet
<1>3. CASE ~(Current(d, req[d].seen) /\ rec[d].state = "None")
  <2>1. att' = att /\ rec' = rec
    BY <1>3, Zenon DEF Promote
  <2> QED
    BY <1>1, <2>1, HandlerEnds, Zenon
<1> QED
  BY <1>2, <1>3, Zenon

\* The handler stores the escrowed record after the preflight.
LEMMA PreflightReturnsKeeps ==
    ASSUME TypeOK, NEW d \in Deposits, FundingInv(d), PreflightReturns(d)
    PROVE  FundingInv(d)'
<1>1. req[d].seen.state = "Dispatched" /\ HasBlock(d, req[d].block, req[d].seen.created)
  BY Zenon DEF PreflightReturns, FundingInv, PreflightFits
<1>2. /\ Promote(d, req[d].seen, "Escrowed", req[d].block) /\ EndRequest(d)
      /\ UNCHANGED <<world, net, hscan, calls, rcv>>
  BY Zenon DEF PreflightReturns
<1> QED
  BY <1>1, <1>2, HandlerPromotes, Zenon

\* The handler stores the record of an ambiguous pull with its hold.
LEMMA PullAmbiguousKeeps ==
    ASSUME TypeOK, NEW d \in Deposits, FundingInv(d), PullAmbiguous(d)
    PROVE  FundingInv(d)'
<1>1. req[d].seen.state = "Dispatched"
  BY Zenon DEF PullAmbiguous, FundingInv, PullFits
<1>2. /\ Promote(d, req[d].seen, "Hold", 0) /\ EndRequest(d)
      /\ UNCHANGED <<world, net, hscan, calls, rcv>>
  BY Zenon DEF PullAmbiguous
<1> QED
  BY <1>1, <1>2, HandlerPromotes, Zenon

\* A refused pull gives the attempt up, or keeps it for a retry.
LEMMA PullRefusedKeeps ==
    ASSUME TypeOK, NEW d \in Deposits, FundingInv(d), PullRefused(d) \/ PullUnavailable(d)
    PROVE  FundingInv(d)'
<1>1. PICK b : b.state \in {"None", "Retryable"} /\ Replace(d, req[d].seen, b)
  BY DEF PullRefused, PullUnavailable, NoAttempt, Attempt
<1>2. /\ req[d].pc = "pull" /\ req[d].answer \in {"rejected", "unavailable"}
      /\ UNCHANGED <<net, calls, hscan, rcv, now, lnow, ledger>>
      /\ req'[d] = Idle /\ Idle.pc = "idle" /\ Idle.call = 0 /\ calls[d] \in Nat
  BY Zenon DEF PullRefused, PullUnavailable, FundingDecision, EndRequest, TypeOK, world, Idle, Outcomes
<1>3. rec' = rec
  BY <1>1, Zenon DEF Replace
<1>4. CASE Current(d, req[d].seen)
  <2>1. att[d] = req[d].seen /\ att'[d] = b
    BY <1>1, <1>4, Zenon DEF Replace, Current, TypeOK
  <2>2. /\ att[d].state = "Dispatched"
        /\ ~Executed(Identity(d, att[d].created)) /\ NoCall(d)
    BY <1>2, <1>4, <2>1, Zenon DEF FundingInv, PullFits
  <2>3. rcv'[d].pc = "idle"
    BY <2>2, <1>2, NoRecovery, Zenon
  <2> QED
    BY <1>1, <1>2, <1>3, <2>1, <2>2, <2>3, GivingUp, Zenon DEF Quiet
<1>5. CASE ~Current(d, req[d].seen)
  <2>1. att' = att
    BY <1>1, <1>5, Zenon DEF Replace
  <2> QED
    BY <1>2, <1>3, <2>1, HandlerEnds, Zenon
<1> QED
  BY <1>4, <1>5, Zenon
-----------------------------------------------------------------------------
(* recover_one_funding_attempt. *)

\* Past the margin no ledger clock within the skew accepts the identity.
LEMMA Dead ==
    ASSUME TypeOK, SkewBounded, NEW m, m.created \in Nat, now > ExpiryBoundary(m.created)
    PROVE  ~InWindow(m)
<1>1. now \in Nat /\ lnow \in Nat
  BY Zenon DEF TypeOK
<1> QED
  BY <1>1, WindowAssumption, SkewAssumption DEF SkewBounded, ExpiryBoundary, InWindow

\* The timer prunes an attempt whose calls are all dead or refused.
LEMMA PruneAttemptKeeps ==
    ASSUME TypeOK, NEW d \in Deposits, FundingInv(d), PruneAttempt(d)
    PROVE  FundingInv(d)'
<1>1. /\ att[d].state \in {"Prepared", "Retryable"} /\ rcv[d].pc = "idle"
      /\ UNCHANGED <<net, calls, rec, hscan, req, rcv, now, lnow, ledger>>
      /\ att' = [att EXCEPT ![d] = NoAttempt]
  BY Zenon DEF PruneAttempt, MayRecover, world
<1>2. att'[d].state = "None"
  BY <1>1, Zenon DEF TypeOK, NoAttempt, Attempt
<1>3. rec[d].state = "None"
  BY <1>1, Zenon DEF FundingInv, RecordFits
<1>4. NoCall(d) /\ \A i \in 1..Len(ledger) : ledger[i].dep # d
  BY <1>1, <1>3, NotPursued, Zenon
<1>5. ~Executed(Identity(d, att[d].created))
  BY <1>4 DEF Executed, Identity
<1>6. Quiet(d)
  BY <1>1, Zenon DEF Quiet
<1> QED
  BY <1>1, <1>2, <1>4, <1>5, <1>6, GivingUp, Zenon

\* The run reads its attempt, or takes it over from a lost handler.
LEMMA StartRecoveryKeeps ==
    ASSUME TypeOK, NEW d \in Deposits, FundingInv(d), StartRecovery(d)
    PROVE  FundingInv(d)'
<1>p. PICK a : a = IF att[d].state = "Dispatched"
                   THEN Attempt("Reconciling", att[d].created, now, now, FALSE, Fresh)
                   ELSE att[d]
  BY Zenon
<1>1. /\ att[d].state \in {"Dispatched", "Reconciling"} /\ now >= DueAt(att[d])
      /\ att' = [att EXCEPT ![d] = a]
      /\ rcv' = [rcv EXCEPT ![d] = [pc |-> "read", seen |-> a, found |-> "none", block |-> 0,
                                    scan |-> a.scan]]
      /\ UNCHANGED <<net, calls, rec, hscan, req, now, lnow, ledger>>
  BY <1>p, Zenon DEF StartRecovery, MayRecover, world
<1>2. att'[d] = a
  BY <1>1, Zenon DEF TypeOK
<1>3. rcv'[d] = [pc |-> "read", seen |-> a, found |-> "none", block |-> 0, scan |-> a.scan]
  BY <1>1, Zenon DEF TypeOK
<1>4. rcv'[d].seen = a /\ rcv'[d].found = "none" /\ rcv'[d].scan = a.scan
  BY <1>3
<1>5. a.state = "Reconciling" /\ a.created = att[d].created
  BY <1>p, <1>1, Zenon DEF Attempt
<1>6. FinalFits(d)'
  <2>1. CASE att[d].state = "Dispatched"
    <3>1. a.final = FALSE
      BY <1>p, <2>1, Zenon DEF Attempt
    <3> QED
      BY <1>2, <3>1, Zenon DEF FinalFits
  <2>2. CASE att[d].state = "Reconciling"
    <3>1. a = att[d]
      BY <1>p, <2>2, Zenon
    <3> QED
      BY <1>1, <1>2, <3>1, Zenon DEF FundingInv, FinalFits, FinalScanAt, ExpiryBoundary,
                                     Evidence, Identity
  <2> QED
    BY <1>1, <2>1, <2>2, Zenon
<1>7. a.final => /\ now > ExpiryBoundary(a.created)
                 /\ Evidence(Identity(d, a.created), a.scan)
  <2> SUFFICES ASSUME a.final PROVE now > ExpiryBoundary(a.created)
                                    /\ Evidence(Identity(d, a.created), a.scan)
    BY Zenon
  <2>1. att[d].state = "Reconciling" /\ a = att[d]
    BY <1>p, <1>1, Zenon DEF Attempt
  <2>2. att[d].next >= FinalScanAt(att[d].created)
        /\ (att[d].scan.open => Evidence(Identity(d, att[d].created), att[d].scan))
    BY <2>1, Zenon DEF FundingInv, FinalFits
  <2>3. now >= att[d].next
    BY <1>1, <2>1, Zenon DEF DueAt
  <2>4. now \in Nat /\ att[d].next \in Nat /\ att[d].created \in Nat
    BY Zenon DEF TypeOK, Attempts
  <2>5. now > ExpiryBoundary(a.created)
    <3>1. ExpiryBoundary(att[d].created) \in Nat
      BY <2>4, WindowAssumption DEF ExpiryBoundary
    <3>2. now >= ExpiryBoundary(att[d].created) + 1
      BY <2>2, <2>3, <2>4, <3>1 DEF FinalScanAt
    <3> QED
      BY <2>1, <2>4, <3>1, <3>2
  <2> QED
    BY <2>1, <2>2, <2>5, Zenon DEF Evidence
<1>8. RecoveryFits(d)'
  BY <1>1, <1>2, <1>4, <1>5, <1>7, Zenon DEF RecoveryFits, Current, ExpiryBoundary, Evidence, Identity
<1>9. Quiet(d)
  BY <1>1, Zenon DEF Quiet
<1> QED
  BY <1>1, <1>2, <1>5, <1>6, <1>8, <1>9, Reconciliation, Zenon

\* What a recovery run knows of its attempt.
LEMMA RecoveryKnows ==
    ASSUME NEW d \in Deposits, FundingInv(d), rcv[d].pc # "idle"
    PROVE  /\ att[d] = rcv[d].seen /\ Current(d, rcv[d].seen)
           /\ att[d].state = "Reconciling" /\ rec[d].state = "None"
           /\ att[d].final => /\ now > ExpiryBoundary(att[d].created)
                              /\ Evidence(Identity(d, att[d].created), rcv[d].scan)
           /\ rcv[d].found = "block" => HasBlock(d, rcv[d].block, att[d].created)
           /\ rcv[d].found = "absent" /\ att[d].final =>
                  Absent(Identity(d, att[d].created), rcv[d].scan)
<1>1. att[d] = rcv[d].seen /\ att[d].state = "Reconciling"
  BY Zenon DEF FundingInv, RecoveryFits, Current
<1>2. rec[d].state = "None"
  BY <1>1, Zenon DEF FundingInv, RecordFits
<1> QED
  BY <1>1, <1>2, Zenon DEF FundingInv, RecoveryFits, Current

\* Only the run of the timer changes: its reads, and its end.
LEMMA RunMoves ==
    ASSUME TypeOK, NEW d \in Deposits, FundingInv(d), rcv[d].pc # "idle",
           UNCHANGED <<now, lnow, ledger, net, att, rec, hscan, calls, req>>, RecoveryFits(d)'
    PROVE  FundingInv(d)'
<1>1. Quiet(d) /\ hscan'[d] = hscan[d] /\ rec'[d] = rec[d] /\ req'[d] = req[d] /\ att'[d] = att[d]
  BY Zenon DEF Quiet
<1>2. att[d].state = "Reconciling"
  BY RecoveryKnows, Zenon
<1>3. FinalFits(d)'
  BY <1>1, Zenon DEF FundingInv, FinalFits, FinalScanAt, ExpiryBoundary, Evidence, Identity, Quiet
<1> QED
  BY <1>1, <1>2, <1>3, Reconciliation, Zenon

\* A read of the recovery adds what it found to the run, and no more.
LEMMA RecoveryReadKeeps ==
    ASSUME TypeOK, NEW d \in Deposits, FundingInv(d),
           NEW f, NEW i, NEW s, RecoveryRead(d, f, i, s),
           s = rcv[d].scan \/ s = Opened(rcv[d].scan),
           f = "block" => HasBlock(d, i, rcv[d].seen.created),
           f = "absent" => Absent(Identity(d, rcv[d].seen.created), s)
    PROVE  FundingInv(d)'
<1>1. /\ rcv[d].pc = "read"
      /\ rcv' = [rcv EXCEPT ![d] = [pc |-> "apply", seen |-> rcv[d].seen, found |-> f,
                                    block |-> i, scan |-> s]]
      /\ UNCHANGED <<now, lnow, ledger, net, att, rec, hscan, calls, req>>
  BY Zenon DEF RecoveryRead, world
<1>2. rcv'[d] = [pc |-> "apply", seen |-> rcv[d].seen, found |-> f, block |-> i, scan |-> s]
  <2>1. d \in DOMAIN rcv
    BY Zenon DEF TypeOK
  <2> QED
    BY <1>1, <2>1, Zenon
<1>3. /\ rcv'[d].seen = rcv[d].seen /\ rcv'[d].found = f /\ rcv'[d].block = i /\ rcv'[d].scan = s
  BY <1>2
<1>4. \A m : Evidence(m, rcv[d].scan) => Evidence(m, s)
  <2>1. Len(ledger) \in Nat
    <3>1. ledger \in Seq(Identities)
      BY Zenon DEF TypeOK
    <3> QED
      BY <3>1
  <2> QED
    BY <2>1 DEF Evidence, Opened
<1>5. /\ att[d] = rcv[d].seen /\ att[d].state = "Reconciling"
      /\ att[d].final => /\ now > ExpiryBoundary(att[d].created)
                         /\ Evidence(Identity(d, att[d].created), rcv[d].scan)
  BY <1>1, RecoveryKnows, Zenon
<1>6. RecoveryFits(d)'
  <2>3. att'[d] = rcv'[d].seen /\ rcv'[d].seen = att[d]
    BY <1>1, <1>3, <1>5, Zenon
  <2>4. att[d].final => /\ now' > ExpiryBoundary(att[d].created)
                        /\ Evidence(Identity(d, att[d].created), s)
    BY <1>1, <1>4, <1>5, Zenon
  <2>5. /\ f = "block" => HasBlock(d, i, att[d].created)
        /\ f = "absent" => Absent(Identity(d, att[d].created), s)
    BY <1>5, Zenon
  <2>6. Current(d, rcv[d].seen)'
    BY <2>3, Zenon DEF Current
  <2>7. /\ Evidence(Identity(d, rcv[d].seen.created), rcv[d].scan)'
             = Evidence(Identity(d, att[d].created), s)
        /\ Absent(Identity(d, rcv[d].seen.created), rcv[d].scan)'
             = Absent(Identity(d, att[d].created), s)
        /\ HasBlock(d, rcv[d].block, rcv[d].seen.created)' = HasBlock(d, i, att[d].created)
        /\ ExpiryBoundary(rcv[d].seen.created)' = ExpiryBoundary(att[d].created)
    BY <1>1, <1>3, <2>3 DEF Evidence, Absent, HasBlock, ExpiryBoundary, Identity
  <2> QED
    BY <1>3, <1>5, <2>3, <2>4, <2>5, <2>6, <2>7, Zenon DEF RecoveryFits
<1> QED
  BY <1>1, <1>6, RunMoves, Zenon

\* The four outcomes of one reconcile_step of the recovery.
LEMMA RecoveryReadsKeep ==
    ASSUME TypeOK, NEW d \in Deposits, FundingInv(d),
           \/ RecoveryFindsBlock(d) \/ RecoveryReadsPage(d)
           \/ RecoveryFindsNothing(d) \/ RecoveryReadFails(d)
    PROVE  FundingInv(d)'
<1>1. CASE RecoveryFindsBlock(d)
  <2>1. PICK i \in 1..Len(ledger) : /\ ledger[i] = Identity(d, rcv[d].seen.created)
                                    /\ RecoveryRead(d, "block", i, rcv[d].scan)
    BY <1>1, Zenon DEF RecoveryFindsBlock
  <2>2. HasBlock(d, i, rcv[d].seen.created)
    BY <2>1, Zenon DEF HasBlock
  <2> QED
    BY <2>1, <2>2, RecoveryReadKeeps, Zenon
<1>2. CASE RecoveryReadsPage(d)
  BY <1>2, RecoveryReadKeeps, Zenon DEF RecoveryReadsPage
<1>3. CASE RecoveryFindsNothing(d)
  BY <1>3, RecoveryReadKeeps, Zenon DEF RecoveryFindsNothing
<1>4. CASE RecoveryReadFails(d)
  BY <1>4, RecoveryReadKeeps, Zenon DEF RecoveryReadFails
<1> QED
  BY <1>1, <1>2, <1>3, <1>4, Zenon

\* A lost recovery run leaves the attempt for the next one.
LEMMA LoseRecoveryKeeps ==
    ASSUME TypeOK, NEW d \in Deposits, FundingInv(d), LoseRecovery(d)
    PROVE  FundingInv(d)'
<1>1. /\ rcv[d].pc # "idle" /\ rcv' = [rcv EXCEPT ![d] = Asleep]
      /\ UNCHANGED <<now, lnow, ledger, net, att, rec, hscan, calls, req>>
  BY Zenon DEF LoseRecovery, EndRecovery, world
<1>2. rcv'[d].pc = "idle"
  BY <1>1, Zenon DEF TypeOK, Asleep
<1>3. RecoveryFits(d)'
  BY <1>2, Zenon DEF RecoveryFits
<1> QED
  BY <1>1, <1>3, RunMoves, Zenon

\* A block was found: the attempt becomes a funded record.
LEMMA RecoveryPromotesKeeps ==
    ASSUME TypeOK, NEW d \in Deposits, FundingInv(d), RecoveryPromotes(d)
    PROVE  FundingInv(d)' /\ fault' = fault
<1>1. /\ rcv[d].pc = "apply" /\ rcv[d].found = "block"
      /\ Promote(d, rcv[d].seen, "Escrowed", rcv[d].block)
      /\ fault' = (fault \/ (~Current(d, rcv[d].seen) /\ rec[d].state = "None"))
      /\ rcv' = [rcv EXCEPT ![d] = Asleep]
      /\ UNCHANGED <<now, lnow, ledger, net, hscan, calls, req>>
  BY Zenon DEF RecoveryPromotes, EndRecovery, Fault, world
<1>2. /\ att[d] = rcv[d].seen /\ Current(d, rcv[d].seen)
      /\ att[d].state = "Reconciling" /\ rec[d].state = "None"
      /\ HasBlock(d, rcv[d].block, att[d].created)
  BY <1>1, RecoveryKnows, Zenon
<1>3. /\ att' = [att EXCEPT ![d] = NoAttempt]
      /\ rec' = [rec EXCEPT ![d] = [state |-> "Escrowed", created |-> att[d].created,
                                    block |-> rcv[d].block]]
  BY <1>1, <1>2, Zenon DEF Promote
<1>4. /\ att'[d] = NoAttempt
      /\ rec'[d] = [state |-> "Escrowed", created |-> att[d].created, block |-> rcv[d].block]
  BY <1>3, Zenon DEF TypeOK
<1>5. rcv'[d].pc = "idle"
  BY <1>1, Zenon DEF TypeOK, Asleep
<1>6. Quiet(d) /\ hscan'[d] = hscan[d] /\ req'[d] = req[d]
  BY <1>1, Zenon DEF Quiet
<1>7. FundingInv(d)'
  BY <1>2, <1>4, <1>5, <1>6, Promotion, Zenon
<1>8. fault' = fault
  <2>1. fault \in BOOLEAN
    BY Zenon DEF TypeOK
  <2> QED
    BY <1>1, <1>2, <2>1, Zenon
<1> QED
  BY <1>7, <1>8, Zenon

\* The attempt is stored again with the progress, or with a final scan to come.
LEMMA RecoveryStoresKeeps ==
    ASSUME TypeOK, NEW d \in Deposits, FundingInv(d), RecoveryProgresses(d) \/ RecoveryRestarts(d)
    PROVE  FundingInv(d)' /\ fault' = fault
<1>1. PICK b : /\ b = IF rcv[d].found = "page"
                      THEN Attempt("Reconciling", rcv[d].seen.created, now, now + RecoverDelay,
                                   rcv[d].seen.final, rcv[d].scan)
                      ELSE Attempt("Reconciling", rcv[d].seen.created, now,
                                   Larger(FinalScanAt(rcv[d].seen.created), now), TRUE, Fresh)
  BY Zenon
<1>2. /\ rcv[d].pc = "apply" /\ rcv[d].found \in {"page", "absent"}
      /\ Replace(d, rcv[d].seen, b)
      /\ fault' = (fault \/ ~Current(d, rcv[d].seen))
      /\ rcv' = [rcv EXCEPT ![d] = Asleep]
      /\ UNCHANGED <<now, lnow, ledger, net, hscan, calls, req>>
  <2>1. CASE RecoveryProgresses(d)
    <3>1. b = Attempt("Reconciling", rcv[d].seen.created, now, now + RecoverDelay,
                      rcv[d].seen.final, rcv[d].scan)
      BY <1>1, <2>1, Zenon DEF RecoveryProgresses
    <3> QED
      BY <2>1, <3>1, Zenon DEF RecoveryProgresses, EndRecovery, Fault, world
  <2>2. CASE RecoveryRestarts(d)
    <3>1. b = Attempt("Reconciling", rcv[d].seen.created, now,
                      Larger(FinalScanAt(rcv[d].seen.created), now), TRUE, Fresh)
      BY <1>1, <2>2, Zenon DEF RecoveryRestarts
    <3> QED
      BY <2>2, <3>1, Zenon DEF RecoveryRestarts, EndRecovery, Fault, world
  <2> QED
    BY <2>1, <2>2, Zenon
<1>3. /\ att[d] = rcv[d].seen /\ Current(d, rcv[d].seen)
      /\ att[d].state = "Reconciling"
      /\ att[d].final => /\ now > ExpiryBoundary(att[d].created)
                         /\ Evidence(Identity(d, att[d].created), rcv[d].scan)
  BY <1>2, RecoveryKnows, Zenon
<1>4. att' = [att EXCEPT ![d] = b] /\ rec' = rec
  BY <1>2, <1>3, Zenon DEF Replace
<1>5. att'[d] = b
  BY <1>4, Zenon DEF TypeOK
<1>6. rcv'[d].pc = "idle"
  BY <1>2, Zenon DEF TypeOK, Asleep
<1>7. b.state = "Reconciling" /\ b.created = att[d].created
  BY <1>1, <1>3, Zenon DEF Attempt
<1>8. now \in Nat /\ att[d].created \in Nat /\ ExpiryBoundary(att[d].created) \in Nat
  <2>1. now \in Nat /\ att[d] \in Attempts
    BY Zenon DEF TypeOK
  <2>2. att[d].created \in Nat
    BY <2>1, Zenon DEF Attempts
  <2> QED
    BY <2>1, <2>2, WindowAssumption DEF ExpiryBoundary
<1>9. b.final => /\ b.next >= FinalScanAt(att[d].created)
                 /\ b.scan.open => /\ now > ExpiryBoundary(att[d].created)
                                   /\ Evidence(Identity(d, att[d].created), b.scan)
  <2>1. CASE rcv[d].found = "page"
    <3>1. b.final = att[d].final /\ b.next = now + RecoverDelay /\ b.scan = rcv[d].scan
      BY <1>1, <1>3, <2>1, Zenon DEF Attempt
    <3>2. ASSUME att[d].final
          PROVE  /\ now > ExpiryBoundary(att[d].created)
                 /\ Evidence(Identity(d, att[d].created), rcv[d].scan)
      BY <1>3, <3>2, Zenon
    <3>3. ASSUME att[d].final PROVE now + RecoverDelay >= FinalScanAt(att[d].created)
      BY <1>8, <3>2, <3>3, WindowAssumption DEF FinalScanAt
    <3> QED
      BY <3>1, <3>2, <3>3, Zenon
  <2>2. CASE rcv[d].found # "page"
    <3>1. b.next = Larger(FinalScanAt(att[d].created), now) /\ b.scan.open = FALSE
      BY <1>1, <1>3, <2>2, Zenon DEF Attempt, Fresh
    <3> QED
      BY <1>8, <3>1 DEF FinalScanAt, Larger
  <2> QED
    BY <2>1, <2>2, Zenon
<1>10. FinalFits(d)'
  BY <1>2, <1>5, <1>7, <1>9, Zenon DEF FinalFits, FinalScanAt, ExpiryBoundary, Evidence, Identity
<1>11. RecoveryFits(d)'
  BY <1>6, Zenon DEF RecoveryFits
<1>12. Quiet(d) /\ hscan'[d] = hscan[d] /\ req'[d] = req[d] /\ rec'[d] = rec[d]
  BY <1>2, <1>4, Zenon DEF Quiet
<1>13. FundingInv(d)'
  BY <1>3, <1>5, <1>7, <1>10, <1>11, <1>12, Reconciliation, Zenon
<1>14. fault' = fault
  <2>1. fault \in BOOLEAN
    BY Zenon DEF TypeOK
  <2> QED
    BY <1>2, <1>3, <2>1, Zenon
<1> QED
  BY <1>13, <1>14, Zenon

\* A complete final scan without a match: nothing of the attempt is left.
LEMMA RecoveryReleasesKeeps ==
    ASSUME TypeOK, SkewBounded, NEW d \in Deposits, FundingInv(d), RecoveryReleases(d)
    PROVE  FundingInv(d)' /\ fault' = fault
<1>1. /\ rcv[d].pc = "apply" /\ rcv[d].found = "absent" /\ rcv[d].seen.final
      /\ rcv' = [rcv EXCEPT ![d] = Asleep]
      /\ UNCHANGED <<now, lnow, ledger, net, hscan, calls, req>>
  BY Zenon DEF RecoveryReleases, EndRecovery, world
<1>2. /\ att[d] = rcv[d].seen /\ Current(d, rcv[d].seen)
      /\ att[d].state = "Reconciling" /\ rec[d].state = "None"
      /\ now > ExpiryBoundary(att[d].created)
      /\ Evidence(Identity(d, att[d].created), rcv[d].scan)
      /\ Absent(Identity(d, att[d].created), rcv[d].scan)
  BY <1>1, RecoveryKnows, Zenon
<1>3. /\ att' = [att EXCEPT ![d] = NoAttempt] /\ rec' = rec
      /\ fault' = (fault \/ ~Current(d, rcv[d].seen))
  BY <1>2, Zenon DEF RecoveryReleases, Replace, Fault
<1>4. att'[d].state = "None"
  BY <1>3, Zenon DEF TypeOK, NoAttempt, Attempt
<1>5. rcv'[d].pc = "idle"
  BY <1>1, Zenon DEF TypeOK, Asleep
<1>6. ~Executed(Identity(d, att[d].created))
  <2>1. rcv[d].scan.tip \in Nat
    BY Zenon DEF TypeOK, Scans
  <2> QED
    <3> SUFFICES ASSUME NEW j \in 1..Len(ledger), ledger[j] = Identity(d, att[d].created)
                 PROVE  FALSE
      BY Zenon DEF Executed
    <3>1. rcv[d].scan.tip < j \/ j \in 1..rcv[d].scan.tip
      BY <2>1
    <3> QED
      BY <1>2, <3>1, Zenon DEF Evidence, Absent
<1>7. NoCall(d)
  <2> SUFFICES ASSUME NEW q \in net, q.id.dep = d, InWindow(q.id) PROVE FALSE
    BY Zenon DEF NoCall
  <2>1. q.id.created = att[d].created
    BY <1>2, Zenon DEF FundingInv, CallsArePursued, Pursued
  <2>2. att[d].created \in Nat
    BY Zenon DEF TypeOK, Attempts
  <2> QED
    BY <1>2, <2>1, <2>2, Dead, Zenon
<1>8. Quiet(d) /\ hscan'[d] = hscan[d] /\ req'[d] = req[d] /\ rec'[d] = rec[d]
  BY <1>1, <1>3, Zenon DEF Quiet
<1>9. FundingInv(d)'
  BY <1>2, <1>4, <1>5, <1>6, <1>7, <1>8, GivingUp, Zenon
<1>10. fault' = fault
  <2>1. fault \in BOOLEAN
    BY Zenon DEF TypeOK
  <2> QED
    BY <1>2, <1>3, <2>1, Zenon
<1> QED
  BY <1>9, <1>10, Zenon
-----------------------------------------------------------------------------
(* advance_hold. *)

\* A held deposit has no attempt, and no recovery run is out.
LEMMA HeldAlone ==
    ASSUME NEW d \in Deposits, FundingInv(d), rec[d].state = "Hold"
    PROVE  att[d].state = "None" /\ rcv[d].pc = "idle"
<1>1. att[d].state = "None"
  BY Zenon DEF FundingInv, RecordFits
<1> QED
  BY <1>1, NoRecovery, Zenon

\* The resend carries the identity of the hold.
LEMMA HoldPullsKeeps ==
    ASSUME TypeOK, NEW d \in Deposits, FundingInv(d), HoldPulls(d)
    PROVE  FundingInv(d)'
<1>p1. PICK c : c = rec[d].created
  BY Zenon
<1>p3. PICK n : n = calls[d] + 1
  BY Zenon
<1>p4. PICK q0 : q0 = [id |-> Identity(d, c), call |-> n]
  BY Zenon
<1>1. /\ rec[d].state = "Hold" /\ StillAcceptable(d)
      /\ net' = net \cup {q0}
      /\ calls'[d] = n
      /\ req'[d] = [pc |-> "hold", seen |-> NoAttempt, call |-> n, answer |-> "none", block |-> 0]
      /\ att' = att /\ rec' = rec /\ hscan' = hscan /\ rcv' = rcv
      /\ now' = now /\ lnow' = lnow /\ ledger' = ledger
  BY <1>p1, <1>p3, <1>p4, Zenon DEF HoldPulls, HoldRun, Pull, TypeOK, world
<1>2. q0.id.dep = d /\ q0.id.created = c /\ q0.call = n /\ q0.id = Identity(d, c)
  BY <1>p4, Zenon DEF Identity
<1>3. att[d].state = "None" /\ rcv[d].pc = "idle"
  BY <1>1, HeldAlone, Zenon
<1>4. calls[d] \in Nat /\ \A q \in net : q.call \in Nat
  BY Zenon DEF TypeOK
<1>5. \A q \in net : q.id.dep = d => q.call <= calls[d]
  BY Zenon DEF FundingInv, CallsArePursued
<1>6. n = calls[d] + 1 /\ c = rec[d].created
  BY <1>p1, <1>p3, Zenon
<1>7. CallsArePursued(d)'
  <2> SUFFICES ASSUME NEW q \in net', q.id.dep = d
               PROVE  q.call <= n /\ (InWindow(q.id)' => Pursued(d, q.id.created)')
    BY <1>1, Zenon DEF CallsArePursued
  <2>1. CASE q = q0
    BY <2>1, <1>1, <1>2, <1>4, <1>6 DEF Pursued
  <2>2. CASE q \in net
    <3>1. q.call <= n
      BY <2>2, <1>4, <1>5, <1>6
    <3>2. InWindow(q.id) => Pursued(d, q.id.created)
      BY <2>2, Zenon DEF FundingInv, CallsArePursued
    <3> QED
      BY <1>1, <3>1, <3>2, Zenon DEF InWindow, Pursued
  <2> QED
    BY <2>1, <2>2, <1>1, Zenon
<1>8. BlocksArePursued(d)' /\ OneBlock(d)'
  BY <1>1, Zenon DEF FundingInv, BlocksArePursued, OneBlock, Pursued
<1>9. req'[d].pc = "hold" /\ req'[d].call = n /\ req'[d].answer = "none"
  BY <1>1
<1>10. RecordFits(d)'
  BY <1>1, <1>3, <1>4, <1>6, <1>9 DEF RecordFits
<1>11. HoldFits(d)'
  <2>1. \A q \in net' : q.id.dep = d /\ q.call = n => q.id = Identity(d, c)
    BY <1>1, <1>2, <1>4, <1>5, <1>6
  <2>2. Identity(d, rec[d].created)' = Identity(d, c)
    BY <1>1, <1>6, Zenon DEF Identity
  <2>3. ~hscan[d].open
    BY <1>1, Zenon DEF FundingInv, HoldScanFits
  <2> QED
    BY <1>1, <1>9, <2>1, <2>2, <2>3, Zenon DEF HoldFits, Awaits
<1>12. PullFits(d)' /\ PreflightFits(d)'
  BY <1>9, Zenon DEF PullFits, PreflightFits
<1>13. HoldScanFits(d)'
  BY <1>1, Zenon DEF FundingInv, HoldScanFits, StillAcceptable
<1>14. FinalFits(d)' /\ RecoveryFits(d)'
  BY <1>1, <1>3, Zenon DEF FinalFits, RecoveryFits
<1> QED
  BY <1>7, <1>8, <1>10, <1>11, <1>12, <1>13, <1>14, Zenon DEF FundingInv

\* The hold moves on while no handler is left, or stays with a new scan.
LEMMA HoldMoves ==
    ASSUME TypeOK, NEW d \in Deposits, FundingInv(d), Quiet(d), rec[d].state = "Hold",
           att'[d] = att[d], rcv'[d] = rcv[d],
           req'[d].pc = "idle", req'[d].call <= calls[d],
           rec'[d].created = rec[d].created,
           rec'[d].state \in {"Hold", "Escrowed"},
           rec'[d].state = "Escrowed" => HasBlock(d, rec'[d].block, rec[d].created),
           HoldScanFits(d)'
    PROVE  FundingInv(d)'
<1> USE DEF Quiet
<1>0. att[d].state = "None" /\ rcv[d].pc = "idle"
  BY HeldAlone, Zenon
<1>1. CallsArePursued(d)'
  BY <1>0, Zenon DEF FundingInv, CallsArePursued, InWindow, Pursued
<1>2. BlocksArePursued(d)' /\ OneBlock(d)'
  BY <1>0, Zenon DEF FundingInv, BlocksArePursued, OneBlock, Pursued
<1>3. RecordFits(d)'
  BY <1>0, Zenon DEF RecordFits, HasBlock, Identity
<1>4. PullFits(d)' /\ PreflightFits(d)' /\ HoldFits(d)'
  BY Zenon DEF PullFits, PreflightFits, HoldFits
<1>5. FinalFits(d)' /\ RecoveryFits(d)'
  BY <1>0, Zenon DEF FinalFits, RecoveryFits
<1> QED
  BY <1>1, <1>2, <1>3, <1>4, <1>5, Zenon DEF FundingInv

\* A confirmed resend closes the hold with its block.
LEMMA HoldAnsweredKeeps ==
    ASSUME TypeOK, NEW d \in Deposits, FundingInv(d), HoldAnswered(d)
    PROVE  FundingInv(d)'
<1>1. /\ req[d].pc = "hold" /\ rec[d].state = "Hold"
      /\ req' = [req EXCEPT ![d] = Idle]
      /\ UNCHANGED <<now, lnow, ledger, net, att, hscan, calls, rcv>>
  BY Zenon DEF HoldAnswered, EndRequest, world, FundingInv, HoldFits
<1>2. req'[d] = Idle
  BY <1>1, Zenon DEF TypeOK
<1>3. CASE req[d].answer = "confirmed"
  <2>1. PICK m : m = Identity(d, rec[d].created)
    BY Zenon
  <2>2. PICK b : b = BlockOf(m)
    BY Zenon
  <2>3. b \in 1..Len(ledger) /\ ledger[b] = m
    <3>1. Executed(m)
      BY <1>1, <1>3, <2>1, Zenon DEF FundingInv, HoldFits, Awaits
    <3> QED
      BY <2>2, <3>1, BlockExists, Zenon
  <2>4. rec' = [rec EXCEPT ![d] = [state |-> "Escrowed", created |-> rec[d].created, block |-> b]]
    BY <1>3, <2>1, <2>2, Zenon DEF HoldAnswered, Resolve
  <2>5. rec'[d] = [state |-> "Escrowed", created |-> rec[d].created, block |-> b]
    BY <2>4, Zenon DEF TypeOK
  <2>6. rec'[d].state = "Escrowed" /\ rec'[d].created = rec[d].created /\ rec'[d].block = b
    BY <2>5
  <2>7. HasBlock(d, rec'[d].block, rec[d].created)
    BY <2>1, <2>3, <2>6, Zenon DEF HasBlock
  <2>8. ~hscan[d].open
    BY <1>1, Zenon DEF FundingInv, HoldFits
  <2>9. HoldScanFits(d)'
    BY <1>1, <2>8, Zenon DEF HoldScanFits
  <2>10. req'[d].pc = "idle" /\ req'[d].call = 0 /\ calls[d] \in Nat
    BY <1>2 DEF Idle, TypeOK
  <2>11. Quiet(d) /\ att'[d] = att[d] /\ rcv'[d] = rcv[d] /\ req'[d].call <= calls[d]
    BY <1>1, <2>10 DEF Quiet
  <2> QED
    BY <1>1, <2>6, <2>7, <2>9, <2>10, <2>11, HoldMoves, Zenon
<1>4. CASE req[d].answer # "confirmed"
  <2>1. rec' = rec
    BY <1>4, Zenon DEF HoldAnswered
  <2> QED
    BY <1>1, <1>2, <2>1, HandlerEnds, Zenon
<1> QED
  BY <1>3, <1>4, Zenon

\* The scan of a hold that is out of its window.
LEMMA HoldScanKeeps ==
    ASSUME TypeOK, NEW d \in Deposits, FundingInv(d), HoldReadsPage(d) \/ HoldFindsBlock(d)
    PROVE  FundingInv(d)'
<1>1. /\ rec[d].state = "Hold" /\ req[d].pc = "idle" /\ ~StillAcceptable(d)
      /\ UNCHANGED <<now, lnow, ledger, net, att, calls, req, rcv>>
  BY Zenon DEF HoldReadsPage, HoldFindsBlock, HoldRun, world
<1>2. /\ Quiet(d) /\ att'[d] = att[d] /\ rcv'[d] = rcv[d]
      /\ req'[d].pc = "idle" /\ req'[d].call <= calls[d]
  BY <1>1, Zenon DEF Quiet, FundingInv, RecordFits
<1>3. CASE HoldReadsPage(d)
  <2>1. rec' = rec /\ hscan'[d] = Opened(hscan[d])
    BY <1>3, Zenon DEF HoldReadsPage, TypeOK
  <2>2. Len(ledger) \in Nat
    <3>1. ledger \in Seq(Identities)
      BY Zenon DEF TypeOK
    <3> QED
      BY <3>1
  <2>3. Evidence(Identity(d, rec[d].created), Opened(hscan[d]))
    BY <2>2 DEF FundingInv, HoldScanFits, Evidence, Opened
  <2>4. HoldScanFits(d)'
    BY <1>1, <2>1, <2>3, Zenon DEF HoldScanFits, StillAcceptable, Evidence, Identity
  <2> QED
    BY <1>1, <1>2, <2>1, <2>4, HoldMoves, Zenon
<1>4. CASE HoldFindsBlock(d)
  <2>1. PICK i \in 1..Len(ledger) :
            /\ ledger[i] = Identity(d, rec[d].created)
            /\ rec' = [rec EXCEPT ![d] = [state |-> "Escrowed", created |-> rec[d].created, block |-> i]]
    BY <1>4, Zenon DEF HoldFindsBlock, Resolve
  <2>2. rec'[d] = [state |-> "Escrowed", created |-> rec[d].created, block |-> i]
    BY <2>1, Zenon DEF TypeOK
  <2>3. rec'[d].state = "Escrowed" /\ rec'[d].created = rec[d].created /\ rec'[d].block = i
    BY <2>2
  <2>4. HasBlock(d, rec'[d].block, rec[d].created)
    BY <2>1, <2>3, Zenon DEF HasBlock
  <2>5. HoldScanFits(d)'
    BY <1>4, Zenon DEF HoldFindsBlock, HoldScanFits, Fresh, TypeOK
  <2> QED
    BY <1>1, <1>2, <2>3, <2>4, <2>5, HoldMoves, Zenon
<1> QED
  BY <1>3, <1>4, Zenon

\* Absence cancels the deposit: it has no block and no live call.
LEMMA HoldFindsNothingKeeps ==
    ASSUME TypeOK, SkewBounded, NEW d \in Deposits, FundingInv(d), HoldFindsNothing(d)
    PROVE  FundingInv(d)'
<1>1. /\ rec[d].state = "Hold" /\ req[d].pc = "idle" /\ ~StillAcceptable(d)
      /\ Absent(Identity(d, rec[d].created), hscan[d])
      /\ rec' = [rec EXCEPT ![d] = [state |-> "Cancelled", created |-> rec[d].created, block |-> 0]]
      /\ hscan' = [hscan EXCEPT ![d] = Fresh]
      /\ UNCHANGED <<now, lnow, ledger, net, att, calls, req, rcv>>
  BY Zenon DEF HoldFindsNothing, AfterFundingAbsence, Resolve, HoldRun, world
<1>2. rec'[d].state = "Cancelled" /\ ~hscan'[d].open
  BY <1>1, Zenon DEF TypeOK, Fresh
<1>3. att[d].state = "None" /\ rcv[d].pc = "idle"
  BY <1>1, HeldAlone, Zenon
<1>4. Evidence(Identity(d, rec[d].created), hscan[d])
  BY <1>1, Zenon DEF FundingInv, HoldScanFits, Absent
<1>5. \A i \in 1..Len(ledger) : ledger[i] # Identity(d, rec[d].created)
  <2>1. hscan[d].tip \in Nat
    BY Zenon DEF TypeOK, Scans
  <2> QED
    BY <1>1, <1>4, <2>1 DEF Evidence, Absent
<1>6. \A i \in 1..Len(ledger) : ledger[i].dep # d
  <2> SUFFICES ASSUME NEW i \in 1..Len(ledger), ledger[i].dep = d PROVE FALSE
    BY Zenon
  <2>1. ledger[i].created = rec[d].created
    BY <1>3, Zenon DEF FundingInv, BlocksArePursued, Pursued
  <2>2. ledger \in Seq(Identities)
    BY Zenon DEF TypeOK
  <2>3. ledger[i] \in Identities
    BY <2>2
  <2>4. ledger[i] = [dep |-> ledger[i].dep, created |-> ledger[i].created]
    BY <2>3, Zenon DEF Identities
  <2> QED
    BY <1>5, <2>1, <2>4, Zenon DEF Identity
<1>7. \A q \in net : q.id.dep = d => ~InWindow(q.id)
  <2> SUFFICES ASSUME NEW q \in net, q.id.dep = d, InWindow(q.id) PROVE FALSE
    BY Zenon
  <2>1. q.id.created = rec[d].created
    BY <1>3, Zenon DEF FundingInv, CallsArePursued, Pursued
  <2>2. now \in Nat /\ rec[d].created \in Nat
    BY Zenon DEF TypeOK
  <2>3. now > ExpiryBoundary(rec[d].created)
    BY <1>1, <2>2, WindowAssumption DEF StillAcceptable, ExpiryBoundary
  <2> QED
    BY <2>1, <2>2, <2>3, Dead, Zenon
<1>8. CallsArePursued(d)' /\ BlocksArePursued(d)' /\ OneBlock(d)'
  BY <1>1, <1>6, <1>7, Zenon DEF FundingInv, CallsArePursued, BlocksArePursued, OneBlock, InWindow
<1>9. RecordFits(d)'
  BY <1>1, <1>2, <1>3, Zenon DEF FundingInv, RecordFits
<1>10. PullFits(d)' /\ PreflightFits(d)' /\ HoldFits(d)' /\ HoldScanFits(d)'
  BY <1>1, <1>2, Zenon DEF PullFits, PreflightFits, HoldFits, HoldScanFits
<1>11. FinalFits(d)' /\ RecoveryFits(d)'
  BY <1>1, <1>3, Zenon DEF FinalFits, RecoveryFits
<1> QED
  BY <1>8, <1>9, <1>10, <1>11, Zenon DEF FundingInv
-----------------------------------------------------------------------------
(* The clocks and the ledger. *)

\* Time only closes windows.
LEMMA TimePasses ==
    ASSUME TypeOK, NEW d \in Deposits, FundingInv(d),
           now' \in Nat, now <= now', lnow' \in Nat, lnow <= lnow',
           UNCHANGED <<ledger, net, att, rec, hscan, calls, req, rcv>>
    PROVE  FundingInv(d)'
<1>0. /\ now \in Nat /\ lnow \in Nat /\ rec[d].created \in Nat
      /\ att[d] \in Attempts /\ rcv[d].seen \in Attempts
  BY Zenon DEF TypeOK
<1>1. att[d].created \in Nat /\ rcv[d].seen.created \in Nat
  BY <1>0, Zenon DEF Attempts
<1>2. ASSUME NEW q \in net PROVE InWindow(q.id)' => InWindow(q.id)
  <2>1. q.id \in Identities
    BY Zenon DEF TypeOK
  <2>2. q.id.created \in Nat
    BY <2>1, Zenon DEF Identities
  <2> QED
    BY <1>0, <2>2, WindowAssumption DEF InWindow
<1>3. \A c \in Nat : /\ ExpiryBoundary(c)' = ExpiryBoundary(c) /\ ExpiryBoundary(c) \in Nat
                     /\ now > ExpiryBoundary(c) => now' > ExpiryBoundary(c)
  BY <1>0, WindowAssumption DEF ExpiryBoundary
<1>4. ~StillAcceptable(d) => ~StillAcceptable(d)'
  BY <1>0, WindowAssumption DEF StillAcceptable
<1>5. CallsArePursued(d)' /\ BlocksArePursued(d)' /\ OneBlock(d)'
  BY <1>2, Zenon DEF FundingInv, CallsArePursued, BlocksArePursued, OneBlock, Pursued
<1>6. RecordFits(d)' /\ PreflightFits(d)'
  BY Zenon DEF FundingInv, RecordFits, PreflightFits, HasBlock, Identity
<1>7. PullFits(d)'
  BY <1>2, Zenon DEF FundingInv, PullFits, Awaits, OnlyCall, NoCall, Current, Executed, Identity
<1>8. HoldFits(d)'
  BY Zenon DEF FundingInv, HoldFits, Awaits, Executed, Identity
<1>9. HoldScanFits(d)'
  BY <1>4, Zenon DEF FundingInv, HoldScanFits, Evidence, Identity
<1>10. FinalFits(d)'
  BY <1>1, <1>3, Zenon DEF FundingInv, FinalFits, FinalScanAt, Evidence, Identity
<1>11. RecoveryFits(d)'
  BY <1>1, <1>3, Zenon DEF FundingInv, RecoveryFits, Evidence, Identity, HasBlock, Absent, Current
<1> QED
  BY <1>5, <1>6, <1>7, <1>8, <1>9, <1>10, <1>11, Zenon DEF FundingInv

\* What the ledger's step on call q does to the blocks.
Grows(q) ==
    /\ Len(ledger) \in Nat /\ Len(ledger') \in Nat /\ Len(ledger) <= Len(ledger')
    /\ \A i \in 1..Len(ledger) : i \in 1..Len(ledger') /\ ledger'[i] = ledger[i]
    /\ \A i \in 1..Len(ledger') :
           \/ i \in 1..Len(ledger)
           \/ /\ i = Len(ledger) + 1 /\ ledger'[i] = q.id
              /\ InWindow(q.id) /\ ~Executed(q.id)

\* Whether it answers the handler of e, and with which outcome.
Delivers(q, e) == q.id.dep = e /\ req[e].pc \in {"pull", "hold"} /\ req[e].call = q.call
Delivered(q, e, o) ==
    /\ req'[e].pc = req[e].pc /\ req'[e].seen = req[e].seen /\ req'[e].call = req[e].call
    /\ req'[e].answer = o
    /\ \/ o = "confirmed" /\ Executed(q.id)'
       \/ o = "tooOld" /\ ledger' = ledger
       \/ o \in {"rejected", "unavailable"} /\ ledger' = ledger

\* Processing a call appends at most its own identity, inside its window.
LEMMA LedgerGrows ==
    ASSUME TypeOK, NEW q \in net, LedgerProcesses(q)
    PROVE  Grows(q)
<1>1. ledger \in Seq(Identities) /\ q.id \in Identities
  BY Zenon DEF TypeOK
<1>2. CASE ledger' = ledger
  BY <1>1, <1>2 DEF Grows
<1>3. CASE ledger' # ledger
  <2>1. InWindow(q.id) /\ ~Executed(q.id) /\ ledger' = Append(ledger, q.id)
    BY <1>3, Zenon DEF LedgerProcesses, LedgerExecutes, LedgerTooOld, LedgerRefuses
  <2>2. /\ Len(ledger) \in Nat /\ Len(ledger') = Len(ledger) + 1 /\ ledger'[Len(ledger) + 1] = q.id
        /\ \A i \in 1..Len(ledger) : ledger'[i] = ledger[i]
    BY <1>1, <2>1
  <2> QED
    BY <2>1, <2>2 DEF Grows
<1> QED
  BY <1>2, <1>3, Zenon

\* The answer is delivered to the handler that made the call, and to no other.
LEMMA LedgerAnswers ==
    ASSUME TypeOK, NEW q \in net, LedgerProcesses(q), NEW e \in Deposits
    PROVE  /\ ~Delivers(q, e) => req'[e] = req[e]
           /\ Delivers(q, e) => \E o : Delivered(q, e, o)
<1>0. q.id.dep \in Deposits /\ req \in [Deposits -> [pc : {"idle", "pull", "preflight", "hold"},
                                  seen : Attempts, call : Nat, answer : Outcomes, block : Nat]]
  BY Zenon DEF TypeOK, Identities
<1>1. PICK o : /\ Answers(q, o)
               /\ \/ o = "confirmed" /\ LedgerExecutes(q)
                  \/ o = "tooOld" /\ ledger' = ledger
                  \/ o \in {"rejected", "unavailable"} /\ ledger' = ledger
  BY Zenon DEF LedgerProcesses, LedgerExecutes, LedgerTooOld, LedgerRefuses
<1>2. o = "confirmed" /\ LedgerExecutes(q) => Executed(q.id)'
  <2> SUFFICES ASSUME LedgerExecutes(q) PROVE Executed(q.id)'
    BY Zenon
  <2>1. CASE Executed(q.id)
    BY <2>1, Zenon DEF LedgerExecutes, Executed
  <2>2. CASE ~Executed(q.id)
    <3>1. ledger' = Append(ledger, q.id)
      BY <2>2, Zenon DEF LedgerExecutes
    <3>2. ledger \in Seq(Identities) /\ q.id \in Identities
      BY Zenon DEF TypeOK
    <3>3. Len(ledger) + 1 \in 1..Len(ledger') /\ ledger'[Len(ledger) + 1] = q.id
      BY <3>1, <3>2
    <3> QED
      BY <3>3, Zenon DEF Executed
  <2> QED
    BY <2>1, <2>2, Zenon
<1>3. ~Delivers(q, e) => req'[e] = req[e]
  BY <1>0, <1>1, Zenon DEF Answers, Delivers
<1>4. Delivers(q, e) => Delivered(q, e, o)
  <2> SUFFICES ASSUME Delivers(q, e) PROVE Delivered(q, e, o)
    BY Zenon
  <2>1. req'[e] = [pc |-> req[e].pc, seen |-> req[e].seen, call |-> q.call,
                   answer |-> o, block |-> 0]
    BY <1>0, <1>1, Zenon DEF Answers, Delivers
  <2> QED
    BY <1>1, <1>2, <2>1 DEF Delivers, Delivered
<1> QED
  BY <1>3, <1>4, Zenon

\* A scan of an identity the ledger refuses stays evidence.
LEMMA EvidenceKept ==
    ASSUME NEW q, Grows(q), NEW m, NEW s, s.tip \in Nat, m = q.id => ~InWindow(m), Evidence(m, s)
    PROVE  Evidence(m, s)'
BY DEF Grows, Evidence

\* Every handler's expectations survive the answer, and only a live call of
\* a pursued identity adds a block.
LEMMA LedgerProcessesKeeps ==
    ASSUME TypeOK, SkewBounded, NEW q \in net, LedgerProcesses(q), NEW e \in Deposits, FundingInv(e)
    PROVE  FundingInv(e)'
<1>0. /\ now' = now /\ lnow' = lnow /\ net' = net \ {q}
      /\ UNCHANGED <<att, rec, hscan, calls, rcv>>
  BY Zenon DEF LedgerProcesses
<1>1. Grows(q)
  BY LedgerGrows, Zenon
<1>2. /\ ~Delivers(q, e) => req'[e] = req[e]
      /\ Delivers(q, e) => \E o : Delivered(q, e, o)
  BY LedgerAnswers, Zenon
<1>3. req'[e].pc = req[e].pc /\ req'[e].seen = req[e].seen /\ req'[e].call = req[e].call
  BY <1>2, Zenon DEF Delivered
<1>4. q.id \in Identities /\ q.id = Identity(q.id.dep, q.id.created)
  <2>1. q.id \in Identities
    BY Zenon DEF TypeOK
  <2> QED
    BY <2>1, Zenon DEF Identities, Identity
<1>5. \A n \in net : n.id.dep = e /\ n.id = q.id /\ n.call = q.call => n = q
  <2>1. ASSUME NEW n \in net PROVE n = [id |-> n.id, call |-> n.call]
    <3>1. n \in [id : Identities, call : Nat]
      BY Zenon DEF TypeOK
    <3> QED
      BY <3>1, Zenon
  <2> QED
    BY <2>1, Zenon
<1>6. \A c : Identity(e, c)' = Identity(e, c)
  BY Zenon DEF Identity
<1>7. \A m : /\ InWindow(m)' = InWindow(m)
             /\ Executed(m) => Executed(m)'
             /\ Executed(m)' => Executed(m) \/ (m = q.id /\ InWindow(q.id) /\ ledger' # ledger)
  <2>1. \A m : InWindow(m)' = InWindow(m)
    BY <1>0, Zenon DEF InWindow
  <2>2. \A m : Executed(m) => Executed(m)'
    BY <1>1, Zenon DEF Grows, Executed
  <2>3. ASSUME NEW m, Executed(m)', ~Executed(m) PROVE m = q.id /\ InWindow(q.id) /\ ledger' # ledger
    BY <1>1, <2>3, Zenon DEF Grows, Executed
  <2> QED
    BY <2>1, <2>2, <2>3, Zenon
<1>8. \A i, c : HasBlock(e, i, c) => HasBlock(e, i, c)'
  BY <1>1, Zenon DEF Grows, HasBlock, Identity
<1>9. CallsArePursued(e)'
  BY <1>0, <1>7, Zenon DEF FundingInv, CallsArePursued, Pursued
<1>10. \A c : Pursued(e, c)' = Pursued(e, c)
  BY <1>0, Zenon DEF Pursued
<1>11. BlocksArePursued(e)'
  <2> SUFFICES ASSUME NEW i \in 1..Len(ledger'), ledger'[i].dep = e PROVE Pursued(e, ledger'[i].created)
    BY <1>10, Zenon DEF BlocksArePursued
  <2>1. CASE i \in 1..Len(ledger)
    BY <1>1, <2>1, Zenon DEF Grows, FundingInv, BlocksArePursued
  <2>2. CASE ledger'[i] = q.id /\ InWindow(q.id)
    BY <2>2, Zenon DEF FundingInv, CallsArePursued
  <2> QED
    BY <1>1, <2>1, <2>2, Zenon DEF Grows
<1>12. ASSUME InWindow(q.id), ~Executed(q.id), q.id.dep = e
       PROVE  \A i \in 1..Len(ledger) : ledger[i].dep # e
  <2> SUFFICES ASSUME NEW i \in 1..Len(ledger), ledger[i].dep = e PROVE FALSE
    BY Zenon
  <2>1. Pursued(e, ledger[i].created) /\ Pursued(e, q.id.created)
    BY <1>12, Zenon DEF FundingInv, BlocksArePursued, CallsArePursued
  <2>2. ledger[i].created = q.id.created
    <3>1. att[e].state = "None" \/ rec[e].state = "None"
      BY Zenon DEF FundingInv, RecordFits
    <3> QED
      BY <2>1, <3>1 DEF Pursued
  <2>3. ledger \in Seq(Identities)
    BY Zenon DEF TypeOK
  <2>4. ledger[i] \in Identities
    BY <2>3
  <2>5. ledger[i] = [dep |-> ledger[i].dep, created |-> ledger[i].created]
    BY <2>4, Zenon DEF Identities
  <2>6. ledger[i] = q.id
    BY <1>4, <1>12, <2>2, <2>5, Zenon DEF Identity
  <2> QED
    BY <1>12, <2>6, Zenon DEF Executed
<1>13. OneBlock(e)'
  <2> SUFFICES ASSUME NEW i \in 1..Len(ledger'), NEW j \in 1..Len(ledger'),
                      ledger'[i].dep = e, ledger'[j].dep = e
               PROVE  i = j
    BY Zenon DEF OneBlock
  <2>1. CASE i \in 1..Len(ledger) /\ j \in 1..Len(ledger)
    BY <1>1, <2>1, Zenon DEF Grows, FundingInv, OneBlock
  <2>2. CASE i \notin 1..Len(ledger) /\ j \notin 1..Len(ledger)
    BY <1>1, <2>2, Zenon DEF Grows
  <2>3. CASE i \in 1..Len(ledger) /\ j \notin 1..Len(ledger)
    BY <1>1, <1>12, <2>3, Zenon DEF Grows
  <2>4. CASE i \notin 1..Len(ledger) /\ j \in 1..Len(ledger)
    BY <1>1, <1>12, <2>4, Zenon DEF Grows
  <2> QED
    BY <2>1, <2>2, <2>3, <2>4, Zenon
<1>14. RecordFits(e)'
  BY <1>0, <1>3, <1>8, Zenon DEF FundingInv, RecordFits
<1>15. PreflightFits(e)'
  <2>1. req[e].pc = "preflight" => req'[e] = req[e]
    BY <1>2, Zenon DEF Delivers
  <2> QED
    BY <1>3, <1>8, <2>1, Zenon DEF FundingInv, PreflightFits
\* What the handler of e waits for, after the answer to another call or to its own.
<1>16. ASSUME NEW c, Awaits(e, c), req[e].pc \in {"pull", "hold"} PROVE Awaits(e, c)'
  <2>1. CASE ~Delivers(q, e)
    BY <1>0, <1>2, <1>6, <1>7, <1>16, <2>1, Zenon DEF Awaits
  <2>2. CASE Delivers(q, e)
    <3>1. PICK o : Delivered(q, e, o)
      BY <1>2, <2>2, Zenon
    <3>2. q.id = Identity(e, c) /\ q.id.dep = e /\ q.call = req[e].call
      BY <1>16, <2>2, Zenon DEF Awaits, Delivers
    <3>3. \A n \in net' : ~(n.id.dep = e /\ n.call = req'[e].call)
      BY <1>0, <1>3, <1>5, <1>16, <3>2, Zenon DEF Awaits
    <3>4. req'[e].answer = "confirmed" => Executed(Identity(e, c))'
      BY <1>6, <3>1, <3>2, Zenon DEF Delivered
    <3> QED
      BY <3>3, <3>4, Zenon DEF Awaits
  <2> QED
    BY <2>1, <2>2, Zenon
<1>17. PullFits(e)'
  <2>0. CASE req[e].pc # "pull"
    BY <1>3, <2>0, Zenon DEF PullFits
  <2>p. CASE req[e].pc = "pull"
    <3>p. PICK c : c = req[e].seen.created
      BY Zenon
    <3>1. /\ req[e].seen.state = "Dispatched" /\ Awaits(e, c)
          /\ Current(e, req[e].seen) =>
               /\ req[e].answer \in {"none", "rejected", "unavailable"} => ~Executed(Identity(e, c))
               /\ req[e].answer = "none" => OnlyCall(e, req[e].call)
               /\ req[e].answer \in {"rejected", "unavailable"} => NoCall(e)
      BY <2>p, <3>p, Zenon DEF FundingInv, PullFits
    <3>2. Awaits(e, c)'
      BY <1>16, <2>p, <3>1, Zenon
    <3>3. ASSUME Current(e, req[e].seen), ~Delivers(q, e)
          PROVE  /\ req[e].answer \in {"none", "rejected", "unavailable"} => ~Executed(Identity(e, c))'
                 /\ req[e].answer = "none" => OnlyCall(e, req[e].call)'
                 /\ req[e].answer \in {"rejected", "unavailable"} => NoCall(e)'
      <4>1. Identity(e, c) = q.id => q.id.dep = e
        BY DEF Identity
      <4>2. ASSUME req[e].answer \in {"none", "rejected", "unavailable"} PROVE ~(q.id.dep = e /\ InWindow(q.id))
        BY <2>p, <3>1, <3>3, <4>2, Zenon DEF OnlyCall, NoCall, Delivers
      <4>3. req[e].answer \in {"none", "rejected", "unavailable"} => ~Executed(Identity(e, c))'
        BY <1>6, <1>7, <3>1, <3>3, <4>1, <4>2, Zenon
      <4>4. req[e].answer = "none" => OnlyCall(e, req[e].call)'
        BY <1>0, <1>3, <1>7, <3>1, <3>3, Zenon DEF OnlyCall
      <4>5. req[e].answer \in {"rejected", "unavailable"} => NoCall(e)'
        BY <1>0, <1>7, <3>1, <3>3, Zenon DEF NoCall
      <4> QED
        BY <4>3, <4>4, <4>5, Zenon
    <3>4. ASSUME Current(e, req[e].seen), Delivers(q, e), NEW o \in {"rejected", "unavailable"},
                 Delivered(q, e, o)
          PROVE  ~Executed(Identity(e, c))' /\ NoCall(e)'
      <4>1. q.id = Identity(e, c) /\ req[e].answer = "none" /\ q.id.dep = e /\ q.call = req[e].call
        BY <3>1, <3>4, Zenon DEF Awaits, Delivers
      <4>2. ledger' = ledger
        BY <3>4, Zenon DEF Delivered
      <4>3. ~Executed(Identity(e, c))'
        BY <1>6, <1>7, <3>1, <3>4, <4>1, <4>2, Zenon
      <4>4. NoCall(e)'
        <5> SUFFICES ASSUME NEW n \in net, n # q, n.id.dep = e, InWindow(n.id) PROVE FALSE
          BY <1>0, <1>7, Zenon DEF NoCall
        <5>1. n.call = q.call
          BY <3>1, <3>4, <4>1, Zenon DEF OnlyCall
        <5>2. n.id = q.id
          BY <3>1, <4>1, <5>1, Zenon DEF Awaits
        <5> QED
          BY <1>5, <5>1, <5>2, Zenon
      <4> QED
        BY <4>3, <4>4, Zenon
    <3>5. Current(e, req[e].seen)' = Current(e, req[e].seen) /\ Identity(e, req[e].seen.created)' = Identity(e, c)
      BY <1>0, <1>3, <3>p, Zenon DEF Current, Identity
    <3>6. Awaits(e, req[e].seen.created)' = Awaits(e, c)'
      BY <1>3, <3>p, Zenon DEF Awaits, Identity
    <3>7. CASE ~Delivers(q, e)
      <4>1. req'[e].answer = req[e].answer
        BY <1>2, <3>7, Zenon
      <4>3. Executed(Identity(e, req[e].seen.created))' = Executed(Identity(e, c))'
        BY <3>5, <1>6, Zenon DEF Executed
      <4> QED
        BY <1>3, <3>1, <3>2, <3>3, <3>5, <3>6, <3>7, <4>1, <4>3, Zenon DEF PullFits
    <3>8. CASE Delivers(q, e)
      <4>1. PICK o : Delivered(q, e, o)
        BY <1>2, <3>8, Zenon
      <4>2. req'[e].answer = o /\ o # "none"
        BY <4>1, Zenon DEF Delivered
      <4>3. Executed(Identity(e, req[e].seen.created))' = Executed(Identity(e, c))'
        BY <3>5, <1>6, Zenon DEF Executed
      <4> QED
        BY <1>3, <3>1, <3>2, <3>4, <3>5, <3>6, <3>8, <4>1, <4>2, <4>3, Zenon DEF PullFits
    <3> QED
      BY <3>7, <3>8, Zenon
  <2> QED
    BY <2>0, <2>p, Zenon
<1>18. HoldFits(e)'
  <2>0. CASE req[e].pc # "hold"
    BY <1>3, <2>0, Zenon DEF HoldFits
  <2>1. CASE req[e].pc = "hold"
    <3>p. PICK c : c = rec[e].created
      BY Zenon
    <3>1. rec[e].state = "Hold" /\ ~hscan[e].open /\ Awaits(e, c)
      BY <2>1, <3>p, Zenon DEF FundingInv, HoldFits
    <3>2. Awaits(e, c)'
      BY <1>16, <2>1, <3>1, Zenon
    <3>3. Awaits(e, rec[e].created)' = Awaits(e, c)'
      BY <1>0, <3>p, Zenon DEF Awaits, Identity
    <3> QED
      BY <1>0, <3>1, <3>2, <3>3, Zenon DEF HoldFits
  <2> QED
    BY <2>0, <2>1, Zenon
\* Dead identities stay without a block.
<1>19. /\ rec[e].created \in Nat /\ att[e].created \in Nat /\ rcv[e].seen.created \in Nat /\ now \in Nat
       /\ hscan[e].tip \in Nat /\ att[e].scan.tip \in Nat /\ rcv[e].scan.tip \in Nat
  <2>1. /\ rec[e].created \in Nat /\ att[e] \in Attempts /\ rcv[e].seen \in Attempts /\ now \in Nat
        /\ hscan[e] \in Scans /\ rcv[e].scan \in Scans
    BY Zenon DEF TypeOK
  <2> QED
    BY <2>1, Zenon DEF Attempts, Scans
<1>20. \A c \in Nat : now > ExpiryBoundary(c) => ~InWindow(Identity(e, c))
  BY Dead, Zenon DEF Identity
<1>21. ASSUME NEW c \in Nat, NEW s, s.tip \in Nat, now > ExpiryBoundary(c), Evidence(Identity(e, c), s)
       PROVE  Evidence(Identity(e, c), s)'
  <2>1. PICK m : m = Identity(e, c)
    BY Zenon
  <2>2. ~InWindow(m) /\ Evidence(m, s)
    BY <1>20, <1>21, <2>1, Zenon
  <2>3. Evidence(m, s)'
    BY <1>1, <1>21, <2>2, EvidenceKept, Zenon
  <2>4. Evidence(Identity(e, c), s)' = Evidence(m, s)'
    BY <1>6, <2>1, Zenon DEF Evidence
  <2> QED
    BY <2>3, <2>4, Zenon
<1>22. HoldScanFits(e)'
  <2>1. ~StillAcceptable(e) => now > ExpiryBoundary(rec[e].created)
    BY <1>19, WindowAssumption DEF StillAcceptable, ExpiryBoundary
  <2>2. hscan[e].open => Evidence(Identity(e, rec[e].created), hscan[e])'
    BY <1>0, <1>19, <1>21, <2>1, Zenon DEF FundingInv, HoldScanFits
  <2> QED
    BY <1>0, <2>2, Zenon DEF FundingInv, HoldScanFits, StillAcceptable
<1>23. FinalFits(e)'
  <2>1. ASSUME att[e].state = "Reconciling", att[e].final, att[e].scan.open
        PROVE  Evidence(Identity(e, att[e].created), att[e].scan)'
    BY <1>0, <1>19, <1>21, <2>1, Zenon DEF FundingInv, FinalFits
  <2> QED
    BY <1>0, <2>1, Zenon DEF FundingInv, FinalFits, FinalScanAt, ExpiryBoundary
<1>24. RecoveryFits(e)'
  <2> SUFFICES ASSUME rcv[e].pc # "idle" PROVE RecoveryFits(e)'
    BY <1>0, Zenon DEF RecoveryFits
  <2>1. ASSUME rcv[e].seen.final PROVE Evidence(Identity(e, rcv[e].seen.created), rcv[e].scan)'
    BY <1>0, <1>19, <1>21, <2>1, Zenon DEF FundingInv, RecoveryFits
  <2>2. rcv[e].found = "block" => HasBlock(e, rcv[e].block, rcv[e].seen.created)'
    BY <1>0, <1>8, Zenon DEF FundingInv, RecoveryFits
  <2>3. ASSUME rcv[e].found = "absent", rcv[e].seen.final
        PROVE  Absent(Identity(e, rcv[e].seen.created), rcv[e].scan)'
    <3>1. /\ Absent(Identity(e, rcv[e].seen.created), rcv[e].scan)
          /\ Evidence(Identity(e, rcv[e].seen.created), rcv[e].scan)
      BY <2>3, Zenon DEF FundingInv, RecoveryFits
    <3>2. \A j \in 1..rcv[e].scan.tip : j \in 1..Len(ledger)
      <4>1. rcv[e].scan.tip <= Len(ledger)
        BY <3>1, Zenon DEF Absent, Evidence
      <4>2. Len(ledger) \in Nat
        BY <1>1, Zenon DEF Grows
      <4>3. rcv[e].scan.tip \in Nat
        BY <1>19, Zenon
      <4> QED
        BY <4>1, <4>2, <4>3
    <3> QED
      BY <1>0, <1>1, <3>1, <3>2, Zenon DEF Absent, Grows, Identity
  <2> QED
    BY <1>0, <2>1, <2>2, <2>3, Zenon DEF FundingInv, RecoveryFits, Current, ExpiryBoundary
<1> QED
  BY <1>9, <1>11, <1>13, <1>14, <1>15, <1>17, <1>18, <1>22, <1>23, <1>24, Zenon DEF FundingInv

-----------------------------------------------------------------------------
(* Types. *)

Requests == [pc : {"idle", "pull", "preflight", "hold"}, seen : Attempts,
             call : Nat, answer : Outcomes, block : Nat]
Runs == [pc : {"idle", "read", "apply"}, seen : Attempts,
         found : {"none", "block", "absent", "page"}, block : Nat, scan : Scans]
Records == [state : {"None", "Hold", "Escrowed", "Cancelled"}, created : Nat, block : Nat]

\* The values that stand for nothing are well typed.
LEMMA InitialTypes ==
    Fresh \in Scans /\ NoAttempt \in Attempts /\ Idle \in Requests /\ Asleep \in Runs
<1>1. Fresh \in Scans
  BY Zenon DEF Fresh, Scans
<1>2. NoAttempt \in Attempts
  BY <1>1, Zenon DEF NoAttempt, Attempt, Attempts
<1> QED
  BY <1>1, <1>2, Zenon DEF Idle, Asleep, Requests, Runs, Outcomes

\* So is an attempt made of typed parts.
LEMMA AttemptType ==
    ASSUME NEW s \in {"Prepared", "Dispatched", "Retryable", "Reconciling"},
           NEW c \in Nat, NEW t \in Nat, NEW n \in Nat, NEW f \in BOOLEAN, NEW sc \in Scans
    PROVE  Attempt(s, c, t, n, f, sc) \in Attempts
BY Zenon DEF Attempt, Attempts

\* The stored values of one deposit.
LEMMA Stored ==
    ASSUME TypeOK, NEW d \in Deposits
    PROVE  /\ now \in Nat /\ now + 1 \in Nat /\ now + RecoverDelay \in Nat
           /\ att[d] \in Attempts /\ att[d].created \in Nat /\ att[d].scan \in Scans
           /\ rec[d] \in Records /\ rec[d].created \in Nat
           /\ hscan[d] \in Scans /\ calls[d] \in Nat
           /\ req[d] \in Requests /\ req[d].seen \in Attempts /\ req[d].seen.created \in Nat
           /\ req[d].call \in Nat /\ req[d].answer \in Outcomes /\ req[d].block \in Nat
           /\ rcv[d] \in Runs /\ rcv[d].seen \in Attempts /\ rcv[d].seen.created \in Nat
           /\ rcv[d].seen.final \in BOOLEAN /\ rcv[d].scan \in Scans /\ rcv[d].block \in Nat
           /\ Opened(rcv[d].scan) \in Scans /\ Opened(hscan[d]) \in Scans
<1>1. /\ now \in Nat /\ att[d] \in Attempts /\ rec[d] \in Records /\ hscan[d] \in Scans
      /\ calls[d] \in Nat /\ req[d] \in Requests /\ rcv[d] \in Runs
  BY Zenon DEF TypeOK, Records, Requests, Runs
<1>2. /\ req[d].seen \in Attempts /\ req[d].call \in Nat /\ req[d].answer \in Outcomes
      /\ req[d].block \in Nat
  BY <1>1, Zenon DEF Requests
<1>3. rcv[d].seen \in Attempts /\ rcv[d].scan \in Scans /\ rcv[d].block \in Nat
  BY <1>1, Zenon DEF Runs
<1>4. ledger \in Seq(Identities)
  BY Zenon DEF TypeOK
<1>5. Len(ledger) \in Nat
  BY <1>4
<1>6. Opened(rcv[d].scan) \in Scans /\ Opened(hscan[d]) \in Scans
  BY <1>1, <1>3, <1>5, Zenon DEF Opened, Scans
<1>7. att[d].created \in Nat /\ att[d].scan \in Scans /\ rec[d].created \in Nat
  BY <1>1, Zenon DEF Attempts, Records
<1>8. req[d].seen.created \in Nat /\ rcv[d].seen.created \in Nat /\ rcv[d].seen.final \in BOOLEAN
  BY <1>2, <1>3, Zenon DEF Attempts
<1>9. now + 1 \in Nat /\ now + RecoverDelay \in Nat
  BY <1>1, WindowAssumption
<1> QED
  BY <1>1, <1>2, <1>3, <1>6, <1>7, <1>8, <1>9, Zenon

\* Types by variable: what an action stores for d is well typed.
LEMMA TypeUpdate ==
    ASSUME TypeOK, NEW d \in Deposits, UNCHANGED world,
           fault' \in BOOLEAN,
           net' \subseteq [id : Identities, call : Nat],
           att' = att \/ \E a \in Attempts : att' = [att EXCEPT ![d] = a],
           rec' = rec \/ \E r \in Records : rec' = [rec EXCEPT ![d] = r],
           hscan' = hscan \/ \E s \in Scans : hscan' = [hscan EXCEPT ![d] = s],
           calls' = calls \/ \E n \in Nat : calls' = [calls EXCEPT ![d] = n],
           req' = req \/ \E r \in Requests : req' = [req EXCEPT ![d] = r],
           rcv' = rcv \/ \E r \in Runs : rcv' = [rcv EXCEPT ![d] = r]
    PROVE  TypeOK'
<1>1. /\ now' \in Nat /\ lnow' \in Nat /\ paused' \in BOOLEAN
      /\ ledger' = ledger /\ ledger \in Seq(Identities)
  BY Zenon DEF TypeOK, world
<1>2. att' \in [Deposits -> Attempts]
  BY Zenon DEF TypeOK
<1>3. rec' \in [Deposits -> Records]
  BY Zenon DEF TypeOK, Records
<1>4. hscan' \in [Deposits -> Scans] /\ calls' \in [Deposits -> Nat]
  <2>1. hscan \in [Deposits -> Scans] /\ calls \in [Deposits -> Nat]
    BY Zenon DEF TypeOK
  <2>2. hscan' \in [Deposits -> Scans]
    BY <2>1, Zenon
  <2>3. calls' \in [Deposits -> Nat]
    BY <2>1, Zenon
  <2> QED
    BY <2>2, <2>3, Zenon
<1>t. req \in [Deposits -> Requests] /\ rcv \in [Deposits -> Runs]
  BY Zenon DEF TypeOK, Requests, Runs
<1>5. req' \in [Deposits -> Requests]
  BY <1>t, Zenon
<1>6. rcv' \in [Deposits -> Runs]
  BY <1>t, Zenon
<1> QED
  BY <1>1, <1>2, <1>3, <1>4, <1>5, <1>6, Zenon DEF TypeOK, Records, Requests, Runs

\* What admit_deposit stores is well typed.
LEMMA PromoteType ==
    ASSUME NEW d \in Deposits, NEW a, NEW s \in {"Hold", "Escrowed"}, NEW i \in Nat,
           a.created \in Nat, Promote(d, a, s, i)
    PROVE  /\ att' = att \/ \E b \in Attempts : att' = [att EXCEPT ![d] = b]
           /\ rec' = rec \/ \E r \in Records : rec' = [rec EXCEPT ![d] = r]
<1>1. [state |-> s, created |-> a.created, block |-> i] \in Records
  BY Zenon DEF Records
<1> QED
  BY <1>1, InitialTypes, Zenon DEF Promote

\* What update_deposit_funding_attempt stores is well typed.
LEMMA ReplaceType ==
    ASSUME NEW d \in Deposits, NEW a, NEW b \in Attempts, Replace(d, a, b)
    PROVE  (att' = att \/ \E x \in Attempts : att' = [att EXCEPT ![d] = x]) /\ rec' = rec
BY Zenon DEF Replace

\* A new call is well typed.
LEMMA PullType ==
    ASSUME TypeOK, NEW d \in Deposits, NEW c \in Nat, NEW w \in {"pull", "hold"},
           NEW a \in Attempts, Pull(d, c, w, a)
    PROVE  /\ net' \subseteq [id : Identities, call : Nat]
           /\ \E n \in Nat : calls' = [calls EXCEPT ![d] = n]
           /\ \E r \in Requests : req' = [req EXCEPT ![d] = r]
<1>1. calls[d] + 1 \in Nat
  BY Stored
<1>2. [id |-> Identity(d, c), call |-> calls[d] + 1] \in [id : Identities, call : Nat]
  BY <1>1, Zenon DEF Identity, Identities
<1>3. [pc |-> w, seen |-> a, call |-> calls[d] + 1, answer |-> "none", block |-> 0] \in Requests
  BY <1>1, Zenon DEF Requests, Outcomes
<1>4. net' \subseteq [id : Identities, call : Nat]
  BY <1>2, Zenon DEF Pull, TypeOK
<1> QED
  BY <1>1, <1>3, <1>4, Zenon DEF Pull

\* The actions of request_deposit keep the types.
LEMMA RequestTypes ==
    ASSUME TypeOK, NEW d \in Deposits, FundingInv(d), Request(d)
    PROVE  TypeOK' /\ fault' = fault
<1>0. fault \in BOOLEAN /\ net \subseteq [id : Identities, call : Nat]
  BY Zenon DEF TypeOK
<1>1. CASE RequestDeposit(d)
  <2>1. PICK c : c = CreatedAt(d)
    BY Zenon
  <2>2. c \in Nat /\ now \in Nat
    BY <2>1, Stored, Zenon DEF CreatedAt
  <2>3. PICK a : a = Attempt("Dispatched", c, now, 0, FALSE, Fresh)
    BY Zenon
  <2>4. a \in Attempts
    BY <2>2, <2>3, AttemptType, InitialTypes, Zenon
  <2>5. /\ att' = [att EXCEPT ![d] = a] /\ Pull(d, c, "pull", a)
        /\ UNCHANGED <<world, rec, hscan, rcv, fault>>
    BY <1>1, <2>1, <2>3, Zenon DEF RequestDeposit
  <2>6. /\ net' \subseteq [id : Identities, call : Nat]
        /\ \E n \in Nat : calls' = [calls EXCEPT ![d] = n]
        /\ \E r \in Requests : req' = [req EXCEPT ![d] = r]
    BY <2>2, <2>4, <2>5, PullType, Zenon
  <2> QED
    BY <1>0, <2>4, <2>5, <2>6, TypeUpdate, Zenon
<1>2. CASE PrepareOnly(d)
  <2>1. PICK a \in Attempts : att' = [att EXCEPT ![d] = a]
    BY <1>2, Stored, AttemptType, InitialTypes, Zenon DEF PrepareOnly
  <2>2. UNCHANGED <<world, net, rec, hscan, calls, req, rcv, fault>>
    BY <1>2, Zenon DEF PrepareOnly
  <2> QED
    BY <1>0, <2>1, <2>2, TypeUpdate, Zenon
<1>3. CASE LoseRequest(d)
  BY <1>0, <1>3, InitialTypes, TypeUpdate, Zenon DEF LoseRequest, EndRequest
<1>4. CASE PullSucceeded(d)
  <2>1. PICK b : b = BlockOf(Identity(d, req[d].seen.created))
    BY Zenon
  <2>2. req[d].pc = "pull" /\ req[d].answer = "confirmed"
    <3>1. req[d].answer \in Outcomes
      BY Stored, Zenon
    <3> QED
      BY <1>4, <3>1, Zenon DEF PullSucceeded, FundingDecision, Outcomes
  <2>3. Executed(Identity(d, req[d].seen.created))
    BY <2>2, Zenon DEF FundingInv, PullFits, Awaits
  <2>4. b \in 1..Len(ledger)
    BY <2>1, <2>3, BlockExists, Zenon
  <2>5. PICK r : r = [pc |-> "preflight", seen |-> req[d].seen, call |-> req[d].call,
                      answer |-> req[d].answer, block |-> b]
    BY Zenon
  <2>6. r \in Requests
    BY <2>4, <2>5, Stored DEF Requests
  <2>7. /\ req' = [req EXCEPT ![d] = r]
        /\ UNCHANGED <<world, net, att, rec, hscan, calls, rcv, fault>>
    BY <1>4, <2>1, <2>5, Zenon DEF PullSucceeded
  <2> QED
    BY <1>0, <2>6, <2>7, TypeUpdate, Zenon
<1>5. CASE PreflightReturns(d) \/ PullAmbiguous(d)
  <2>1. PICK s \in {"Hold", "Escrowed"}, i \in Nat : Promote(d, req[d].seen, s, i)
    BY <1>5, Stored, Zenon DEF PreflightReturns, PullAmbiguous
  <2>2. EndRequest(d) /\ UNCHANGED <<world, net, hscan, calls, rcv, fault>>
    BY <1>5, Zenon DEF PreflightReturns, PullAmbiguous
  <2>3. /\ att' = att \/ \E b \in Attempts : att' = [att EXCEPT ![d] = b]
        /\ rec' = rec \/ \E r \in Records : rec' = [rec EXCEPT ![d] = r]
    BY <2>1, Stored, PromoteType
  <2> QED
    BY <1>0, <2>2, <2>3, InitialTypes, TypeUpdate, Zenon DEF EndRequest
<1>6. CASE PullRefused(d) \/ PullUnavailable(d)
  <2>1. Attempt("Retryable", req[d].seen.created, now, now + RecoverDelay, FALSE, Fresh) \in Attempts
    BY Stored, AttemptType, InitialTypes, Zenon
  <2>2. PICK b \in Attempts : Replace(d, req[d].seen, b)
    BY <1>6, <2>1, InitialTypes, Zenon DEF PullRefused, PullUnavailable
  <2>3. EndRequest(d) /\ UNCHANGED <<world, net, hscan, calls, rcv, fault>>
    BY <1>6, Zenon DEF PullRefused, PullUnavailable
  <2>4. (att' = att \/ \E x \in Attempts : att' = [att EXCEPT ![d] = x]) /\ rec' = rec
    BY <2>2, ReplaceType, Zenon
  <2> QED
    BY <1>0, <2>3, <2>4, InitialTypes, TypeUpdate, Zenon DEF EndRequest
<1> QED
  BY <1>1, <1>2, <1>3, <1>4, <1>5, <1>6, Zenon DEF Request

\* The actions of the recovery timer keep the types.
LEMMA RecoveryTypes ==
    ASSUME TypeOK, NEW d \in Deposits, Recovery(d)
    PROVE  TypeOK'
<1>0. fault \in BOOLEAN /\ net \subseteq [id : Identities, call : Nat]
  BY Zenon DEF TypeOK
<1>1. CASE PruneAttempt(d)
  BY <1>0, <1>1, InitialTypes, TypeUpdate, Zenon DEF PruneAttempt
<1>2. CASE StartRecovery(d)
  <2>1. PICK a : a = IF att[d].state = "Dispatched"
                     THEN Attempt("Reconciling", att[d].created, now, now, FALSE, Fresh)
                     ELSE att[d]
    BY Zenon
  <2>2. a \in Attempts
    BY <2>1, Stored, AttemptType, InitialTypes, Zenon
  <2>3. PICK r : r = [pc |-> "read", seen |-> a, found |-> "none", block |-> 0, scan |-> a.scan]
    BY Zenon
  <2>4. r \in Runs
    BY <2>2, <2>3, Zenon DEF Runs, Attempts
  <2>5. /\ att' = [att EXCEPT ![d] = a] /\ rcv' = [rcv EXCEPT ![d] = r]
        /\ UNCHANGED <<world, net, rec, hscan, calls, req, fault>>
    BY <1>2, <2>1, <2>3, Zenon DEF StartRecovery
  <2> QED
    BY <1>0, <2>2, <2>4, <2>5, TypeUpdate, Zenon
<1>3. CASE \/ RecoveryFindsBlock(d) \/ RecoveryReadsPage(d)
           \/ RecoveryFindsNothing(d) \/ RecoveryReadFails(d)
  <2>1. PICK f \in {"block", "page", "absent"}, i \in Nat, s \in Scans : RecoveryRead(d, f, i, s)
    <3>1. CASE RecoveryFindsBlock(d)
      <4>1. PICK i \in 1..Len(ledger) : RecoveryRead(d, "block", i, rcv[d].scan)
        BY <3>1, Zenon DEF RecoveryFindsBlock
      <4> QED
        BY <4>1, Stored
    <3> QED
      BY <1>3, <3>1, Stored, Zenon DEF RecoveryReadsPage, RecoveryFindsNothing, RecoveryReadFails
  <2>2. PICK r : r = [pc |-> "apply", seen |-> rcv[d].seen, found |-> f, block |-> i, scan |-> s]
    BY Zenon
  <2>3. r \in Runs
    BY <2>2, Stored, Zenon DEF Runs
  <2>4. /\ rcv' = [rcv EXCEPT ![d] = r]
        /\ UNCHANGED <<world, net, att, rec, hscan, calls, req, fault>>
    BY <2>1, <2>2, Zenon DEF RecoveryRead
  <2> QED
    BY <1>0, <2>3, <2>4, TypeUpdate, Zenon
<1>4. CASE LoseRecovery(d)
  BY <1>0, <1>4, InitialTypes, TypeUpdate, Zenon DEF LoseRecovery, EndRecovery
<1>5. CASE RecoveryPromotes(d)
  <2>1. /\ Promote(d, rcv[d].seen, "Escrowed", rcv[d].block) /\ EndRecovery(d)
        /\ fault' \in BOOLEAN
    BY <1>0, <1>5, Zenon DEF RecoveryPromotes, Fault
  <2>2. /\ att' = att \/ \E b \in Attempts : att' = [att EXCEPT ![d] = b]
        /\ rec' = rec \/ \E r \in Records : rec' = [rec EXCEPT ![d] = r]
    BY <2>1, Stored, PromoteType, Zenon
  <2> QED
    BY <1>0, <2>1, <2>2, InitialTypes, TypeUpdate, Zenon DEF EndRecovery
<1>6. CASE RecoveryProgresses(d) \/ RecoveryRestarts(d) \/ RecoveryReleases(d)
  <2>1. Attempt("Reconciling", rcv[d].seen.created, now, now + RecoverDelay,
                rcv[d].seen.final, rcv[d].scan) \in Attempts
    BY Stored, AttemptType, Zenon
  <2>2. Larger(FinalScanAt(rcv[d].seen.created), now) \in Nat
    BY Stored, WindowAssumption DEF Larger, FinalScanAt, ExpiryBoundary
  <2>3. Attempt("Reconciling", rcv[d].seen.created, now,
                Larger(FinalScanAt(rcv[d].seen.created), now), TRUE, Fresh) \in Attempts
    BY <2>2, Stored, AttemptType, InitialTypes, Zenon
  <2>4. /\ UNCHANGED <<att, rec>> \/ \E b \in Attempts : Replace(d, rcv[d].seen, b)
        /\ EndRecovery(d)
    BY <1>6, <2>1, <2>3, InitialTypes, Zenon DEF RecoveryProgresses, RecoveryRestarts, RecoveryReleases
  <2>5. fault' \in BOOLEAN
    BY <1>0, <1>6, Zenon DEF RecoveryProgresses, RecoveryRestarts, RecoveryReleases, Fault
  <2>6. (att' = att \/ \E x \in Attempts : att' = [att EXCEPT ![d] = x]) /\ rec' = rec
    BY <2>4, ReplaceType, Zenon
  <2> QED
    BY <1>0, <2>4, <2>5, <2>6, InitialTypes, TypeUpdate, Zenon DEF EndRecovery
<1> QED
  BY <1>1, <1>2, <1>3, <1>4, <1>5, <1>6, Zenon DEF Recovery

\* The actions of the hold keep the types.
LEMMA HoldTypes ==
    ASSUME TypeOK, NEW d \in Deposits, FundingInv(d), Hold(d)
    PROVE  TypeOK' /\ fault' = fault
<1>0. fault \in BOOLEAN /\ net \subseteq [id : Identities, call : Nat]
  BY Zenon DEF TypeOK
<1>1. CASE HoldPulls(d)
  <2>1. /\ Pull(d, rec[d].created, "hold", NoAttempt)
        /\ UNCHANGED <<world, att, rec, hscan, rcv, fault>>
    BY <1>1, Zenon DEF HoldPulls
  <2>2. /\ net' \subseteq [id : Identities, call : Nat]
        /\ \E n \in Nat : calls' = [calls EXCEPT ![d] = n]
        /\ \E r \in Requests : req' = [req EXCEPT ![d] = r]
    BY <2>1, Stored, InitialTypes, PullType, Zenon
  <2> QED
    BY <1>0, <2>1, <2>2, TypeUpdate, Zenon
<1>r. ASSUME NEW s \in {"Escrowed", "Cancelled"}, NEW i \in Nat, Resolve(d, s, i)
      PROVE  \E r \in Records : rec' = [rec EXCEPT ![d] = r]
  <2>1. [state |-> s, created |-> rec[d].created, block |-> i] \in Records
    BY Stored, Zenon DEF Records
  <2> QED
    BY <1>r, <2>1, Zenon DEF Resolve
<1>2. CASE HoldAnswered(d)
  <2>1. EndRequest(d) /\ UNCHANGED <<world, net, att, hscan, calls, rcv, fault>>
    BY <1>2, Zenon DEF HoldAnswered
  <2>2. rec' = rec \/ \E r \in Records : rec' = [rec EXCEPT ![d] = r]
    <3>1. CASE req[d].answer = "confirmed"
      <4>1. PICK b : b = BlockOf(Identity(d, rec[d].created))
        BY Zenon
      <4>2. Executed(Identity(d, rec[d].created))
        BY <1>2, <3>1, Zenon DEF HoldAnswered, FundingInv, HoldFits, Awaits
      <4>3. b \in 1..Len(ledger)
        BY <4>1, <4>2, BlockExists, Zenon
      <4>4. Resolve(d, "Escrowed", b)
        BY <1>2, <3>1, <4>1, Zenon DEF HoldAnswered
      <4> QED
        BY <1>r, <4>3, <4>4
    <3> QED
      BY <1>2, <3>1, Zenon DEF HoldAnswered
  <2> QED
    BY <1>0, <2>1, <2>2, InitialTypes, TypeUpdate, Zenon DEF EndRequest
<1>3. CASE HoldReadsPage(d)
  BY <1>0, <1>3, Stored, TypeUpdate, Zenon DEF HoldReadsPage
<1>4. CASE HoldFindsBlock(d) \/ HoldFindsNothing(d)
  <2>1. PICK s \in {"Escrowed", "Cancelled"}, i \in Nat : Resolve(d, s, i)
    BY <1>4 DEF HoldFindsBlock, HoldFindsNothing, AfterFundingAbsence
  <2>2. \E r \in Records : rec' = [rec EXCEPT ![d] = r]
    BY <1>r, <2>1, Zenon
  <2>3. /\ hscan' = [hscan EXCEPT ![d] = Fresh]
        /\ UNCHANGED <<world, net, att, calls, req, rcv, fault>>
    BY <1>4, Zenon DEF HoldFindsBlock, HoldFindsNothing
  <2> QED
    BY <1>0, <2>2, <2>3, InitialTypes, TypeUpdate, Zenon
<1> QED
  BY <1>1, <1>2, <1>3, <1>4, Zenon DEF Hold

\* The ledger keeps the types.
LEMMA LedgerTypes ==
    ASSUME TypeOK, NEW q \in net, LedgerProcesses(q)
    PROVE  TypeOK' /\ fault' = fault
<1>1. /\ ledger \in Seq(Identities) /\ net \subseteq [id : Identities, call : Nat]
      /\ req \in [Deposits -> Requests]
  BY Zenon DEF TypeOK, Requests
<1>2. q.id \in Identities /\ q.call \in Nat
  BY <1>1, Zenon
<1>3. q.id.dep \in Deposits
  BY <1>2, Zenon DEF Identities
<1>4. ledger' \in Seq(Identities)
  <2>1. ledger' = ledger \/ ledger' = Append(ledger, q.id)
    BY Zenon DEF LedgerProcesses, LedgerExecutes, LedgerTooOld, LedgerRefuses
  <2>2. Append(ledger, q.id) \in Seq(Identities)
    BY <1>1, <1>2
  <2> QED
    BY <1>1, <2>1, <2>2, Zenon
<1>5. req' \in [Deposits -> Requests]
  <2>1. PICK o \in Outcomes : Answers(q, o)
    BY Zenon DEF LedgerProcesses, LedgerExecutes, LedgerTooOld, LedgerRefuses, Outcomes
  <2>2. PICK d \in Deposits : d = q.id.dep
    BY <1>3, Zenon
  <2>3. PICK r : r = [pc |-> req[d].pc, seen |-> req[d].seen, call |-> q.call,
                      answer |-> o, block |-> 0]
    BY Zenon
  <2>4. req[d] \in Requests
    BY <1>1, Zenon
  <2>5. r \in Requests
    BY <1>2, <2>3, <2>4, Zenon DEF Requests
  <2>6. req' = req \/ req' = [req EXCEPT ![d] = r]
    BY <2>1, <2>2, <2>3, Zenon DEF Answers
  <2> QED
    BY <1>1, <2>5, <2>6, Zenon
<1>6. /\ net' \subseteq [id : Identities, call : Nat]
      /\ UNCHANGED <<now, lnow, paused, att, rec, hscan, calls, rcv, fault>>
  BY <1>1, Zenon DEF LedgerProcesses
<1> QED
  BY <1>4, <1>5, <1>6, Zenon DEF TypeOK, Requests
-----------------------------------------------------------------------------
(* The step. *)

\* An action of deposit d changes what is stored for d, and adds calls of d.
Touches(d) ==
    /\ now' = now /\ lnow' = lnow /\ ledger' = ledger
    /\ \A q \in net' : q \in net \/ q.id.dep = d
    /\ \A e \in Deposits \ {d} :
           /\ att'[e] = att[e] /\ rec'[e] = rec[e] /\ hscan'[e] = hscan[e]
           /\ calls'[e] = calls[e] /\ req'[e] = req[e] /\ rcv'[e] = rcv[e]

\* No action of one deposit reaches what is stored for another.
LEMMA OneDeposit ==
    ASSUME TypeOK, NEW d \in Deposits, Request(d) \/ Recovery(d) \/ Hold(d)
    PROVE  Touches(d)
<1>1. /\ \E S : att \in [Deposits -> S]
      /\ \E S : rec \in [Deposits -> S]
      /\ \E S : hscan \in [Deposits -> S]
      /\ \E S : calls \in [Deposits -> S]
      /\ \E S : req \in [Deposits -> S]
      /\ \E S : rcv \in [Deposits -> S]
  BY Zenon DEF TypeOK
<1>2. CASE Request(d)
  <2>0. CASE PrepareOnly(d)
    BY <1>1, <2>0, Zenon DEF PrepareOnly, Touches, world
  <2>1. CASE RequestDeposit(d)
    <3>1. PICK a, c : /\ att' = [att EXCEPT ![d] = a] /\ Pull(d, c, "pull", a)
                      /\ UNCHANGED <<world, rec, hscan, rcv>>
      BY <2>1, Zenon DEF RequestDeposit
    <3>2. PICK r : r = [pc |-> "pull", seen |-> a, call |-> calls[d] + 1,
                        answer |-> "none", block |-> 0]
      BY Zenon
    <3>3. req' = [req EXCEPT ![d] = r] /\ calls' = [calls EXCEPT ![d] = calls[d] + 1]
      BY <3>1, <3>2, Zenon DEF Pull
    <3>4. \A q \in net' : q \in net \/ q.id.dep = d
      BY <3>1 DEF Pull, Identity
    <3> QED
      BY <1>1, <3>1, <3>3, <3>4, Zenon DEF Touches, world
  <2>2. CASE LoseRequest(d) \/ PullSucceeded(d)
    BY <1>1, <2>2, Zenon DEF LoseRequest, PullSucceeded, EndRequest, Touches, world
  <2>3. CASE PreflightReturns(d) \/ PullAmbiguous(d)
    BY <1>1, <2>3, Zenon DEF PreflightReturns, PullAmbiguous, EndRequest, Promote, Touches, world
  <2>4. CASE PullRefused(d) \/ PullUnavailable(d)
    BY <1>1, <2>4, Zenon DEF PullRefused, PullUnavailable, EndRequest, Replace, Touches, world
  <2> QED
    BY <1>2, <2>0, <2>1, <2>2, <2>3, <2>4, Zenon DEF Request
<1>3. CASE Recovery(d)
  <2>1. CASE PruneAttempt(d) \/ StartRecovery(d)
    BY <1>1, <2>1, Zenon DEF PruneAttempt, StartRecovery, Touches, world
  <2>2. CASE \/ RecoveryFindsBlock(d) \/ RecoveryReadsPage(d)
             \/ RecoveryFindsNothing(d) \/ RecoveryReadFails(d)
    BY <1>1, <2>2, Zenon DEF RecoveryFindsBlock, RecoveryReadsPage, RecoveryFindsNothing,
                      RecoveryReadFails, RecoveryRead, Touches, world
  <2>3. CASE LoseRecovery(d) \/ RecoveryPromotes(d)
    BY <1>1, <2>3, Zenon DEF LoseRecovery, RecoveryPromotes, EndRecovery, Promote, Touches, world
  <2>4. CASE RecoveryProgresses(d) \/ RecoveryRestarts(d) \/ RecoveryReleases(d)
    BY <1>1, <2>4, Zenon DEF RecoveryProgresses, RecoveryRestarts, RecoveryReleases, EndRecovery,
                      Replace, Touches, world
  <2> QED
    BY <1>3, <2>1, <2>2, <2>3, <2>4, Zenon DEF Recovery
<1>4. CASE Hold(d)
  <2>1. CASE HoldPulls(d)
    <3>1. /\ Pull(d, rec[d].created, "hold", NoAttempt)
          /\ UNCHANGED <<world, att, rec, hscan, rcv>>
      BY <2>1, Zenon DEF HoldPulls
    <3>2. PICK r : r = [pc |-> "hold", seen |-> NoAttempt, call |-> calls[d] + 1,
                        answer |-> "none", block |-> 0]
      BY Zenon
    <3>3. req' = [req EXCEPT ![d] = r] /\ calls' = [calls EXCEPT ![d] = calls[d] + 1]
      BY <3>1, <3>2, Zenon DEF Pull
    <3>4. \A q \in net' : q \in net \/ q.id.dep = d
      BY <3>1 DEF Pull, Identity
    <3> QED
      BY <1>1, <3>1, <3>3, <3>4, Zenon DEF Touches, world
  <2>2. CASE HoldAnswered(d) \/ HoldReadsPage(d) \/ HoldFindsBlock(d) \/ HoldFindsNothing(d)
    BY <1>1, <2>2, Zenon DEF HoldAnswered, HoldReadsPage, HoldFindsBlock, HoldFindsNothing, Resolve,
                      EndRequest, Touches, world
  <2> QED
    BY <1>4, <2>1, <2>2, Zenon DEF Hold
<1> QED
  BY <1>2, <1>3, <1>4, Zenon

\* The facts about d, whichever of its actions runs.
LEMMA OwnStep ==
    ASSUME TypeOK, SkewBounded, NEW d \in Deposits, FundingInv(d),
           Request(d) \/ Recovery(d) \/ Hold(d)
    PROVE  FundingInv(d)' /\ TypeOK' /\ fault' = fault
<1>1. CASE Request(d)
  BY <1>1, RequestTypes, RequestDepositKeeps, PrepareOnlyKeeps, LoseRequestKeeps,
     PullSucceededKeeps, PreflightReturnsKeeps, PullAmbiguousKeeps, PullRefusedKeeps, Zenon DEF Request
<1>2. CASE Recovery(d)
  <2>1. TypeOK'
    BY <1>2, RecoveryTypes, Zenon
  <2>2. CASE RecoveryPromotes(d) \/ RecoveryProgresses(d) \/ RecoveryRestarts(d) \/ RecoveryReleases(d)
    BY <2>1, <2>2, RecoveryPromotesKeeps, RecoveryStoresKeeps, RecoveryReleasesKeeps, Zenon
  <2>3. CASE PruneAttempt(d) \/ StartRecovery(d) \/ LoseRecovery(d)
    <3>1. fault' = fault
      BY <2>3, Zenon DEF PruneAttempt, StartRecovery, LoseRecovery
    <3> QED
      BY <2>1, <2>3, <3>1, PruneAttemptKeeps, StartRecoveryKeeps, LoseRecoveryKeeps, Zenon
  <2>4. CASE \/ RecoveryFindsBlock(d) \/ RecoveryReadsPage(d)
             \/ RecoveryFindsNothing(d) \/ RecoveryReadFails(d)
    <3>1. fault' = fault
      BY <2>4, Zenon DEF RecoveryFindsBlock, RecoveryReadsPage, RecoveryFindsNothing,
                  RecoveryReadFails, RecoveryRead
    <3> QED
      BY <2>1, <2>4, <3>1, RecoveryReadsKeep, Zenon
  <2> QED
    BY <1>2, <2>2, <2>3, <2>4, Zenon DEF Recovery
<1>3. CASE Hold(d)
  BY <1>3, HoldTypes, HoldPullsKeeps, HoldAnsweredKeeps, HoldScanKeeps, HoldFindsNothingKeeps, Zenon DEF Hold
<1> QED
  BY <1>1, <1>2, <1>3, Zenon

\* The initial state satisfies the inductive invariant.
LEMMA InitInv == Init => IndInv
<1> SUFFICES ASSUME Init PROVE IndInv
  BY Zenon
<1>1. TypeOK
  <2>1. NoRecord \in Records
    BY Zenon DEF NoRecord, Records
  <2>2. <<>> \in Seq(Identities)
    OBVIOUS
  <2> QED
    BY <2>1, <2>2, InitialTypes, Zenon DEF Init, TypeOK, Records, Requests, Runs
<1>2. SkewBounded /\ RecoveryIsCurrent
  BY WindowAssumption DEF Init, SkewBounded, RecoveryIsCurrent
<1>3. ASSUME NEW d \in Deposits PROVE FundingInv(d)
  <2>1. /\ net = {} /\ Len(ledger) = 0 /\ calls[d] = 0
        /\ att[d].state = "None" /\ rec[d].state = "None" /\ ~hscan[d].open
        /\ req[d].pc = "idle" /\ req[d].call = 0 /\ rcv[d].pc = "idle"
    BY Zenon DEF Init, NoAttempt, Attempt, NoRecord, Fresh, Idle, Asleep
  <2>2. \A i \in 1..Len(ledger) : FALSE
    BY <2>1
  <2>3. CallsArePursued(d) /\ BlocksArePursued(d) /\ OneBlock(d)
    BY <2>1, <2>2, Zenon DEF CallsArePursued, BlocksArePursued, OneBlock
  <2>4. RecordFits(d) /\ PullFits(d) /\ PreflightFits(d) /\ HoldFits(d)
    BY <2>1 DEF RecordFits, PullFits, PreflightFits, HoldFits
  <2>5. HoldScanFits(d) /\ FinalFits(d) /\ RecoveryFits(d)
    BY <2>1, Zenon DEF HoldScanFits, FinalFits, RecoveryFits
  <2> QED
    BY <2>3, <2>4, <2>5, Zenon DEF FundingInv
<1> QED
  BY <1>1, <1>2, <1>3, Zenon DEF IndInv

\* Every step keeps the inductive invariant.
LEMMA StepInv == IndInv /\ [Next]_vars => IndInv'
<1> SUFFICES ASSUME IndInv, [Next]_vars PROVE IndInv'
  BY Zenon
<1>0. TypeOK /\ SkewBounded /\ ~fault /\ \A d \in Deposits : FundingInv(d)
  BY Zenon DEF IndInv, RecoveryIsCurrent
<1>1. CASE CanisterTick \/ LedgerTick \/ SetPause \/ UNCHANGED vars
  <2>1. /\ now' \in Nat /\ now <= now' /\ lnow' \in Nat /\ lnow <= lnow' /\ fault' = fault
        /\ UNCHANGED <<ledger, net, att, rec, hscan, calls, req, rcv>>
    BY <1>0, <1>1 DEF CanisterTick, LedgerTick, SetPause, vars, TypeOK
  <2>2. TypeOK'
    <3>1. paused' \in BOOLEAN
      BY <1>0, <1>1, Zenon DEF CanisterTick, LedgerTick, SetPause, vars, TypeOK
    <3> QED
      BY <1>0, <2>1, <3>1, Zenon DEF TypeOK
  <2>3. SkewBounded'
    <3>1. now \in Nat /\ lnow \in Nat /\ MaxSkew \in Nat
      BY <1>0, WindowAssumption, Zenon DEF TypeOK
    <3> QED
      BY <1>0, <1>1, <3>1 DEF CanisterTick, LedgerTick, SetPause, vars, SkewBounded
  <2>4. \A d \in Deposits : FundingInv(d)'
    BY <1>0, <2>1, TimePasses, Zenon
  <2> QED
    BY <1>0, <2>1, <2>2, <2>3, <2>4, Zenon DEF IndInv, RecoveryIsCurrent
<1>2. ASSUME NEW q \in net, LedgerProcesses(q) PROVE IndInv'
  <2>1. TypeOK' /\ fault' = fault
    BY <1>0, <1>2, LedgerTypes, Zenon
  <2>2. SkewBounded'
    BY <1>0, <1>2, Zenon DEF LedgerProcesses, SkewBounded
  <2>3. \A e \in Deposits : FundingInv(e)'
    BY <1>0, <1>2, LedgerProcessesKeeps, Zenon
  <2> QED
    BY <1>0, <2>1, <2>2, <2>3, Zenon DEF IndInv, RecoveryIsCurrent
<1>3. ASSUME NEW d \in Deposits, Request(d) \/ Recovery(d) \/ Hold(d) PROVE IndInv'
  <2>1. FundingInv(d)' /\ TypeOK' /\ fault' = fault
    BY <1>0, <1>3, OwnStep, Zenon
  <2>2. Touches(d)
    BY <1>0, <1>3, OneDeposit, Zenon
  <2>3. SkewBounded'
    BY <1>0, <2>2, Zenon DEF Touches, SkewBounded
  <2>4. ASSUME NEW e \in Deposits, e # d PROVE FundingInv(e)'
    <3>1. Same(e)
      BY <2>2, <2>4, Zenon DEF Touches, Same
    <3> QED
      BY <1>0, <3>1, Frame, Zenon
  <2> QED
    BY <1>0, <2>1, <2>3, <2>4, Zenon DEF IndInv, RecoveryIsCurrent
<1> QED
  BY <1>1, <1>2, <1>3, Zenon DEF Next, Environment
-----------------------------------------------------------------------------
(* Theorems. *)

\* Every reachable state satisfies the inductive invariant of the funding
\* path (request_deposit, recover_one_funding_attempt, advance_hold).
THEOREM Invariance == Spec => []IndInv
BY InitInv, StepInv, PTL DEF Spec

\* Every variable keeps its type.
THEOREM TypeCorrect == Spec => []TypeOK
<1>1. IndInv => TypeOK
  BY Zenon DEF IndInv
<1> QED
  BY <1>1, Invariance, PTL

\* No pull that the ledger executed is forgotten by request_deposit, the
\* recovery timer or the hold, whatever the interleaving, the losses and the
\* delays.
THEOREM NothingForgotten == Spec => []NoForgottenPull
<1>1. IndInv => NoForgottenPull
  <2> SUFFICES ASSUME IndInv, NEW i \in 1..Len(ledger)
               PROVE  Tracked(ledger[i].dep, ledger[i].created)
    BY Zenon DEF NoForgottenPull
  <2>1. ledger \in Seq(Identities)
    BY Zenon DEF IndInv, TypeOK
  <2>2. ledger[i] \in Identities
    BY <2>1
  <2>3. ledger[i].dep \in Deposits
    BY <2>2, Zenon DEF Identities
  <2>4. BlocksArePursued(ledger[i].dep)
    BY <2>3, Zenon DEF IndInv, FundingInv
  <2> QED
    BY <2>4, Zenon DEF BlocksArePursued, Pursued, Tracked
<1> QED
  BY <1>1, Invariance, PTL

\* A deposit is pulled at most once: an attempt that recovery or a refusal
\* gave up is never executed afterwards.
THEOREM PulledOnce == Spec => []PulledAtMostOnce
<1>1. IndInv => PulledAtMostOnce
  <2> SUFFICES ASSUME IndInv, NEW i \in 1..Len(ledger), NEW j \in 1..Len(ledger),
                      ledger[i].dep = ledger[j].dep
               PROVE  i = j
    BY Zenon DEF PulledAtMostOnce
  <2>1. ledger \in Seq(Identities)
    BY Zenon DEF IndInv, TypeOK
  <2>2. ledger[i] \in Identities
    BY <2>1
  <2>3. ledger[i].dep \in Deposits
    BY <2>2, Zenon DEF Identities
  <2>4. OneBlock(ledger[i].dep)
    BY <2>3, Zenon DEF IndInv, FundingInv
  <2> QED
    BY <2>4, Zenon DEF OneBlock
<1> QED
  BY <1>1, Invariance, PTL

\* A record in Escrowed points at the ledger block that paid it, whether the
\* handler, the recovery timer or the hold stored it.
THEOREM EscrowHasBlock == Spec => []EscrowedIsFunded
<1>1. IndInv => EscrowedIsFunded
  BY Zenon DEF IndInv, EscrowedIsFunded, FundingInv, RecordFits, HasBlock
<1> QED
  BY <1>1, Invariance, PTL

\* A late handler or a late recovery run never brings an attempt back beside
\* the record that replaced it.
THEOREM AttemptXorRecord == Spec => []AttemptOrRecord
<1>1. IndInv => AttemptOrRecord
  BY Zenon DEF IndInv, AttemptOrRecord, FundingInv, RecordFits
<1> QED
  BY <1>1, Invariance, PTL

\* recover_one_funding_attempt marks no scheduler fault: nobody changes the
\* attempt under it and no final scan completes inside the window.
THEOREM RecoveryNeverFaults == Spec => []RecoveryIsCurrent
<1>1. IndInv => RecoveryIsCurrent
  BY Zenon DEF IndInv
<1> QED
  BY <1>1, Invariance, PTL
=============================================================================
