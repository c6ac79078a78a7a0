------------------------- MODULE LedgerSettlementProofs -------------------------
(***************************************************************************)
(* Proofs about LedgerSettlement, for every set of liabilities, every      *)
(* window, drift, page size and bound.                                     *)
(***************************************************************************)
EXTENDS LedgerSettlement, FiniteSetTheorems, TLAPS

\* The conjuncts of IndInv about blocks, requests and scans, and the others.
HistoryInv == /\ SentIsCurrentOrDead /\ ExecutedIsCurrent /\ PaidAtMostOnce
              /\ ConfirmedIsExecuted /\ PaidIsOnLedger /\ ScanIsEvidence
RunInv == SkewBounded /\ IndexBehind /\ RunFitsState /\ BudgetUnspent

USE DEF Liabilities

\* The expiry test of advance_hold is sound: an identity the canister no
\* longer resends is one the ledger no longer executes.
LEMMA ExpiredIsDead ==
    ASSUME IndInv, NEW l \in Liabilities, ~IdentityStillAcceptable(l)
    PROVE  ~InWindow(Identity(l))
<1>1. now \in Nat /\ lnow \in Nat /\ pay[l].created \in Nat /\ now - lnow <= MaxSkew
  BY Zenon DEF IndInv, TypeOK, PayRecords, SkewBounded
<1>2. now > pay[l].created + DedupWindow + Drift
  BY <1>1, WindowAssumption DEF IdentityStillAcceptable
<1>3. Identity(l).created = pay[l].created
  BY Zenon DEF Identity
<1> QED
  BY <1>1, <1>2, <1>3, WindowAssumption, SkewAssumption DEF InWindow

\* The initial state satisfies the inductive invariant.
LEMMA InitInv == Init => IndInv
  BY WindowAssumption
  DEF Init, IndInv, TypeOK, SkewBounded, SentIsCurrentOrDead, ExecutedIsCurrent, PaidAtMostOnce,
      ConfirmedIsExecuted, PaidIsOnLedger, RunFitsState, ScanIsEvidence, BudgetUnspent, IndexBehind, NoScan,
      PayRecords, States, Outcomes

\* A confirmed answer names a block that executed the identity.
LEMMA BlockOfConfirmed ==
    ASSUME NEW l \in Liabilities, ConfirmedIsExecuted, answer[l] = "confirmed"
    PROVE  BlockOf(Identity(l)) \in 1..Len(ledger) /\ ledger[BlockOf(Identity(l))] = Identity(l)
<1> PICK i \in 1..Len(ledger) : ledger[i] = Identity(l)
  BY Zenon DEF ConfirmedIsExecuted, Executed
<1> QED
  BY Zenon DEF BlockOf

\* A page lies inside the part of the ledger the scan covers.
LEMMA PageBounds ==
    ASSUME NEW l \in Liabilities, TypeOK, ScanIsEvidence
    PROVE  /\ ScanTip(l) \in 0..Len(ledger) /\ ScanFrom(l) \in Nat /\ PageEnd(l) \in Nat
           /\ PageEnd(l) <= ScanTip(l)
  BY WindowAssumption DEF TypeOK, ScanIsEvidence, ScanTip, ScanFrom, PageEnd, Smaller

\* Every step keeps the types.
LEMMA TypeStep == IndInv /\ [Next]_vars => TypeOK'
<1> SUFFICES ASSUME IndInv, [Next]_vars PROVE TypeOK'
  BY Zenon
<1> USE DEF TypeOK, canister, world
<1>t. TypeOK /\ ConfirmedIsExecuted /\ ScanIsEvidence
  BY Zenon DEF IndInv
<1>1. CASE UNCHANGED vars
  BY <1>t, <1>1, Zenon DEF vars
<1>2. CASE CanisterTick
  BY <1>t, <1>2 DEF CanisterTick
<1>3. CASE LedgerTick
  BY <1>t, <1>3 DEF LedgerTick
<1>4. CASE IndexSync
  BY <1>t, <1>4 DEF IndexSync
<1>5. ASSUME NEW m \in net, LedgerProcesses(m) PROVE TypeOK'
  <2>1. m \in Identities
    BY <1>t, Zenon
  <2>2. Append(ledger, m) \in Seq(Identities)
    BY <1>t, <2>1
  <2>3. ledger' \in Seq(Identities)
    BY <1>t, <1>5, <2>2, Zenon DEF LedgerProcesses, LedgerExecutes, LedgerTooOld, LedgerRefuses
  <2>4. ASSUME NEW o \in Outcomes, Answers(m, o) PROVE answer' \in [Liabilities -> Outcomes]
    BY <1>t, <2>4, Zenon DEF Answers
  <2>5. answer' \in [Liabilities -> Outcomes]
    BY <1>5, <2>4, Zenon DEF LedgerProcesses, LedgerExecutes, LedgerTooOld, LedgerRefuses, Outcomes
  <2> QED
    BY <1>t, <1>5, <2>3, <2>5, Zenon DEF LedgerProcesses
<1>6. ASSUME NEW l \in Liabilities, StartPayment(l) PROVE TypeOK'
  BY <1>t, <1>6, Zenon DEF StartPayment, PayRecords, States
<1>7. ASSUME NEW l \in Liabilities, ClaimRun(l) PROVE TypeOK'
  BY <1>t, <1>7, Zenon DEF ClaimRun
<1>8. ASSUME NEW l \in Liabilities, LoseRun(l) PROVE TypeOK'
  BY <1>t, <1>8, Zenon DEF LoseRun, Outcomes
<1>9. ASSUME NEW l \in Liabilities, NEW w \in {"transfer", "hold"}, SendIdentity(l, w) PROVE TypeOK'
  BY <1>t, <1>9 DEF SendIdentity, Identity, Identities, PayRecords
<1>10. ASSUME NEW l \in Liabilities, NEW s \in States, NEW i \in Nat
       PROVE  [pay EXCEPT ![l] = Mark(l, s, i)] \in [Liabilities -> PayRecords]
  BY <1>t, Zenon DEF Mark, PayRecords
<1>11. ASSUME NEW l \in Liabilities, OnTransferAnswer(l) PROVE TypeOK'
  <2>1. StateAfterTransfer(answer[l]) \in States
    BY <1>t, Zenon DEF StateAfterTransfer, States, Outcomes
  <2>2. pay' \in [Liabilities -> PayRecords]
    <3>1. CASE answer[l] = "confirmed"
      <4>1. BlockOf(Identity(l)) \in Nat
        BY <1>t, <3>1, BlockOfConfirmed
      <4> QED
        BY <3>1, <4>1, <1>10, <1>11 DEF OnTransferAnswer, RecordPaid, States
    <3>2. CASE answer[l] # "confirmed"
      BY <3>2, <2>1, <1>10, <1>11 DEF OnTransferAnswer
    <3> QED
      BY <3>1, <3>2, Zenon
  <2> QED
    BY <1>t, <2>2, <1>11, Zenon DEF OnTransferAnswer, EndRun, Outcomes
<1>12. ASSUME NEW l \in Liabilities, OnHoldAnswer(l) PROVE TypeOK'
  <2>1. pay' \in [Liabilities -> PayRecords]
    <3>1. CASE answer[l] = "confirmed"
      <4>1. BlockOf(Identity(l)) \in Nat
        BY <1>t, <3>1, BlockOfConfirmed
      <4> QED
        BY <3>1, <4>1, <1>10, <1>12 DEF OnHoldAnswer, RecordPaid, States
    <3> QED
      BY <1>t, <3>1, <1>12, Zenon DEF OnHoldAnswer
  <2> QED
    BY <1>t, <2>1, <1>12, Zenon DEF OnHoldAnswer, EndRun, Outcomes
<1>13. ASSUME NEW l \in Liabilities, ScanLedgerPage(l) PROVE TypeOK'
  <2>a. ScanTip(l) \in 0..Len(ledger) /\ PageEnd(l) \in Nat
    <3> HIDE DEF TypeOK
    <3> QED
      BY <1>t, PageBounds, Zenon
  <2>1. /\ ScanTip(l) \in Nat /\ PageEnd(l) \in Nat /\ PhaseAfterPage(l) \in {"ledger", "index"}
    BY <2>a DEF PhaseAfterPage
  <2>2. scan' \in [Liabilities -> [phase : {"none", "ledger", "index"}, next : Nat, tip : Nat]]
    BY <1>t, <1>13, <2>1, Zenon DEF ScanLedgerPage
  <2>3. /\ run' \in [Liabilities -> {"idle", "ready", "transfer", "hold"}]
        /\ answer' \in [Liabilities -> Outcomes] /\ steps' \in [Liabilities -> Nat]
    BY <1>t, <1>13 DEF ScanLedgerPage, EndScanRun, EndRun, Outcomes
  <2> QED
    BY <1>t, <1>13, <2>2, <2>3, Zenon DEF ScanLedgerPage
<1>14. ASSUME NEW l \in Liabilities, ScanFound(l) PROVE TypeOK'
  <2>1. PICK i \in Nat : RecordPaid(l, i)
    <3>1. ScanFrom(l) \in Nat /\ PageEnd(l) \in Nat /\ indexed \in Nat
      BY <1>t, PageBounds, Zenon
    <3>2. \A i : i \in ScanFrom(l) + 1 .. PageEnd(l) \/ i \in 1..indexed => i \in Nat
      BY <3>1
    <3> QED
      BY <1>14, <3>2, Zenon DEF ScanFound
  <2>2. pay' \in [Liabilities -> PayRecords]
    BY <2>1, <1>10, Zenon DEF RecordPaid, States
  <2> QED
    BY <1>t, <2>2, <1>14 DEF ScanFound, EndScanRun, EndRun, NoScan, Outcomes
<1>15. ASSUME NEW l \in Liabilities, ScanAbsent(l) PROVE TypeOK'
  <2>1. NextAttempt(l) \in PayRecords
    BY <1>t DEF NextAttempt, Larger, PayRecords, States
  <2>2. AfterAbsence(l) \in {"ready", "idle"}
    BY Zenon DEF AfterAbsence
  <2> QED
    BY <1>t, <1>15, <2>1, <2>2 DEF ScanAbsent, NoScan, Outcomes
<1>16. ASSUME NEW l \in Liabilities, ScanStalls(l) PROVE TypeOK'
  BY <1>t, <1>16 DEF ScanStalls, EndScanRun, EndRun, Outcomes
<1> QED
  BY <1>1, <1>2, <1>3, <1>4, <1>5, <1>6, <1>7, <1>8, <1>9, <1>11, <1>12, <1>13, <1>14, <1>15, <1>16, Zenon
  DEF Next, Environment, Settle, SendTransfer, ResendHold

\* Every step keeps the clock skew, the run's place and the step budget.
LEMMA RunStep == IndInv /\ [Next]_vars => RunInv'
<1> SUFFICES ASSUME IndInv, [Next]_vars PROVE RunInv'
  BY Zenon
<1> USE DEF RunInv, SkewBounded, IndexBehind, RunFitsState, BudgetUnspent, canister, world
<1>t. TypeOK /\ RunInv
  BY Zenon DEF IndInv
<1> USE <1>t, WindowAssumption DEF TypeOK, PayRecords
<1>1. CASE UNCHANGED vars
  BY <1>1, Zenon DEF vars
<1>2. CASE CanisterTick
  BY <1>2 DEF CanisterTick
<1>3. CASE LedgerTick
  BY <1>3 DEF LedgerTick
<1>4. CASE IndexSync
  BY <1>4 DEF IndexSync
<1>5. ASSUME NEW m \in net, LedgerProcesses(m) PROVE RunInv'
  <2>1. m \in Identities /\ Len(Append(ledger, m)) = Len(ledger) + 1
    OBVIOUS
  <2>2. Len(ledger') \in {Len(ledger), Len(ledger) + 1}
    BY <1>5, <2>1, Zenon DEF LedgerProcesses, LedgerExecutes, LedgerTooOld, LedgerRefuses
  <2> QED
    BY <1>5, <2>2 DEF LedgerProcesses
<1>6. ASSUME NEW l \in Liabilities, StartPayment(l) PROVE RunInv'
  BY <1>6, Zenon DEF StartPayment
<1>7. ASSUME NEW l \in Liabilities, ClaimRun(l) PROVE RunInv'
  BY <1>7 DEF ClaimRun
<1>8. ASSUME NEW l \in Liabilities, LoseRun(l) PROVE RunInv'
  BY <1>8, Zenon DEF LoseRun
<1>9. ASSUME NEW l \in Liabilities, SendTransfer(l) PROVE RunInv'
  BY <1>9 DEF SendTransfer, SendIdentity
<1>10. ASSUME NEW l \in Liabilities, ResendHold(l) PROVE RunInv'
  BY <1>10 DEF ResendHold, SendIdentity
<1>11. ASSUME NEW l \in Liabilities, OnTransferAnswer(l) PROVE RunInv'
  <2>1. StateAfterTransfer(answer[l]) # "None"
    BY Zenon DEF StateAfterTransfer
  <2> QED
    BY <1>11, <2>1 DEF OnTransferAnswer, EndRun, RecordPaid, Mark
<1>12. ASSUME NEW l \in Liabilities, OnHoldAnswer(l) PROVE RunInv'
  BY <1>12 DEF OnHoldAnswer, EndRun, RecordPaid, Mark
<1>13. ASSUME NEW l \in Liabilities, ScanLedgerPage(l) PROVE RunInv'
  BY <1>13 DEF ScanLedgerPage, ScanReady, EndScanRun, EndRun
<1>14. ASSUME NEW l \in Liabilities, ScanFound(l) PROVE RunInv'
  <2>1. PICK i : pay' = [pay EXCEPT ![l] = Mark(l, "Paid", i)]
    BY <1>14, Zenon DEF ScanFound, RecordPaid
  <2>2. /\ run[l] = "ready" /\ run' = [run EXCEPT ![l] = "idle"]
        /\ steps' = [steps EXCEPT ![l] = @ + 1] /\ UNCHANGED world
    BY <1>14, Zenon DEF ScanFound, ScanReady, EndScanRun, EndRun
  <2> QED
    BY <2>1, <2>2 DEF Mark
<1>15. ASSUME NEW l \in Liabilities, ScanAbsent(l) PROVE RunInv'
  <2>1. AfterAbsence(l) \in {"ready", "idle"} /\ (l \in Releases => AfterAbsence(l) = "idle")
    BY LiabilityAssumption, Zenon DEF AfterAbsence
  <2>2. NextAttempt(l).state = "Pending"
    BY Zenon DEF NextAttempt
  <2>3. /\ run[l] = "ready" /\ run' = [run EXCEPT ![l] = AfterAbsence(l)]
        /\ pay' = [pay EXCEPT ![l] = NextAttempt(l)]
        /\ steps' = [steps EXCEPT ![l] = @ + 1] /\ UNCHANGED world
    BY <1>15, Zenon DEF ScanAbsent, ScanReady
  <2>4. SkewBounded' /\ IndexBehind'
    BY <2>3, Zenon
  <2>5. RunFitsState'
    BY <2>1, <2>2, <2>3, Zenon
  <2>6. BudgetUnspent'
    <3>1. ASSUME NEW k \in Releases PROVE steps'[k] <= 1 /\ (run'[k] = "ready" => steps'[k] = 0)
      <4>1. CASE k = l
        BY <2>1, <2>3, <3>1, <4>1, LiabilityAssumption
      <4>2. CASE k # l
        BY <2>3, <3>1, <4>2, LiabilityAssumption, Zenon
      <4> QED
        BY <4>1, <4>2, Zenon
    <3> QED
      BY <3>1, Zenon
  <2> QED
    BY <2>4, <2>5, <2>6, Zenon
<1>16. ASSUME NEW l \in Liabilities, ScanStalls(l) PROVE RunInv'
  BY <1>16 DEF ScanStalls, ScanReady, EndScanRun, EndRun
<1> QED
  BY <1>1, <1>2, <1>3, <1>4, <1>5, <1>6, <1>7, <1>8, <1>9, <1>10, <1>11, <1>12, <1>13, <1>14, <1>15, <1>16, Zenon
  DEF Next, Environment, Settle

\* A step that only changes one record's state and block keeps the identities
\* and what is known of blocks and requests.
LEMMA MarkStep ==
    ASSUME IndInv, NEW l \in Liabilities, NEW s \in States \ {"None"}, NEW i \in Nat,
           pay' = [pay EXCEPT ![l] = Mark(l, s, i)], UNCHANGED world,
           s = "Paid" => i \in 1..Len(ledger) /\ ledger[i] = Identity(l)
    PROVE  /\ \A k \in Liabilities : Identity(k)' = Identity(k)
           /\ \A k \in Liabilities : k # l => pay'[k] = pay[k]
           /\ pay'[l].state = s
           /\ SentIsCurrentOrDead' /\ ExecutedIsCurrent' /\ PaidAtMostOnce' /\ PaidIsOnLedger'
<1>t. TypeOK /\ SentIsCurrentOrDead /\ ExecutedIsCurrent /\ PaidAtMostOnce /\ PaidIsOnLedger
  BY Zenon DEF IndInv
<1>1. /\ \A k \in Liabilities : k # l => pay'[k] = pay[k]
      /\ pay'[l] = Mark(l, s, i)
  BY <1>t, Zenon DEF TypeOK
<1>2. \A k \in Liabilities : pay'[k].no = pay[k].no /\ pay'[k].created = pay[k].created
  BY <1>1 DEF Mark
<1>3. \A k \in Liabilities : Identity(k)' = Identity(k)
  BY <1>2, Zenon DEF Identity
<1>4. SentIsCurrentOrDead'
  BY <1>t, <1>1, <1>2, <1>3, Zenon DEF SentIsCurrentOrDead, TypeOK, Identities, InWindow, world, Mark
<1>5. ExecutedIsCurrent' /\ PaidAtMostOnce'
  BY <1>t, <1>3, Zenon DEF ExecutedIsCurrent, PaidAtMostOnce, TypeOK, Identities, world
<1>6. PaidIsOnLedger'
  BY <1>t, <1>1, <1>3 DEF PaidIsOnLedger, world, Mark
<1> QED
  BY <1>1, <1>3, <1>4, <1>5, <1>6 DEF Mark

\* A scan stays evidence when its liability, its run and the ledger stay.
LEMMA ScanKept ==
    ASSUME IndInv, UNCHANGED world, NEW l \in Liabilities,
           \A k \in Liabilities \ {l} : pay'[k] = pay[k] /\ scan'[k] = scan[k] /\ run'[k] = run[k],
           scan'[l].phase = "none"
    PROVE  ScanIsEvidence'
<1>1. ASSUME NEW k \in Liabilities \ {l}
      PROVE  Identity(k)' = Identity(k) /\ IdentityStillAcceptable(k)' = IdentityStillAcceptable(k)
  BY Zenon DEF Identity, IdentityStillAcceptable, world
<1> QED
  BY <1>1 DEF IndInv, ScanIsEvidence, world

\* An appended ledger keeps its blocks and has the new one last.
LEMMA Appended ==
    ASSUME NEW S, NEW q \in Seq(S), NEW m \in S, NEW r, r = Append(q, m)
    PROVE  /\ Len(r) = Len(q) + 1 /\ Len(q) \in Nat /\ r[Len(q) + 1] = m
           /\ \A i \in 1..Len(q) : r[i] = q[i]
OBVIOUS

\* A confirmation stays true while the ledger and the identities stay.
LEMMA ConfirmedKept ==
    ASSUME ConfirmedIsExecuted, ledger' = ledger,
           \A k \in Liabilities : Identity(k)' = Identity(k),
           \A k \in Liabilities : answer'[k] = "confirmed" => answer[k] = "confirmed"
    PROVE  ConfirmedIsExecuted'
BY Zenon DEF ConfirmedIsExecuted, Executed

\* Time may pass, and a run may start or end without a result.
LEMMA HistoryFrame ==
    ASSUME IndInv, UNCHANGED <<ledger, net, pay, scan>>,
           now' \in Nat, now <= now', lnow' \in Nat, lnow <= lnow',
           \A k \in Liabilities : /\ run'[k] = run[k] \/ run'[k] # "hold"
                                  /\ answer'[k] = answer[k] \/ answer'[k] = "none"
    PROVE  HistoryInv'
<1>t. /\ TypeOK /\ SentIsCurrentOrDead /\ ExecutedIsCurrent /\ PaidAtMostOnce
      /\ ConfirmedIsExecuted /\ PaidIsOnLedger /\ ScanIsEvidence
  BY Zenon DEF IndInv
<1>1. \A k : Identity(k)' = Identity(k)
  BY Zenon DEF Identity
<1>2. SentIsCurrentOrDead'
  <2>1. ASSUME NEW m \in net, ~InWindow(m) PROVE ~InWindow(m)'
    <3>1. m.created \in Nat /\ lnow \in Nat
      BY <1>t, Zenon DEF TypeOK, Identities
    <3> QED
      BY <2>1, <3>1, WindowAssumption DEF InWindow
  <2> QED
    BY <1>t, <1>1, <2>1, Zenon DEF SentIsCurrentOrDead
<1>3. ExecutedIsCurrent' /\ PaidAtMostOnce' /\ PaidIsOnLedger'
  BY <1>t, <1>1, Zenon DEF ExecutedIsCurrent, PaidAtMostOnce, PaidIsOnLedger
<1>4. ConfirmedIsExecuted'
  BY <1>t, <1>1, Zenon DEF ConfirmedIsExecuted, Executed
<1>5. ScanIsEvidence'
  <2>1. ASSUME NEW k \in Liabilities, ~IdentityStillAcceptable(k) PROVE ~IdentityStillAcceptable(k)'
    <3>1. pay[k].created \in Nat /\ now \in Nat
      BY <1>t, Zenon DEF TypeOK, PayRecords
    <3> QED
      BY <2>1, <3>1, WindowAssumption DEF IdentityStillAcceptable
  <2> QED
    BY <1>t, <1>1, <2>1, Zenon DEF ScanIsEvidence
<1> QED
  BY <1>2, <1>3, <1>4, <1>5, Zenon DEF HistoryInv

\* The facts a history lemma starts from.
LEMMA HistoryFacts ==
    ASSUME IndInv
    PROVE  /\ TypeOK /\ SentIsCurrentOrDead /\ ExecutedIsCurrent /\ PaidAtMostOnce
           /\ ConfirmedIsExecuted /\ PaidIsOnLedger /\ ScanIsEvidence
BY Zenon DEF IndInv

\* A page without a match extends what the scan has established.
LEMMA PageKeeps ==
    ASSUME IndInv, NEW l \in Liabilities, ScanLedgerPage(l)
    PROVE  HistoryInv'
<1> HIDE DEF Liabilities
<1>0. /\ TypeOK /\ SentIsCurrentOrDead /\ ExecutedIsCurrent /\ PaidAtMostOnce
      /\ ConfirmedIsExecuted /\ PaidIsOnLedger /\ ScanIsEvidence
  BY HistoryFacts, Zenon
<1>1. /\ now' = now /\ lnow' = lnow /\ ledger' = ledger /\ net' = net /\ pay' = pay
      /\ run' = [run EXCEPT ![l] = "idle"] /\ answer' = [answer EXCEPT ![l] = "none"]
      /\ scan' = [scan EXCEPT ![l] = [phase |-> PhaseAfterPage(l), next |-> PageEnd(l), tip |-> ScanTip(l)]]
      /\ \A i \in ScanFrom(l) + 1 .. PageEnd(l) : ledger[i] # Identity(l)
      /\ pay[l].state = "Hold" /\ ~IdentityStillAcceptable(l)
  BY Zenon DEF ScanLedgerPage, ScanReady, EndScanRun, EndRun, world
<1>2. \A k : Identity(k)' = Identity(k) /\ IdentityStillAcceptable(k)' = IdentityStillAcceptable(k)
  BY <1>1, Zenon DEF Identity, IdentityStillAcceptable
<1>3. SentIsCurrentOrDead' /\ ExecutedIsCurrent' /\ PaidAtMostOnce' /\ PaidIsOnLedger'
  BY <1>0, <1>1, <1>2, Zenon DEF SentIsCurrentOrDead, InWindow, ExecutedIsCurrent, PaidAtMostOnce, PaidIsOnLedger
<1>4. \A k \in Liabilities : /\ answer'[k] = "confirmed" => answer[k] = "confirmed"
                             /\ run'[k] # "hold" \/ (k # l /\ run'[k] = run[k])
                             /\ k # l => scan'[k] = scan[k]
  BY <1>0, <1>1, Zenon DEF TypeOK
<1>5. ConfirmedIsExecuted'
  BY <1>0, <1>1, <1>2, <1>4, ConfirmedKept, Zenon
<1>6. /\ ScanTip(l) \in 0..Len(ledger) /\ ScanFrom(l) \in Nat /\ PageEnd(l) \in Nat
  BY <1>0, PageBounds, Zenon
<1>7. PhaseAfterPage(l) = "index" => ScanTip(l) <= PageEnd(l)
  BY <1>6, Zenon DEF PhaseAfterPage
<1>8. \A i \in 1..Len(ledger) : i <= ScanFrom(l) \/ ScanTip(l) < i => ledger[i] # Identity(l)
  <2>1. CASE scan[l].phase = "none"
    BY <2>1 DEF ScanFrom, ScanTip
  <2>2. CASE scan[l].phase # "none"
    <3>1. ScanFrom(l) = scan[l].next /\ ScanTip(l) = scan[l].tip
      BY <2>2, Zenon DEF ScanFrom, ScanTip
    <3> QED
      BY <1>0, <2>2, <3>1, Zenon DEF ScanIsEvidence
  <2> QED
    BY <2>1, <2>2, Zenon
<1>9. \A i \in 1..Len(ledger) : i <= PageEnd(l) \/ ScanTip(l) < i => ledger[i] # Identity(l)
  <2> SUFFICES ASSUME NEW i \in 1..Len(ledger), i <= PageEnd(l) \/ ScanTip(l) < i
               PROVE  ledger[i] # Identity(l)
    BY Zenon
  <2>1. i <= ScanFrom(l) \/ ScanTip(l) < i \/ i \in ScanFrom(l) + 1 .. PageEnd(l)
    BY <1>6
  <2> QED
    BY <1>1, <1>8, <2>1, Zenon
<1>10. /\ scan'[l].phase = PhaseAfterPage(l) /\ scan'[l].next = PageEnd(l) /\ scan'[l].tip = ScanTip(l)
       /\ ScanTip(l) <= Len(ledger)
  <2>1. scan'[l] = [phase |-> PhaseAfterPage(l), next |-> PageEnd(l), tip |-> ScanTip(l)]
    BY <1>0, <1>1, Zenon DEF TypeOK
  <2> QED
    BY <1>6, <2>1
<1>11. ScanIsEvidence'
  <2> SUFFICES ASSUME NEW k \in Liabilities, scan'[k].phase # "none"
               PROVE  /\ pay[k].state = "Hold" /\ ~IdentityStillAcceptable(k)
                      /\ run'[k] # "hold" /\ scan'[k].tip <= Len(ledger)
                      /\ \A i \in 1..Len(ledger) : i <= scan'[k].next \/ scan'[k].tip < i =>
                                                       ledger[i] # Identity(k)
                      /\ scan'[k].phase = "index" => scan'[k].tip <= scan'[k].next
    BY <1>1, <1>2, Zenon DEF ScanIsEvidence
  <2>1. CASE k = l
    BY <1>1, <1>4, <1>7, <1>9, <1>10, <2>1
  <2>2. CASE k # l
    BY <1>0, <1>4, <2>2, Zenon DEF ScanIsEvidence
  <2> QED
    BY <2>1, <2>2, Zenon
<1> QED
  BY <1>3, <1>5, <1>11, Zenon DEF HistoryInv

\* Proved absence: the new attempt leaves nothing behind that could be executed.
LEMMA AbsenceKeeps ==
    ASSUME IndInv, NEW l \in Liabilities, ScanAbsent(l)
    PROVE  HistoryInv'
<1> HIDE DEF Liabilities
<1>0. /\ TypeOK /\ SentIsCurrentOrDead /\ ExecutedIsCurrent /\ PaidAtMostOnce
      /\ ConfirmedIsExecuted /\ PaidIsOnLedger /\ ScanIsEvidence
  BY HistoryFacts, Zenon
<1>1. /\ UNCHANGED world /\ lnow' = lnow /\ ledger' = ledger /\ net' = net
      /\ pay' = [pay EXCEPT ![l] = NextAttempt(l)] /\ scan' = [scan EXCEPT ![l] = NoScan]
      /\ run' = [run EXCEPT ![l] = AfterAbsence(l)] /\ answer' = [answer EXCEPT ![l] = "none"]
      /\ ~IdentityStillAcceptable(l) /\ pay[l].state = "Hold"
      /\ scan[l].phase = "index" /\ indexed >= scan[l].tip
      /\ \A i \in 1..indexed : ledger[i] # Identity(l)
  BY Zenon DEF ScanAbsent, ScanReady, AbsenceProved, world
<1>2. ~InWindow(Identity(l))
  BY <1>1, ExpiredIsDead, Zenon
<1>3. \A i \in 1..Len(ledger) : ledger[i].liab # l
  <2>1. /\ scan[l].tip \in Nat /\ indexed \in Nat
        /\ \A i \in 1..Len(ledger) : scan[l].tip < i => ledger[i] # Identity(l)
    BY <1>0, <1>1, Zenon DEF TypeOK, ScanIsEvidence
  <2>2. \A i \in 1..Len(ledger) : ledger[i] # Identity(l)
    <3> SUFFICES ASSUME NEW i \in 1..Len(ledger) PROVE ledger[i] # Identity(l)
      BY Zenon
    <3>1. i \in 1..indexed \/ scan[l].tip < i
      BY <1>1, <2>1
    <3> QED
      BY <1>1, <2>1, <3>1, Zenon
  <2> QED
    BY <1>0, <2>2, Zenon DEF ExecutedIsCurrent
<1>4. \A k \in Liabilities \ {l} : /\ pay'[k] = pay[k] /\ scan'[k] = scan[k] /\ run'[k] = run[k]
                                   /\ Identity(k)' = Identity(k) /\ answer'[k] = answer[k]
  BY <1>0, <1>1, Zenon DEF TypeOK, Identity
<1>5. /\ pay'[l].state = "Pending" /\ pay'[l].no = pay[l].no + 1 /\ pay[l].no \in Nat
      /\ scan'[l].phase = "none" /\ answer'[l] = "none"
  BY <1>0, <1>1, Zenon DEF TypeOK, NextAttempt, PayRecords, NoScan
<1>6. SentIsCurrentOrDead'
  <2> SUFFICES ASSUME NEW m \in net
               PROVE  /\ pay'[m.liab].state # "None"
                      /\ m = Identity(m.liab)' \/ (m.no < pay'[m.liab].no /\ ~InWindow(m))
    BY <1>1, Zenon DEF SentIsCurrentOrDead, InWindow
  <2>1. m.liab \in Liabilities /\ m.no \in Nat
    BY <1>0, Zenon DEF TypeOK, Identities
  <2>2. /\ pay[m.liab].state # "None"
        /\ m = Identity(m.liab) \/ (m.no < pay[m.liab].no /\ ~InWindow(m))
    BY <1>0, Zenon DEF SentIsCurrentOrDead
  <2>3. CASE m.liab = l
    <3>1. m.no <= pay[l].no /\ ~InWindow(m)
      BY <1>2, <1>5, <2>1, <2>2, <2>3 DEF Identity
    <3> QED
      BY <1>5, <2>1, <2>3, <3>1
  <2>4. CASE m.liab # l
    BY <1>4, <2>1, <2>2, <2>4, Zenon
  <2> QED
    BY <2>3, <2>4, Zenon
<1>7. ExecutedIsCurrent' /\ PaidAtMostOnce'
  <2>1. \A i \in 1..Len(ledger) : ledger[i].liab \in Liabilities \ {l}
    <3>1. \A m \in net : m.liab \in Liabilities
      BY <1>0, Zenon DEF TypeOK, Identities
    <3> QED
      BY <1>0, <1>3, <3>1, Zenon DEF ExecutedIsCurrent
  <2> QED
    BY <1>0, <1>1, <1>4, <2>1 DEF ExecutedIsCurrent, PaidAtMostOnce
<1>8. ConfirmedIsExecuted'
  BY <1>0, <1>1, <1>4, <1>5 DEF ConfirmedIsExecuted, Executed
<1>9. PaidIsOnLedger'
  BY <1>0, <1>1, <1>4, <1>5, Zenon DEF PaidIsOnLedger
<1>10. ScanIsEvidence'
  BY <1>1, <1>4, <1>5, ScanKept, Zenon
<1> QED
  BY <1>6, <1>7, <1>8, <1>9, <1>10, Zenon DEF HistoryInv

\* The ledger executes only live identities, each once, and its answers are true.
LEMMA LedgerKeeps ==
    ASSUME IndInv, NEW m \in net, LedgerProcesses(m)
    PROVE  HistoryInv'
<1> HIDE DEF Liabilities
<1>0. /\ TypeOK /\ SentIsCurrentOrDead /\ ExecutedIsCurrent /\ PaidAtMostOnce
      /\ ConfirmedIsExecuted /\ PaidIsOnLedger /\ ScanIsEvidence
  BY HistoryFacts, Zenon
<1>1. /\ now' = now /\ lnow' = lnow /\ net' = net /\ pay' = pay /\ scan' = scan /\ run' = run
      /\ LedgerExecutes(m) \/ LedgerTooOld(m) \/ LedgerRefuses(m)
  BY Zenon DEF LedgerProcesses
<1>2. m \in Identities /\ m.liab \in Liabilities /\ ledger \in Seq(Identities)
  BY <1>0, Zenon DEF TypeOK, Identities
<1>3. \A k : Identity(k)' = Identity(k) /\ IdentityStillAcceptable(k)' = IdentityStillAcceptable(k)
  BY <1>1, Zenon DEF Identity, IdentityStillAcceptable
<1>4. SentIsCurrentOrDead'
  BY <1>0, <1>1, <1>3, Zenon DEF SentIsCurrentOrDead, InWindow
<1>5. ASSUME NEW o, Answers(m, o), o = "confirmed" => Executed(m)', \A n : Executed(n) => Executed(n)'
      PROVE  ConfirmedIsExecuted'
  <2>1. \A k \in Liabilities : \/ answer'[k] = answer[k]
                               \/ answer'[k] = o /\ Identity(k) = m
    BY <1>0, <1>5, Zenon DEF Answers, TypeOK
  <2> QED
    BY <1>0, <1>3, <1>5, <2>1, Zenon DEF ConfirmedIsExecuted
<1>6. CASE ledger' = ledger
  <2>1. ExecutedIsCurrent' /\ PaidAtMostOnce' /\ PaidIsOnLedger' /\ ScanIsEvidence'
    BY <1>0, <1>1, <1>3, <1>6, Zenon DEF ExecutedIsCurrent, PaidAtMostOnce, PaidIsOnLedger, ScanIsEvidence
  <2>2. \A n : Executed(n)' = Executed(n)
    BY <1>6, Zenon DEF Executed
  <2>3. CASE LedgerExecutes(m)
    <3>1. Executed(m)
      <4>1. CASE ledger' = Append(ledger, m)
        <5>1. Len(ledger') = Len(ledger) + 1 /\ Len(ledger) \in Nat
          BY <1>2, <4>1, Appended, Zenon
        <5> QED
          BY <1>6, <5>1
      <4> QED
        BY <2>3, <4>1, Zenon DEF LedgerExecutes
    <3> QED
      BY <1>4, <1>5, <2>1, <2>2, <2>3, <3>1, Zenon DEF LedgerExecutes, HistoryInv
  <2>4. CASE LedgerTooOld(m) \/ LedgerRefuses(m)
    <3>1. PICK o : Answers(m, o) /\ o # "confirmed"
      BY <2>4 DEF LedgerTooOld, LedgerRefuses
    <3> QED
      BY <1>4, <1>5, <2>1, <2>2, <3>1, Zenon DEF HistoryInv
  <2> QED
    BY <1>1, <2>3, <2>4, Zenon
<1>7. CASE ledger' # ledger
  <2>1. InWindow(m) /\ ~Executed(m) /\ ledger' = Append(ledger, m) /\ Answers(m, "confirmed")
    BY <1>1, <1>7, Zenon DEF LedgerExecutes, LedgerTooOld, LedgerRefuses
  <2>2. /\ Len(ledger') = Len(ledger) + 1 /\ Len(ledger) \in Nat /\ ledger'[Len(ledger) + 1] = m
        /\ \A i \in 1..Len(ledger) : ledger'[i] = ledger[i]
    BY <1>2, <2>1, Appended
  <2>3. \A i \in 1..Len(ledger') : i \in 1..Len(ledger) \/ (i = Len(ledger) + 1 /\ ledger'[i] = m)
    BY <2>2
  <2>4. \A i \in 1..Len(ledger) : i \in 1..Len(ledger')
    BY <2>2
  <2>5. m = Identity(m.liab)
    BY <1>0, <2>1, Zenon DEF SentIsCurrentOrDead
  <2>6. \A i \in 1..Len(ledger) : ledger[i].liab # m.liab
    BY <1>0, <2>1, <2>5, Zenon DEF ExecutedIsCurrent, Executed
  <2>7. ExecutedIsCurrent'
    BY <1>0, <1>1, <1>3, <2>2, <2>3, <2>5, Zenon DEF ExecutedIsCurrent
  <2>8. PaidAtMostOnce'
    BY <1>0, <2>2, <2>3, <2>6, Zenon DEF PaidAtMostOnce
  <2>9. PaidIsOnLedger'
    BY <1>0, <1>1, <1>3, <2>2, <2>4, Zenon DEF PaidIsOnLedger
  <2>10. ConfirmedIsExecuted'
    <3>1. Len(ledger) + 1 \in 1..Len(ledger')
      BY <2>2
    <3>2. Executed(m)' /\ \A n : Executed(n) => Executed(n)'
      BY <2>2, <2>4, <3>1, Zenon DEF Executed
    <3> QED
      BY <1>5, <2>1, <3>2, Zenon
  <2>11. ScanIsEvidence'
    <3> SUFFICES ASSUME NEW k \in Liabilities, scan[k].phase # "none"
                 PROVE  /\ pay[k].state = "Hold" /\ ~IdentityStillAcceptable(k)
                        /\ run[k] # "hold" /\ scan[k].tip <= Len(ledger')
                        /\ \A i \in 1..Len(ledger') : i <= scan[k].next \/ scan[k].tip < i =>
                                                          ledger'[i] # Identity(k)
                        /\ scan[k].phase = "index" => scan[k].tip <= scan[k].next
      BY <1>1, <1>3, Zenon DEF ScanIsEvidence
    <3>1. /\ pay[k].state = "Hold" /\ ~IdentityStillAcceptable(k)
          /\ run[k] # "hold" /\ scan[k].tip <= Len(ledger)
          /\ \A i \in 1..Len(ledger) : i <= scan[k].next \/ scan[k].tip < i => ledger[i] # Identity(k)
          /\ scan[k].phase = "index" => scan[k].tip <= scan[k].next
      BY <1>0, Zenon DEF ScanIsEvidence
    <3>2. m # Identity(k)
      BY <2>1, <3>1, ExpiredIsDead, Zenon
    <3>3. scan[k].tip <= Len(ledger')
      <4>1. scan[k].tip \in Nat
        BY <1>0, Zenon DEF TypeOK
      <4> QED
        BY <2>2, <3>1, <4>1
    <3>4. \A i \in 1..Len(ledger') : i <= scan[k].next \/ scan[k].tip < i => ledger'[i] # Identity(k)
      BY <2>2, <2>3, <3>1, <3>2, Zenon
    <3> QED
      BY <3>1, <3>3, <3>4, Zenon
  <2> QED
    BY <1>4, <2>7, <2>8, <2>9, <2>10, <2>11, Zenon DEF HistoryInv
<1> QED
  BY <1>6, <1>7, Zenon

\* Every step keeps what is known of blocks, requests and scans.
LEMMA HistoryStep == IndInv /\ [Next]_vars => HistoryInv'
<1> SUFFICES ASSUME IndInv, [Next]_vars PROVE HistoryInv'
  BY Zenon
<1>t. /\ TypeOK /\ RunFitsState /\ IndexBehind
      /\ SentIsCurrentOrDead /\ ExecutedIsCurrent /\ PaidAtMostOnce
      /\ ConfirmedIsExecuted /\ PaidIsOnLedger /\ ScanIsEvidence
  BY Zenon DEF IndInv
<1>paid. "Paid" \in States \ {"None"}
  BY Zenon DEF States
<1> USE <1>t, WindowAssumption
<1> USE DEF HistoryInv, canister, world
<1>1. CASE UNCHANGED vars
  BY <1>1, HistoryFrame DEF vars, TypeOK
<1>2. CASE CanisterTick
  BY <1>2, HistoryFrame DEF CanisterTick, TypeOK
<1>3. CASE LedgerTick
  BY <1>3, HistoryFrame DEF LedgerTick, TypeOK
<1>4. CASE IndexSync
  BY <1>4, HistoryFrame DEF IndexSync, TypeOK
<1>7. ASSUME NEW l \in Liabilities, ClaimRun(l) PROVE HistoryInv'
  <2>1. \A k \in Liabilities : run'[k] = run[k] \/ run'[k] # "hold"
    BY <1>7, Zenon DEF ClaimRun, TypeOK
  <2> QED
    BY <1>7, <2>1, HistoryFrame DEF ClaimRun, TypeOK
<1>8. ASSUME NEW l \in Liabilities, LoseRun(l) \/ ScanStalls(l) PROVE HistoryInv'
  <2>1. /\ UNCHANGED <<world, pay, scan>>
        /\ run' = [run EXCEPT ![l] = "idle"] /\ answer' = [answer EXCEPT ![l] = "none"]
    BY <1>8, Zenon DEF LoseRun, ScanStalls, EndScanRun, EndRun
  <2>2. \A k \in Liabilities : /\ run'[k] = run[k] \/ run'[k] # "hold"
                               /\ answer'[k] = answer[k] \/ answer'[k] = "none"
    BY <2>1, Zenon DEF TypeOK
  <2> QED
    BY <2>1, <2>2, HistoryFrame DEF TypeOK
<1>6. ASSUME NEW l \in Liabilities, StartPayment(l) PROVE HistoryInv'
  <2> USE <1>6 DEF StartPayment
  <2>1. \A m \in net : m.liab # l
    BY Zenon DEF SentIsCurrentOrDead
  <2>2. \A i \in 1..Len(ledger) : ledger[i].liab # l
    BY <2>1, Zenon DEF ExecutedIsCurrent
  <2>3. \A k \in Liabilities \ {l} : pay'[k] = pay[k] /\ Identity(k)' = Identity(k)
    BY Zenon DEF TypeOK, Identity
  <2>4. SentIsCurrentOrDead'
    BY <2>1, <2>3, Zenon DEF SentIsCurrentOrDead, TypeOK, Identities, InWindow
  <2>5. ExecutedIsCurrent' /\ PaidAtMostOnce'
    BY <2>2, <2>3 DEF ExecutedIsCurrent, PaidAtMostOnce, TypeOK, Identities
  <2>6. ~Executed(Identity(l))
    <3>1. Identity(l).liab = l
      BY Zenon DEF Identity
    <3> QED
      BY <2>2, <3>1, Zenon DEF Executed
  <2>7. ConfirmedIsExecuted'
    BY <2>3, <2>6 DEF ConfirmedIsExecuted, Executed
  <2>8. PaidIsOnLedger'
    BY <2>3, Zenon DEF PaidIsOnLedger, TypeOK
  <2>9. ScanIsEvidence'
    BY <2>3, ScanKept, Zenon DEF ScanIsEvidence, TypeOK
  <2> QED
    BY <2>4, <2>5, <2>7, <2>8, <2>9, Zenon
<1>9. ASSUME NEW l \in Liabilities, NEW w \in {"transfer", "hold"}, SendIdentity(l, w),
             pay[l].state # "None", w = "hold" => IdentityStillAcceptable(l)
      PROVE  HistoryInv'
  <2> USE <1>9 DEF SendIdentity
  <2>1. \A k : Identity(k)' = Identity(k)
    BY Zenon DEF Identity
  <2>2. SentIsCurrentOrDead'
    BY <2>1 DEF SentIsCurrentOrDead, InWindow, Identity
  <2>3. ExecutedIsCurrent' /\ PaidAtMostOnce' /\ PaidIsOnLedger'
    BY <2>1, Zenon DEF ExecutedIsCurrent, PaidAtMostOnce, PaidIsOnLedger
  <2>4. ConfirmedIsExecuted'
    BY <2>1, Zenon DEF ConfirmedIsExecuted, Executed
  <2>5. ScanIsEvidence'
    BY <2>1, Zenon DEF ScanIsEvidence, IdentityStillAcceptable, TypeOK
  <2> QED
    BY <2>2, <2>3, <2>4, <2>5, Zenon
<1>11. ASSUME NEW l \in Liabilities, NEW s \in States \ {"None"}, NEW i \in Nat,
              pay' = [pay EXCEPT ![l] = Mark(l, s, i)], UNCHANGED world,
              s = "Paid" => i \in 1..Len(ledger) /\ ledger[i] = Identity(l),
              EndRun(l), scan'[l].phase = "none", \A k \in Liabilities \ {l} : scan'[k] = scan[k]
       PROVE  HistoryInv'
  <2> USE <1>11 DEF EndRun
  <2>1. /\ \A k \in Liabilities : Identity(k)' = Identity(k)
        /\ \A k \in Liabilities : k # l => pay'[k] = pay[k]
        /\ SentIsCurrentOrDead' /\ ExecutedIsCurrent' /\ PaidAtMostOnce' /\ PaidIsOnLedger'
    BY MarkStep, Zenon
  <2>2. ConfirmedIsExecuted'
    <3>1. \A k \in Liabilities : answer'[k] = "confirmed" => answer[k] = "confirmed"
      BY Zenon DEF TypeOK
    <3> QED
      BY <2>1, <3>1, ConfirmedKept, Zenon
  <2>3. ScanIsEvidence'
    BY <2>1, ScanKept, Zenon DEF TypeOK
  <2> QED
    BY <2>1, <2>2, <2>3, Zenon
<1>12. ASSUME NEW l \in Liabilities, OnTransferAnswer(l) PROVE HistoryInv'
  <2> USE <1>12 DEF OnTransferAnswer
  <2>1. scan'[l].phase = "none" /\ \A k \in Liabilities \ {l} : scan'[k] = scan[k]
    BY Zenon DEF RunFitsState, ScanIsEvidence
  <2>2. CASE answer[l] = "confirmed"
    <3>1. BlockOf(Identity(l)) \in 1..Len(ledger) /\ ledger[BlockOf(Identity(l))] = Identity(l)
      BY <2>2, BlockOfConfirmed, Zenon
    <3>2. PICK i \in Nat : i = BlockOf(Identity(l))
      BY ONLY <3>1
    <3>3. pay' = [pay EXCEPT ![l] = Mark(l, "Paid", i)] /\ "Paid" \in States \ {"None"}
      BY <2>2, <3>2, Zenon DEF RecordPaid, States
    <3> QED
      BY <2>1, <3>1, <3>2, <3>3, <1>11, Zenon
  <2>3. CASE answer[l] # "confirmed"
    <3>1. StateAfterTransfer(answer[l]) \in {"Hold", "Pending"}
      BY <2>3, Zenon DEF StateAfterTransfer
    <3> QED
      BY <2>1, <2>3, <3>1, <1>11, Zenon DEF States
  <2> QED
    BY <2>2, <2>3, Zenon
<1>13. ASSUME NEW l \in Liabilities, OnHoldAnswer(l) PROVE HistoryInv'
  <2> USE <1>13 DEF OnHoldAnswer
  <2>1. CASE answer[l] = "confirmed"
    <3>1. PICK i \in 1..Len(ledger) : i = BlockOf(Identity(l)) /\ ledger[i] = Identity(l)
      BY <2>1, BlockOfConfirmed, Zenon
    <3>2. scan'[l].phase = "none" /\ \A k \in Liabilities \ {l} : scan'[k] = scan[k]
      BY Zenon DEF ScanIsEvidence
    <3>3. i \in Nat /\ "Paid" \in States \ {"None"}
      BY ONLY <1>paid, <3>1
    <3>4. pay' = [pay EXCEPT ![l] = Mark(l, "Paid", i)] /\ UNCHANGED world /\ EndRun(l)
      BY <2>1, <3>1, Zenon DEF RecordPaid
    <3> QED
      BY <3>1, <3>2, <3>3, <3>4, <1>11, Zenon
  <2>2. CASE answer[l] # "confirmed"
    BY <2>2, <1>8, Zenon DEF LoseRun, EndRun
  <2> QED
    BY <2>1, <2>2, Zenon
<1>14. ASSUME NEW l \in Liabilities, ScanFound(l) PROVE HistoryInv'
  <2>1. PICK i \in 1..Len(ledger) : ledger[i] = Identity(l) /\ RecordPaid(l, i)
    <3>1. /\ ScanTip(l) \in 0..Len(ledger) /\ ScanFrom(l) \in Nat /\ PageEnd(l) \in Nat
          /\ PageEnd(l) <= ScanTip(l)
      BY PageBounds, Zenon
    <3>2. \A i : i \in ScanFrom(l) + 1 .. PageEnd(l) \/ i \in 1..indexed => i \in 1..Len(ledger)
      BY <3>1 DEF TypeOK, IndexBehind
    <3> QED
      BY <1>14, <3>2, Zenon DEF ScanFound
  <2>2. scan'[l].phase = "none" /\ \A k \in Liabilities \ {l} : scan'[k] = scan[k]
    BY <1>14, Zenon DEF ScanFound, NoScan, TypeOK
  <2>3. EndRun(l) /\ UNCHANGED world /\ i \in Nat
    BY <1>14 DEF ScanFound, EndScanRun
  <2> QED
    BY <2>1, <2>2, <2>3, <1>11, Zenon DEF RecordPaid, States
<1>15. ASSUME NEW l \in Liabilities, ScanLedgerPage(l) PROVE HistoryInv'
  BY <1>15, PageKeeps, Zenon
<1>17. ASSUME NEW l \in Liabilities, ScanAbsent(l) PROVE HistoryInv'
  BY <1>17, AbsenceKeeps, Zenon
<1>18. ASSUME NEW m \in net, LedgerProcesses(m) PROVE HistoryInv'
  BY <1>18, LedgerKeeps, Zenon
<1> QED
  BY <1>1, <1>2, <1>3, <1>4, <1>6, <1>7, <1>8, <1>9, <1>12, <1>13, <1>14, <1>15, <1>17, <1>18, Zenon
  DEF Next, Environment, Settle, SendTransfer, ResendHold

\* The inductive invariant holds in every reachable state.
THEOREM Invariance == Spec => []IndInv
<1>1. Init => IndInv
  BY InitInv, Zenon
<1>2. IndInv /\ [Next]_vars => IndInv'
  BY TypeStep, RunStep, HistoryStep, Zenon DEF IndInv, RunInv, HistoryInv
<1> QED
  BY <1>1, <1>2, PTL DEF Spec

\* Types are right in every reachable state (bridge-core record types).
THEOREM TypeCorrect == Spec => []TypeOK
<1>1. IndInv => TypeOK
  BY Zenon DEF IndInv
<1> QED
  BY <1>1, Invariance, PTL

\* No liability is ever paid twice by the ledger, whatever is lost, late,
\* resent or retried (advance_hold, resolve_reconciliation_absence).
THEOREM NeverPaidTwice == Spec => []PaidAtMostOnce
<1>1. IndInv => PaidAtMostOnce
  BY Zenon DEF IndInv
<1> QED
  BY <1>1, Invariance, PTL

\* A liability recorded as paid was paid by the block it names.
THEOREM PaidHasBlock == Spec => []PaidIsOnLedger
<1>1. IndInv => PaidIsOnLedger
  BY Zenon DEF IndInv
<1> QED
  BY <1>1, Invariance, PTL

\* A continue_withdrawal call makes at most one external step.
THEOREM OneStepPerCall == Spec => []OneStepPerWithdrawalCall
<1>1. IndInv => OneStepPerWithdrawalCall
  BY Zenon DEF IndInv, BudgetUnspent, OneStepPerWithdrawalCall
<1> QED
  BY <1>1, Invariance, PTL

\* A liability gets a new transfer identity only from a hold, when no identity
\* of it was executed and none that was sent can be executed any more.
THEOREM NewIdentityNeedsAbsence == Spec => NewIdentityOnlyAfterAbsence
<1> DEFINE Absent(l) == /\ pay[l].state = "Hold"
                        /\ \A i \in 1..Len(ledger) : ledger[i].liab # l
                        /\ \A m \in net : m.liab = l => ~InWindow(m)
           Good == \A l \in Liabilities : pay'[l].no # pay[l].no => Absent(l)
<1>1. ASSUME IndInv, [Next]_vars PROVE Good \/ UNCHANGED vars
  <2>t. TypeOK /\ SentIsCurrentOrDead /\ ExecutedIsCurrent /\ ScanIsEvidence
    BY <1>1, Zenon DEF IndInv
  <2>1. ASSUME NEW l \in Liabilities, ScanAbsent(l) PROVE Good
    <3>1. ~InWindow(Identity(l))
      BY <1>1, <2>1, ExpiredIsDead, Zenon DEF ScanAbsent, ScanReady
    <3>2. \A i \in 1..Len(ledger) : ledger[i].liab # l
      BY <2>t, <2>1 DEF ScanAbsent, ScanReady, AbsenceProved, ScanIsEvidence, ExecutedIsCurrent, TypeOK
    <3>3. Absent(l)
      BY <2>t, <2>1, <3>1, <3>2, Zenon DEF ScanAbsent, ScanReady, SentIsCurrentOrDead
    <3>4. \A k \in Liabilities \ {l} : pay'[k] = pay[k]
      BY <2>t, <2>1, Zenon DEF ScanAbsent, TypeOK
    <3> QED
      BY <3>3, <3>4, Zenon
  <2>2. ASSUME NEW l \in Liabilities, StartPayment(l) PROVE Good
    BY <1>1, <2>2, Zenon DEF IndInv, RunFitsState, TypeOK, StartPayment
  <2>3. ASSUME NEW l \in Liabilities, NEW s, NEW i, pay' = [pay EXCEPT ![l] = Mark(l, s, i)] PROVE Good
    <3>1. \A k \in Liabilities : pay'[k].no = pay[k].no
      BY <2>t, <2>3, Zenon DEF TypeOK, Mark
    <3> QED
      BY <3>1, Zenon
  <2>4. CASE UNCHANGED pay
    BY <2>4, Zenon
  <2>5. ASSUME NEW l \in Liabilities, ScanFound(l) PROVE Good
    <3>1. PICK i : RecordPaid(l, i)
      BY <2>5, Zenon DEF ScanFound
    <3>2. pay' = [pay EXCEPT ![l] = Mark(l, "Paid", i)]
      BY <3>1, Zenon DEF RecordPaid
    <3> HIDE DEF Good
    <3> QED
      BY <2>3, <3>2, Zenon
  <2>6. ASSUME NEW l \in Liabilities, OnTransferAnswer(l) \/ OnHoldAnswer(l) PROVE Good
    BY <2>3, <2>4, <2>6, Zenon DEF OnTransferAnswer, OnHoldAnswer, RecordPaid
  <2>7. ASSUME Environment PROVE UNCHANGED pay
    BY <2>7, Zenon DEF Environment, CanisterTick, LedgerTick, IndexSync, LedgerProcesses, canister
  <2>8. ASSUME NEW l \in Liabilities,
               ClaimRun(l) \/ LoseRun(l) \/ SendTransfer(l) \/ ResendHold(l) \/ ScanLedgerPage(l) \/ ScanStalls(l)
        PROVE  UNCHANGED pay
    BY <2>8, Zenon DEF ClaimRun, LoseRun, SendTransfer, ResendHold, SendIdentity, ScanLedgerPage, ScanStalls
  <2> QED
    BY <1>1, <2>1, <2>2, <2>4, <2>5, <2>6, <2>7, <2>8, Zenon DEF Next, Settle
<1> QED
  BY <1>1, Invariance, PTL DEF Spec, NewIdentityOnlyAfterAbsence

-----------------------------------------------------------------------------
(* LedgerSettlement implements OutgoingPayment: with the record's phase and   *)
(* the number of blocks of a liability, every step is a step of the promise   *)
(* or changes nothing of it.                                                  *)

\* A step that changes no record's state and appends no block stutters in
\* OutgoingPayment.
LEMMA Stutters ==
    ASSUME UNCHANGED ledger, \A k \in Liabilities : pay'[k].state = pay[k].state
    PROVE  UNCHANGED Promise!vars
<1>1. Phase' = Phase
  BY Zenon DEF Phase
<1>2. Moved' = Moved
  BY Zenon DEF Moved, Blocks
<1> QED
  BY <1>1, <1>2, Zenon DEF Promise!vars

\* What a changed record state is in OutgoingPayment.
LEMMA PhaseStep ==
    ASSUME NEW l \in Liabilities, \A k \in Liabilities \ {l} : pay'[k].state = pay[k].state
    PROVE  Phase' = [Phase EXCEPT ![l] = CASE pay'[l].state = "None" -> "none"
                                           [] pay'[l].state = "Paid" -> "closed"
                                           [] OTHER -> "owed"]
  BY Zenon DEF Phase

\* A liability with a block has moved once, one without has not moved.
LEMMA MovedValue ==
    ASSUME TypeOK, PaidAtMostOnce, NEW l \in Liabilities
    PROVE  /\ (\E i \in 1..Len(ledger) : ledger[i].liab = l) => Moved[l] = 1
           /\ (\A i \in 1..Len(ledger) : ledger[i].liab # l) => Moved[l] = 0
<1>1. ASSUME NEW i \in 1..Len(ledger), ledger[i].liab = l PROVE Moved[l] = 1
  <2>1. Blocks(l) = {i}
    BY <1>1, Zenon DEF Blocks, PaidAtMostOnce
  <2> QED
    BY <2>1, FS_Singleton, Zenon DEF Moved
<1>2. ASSUME \A i \in 1..Len(ledger) : ledger[i].liab # l PROVE Moved[l] = 0
  <2>1. Blocks(l) = {}
    BY <1>2, Zenon DEF Blocks
  <2> QED
    BY <2>1, FS_EmptySet, Zenon DEF Moved
<1> QED
  BY <1>1, <1>2, Zenon

\* Recording a payment is Close; any other change of an owed record stutters.
LEMMA MarkRefines ==
    ASSUME IndInv, NEW l \in Liabilities, NEW s \in States \ {"None"}, NEW i \in Nat,
           pay' = [pay EXCEPT ![l] = Mark(l, s, i)], UNCHANGED ledger, pay[l].state \in {"Pending", "Hold"},
           s = "Paid" => i \in 1..Len(ledger) /\ ledger[i] = Identity(l)
    PROVE  [Promise!Next]_Promise!vars
<1>t. TypeOK /\ PaidAtMostOnce
  BY Zenon DEF IndInv
<1>1. /\ \A k \in Liabilities \ {l} : pay'[k].state = pay[k].state
      /\ pay'[l].state = s
  BY <1>t, Zenon DEF TypeOK, Mark
<1>2. CASE s = "Paid"
  <2>1. Moved[l] = 1
    <3>1. i \in 1..Len(ledger) /\ ledger[i].liab = l
      BY <1>2 DEF Identity
    <3> QED
      BY <1>t, <3>1, MovedValue, Zenon
  <2>2. Phase[l] = "owed" /\ Phase' = [Phase EXCEPT ![l] = "closed"]
    BY <1>1, <1>2, PhaseStep, Zenon DEF Phase
  <2>3. Moved' = Moved
    BY Zenon DEF Moved, Blocks
  <2> QED
    BY <2>1, <2>2, <2>3, Zenon DEF Promise!Next, Promise!Close
<1>3. CASE s # "Paid"
  <2>1. Phase' = Phase
    BY <1>1, <1>3, Zenon DEF Phase
  <2>2. Moved' = Moved
    BY Zenon DEF Moved, Blocks
  <2> QED
    BY <2>1, <2>2, Zenon DEF Promise!vars
<1> QED
  BY <1>2, <1>3, Zenon

\* A confirmed answer closes the liability with the block it names.
LEMMA ConfirmedRefines ==
    ASSUME IndInv, ConfirmedIsExecuted, NEW l \in Liabilities, answer[l] = "confirmed",
           pay' = [pay EXCEPT ![l] = Mark(l, "Paid", BlockOf(Identity(l)))],
           UNCHANGED ledger, pay[l].state \in {"Pending", "Hold"}
    PROVE  [Promise!Next]_Promise!vars
<1>1. PICK i : i = BlockOf(Identity(l))
  BY Zenon
<1>2. i \in 1..Len(ledger) /\ ledger[i] = Identity(l)
  BY <1>1, BlockOfConfirmed, Zenon
<1>3. i \in Nat /\ "Paid" \in States \ {"None"}
  BY <1>2 DEF States
<1> QED
  BY <1>1, <1>2, <1>3, MarkRefines, Zenon

\* The whole protocol (calls, lost replies, holds, resends, scans and new
\* identities) implements OutgoingPayment: each liability moves at most once,
\* and is closed only after it has moved.
THEOREM Implementation == Spec => KeepsPromise
<1>1. Init => Promise!Init
  <2> SUFFICES ASSUME Init PROVE Promise!Init
    BY Zenon
  <2>1. Phase = [l \in Liabilities |-> "none"]
    BY Zenon DEF Init, Phase
  <2>2. \A l \in Liabilities : Blocks(l) = {}
    BY DEF Init, Blocks
  <2>3. Moved = [l \in Liabilities |-> 0]
    BY <2>2, FS_EmptySet, Zenon DEF Moved
  <2> QED
    BY <2>1, <2>3, Zenon DEF Promise!Init
<1>2. ASSUME IndInv, IndInv', [Next]_vars PROVE [Promise!Next]_Promise!vars
  <2>t. /\ TypeOK /\ SentIsCurrentOrDead /\ ExecutedIsCurrent /\ PaidIsOnLedger
        /\ ConfirmedIsExecuted /\ RunFitsState /\ ScanIsEvidence /\ IndexBehind
    BY <1>2, Zenon DEF IndInv
  <2>1. ASSUME NEW m \in net, LedgerProcesses(m) PROVE [Promise!Next]_Promise!vars
    <3> USE <2>1 DEF LedgerProcesses
    <3>1. CASE ledger' = ledger
      BY <3>1, Stutters, Zenon
    <3>2. CASE ledger' # ledger
      <4>1. InWindow(m) /\ ~Executed(m) /\ ledger' = Append(ledger, m)
        BY <3>2, Zenon DEF LedgerExecutes, LedgerTooOld, LedgerRefuses
      <4>0. ledger \in Seq(Identities)
        BY <2>t, Zenon DEF TypeOK
      <4>2. m \in Identities /\ m.liab \in Liabilities /\ m = Identity(m.liab) /\ pay[m.liab].state # "None"
        BY <2>t, <4>1, Zenon DEF TypeOK, Identities, SentIsCurrentOrDead
      <4>3. /\ Len(ledger') = Len(ledger) + 1 /\ Len(ledger) \in Nat /\ ledger'[Len(ledger) + 1] = m
            /\ \A i \in 1..Len(ledger) : ledger'[i] = ledger[i]
        BY ONLY <4>0, <4>1, <4>2
      <4>4. pay[m.liab].state # "Paid"
        BY <2>t, <4>1, <4>2, Zenon DEF PaidIsOnLedger, Executed
      <4>5. Phase[m.liab] = "owed" /\ Phase' = Phase
        BY <4>2, <4>4, Zenon DEF Phase
      <4>6. \A i \in 1..Len(ledger) : ledger[i].liab # m.liab
        BY <2>t, <4>1, <4>2, Zenon DEF ExecutedIsCurrent, Executed
      <4>7. Moved[m.liab] = 0
        BY <1>2, <4>2, <4>6, MovedValue, Zenon DEF IndInv
      <4>8. \A k \in Liabilities \ {m.liab} : Blocks(k)' = Blocks(k)
        BY <4>3 DEF Blocks
      <4>9. Blocks(m.liab)' = {Len(ledger) + 1}
        BY <4>3, <4>6 DEF Blocks
      <4>10. Moved' = [Moved EXCEPT ![m.liab] = 1]
        BY <4>2, <4>8, <4>9, FS_Singleton, Zenon DEF Moved
      <4> QED
        BY <4>2, <4>5, <4>7, <4>10, Zenon DEF Promise!Next, Promise!Move
    <3> QED
      BY <3>1, <3>2, Zenon
  <2>2. ASSUME NEW l \in Liabilities, StartPayment(l) PROVE [Promise!Next]_Promise!vars
    <3>1. \A k \in Liabilities \ {l} : pay'[k].state = pay[k].state
      BY <2>t, <2>2, Zenon DEF StartPayment, TypeOK
    <3>2. pay[l].state = "None" /\ pay'[l].state = "Pending"
      BY <2>t, <2>2, Zenon DEF StartPayment, TypeOK
    <3>3. Phase[l] = "none" /\ Phase' = [Phase EXCEPT ![l] = "owed"]
      BY <3>1, <3>2, PhaseStep, Zenon DEF Phase
    <3>4. Moved' = Moved
      BY <2>2, Zenon DEF Moved, Blocks, StartPayment, world
    <3> QED
      BY <3>3, <3>4, Zenon DEF Promise!Next, Promise!Owe
  <2>3. ASSUME NEW l \in Liabilities, OnTransferAnswer(l) PROVE [Promise!Next]_Promise!vars
    <3>0. UNCHANGED ledger /\ pay[l].state = "Pending"
      BY <2>t, <2>3, Zenon DEF OnTransferAnswer, world, RunFitsState
    <3>1. CASE answer[l] = "confirmed"
      <4>1. pay' = [pay EXCEPT ![l] = Mark(l, "Paid", BlockOf(Identity(l)))]
        BY <2>3, <3>1, Zenon DEF OnTransferAnswer, RecordPaid
      <4> QED
        BY <1>2, <2>t, <2>3, <3>0, <3>1, <4>1, ConfirmedRefines, Zenon
    <3>2. CASE answer[l] # "confirmed"
      <4>1. PICK s : s = StateAfterTransfer(answer[l])
        BY Zenon
      <4>2. s \in States \ {"None"} /\ s # "Paid"
        BY <3>2, <4>1, Zenon DEF StateAfterTransfer, States
      <4>3. pay' = [pay EXCEPT ![l] = Mark(l, s, 0)]
        BY <2>3, <3>2, <4>1, Zenon DEF OnTransferAnswer
      <4> QED
        BY <1>2, <2>3, <3>0, <4>2, <4>3, MarkRefines, Zenon
    <3> QED
      BY <3>1, <3>2, Zenon
  <2>4. ASSUME NEW l \in Liabilities, OnHoldAnswer(l) PROVE [Promise!Next]_Promise!vars
    <3>0. UNCHANGED ledger /\ pay[l].state = "Hold"
      BY <2>t, <2>4, Zenon DEF OnHoldAnswer, world, RunFitsState
    <3>1. CASE answer[l] = "confirmed"
      <4>1. pay' = [pay EXCEPT ![l] = Mark(l, "Paid", BlockOf(Identity(l)))]
        BY <2>4, <3>1, Zenon DEF OnHoldAnswer, RecordPaid
      <4> QED
        BY <1>2, <2>t, <2>4, <3>0, <3>1, <4>1, ConfirmedRefines, Zenon
    <3>2. CASE answer[l] # "confirmed"
      <4>1. pay' = pay
        BY <2>4, <3>2, Zenon DEF OnHoldAnswer
      <4> QED
        BY <3>0, <4>1, Stutters, Zenon
    <3> QED
      BY <3>1, <3>2, Zenon
  <2>5. ASSUME NEW l \in Liabilities, ScanFound(l) PROVE [Promise!Next]_Promise!vars
    <3>1. /\ ScanTip(l) \in 0..Len(ledger) /\ ScanFrom(l) \in Nat /\ PageEnd(l) \in Nat
          /\ PageEnd(l) <= ScanTip(l)
      BY <2>t, PageBounds, Zenon
    <3>2. \A i : i \in ScanFrom(l) + 1 .. PageEnd(l) \/ i \in 1..indexed => i \in 1..Len(ledger)
      BY <2>t, <3>1 DEF TypeOK, IndexBehind
    <3>3. PICK i \in 1..Len(ledger) : ledger[i] = Identity(l) /\ RecordPaid(l, i)
      BY <2>5, <3>2, Zenon DEF ScanFound
    <3>4. pay[l].state = "Hold" /\ UNCHANGED ledger /\ i \in Nat
      <4>1. pay[l].state = "Hold"
        BY <2>5, Zenon DEF ScanFound, ScanReady
      <4>2. UNCHANGED ledger
        BY <2>5, Zenon DEF ScanFound, world
      <4> QED
        BY <3>3, <4>1, <4>2
    <3>5. pay' = [pay EXCEPT ![l] = Mark(l, "Paid", i)] /\ "Paid" \in States \ {"None"}
      BY <3>3, Zenon DEF RecordPaid, States
    <3> QED
      BY <1>2, <3>3, <3>4, <3>5, MarkRefines, Zenon
  <2>6. ASSUME NEW l \in Liabilities, ScanAbsent(l) PROVE [Promise!Next]_Promise!vars
    <3>1. pay[l].state = "Hold" /\ UNCHANGED ledger /\ pay' = [pay EXCEPT ![l] = NextAttempt(l)]
      BY <2>6, Zenon DEF ScanAbsent, ScanReady, world
    <3>2. \A k \in Liabilities \ {l} : pay'[k].state = pay[k].state
      BY <2>t, <3>1, Zenon DEF TypeOK
    <3>3. pay'[l].state = "Pending"
      BY <2>t, <3>1, Zenon DEF TypeOK, NextAttempt
    <3>4. Phase' = Phase
      BY <3>1, <3>2, <3>3, Zenon DEF Phase
    <3>5. Moved' = Moved
      BY <3>1, Zenon DEF Moved, Blocks
    <3> QED
      BY <3>4, <3>5, Zenon DEF Promise!vars
  <2>7. ASSUME CanisterTick \/ LedgerTick \/ IndexSync \/ UNCHANGED vars
        PROVE  UNCHANGED Promise!vars
    BY <2>7, Stutters, Zenon DEF CanisterTick, LedgerTick, IndexSync, canister, vars
  <2>8. ASSUME NEW l \in Liabilities,
               ClaimRun(l) \/ LoseRun(l) \/ SendTransfer(l) \/ ResendHold(l) \/ ScanLedgerPage(l) \/ ScanStalls(l)
        PROVE  UNCHANGED Promise!vars
    BY <2>8, Stutters, Zenon
    DEF ClaimRun, LoseRun, SendTransfer, ResendHold, SendIdentity, ScanLedgerPage, ScanStalls, world
  <2> QED
    BY <1>2, <2>1, <2>2, <2>3, <2>4, <2>5, <2>6, <2>7, <2>8, Zenon DEF Next, Environment, Settle
<1> QED
  BY <1>1, <1>2, Invariance, PTL DEF Spec, KeepsPromise, Promise!Spec
=============================================================================
