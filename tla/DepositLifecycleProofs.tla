------------------------- MODULE DepositLifecycleProofs -------------------------
(***************************************************************************)
(* Proofs about DepositLifecycle: for any set of deposits, any lifetime of *)
(* an authorization, any amounts and any interleaving of the two clocks,   *)
(* no deposit is both minted and refunded, and each stays backed.          *)
(***************************************************************************)
EXTENDS DepositLifecycle, TLAPS

\* Everything that concerns deposit e is left alone.
Same(e) ==
    /\ dep'[e] = dep[e] /\ pc'[e] = pc[e] /\ obs'[e] = obs[e]
    /\ minedAt'[e] = minedAt[e] /\ supply'[e] = supply[e]
    /\ escrow'[e] = escrow[e] /\ fees'[e] = fees[e]

\* The initial state satisfies the inductive invariant.
LEMMA InitInv == Init => IndInv
  BY AmountAssumption
     DEF Init, IndInv, TypeOK, FinalizedBehind, DepositInv, SignedFitsState, MintFitsAuthorization,
         AwaitFitsState, ReplyStaysTrue, OutcomeIsDecided, BooksFit, NoReply, Records, States, Awaits

\* A deposit that a step does not touch keeps its part of the invariant, even
\* when Base finalizes more blocks.
LEMMA Kept ==
  ASSUME NEW e \in Deposits, TypeOK, DepositInv(e), ftime' \in Nat, ftime <= ftime', Same(e)
  PROVE  DepositInv(e)'
  BY DEF TypeOK, Same, Records, DepositInv, SignedFitsState, MintFitsAuthorization,
         AwaitFitsState, ReplyStaysTrue, OutcomeIsDecided, BooksFit, Claimable

\* A step of one deposit preserves the invariant if it keeps that deposit's
\* part and leaves the others and Base's clock alone.
LEMMA OneDeposit ==
  ASSUME IndInv, NEW d \in Deposits, TypeOK', bhead' = bhead, ftime' = ftime,
         \A e \in Deposits \ {d} : Same(e), DepositInv(d)'
  PROVE  IndInv'
  <1>1. \A e \in Deposits : DepositInv(e)'
    <2> SUFFICES ASSUME NEW e \in Deposits, e # d PROVE DepositInv(e)'
      BY Zenon
    <2>1. TypeOK /\ DepositInv(e) /\ ftime' \in Nat /\ ftime <= ftime' /\ Same(e)
      BY DEF IndInv, TypeOK
    <2> QED BY <2>1, Kept, Zenon
  <1>2. FinalizedBehind'
    BY Zenon DEF IndInv, FinalizedBehind
  <1> QED BY <1>1, <1>2, Zenon DEF IndInv

\* A step that only moves the deposit's handler from one await to another.
LEMMA AwaitStep ==
  ASSUME IndInv, NEW d \in Deposits, NEW p \in Awaits, Await(d, p),
         UNCHANGED <<now, base, dep, money>>,
         p \in {"prepare"} => dep[d].state = "EscrowedUnquoted",
         p \in {"revalidate", "sign", "revalidateSigned", "refundUnsigned"} =>
             ~dep[d].signed /\ dep[d].state \in {"AuthorizationPending", "RefundAvailable"},
         p \in {"notify", "refundSigned", "mintEvidence"} => dep[d].signed /\ Claimable(d),
         p = "mintEvidence" => minedAt[d] \in 1..ftime
  PROVE  IndInv'
  <1> USE DEF IndInv
  <1>1. TypeOK'
    BY Zenon DEF TypeOK, Await, NoReply, base, money
  <1>2. bhead' = bhead /\ ftime' = ftime /\ \A e \in Deposits \ {d} : Same(e)
    BY Zenon DEF TypeOK, Await, Same, base, money
  <1>3. /\ dep'[d] = dep[d] /\ pc'[d] = p /\ obs'[d] = NoReply
        /\ minedAt'[d] = minedAt[d] /\ supply'[d] = supply[d]
        /\ escrow'[d] = escrow[d] /\ fees'[d] = fees[d]
    BY Zenon DEF TypeOK, Await, base, money
  <1>4. DepositInv(d)'
    <2>1. DepositInv(d) /\ minedAt[d] \in Nat /\ ftime \in Nat
      BY Zenon DEF TypeOK
    <2> HIDE DEF IndInv
    <2> QED BY <1>2, <1>3, <2>1
          DEF DepositInv, SignedFitsState, MintFitsAuthorization, AwaitFitsState, ReplyStaysTrue,
              OutcomeIsDecided, BooksFit, Claimable, NoReply
  <1> QED BY <1>1, <1>2, <1>4, OneDeposit, Zenon

\* A step that writes the deposit's record and may move its handler.
LEMMA RecordStep ==
  ASSUME IndInv, NEW d \in Deposits, NEW r \in Records, Record(d, r),
         (\E p \in Awaits : Await(d, p)) \/ UNCHANGED <<pc, obs>>,
         UNCHANGED <<now, base, money>>
  PROVE  /\ TypeOK' /\ bhead' = bhead /\ ftime' = ftime /\ \A e \in Deposits \ {d} : Same(e)
         /\ dep'[d] = r
         /\ minedAt'[d] = minedAt[d] /\ supply'[d] = supply[d]
         /\ escrow'[d] = escrow[d] /\ fees'[d] = fees[d]
  <1>1. dep' \in [Deposits -> Records] /\ dep'[d] = r /\ \A e \in Deposits \ {d} : dep'[e] = dep[e]
    BY Zenon DEF IndInv, TypeOK, Record
  <1>2. /\ pc' \in [Deposits -> Awaits] /\ obs' \in [Deposits -> [ts : Nat, processed : BOOLEAN]]
        /\ \A e \in Deposits \ {d} : pc'[e] = pc[e] /\ obs'[e] = obs[e]
    <2>1. CASE UNCHANGED <<pc, obs>>
      BY <2>1, Zenon DEF IndInv, TypeOK
    <2>2. ASSUME NEW p \in Awaits, Await(d, p)
          PROVE  <1>2!:
      BY <2>2, Zenon DEF IndInv, TypeOK, Await, NoReply
    <2> QED BY <2>1, <2>2, Zenon
  <1> QED BY <1>1, <1>2, Zenon DEF IndInv, TypeOK, Same, base, money

\* The clocks: the canister's is no part of the invariant, and Base's
\* finalized block only advances.
LEMMA ClockStep ==
  ASSUME IndInv, CanisterTick \/ BaseBlock \/ BaseFinalizes
  PROVE  IndInv'
  <1>1. now' \in Nat /\ bhead' \in Nat /\ ftime' \in Nat /\ ftime <= ftime' /\ FinalizedBehind'
    BY DEF IndInv, TypeOK, FinalizedBehind, CanisterTick, BaseBlock, BaseFinalizes, base
  <1>2. UNCHANGED <<minedAt, supply, dep, pc, obs, escrow, fees>>
    BY Zenon DEF CanisterTick, BaseBlock, BaseFinalizes, base, money
  <1>3. TypeOK'
    BY <1>1, <1>2, Zenon DEF IndInv, TypeOK
  <1>4. \A e \in Deposits : DepositInv(e)'
    BY <1>1, <1>2, Kept, Zenon DEF IndInv, Same
  <1> QED BY <1>1, <1>3, <1>4, Zenon DEF IndInv

\* Base: a mint falls in a block that is not final, in time, and a
\* reorganisation drops only such a mint; so no reply already given changes,
\* and no deposit that left the mint path is touched.
LEMMA BaseStep ==
  ASSUME IndInv, NEW d \in Deposits, MintDeposit(d) \/ BaseReorg(d)
  PROVE  IndInv'
  <1>0. DepositInv(d) /\ TypeOK /\ FinalizedBehind
    BY Zenon DEF IndInv
  <1>1. PICK m \in Nat :
            /\ minedAt' = [minedAt EXCEPT ![d] = m]
            /\ supply' = [supply EXCEPT ![d] = IF m # 0 THEN Gross - ServiceFee ELSE 0]
            /\ m # 0 => m > ftime /\ dep[d].signed /\ m <= dep[d].deadline
            /\ minedAt[d] = 0 \/ minedAt[d] > ftime
    <2>1. CASE MintDeposit(d)
      <3>1. PICK ts \in ftime + 1 .. bhead :
                MintAccepted(ts, dep[d].deadline) /\ minedAt' = [minedAt EXCEPT ![d] = ts]
        BY <2>1, Zenon DEF MintDeposit
      <3>2. ts \in Nat /\ ts # 0 /\ ts > ftime /\ ts <= dep[d].deadline
        BY <1>0, <3>1 DEF MintAccepted, TypeOK
      <3>3. /\ supply' = [supply EXCEPT ![d] = Gross - ServiceFee]
            /\ dep[d].signed /\ minedAt[d] = 0
        BY <2>1, Zenon DEF MintDeposit
      <3> QED BY <3>1, <3>2, <3>3, Zenon
    <2>2. CASE BaseReorg(d)
      BY <1>0, <2>2, Zenon DEF BaseReorg, TypeOK
    <2> QED BY <2>1, <2>2, Zenon
  <1>2. UNCHANGED <<now, bhead, ftime, dep, pc, obs, escrow, fees>>
    BY Zenon DEF MintDeposit, BaseReorg, money
  <1>3. TypeOK'
    BY <1>0, <1>1, <1>2, AmountAssumption DEF TypeOK
  <1>4. /\ minedAt'[d] = m /\ supply'[d] = IF m # 0 THEN Gross - ServiceFee ELSE 0
        /\ \A e \in Deposits \ {d} : Same(e)
    BY <1>0, <1>1, <1>2, Zenon DEF TypeOK, Same
  <1>5. DepositInv(d)'
    <2>1. m # 0 \/ minedAt[d] # 0 => ~(dep[d].deadline < ftime) /\ dep[d].signed
      BY <1>0, <1>1 DEF TypeOK, Records, DepositInv, MintFitsAuthorization
    <2>2. /\ ftime \in Nat /\ obs[d].ts \in Nat /\ minedAt[d] \in Nat /\ dep[d].deadline \in Nat
          /\ obs[d].processed \in BOOLEAN
      BY <1>0, Zenon DEF TypeOK, Records
    <2>3. ReplyStaysTrue(d)'
      BY <1>0, <1>1, <1>2, <1>4, <2>2 DEF DepositInv, ReplyStaysTrue
    <2>4. OutcomeIsDecided(d)'
      BY <1>0, <1>1, <1>2, <1>4, <2>1, <2>2 DEF DepositInv, OutcomeIsDecided
    <2> QED BY <1>0, <1>1, <1>2, <1>4, <2>3, <2>4, Zenon
          DEF DepositInv, SignedFitsState, MintFitsAuthorization, AwaitFitsState, BooksFit, Claimable
  <1> QED BY <1>2, <1>3, <1>4, <1>5, OneDeposit, Zenon

\* RPC reports a finalized block, and what it reports of it cannot change.
LEMMA RpcStep ==
  ASSUME IndInv, NEW d \in Deposits, RpcReplies(d)
  PROVE  IndInv'
  <1>0. DepositInv(d) /\ TypeOK /\ FinalizedBehind
    BY Zenon DEF IndInv
  <1>1. PICK t \in 1..ftime :
            obs' = [obs EXCEPT ![d] = [ts |-> t, processed |-> minedAt[d] # 0 /\ minedAt[d] <= t]]
    BY Zenon DEF RpcReplies, Readable
  <1>2. UNCHANGED <<now, bhead, ftime, minedAt, supply, dep, pc, escrow, fees>>
    BY Zenon DEF RpcReplies, base, money
  <1>3. TypeOK' /\ \A e \in Deposits \ {d} : Same(e)
    BY <1>0, <1>1, <1>2 DEF TypeOK, Same
  <1>4. obs'[d].ts = t /\ (obs'[d].processed <=> (minedAt[d] # 0 /\ minedAt[d] <= t))
    <2> DEFINE b == minedAt[d] # 0 /\ minedAt[d] <= t
    <2>1. b \in BOOLEAN
      BY Zenon
    <2>2. obs' = [obs EXCEPT ![d] = [ts |-> t, processed |-> b]]
      BY <1>1, Zenon
    <2> HIDE DEF b
    <2>3. obs'[d] = [ts |-> t, processed |-> b]
      BY <1>0, <2>2, Zenon DEF TypeOK
    <2>4. obs'[d].ts = t /\ obs'[d].processed = b
      BY <2>3
    <2> QED BY <2>4, Zenon DEF b
  <1>5. ReplyStaysTrue(d)'
    BY <1>0, <1>2, <1>4 DEF ReplyStaysTrue, TypeOK
  <1>6. DepositInv(d)'
    BY <1>0, <1>2, <1>5, Zenon
       DEF DepositInv, SignedFitsState, MintFitsAuthorization, AwaitFitsState, OutcomeIsDecided,
           BooksFit, Claimable
  <1> QED BY <1>2, <1>3, <1>6, OneDeposit, Zenon

\* The steps that only wait: each starts a call in a state that fits it.
LEMMA WaitingStep ==
  ASSUME IndInv, NEW d \in Deposits,
         \/ StartPrepare(d) \/ StartRevalidate(d) \/ SignatureReturned(d) \/ Abandon(d)
         \/ StartNotify(d) \/ NotifySeesMint(d) \/ StartRefundOfPending(d) \/ StartRefundOfSigned(d)
  PROVE  IndInv'
  <1>0. DepositInv(d) /\ TypeOK
    BY Zenon DEF IndInv
  <1>1. UNCHANGED <<now, base, dep, money>>
    BY Zenon DEF StartPrepare, StartRevalidate, SignatureReturned, Abandon, StartNotify, NotifySeesMint,
           StartRefundOfPending, StartRefundOfSigned
  <1> USE DEF Awaits
  <1>2. CASE StartPrepare(d)
    BY <1>1, <1>2, AwaitStep, Zenon DEF StartPrepare
  <1>3. CASE StartRevalidate(d) \/ StartRefundOfPending(d)
    <2>1. ~dep[d].signed /\ dep[d].state = "AuthorizationPending"
      BY <1>0, <1>3, Zenon DEF StartRevalidate, StartRefundOfPending, DepositInv, SignedFitsState
    <2> QED BY <1>1, <1>3, <2>1, AwaitStep, Zenon DEF StartRevalidate, StartRefundOfPending
  <1>4. CASE SignatureReturned(d)
    BY <1>0, <1>1, <1>4, AwaitStep, Zenon DEF SignatureReturned, DepositInv, AwaitFitsState
  <1>5. CASE Abandon(d)
    BY <1>1, <1>5, AwaitStep, Zenon DEF Abandon
  <1>6. CASE StartNotify(d) \/ StartRefundOfSigned(d)
    BY <1>1, <1>6, AwaitStep, Zenon DEF StartNotify, StartRefundOfSigned
  <1>7. CASE NotifySeesMint(d)
    <2>1. dep[d].signed /\ Claimable(d) /\ minedAt[d] \in 1..ftime
      BY <1>0, <1>7
         DEF NotifySeesMint, Processed, DepositInv, AwaitFitsState, ReplyStaysTrue, TypeOK
    <2> QED BY <1>1, <1>7, <2>1, AwaitStep, Zenon DEF NotifySeesMint
  <1> QED BY <1>2, <1>3, <1>4, <1>5, <1>6, <1>7, Zenon

\* A step that moves the deposit to another state of the record and stops the
\* handler, leaves it where it is, or goes on to look for the mint.
LEMMA StateStep ==
  ASSUME IndInv, NEW d \in Deposits, NEW s \in States, Record(d, InState(d, s)),
         UNCHANGED <<now, base, money>>,
         \/ Await(d, "idle")
         \/ Await(d, "mintEvidence") /\ s = "RefundAvailable" /\ dep[d].signed /\ minedAt[d] \in 1..ftime
         \/ UNCHANGED <<pc, obs>> /\ (pc[d] = "idle" \/ (Reserved(d) /\ s = "RefundAvailable")),
         s \notin {"EscrowedUnquoted", "AuthorizationPending", "AuthorizationAvailable", "Refunded"},
         dep[d].state # "Refunded",
         s = "Minted" => dep[d].signed /\ minedAt[d] \in 1..ftime,
         dep[d].signed /\ s # "Minted" => dep[d].deadline < ftime,
         s = "RefundPending" => minedAt[d] = 0
  PROVE  IndInv'
  <1>0. DepositInv(d) /\ TypeOK
    BY Zenon DEF IndInv
  <1>1. InState(d, s) \in Records
    BY <1>0, Zenon DEF InState, TypeOK, Records
  <1>2. (\E p \in Awaits : Await(d, p)) \/ UNCHANGED <<pc, obs>>
    BY Zenon DEF Awaits
  <1>3. /\ TypeOK' /\ bhead' = bhead /\ ftime' = ftime /\ \A e \in Deposits \ {d} : Same(e)
        /\ dep'[d] = InState(d, s)
        /\ minedAt'[d] = minedAt[d] /\ supply'[d] = supply[d]
        /\ escrow'[d] = escrow[d] /\ fees'[d] = fees[d]
    BY <1>1, <1>2, RecordStep, Zenon
  <1>4. dep'[d].state = s /\ dep'[d].signed = dep[d].signed /\ dep'[d].deadline = dep[d].deadline
    BY <1>3 DEF InState
  <1>5. \/ pc'[d] = "idle" /\ obs'[d] = NoReply
        \/ /\ pc'[d] = "mintEvidence" /\ obs'[d] = NoReply
           /\ s = "RefundAvailable" /\ dep[d].signed /\ minedAt[d] \in 1..ftime
        \/ /\ pc'[d] = pc[d] /\ obs'[d] = obs[d]
           /\ pc[d] = "idle" \/ (Reserved(d) /\ s = "RefundAvailable")
    BY <1>0, Zenon DEF Await, TypeOK
  <1>6. /\ minedAt[d] \in Nat /\ ftime \in Nat /\ obs[d].ts \in Nat /\ obs[d].processed \in BOOLEAN
        /\ dep[d].signed \in BOOLEAN
    BY <1>0, Zenon DEF TypeOK, Records
  <1>7. SignedFitsState(d)' /\ MintFitsAuthorization(d)'
    BY <1>0, <1>3, <1>4, Zenon DEF DepositInv, SignedFitsState, MintFitsAuthorization
  <1>8. AwaitFitsState(d)'
    BY <1>0, <1>4, <1>5, Zenon DEF DepositInv, AwaitFitsState, Claimable, Reserved
  <1>9. ReplyStaysTrue(d)'
    <2>1. \/ obs'[d] = NoReply
          \/ obs'[d] = obs[d]
      BY <1>5, Zenon
    <2>2. NoReply.ts = 0 /\ NoReply.processed = FALSE
      BY Zenon DEF NoReply
    <2>3. CASE obs'[d] = NoReply
      BY <1>3, <1>6, <2>2, <2>3 DEF ReplyStaysTrue
    <2>4. CASE obs'[d] = obs[d]
      BY <1>0, <1>3, <2>4, Zenon DEF DepositInv, ReplyStaysTrue
    <2> QED BY <2>1, <2>3, <2>4, Zenon
  <1>10. OutcomeIsDecided(d)' /\ BooksFit(d)'
    BY <1>0, <1>3, <1>4, <1>5, Zenon DEF DepositInv, OutcomeIsDecided, BooksFit
  <1>11. DepositInv(d)'
    BY <1>7, <1>8, <1>9, <1>10, Zenon DEF DepositInv
  <1> QED BY <1>3, <1>11, OneDeposit, Zenon

\* Every handler that ends the mint path does so on evidence: no signature
\* exists, or a final block shows that it expired, unused or used.
LEMMA OutcomeStep ==
  ASSUME IndInv, NEW d \in Deposits,
         \/ RefuseQuote(d) \/ RejectUnsigned(d) \/ ReleaseExpired(d) \/ MintReconciled(d)
         \/ RefundUnsigned(d) \/ RefundExpiredPending(d) \/ RefundExpiredSigned(d) \/ RefundFindsMint(d)
  PROVE  IndInv'
  <1>0. DepositInv(d) /\ TypeOK
    BY Zenon DEF IndInv
  <1>1. UNCHANGED <<now, base, money>>
    BY Zenon DEF RefuseQuote, RejectUnsigned, ReleaseExpired, MintReconciled, RefundUnsigned,
           RefundExpiredPending, RefundExpiredSigned, RefundFindsMint
  <1>2. /\ minedAt[d] \in Nat /\ ftime \in Nat /\ obs[d].ts \in Nat /\ dep[d].deadline \in Nat
        /\ dep[d].signed \in BOOLEAN
    BY <1>0, Zenon DEF TypeOK, Records
  <1>3. ~dep[d].signed => minedAt[d] = 0
    BY <1>0, Zenon DEF DepositInv, MintFitsAuthorization
  <1> USE DEF States
  <1>4. CASE RefuseQuote(d) \/ RejectUnsigned(d)
    <2>1. ~dep[d].signed /\ dep[d].state # "Refunded" /\ Record(d, InState(d, "RefundAvailable"))
      BY <1>0, <1>4, Zenon DEF RefuseQuote, RejectUnsigned, DepositInv, SignedFitsState
    <2>2. Await(d, "idle") \/ (UNCHANGED <<pc, obs>> /\ pc[d] = "idle")
      BY <1>4, Zenon DEF RefuseQuote, RejectUnsigned
    <2> QED BY <1>1, <2>1, <2>2, StateStep, Zenon
  <1>5. CASE ReleaseExpired(d)
    <2>1. /\ Reserved(d) /\ dep[d].state # "Refunded" /\ UNCHANGED <<pc, obs>>
          /\ Record(d, InState(d, "RefundAvailable")) /\ dep[d].deadline < ftime
      BY <1>2, <1>5 DEF ReleaseExpired, Reserved, Expired, Readable
    <2> QED BY <1>1, <2>1, StateStep, Zenon
  <1>6. CASE MintReconciled(d)
    <2>1. /\ dep[d].state # "Refunded" /\ dep[d].signed /\ minedAt[d] \in 1..ftime
          /\ Await(d, "idle") /\ Record(d, InState(d, "Minted"))
      BY <1>0, <1>6, Zenon DEF MintReconciled, DepositInv, AwaitFitsState, OutcomeIsDecided, Claimable
    <2> QED BY <1>1, <2>1, StateStep, Zenon
  <1>7. CASE RefundUnsigned(d)
    <2>1. /\ dep[d].state # "Refunded" /\ ~dep[d].signed /\ UNCHANGED <<pc, obs>> /\ pc[d] = "idle"
          /\ Record(d, InState(d, "RefundPending"))
      BY <1>7, Zenon DEF RefundUnsigned
    <2>2. "RefundPending" \in States /\ minedAt[d] = 0
      BY <1>3, <2>1, Zenon
    <2> HIDE DEF States
    <2> QED BY <1>1, <2>1, <2>2, StateStep, Zenon
  <1>8. CASE RefundExpiredPending(d)
    <2>1. ~dep[d].signed /\ dep[d].state # "Refunded" /\ Await(d, "idle")
      BY <1>0, <1>8, Zenon DEF RefundExpiredPending, DepositInv, AwaitFitsState
    <2>2. PICK s \in RefundOrAvailable : Record(d, InState(d, s))
      BY <1>8, Zenon DEF RefundExpiredPending
    <2>3. s \in {"RefundAvailable", "RefundPending"}
      BY Zenon DEF RefundOrAvailable
    <2> QED BY <1>1, <1>3, <2>1, <2>2, <2>3, StateStep, Zenon
  <1>9. CASE RefundExpiredSigned(d)
    <2>1. dep[d].signed /\ dep[d].state # "Refunded" /\ Await(d, "idle")
      BY <1>0, <1>9, Zenon DEF RefundExpiredSigned, DepositInv, AwaitFitsState, Claimable
    <2>2. dep[d].deadline < ftime /\ minedAt[d] = 0
      BY <1>0, <1>2, <1>9
         DEF RefundExpiredSigned, ProvenUnminted, Expired, DepositInv, ReplyStaysTrue,
             MintFitsAuthorization
    <2>3. PICK s \in RefundOrAvailable : Record(d, InState(d, s))
      BY <1>9, Zenon DEF RefundExpiredSigned
    <2>4. s \in {"RefundAvailable", "RefundPending"}
      BY Zenon DEF RefundOrAvailable
    <2> QED BY <1>1, <2>1, <2>2, <2>3, <2>4, StateStep, Zenon
  <1>10. CASE RefundFindsMint(d)
    <2>1. /\ dep[d].signed /\ dep[d].state # "Refunded" /\ Await(d, "mintEvidence")
          /\ Record(d, InState(d, "RefundAvailable"))
      BY <1>0, <1>10, Zenon DEF RefundFindsMint, DepositInv, AwaitFitsState, Claimable
    <2>2. dep[d].deadline < ftime /\ minedAt[d] \in 1..ftime
      BY <1>0, <1>2, <1>10
         DEF RefundFindsMint, Processed, Expired, DepositInv, ReplyStaysTrue
    <2> QED BY <1>1, <2>1, <2>2, StateStep, Zenon
  <1> QED BY <1>4, <1>5, <1>6, <1>7, <1>8, <1>9, <1>10, Zenon

\* The steps towards a signature: it is dispatched and returned while no
\* signature exists, and installed only on a pending authorization.
LEMMA SigningStep ==
  ASSUME IndInv, NEW d \in Deposits, CommitPrepared(d) \/ DispatchSignature(d) \/ InstallSignature(d)
  PROVE  IndInv'
  <1>0. DepositInv(d) /\ TypeOK
    BY Zenon DEF IndInv
  <1>1. /\ minedAt[d] \in Nat /\ ftime \in Nat /\ now \in Nat /\ dep[d] \in Records
        /\ ~dep[d].signed /\ minedAt[d] = 0
    BY <1>0, Zenon DEF TypeOK, Records, DepositInv, MintFitsAuthorization, SignedFitsState,
                CommitPrepared, DispatchSignature, InstallSignature, MayInstall
  <1>2. PICK r \in Records, p \in Awaits :
            /\ Record(d, r) /\ Await(d, p)
            /\ \/ /\ p = "revalidate" /\ r.state = "AuthorizationPending" /\ ~r.signed
                  /\ dep[d].state = "EscrowedUnquoted" /\ UNCHANGED <<now, base, money>>
               \/ /\ p = "sign" /\ r.state = dep[d].state /\ ~r.signed
                  /\ r.state \in {"AuthorizationPending", "RefundAvailable"}
                  /\ UNCHANGED <<now, base, money>>
               \/ /\ p = "idle" /\ r.state = "AuthorizationAvailable" /\ r.signed
                  /\ dep[d].state = "AuthorizationPending"
                  /\ fees' = [fees EXCEPT ![d] = fees[d] + ServiceFee]
                  /\ UNCHANGED <<now, base, escrow>>
    <2>1. CASE CommitPrepared(d)
      <3>1. CommitAuthorization(d) \in Records
        BY <1>1, TimeAssumption DEF CommitAuthorization, Records, States
      <3> QED BY <2>1, <3>1, Zenon DEF CommitPrepared, CommitAuthorization, Awaits
    <2>2. CASE DispatchSignature(d)
      <3>1. Dispatched(d) \in Records
        BY <1>1, Zenon DEF Dispatched, Records
      <3>2. dep[d].state \in {"AuthorizationPending", "RefundAvailable"}
        BY <1>0, <2>2, Zenon DEF DispatchSignature, DepositInv, AwaitFitsState
      <3> QED BY <1>1, <2>2, <3>1, <3>2, Zenon DEF DispatchSignature, Dispatched, Awaits
    <2>3. CASE InstallSignature(d)
      <3>1. AuthorizationSigned(d) \in Records
        BY <1>1, Zenon DEF AuthorizationSigned, Records, States
      <3> QED BY <2>3, <3>1, Zenon DEF InstallSignature, MayInstall, FeeCredit, AuthorizationSigned, Awaits
    <2> QED BY <2>1, <2>2, <2>3, Zenon
  <1>3. /\ now' = now /\ bhead' = bhead /\ ftime' = ftime /\ minedAt' = minedAt /\ supply' = supply
        /\ escrow' = escrow /\ fees' = [fees EXCEPT ![d] = IF r.signed THEN ServiceFee ELSE 0]
    <2>1. fees[d] = 0
      BY <1>0, <1>1, Zenon DEF DepositInv, BooksFit
    <2>2. CASE r.signed
      BY <1>0, <1>2, <2>1, <2>2, AmountAssumption DEF base, money, TypeOK
    <2>3. CASE ~r.signed
      BY <1>0, <1>2, <2>1, <2>3, Zenon DEF base, money, TypeOK
    <2> QED BY <2>2, <2>3, Zenon
  <1>4. /\ TypeOK' /\ \A e \in Deposits \ {d} : Same(e)
        /\ dep'[d] = r /\ pc'[d] = p /\ obs'[d] = NoReply
        /\ fees'[d] = IF r.signed THEN ServiceFee ELSE 0
    BY <1>0, <1>2, <1>3, AmountAssumption, Zenon DEF TypeOK, Same, Record, Await, NoReply
  <1>5. DepositInv(d)'
    <2> USE <1>0, <1>1, <1>2, <1>3, <1>4
    <2>1. SignedFitsState(d)' /\ MintFitsAuthorization(d)'
      BY Zenon DEF DepositInv, SignedFitsState, MintFitsAuthorization
    <2>2. AwaitFitsState(d)'
      BY Zenon DEF AwaitFitsState
    <2>3. ReplyStaysTrue(d)'
      BY DEF ReplyStaysTrue, NoReply
    <2>4. OutcomeIsDecided(d)'
      BY Zenon DEF DepositInv, OutcomeIsDecided
    <2>5. BooksFit(d)'
      BY Zenon DEF DepositInv, BooksFit
    <2> QED BY <2>1, <2>2, <2>3, <2>4, <2>5, Zenon DEF DepositInv
  <1> QED BY <1>3, <1>4, <1>5, OneDeposit, Zenon

\* The refund's transfer takes from escrow exactly what the deposit still owed.
LEMMA RefundStep ==
  ASSUME IndInv, NEW d \in Deposits, RefundSucceeded(d)
  PROVE  IndInv'
  <1>0. DepositInv(d) /\ TypeOK
    BY Zenon DEF IndInv
  <1>1. /\ dep[d].state = "RefundPending" /\ Record(d, InState(d, "Refunded"))
        /\ UNCHANGED <<now, bhead, ftime, minedAt, supply, pc, obs, fees>>
    BY Zenon DEF RefundSucceeded, base
  <1>2. InState(d, "Refunded") \in Records
    BY <1>0, Zenon DEF InState, TypeOK, Records, States
  <1>3. escrow' = [escrow EXCEPT ![d] = fees[d]]
    <2>1. escrow[d] = Gross /\ fees[d] = IF dep[d].signed THEN ServiceFee ELSE 0
      BY <1>0, <1>1, Zenon DEF DepositInv, BooksFit
    <2>2. escrow[d] - (RefundAmount(d) + LedgerFee) = fees[d]
      BY <2>1, AmountAssumption DEF RefundAmount
    <2> QED BY <2>2, Zenon DEF RefundSucceeded
  <1>4. /\ TypeOK' /\ \A e \in Deposits \ {d} : Same(e)
        /\ dep'[d] = InState(d, "Refunded") /\ escrow'[d] = fees[d]
    BY <1>0, <1>1, <1>2, <1>3, Zenon DEF TypeOK, Same, Record
  <1>5. /\ dep'[d].state = "Refunded" /\ dep'[d].signed = dep[d].signed
        /\ dep'[d].deadline = dep[d].deadline
    BY <1>4 DEF InState
  <1>6. DepositInv(d)'
    BY <1>0, <1>1, <1>4, <1>5, Zenon
       DEF DepositInv, SignedFitsState, MintFitsAuthorization, AwaitFitsState, ReplyStaysTrue,
           OutcomeIsDecided, BooksFit, Claimable
  <1> QED BY <1>1, <1>4, <1>6, OneDeposit, Zenon

\* IndInv is inductive, one lemma per kind of step.
LEMMA InvStep == IndInv /\ [Next]_vars => IndInv'
  <1> SUFFICES ASSUME IndInv, [Next]_vars PROVE IndInv'
    BY Zenon
  <1>1. CASE UNCHANGED vars
    <2>1. TypeOK' /\ FinalizedBehind'
      BY <1>1, Zenon DEF vars, IndInv, TypeOK, FinalizedBehind
    <2>2. \A e \in Deposits : DepositInv(e)'
      BY <1>1, Kept DEF vars, IndInv, TypeOK, Same
    <2> QED BY <2>1, <2>2, Zenon DEF IndInv
  <1>2. CASE CanisterTick \/ BaseBlock \/ BaseFinalizes
    BY <1>2, ClockStep, Zenon
  <1>3. ASSUME NEW d \in Deposits,
               \/ MintDeposit(d) \/ BaseReorg(d) \/ RpcReplies(d)
               \/ Advance(d) \/ Requests(d) \/ Abandon(d) \/ ReleaseExpired(d)
        PROVE  IndInv'
    BY <1>3, BaseStep, RpcStep, WaitingStep, OutcomeStep, SigningStep, RefundStep, Zenon
       DEF Advance, Requests
  <1> QED BY <1>1, <1>2, <1>3, Zenon DEF Next

\* Every reachable state satisfies the inductive invariant.
THEOREM Invariance == Spec => []IndInv
  BY InitInv, InvStep, PTL DEF Spec

\* Types are kept: in particular no account of a deposit becomes negative.
THEOREM TypeCorrect == Spec => []TypeOK
  <1>1. IndInv => TypeOK
    BY Zenon DEF IndInv
  <1> QED BY Invariance, <1>1, PTL

\* No deposit is refunded by request_deposit_refund and minted on Base.
THEOREM NeverBoth == Spec => []NeverMintedAndRefunded
  <1>1. IndInv => NeverMintedAndRefunded
    BY Zenon DEF IndInv, DepositInv, OutcomeIsDecided, NeverMintedAndRefunded
  <1> QED BY Invariance, <1>1, PTL

\* A deposit recorded as minted is minted in a final block.
THEOREM MintIsFinal == Spec => []MintedIsFinal
  <1>1. IndInv => MintedIsFinal
    BY Zenon DEF IndInv, DepositInv, OutcomeIsDecided, MintedIsFinal
  <1> QED BY Invariance, <1>1, PTL

\* Mint capacity stays reserved as long as Base could use the signature.
THEOREM CapacityHeld == Spec => []MintableIsReserved
  <1>1. IndInv => MintableIsReserved
    BY DEF IndInv, TypeOK, Records, States, DepositInv, SignedFitsState, OutcomeIsDecided, Reserved,
           MintableIsReserved
  <1> QED BY Invariance, <1>1, PTL

\* Each deposit is backed to the last unit, through signing, mint,
\* reorganisation and refund.
THEOREM AlwaysBacked == Spec => []Backed
  <1>1. IndInv => Backed
    <2> SUFFICES ASSUME IndInv, NEW d \in Deposits
                 PROVE  escrow[d] = supply[d] + fees[d]
                          + (IF minedAt[d] # 0 \/ dep[d].state = "Refunded" THEN 0
                             ELSE Gross - (IF dep[d].signed THEN ServiceFee ELSE 0))
      BY Zenon DEF Backed
    <2>1. DepositInv(d)
      BY Zenon DEF IndInv
    <2>2. /\ fees[d] = (IF dep[d].signed THEN ServiceFee ELSE 0)
          /\ supply[d] = (IF minedAt[d] # 0 THEN Gross - ServiceFee ELSE 0)
          /\ escrow[d] = (IF dep[d].state = "Refunded" THEN fees[d] ELSE Gross)
      BY <2>1, Zenon DEF DepositInv, BooksFit
    <2>3. minedAt[d] # 0 => dep[d].signed /\ dep[d].state # "Refunded"
      BY <2>1, Zenon DEF DepositInv, OutcomeIsDecided, MintFitsAuthorization
    <2>4. CASE minedAt[d] # 0
      BY <2>2, <2>3, <2>4, AmountAssumption
    <2>5. CASE minedAt[d] = 0
      BY <2>2, <2>5, AmountAssumption
    <2> QED BY <2>4, <2>5, Zenon
  <1> QED BY Invariance, <1>1, PTL

\* What a step can do to the record of a deposit.
LEMMA RecordChange ==
  ASSUME IndInv, [Next]_vars, NEW d \in Deposits
  PROVE  \/ dep'[d] = dep[d]
         \/ dep[d].state = "AuthorizationPending"
         \/ /\ dep[d].state \notin {"Minted", "Refunded"}
            /\ dep'[d].signed = dep[d].signed
            /\ dep[d].state = "RefundPending" => dep'[d].state = "Refunded"
  <1> DEFINE Goal == \/ dep'[d] = dep[d]
                     \/ dep[d].state = "AuthorizationPending"
                     \/ /\ dep[d].state \notin {"Minted", "Refunded"}
                        /\ dep'[d].signed = dep[d].signed
                        /\ dep[d].state = "RefundPending" => dep'[d].state = "Refunded"
  <1>0. TypeOK /\ DepositInv(d)
    BY Zenon DEF IndInv
  <1>1. CASE dep' = dep
    BY <1>1, Zenon
  <1>2. ASSUME NEW e \in Deposits,
               \/ CommitPrepared(e) \/ RefuseQuote(e) \/ RejectUnsigned(e) \/ DispatchSignature(e)
               \/ InstallSignature(e) \/ RefundSucceeded(e) \/ MintReconciled(e) \/ RefundUnsigned(e)
               \/ RefundExpiredPending(e) \/ RefundExpiredSigned(e) \/ RefundFindsMint(e)
               \/ ReleaseExpired(e)
        PROVE  Goal
    <2>1. PICK r : dep' = [dep EXCEPT ![e] = r]
      BY <1>2, Zenon DEF CommitPrepared, RefuseQuote, RejectUnsigned, DispatchSignature, InstallSignature,
                  RefundSucceeded, MintReconciled, RefundUnsigned, RefundExpiredPending,
                  RefundExpiredSigned, RefundFindsMint, ReleaseExpired, Record
    <2>2. CASE e # d
      BY <1>0, <2>1, <2>2, Zenon DEF TypeOK
    <2>3. CASE e = d
      <3>1. CASE RejectUnsigned(d) \/ InstallSignature(d)
        BY <3>1, Zenon DEF RejectUnsigned, InstallSignature, MayInstall
      <3>2. CASE CommitPrepared(d) \/ RefuseQuote(d)
        <4>1. dep[d].state = "EscrowedUnquoted" /\ ~dep[d].signed
          BY <1>0, <3>2, Zenon DEF CommitPrepared, RefuseQuote, DepositInv, SignedFitsState
        <4>2. dep'[d] = CommitAuthorization(d) \/ dep'[d] = InState(d, "RefundAvailable")
          BY <1>0, <3>2, Zenon DEF CommitPrepared, RefuseQuote, Record, TypeOK
        <4>3. dep'[d].signed = FALSE \/ dep'[d].signed = dep[d].signed
          BY <4>2 DEF CommitAuthorization, InState
        <4>4. dep[d].signed = FALSE
          BY <1>0, <4>1, Zenon DEF TypeOK, Records
        <4> QED BY <4>1, <4>3, <4>4, Zenon
      <3>3. CASE DispatchSignature(d)
        <4>1. dep[d].state \in {"AuthorizationPending", "RefundAvailable"}
          BY <1>0, <3>3, Zenon DEF DispatchSignature, DepositInv, AwaitFitsState
        <4>2. dep'[d].signed = dep[d].signed
          BY <1>0, <3>3, Zenon DEF DispatchSignature, Record, Dispatched, TypeOK
        <4> QED BY <4>1, <4>2, Zenon
      <3>4. CASE \/ RefundSucceeded(d) \/ MintReconciled(d) \/ RefundUnsigned(d)
                 \/ RefundExpiredPending(d) \/ RefundExpiredSigned(d) \/ RefundFindsMint(d)
                 \/ ReleaseExpired(d)
        <4>1. PICK s : Record(d, InState(d, s)) /\ (RefundSucceeded(d) => s = "Refunded")
          BY <3>4, Zenon DEF RefundSucceeded, MintReconciled, RefundUnsigned, RefundExpiredPending,
                      RefundExpiredSigned, RefundFindsMint, ReleaseExpired
        <4>2. dep'[d].signed = dep[d].signed /\ dep'[d].state = s
          BY <1>0, <4>1, Zenon DEF Record, InState, TypeOK
        <4>3. RefundSucceeded(d) \/ dep[d].state # "RefundPending"
          BY <1>0, <3>4, Zenon DEF DepositInv, AwaitFitsState, MintReconciled, RefundUnsigned, Reserved,
               RefundExpiredPending, RefundExpiredSigned, RefundFindsMint, ReleaseExpired, Claimable
        <4>4. dep[d].state \in {"AuthorizationPending", "AuthorizationAvailable", "RefundAvailable",
                                "RefundPending"}
          BY <1>0, <3>4, Zenon DEF DepositInv, AwaitFitsState, RefundSucceeded, MintReconciled, Reserved,
               RefundUnsigned, RefundExpiredPending, RefundExpiredSigned, RefundFindsMint,
               ReleaseExpired, Claimable
        <4> QED BY <4>1, <4>2, <4>3, <4>4, Zenon
      <3> QED BY <1>2, <2>3, <3>1, <3>2, <3>3, <3>4, Zenon
    <2> QED BY <2>2, <2>3, Zenon
  <1>3. \/ dep' = dep
        \/ \E e \in Deposits :
               \/ CommitPrepared(e) \/ RefuseQuote(e) \/ RejectUnsigned(e) \/ DispatchSignature(e)
               \/ InstallSignature(e) \/ RefundSucceeded(e) \/ MintReconciled(e) \/ RefundUnsigned(e)
               \/ RefundExpiredPending(e) \/ RefundExpiredSigned(e) \/ RefundFindsMint(e)
               \/ ReleaseExpired(e)
    BY Zenon DEF Next, vars, CanisterTick, BaseBlock, BaseFinalizes, MintDeposit, BaseReorg, RpcReplies,
           Advance, Requests, Abandon, StartPrepare, StartRevalidate, SignatureReturned, StartNotify,
           NotifySeesMint, StartRefundOfPending, StartRefundOfSigned
  <1> QED BY <1>1, <1>2, <1>3, Zenon

\* A settled record never changes, a started refund only completes, and a
\* signature that arrives after its authorization stopped being pending is dropped.
THEOREM SettledStays == Spec => SettledIsStable
  <1>1. IndInv /\ [Next]_vars =>
            [\A d \in Deposits :
                /\ dep[d].state \in {"Minted", "Refunded"} => dep'[d] = dep[d]
                /\ dep[d].state = "RefundPending" =>
                       dep'[d].state \in {"RefundPending", "Refunded"}
                /\ dep[d].state # "AuthorizationPending" =>
                       dep'[d].signed = dep[d].signed]_vars
    BY RecordChange, Zenon
  <1> QED BY Invariance, <1>1, PTL DEF Spec, SettledIsStable
=============================================================================
