---------------------------- MODULE DepositLifecycle ----------------------------
(***************************************************************************)
(* A funded deposit between its escrow on the ICP ledger and its end: the  *)
(* mint of bSNS on Base, or the refund.  bridge-core deposit.rs and        *)
(* authorization.rs, tasks.rs advance_deposit, lib.rs notify_deposit_mint  *)
(* and request_deposit_refund, storage release_expired_deposit_            *)
(* reservations, and the contract's MintAuthorizationPolicy.               *)
(*                                                                         *)
(* The canister signs an authorization that Base accepts up to its         *)
(* deadline.  It never learns of a mint from Base directly; it reads a     *)
(* finalized block through RPC, and must not refund what can still be, or  *)
(* was, minted.  The canister's clock and Base's are unrelated.  Every     *)
(* handler is split at its awaits; the in-flight guard of a deposit keeps  *)
(* two handlers of the same deposit apart, but the expiry sweep run by     *)
(* other deposits' admissions takes no guard.                              *)
(***************************************************************************)
EXTENDS Naturals

CONSTANTS
    Deposits,
    TTL,          \* MINT_AUTHORIZATION_TTL_SECONDS, also the contract's 15 minutes
    Gross,        \* gross_amount of a deposit
    ServiceFee,   \* the quoted service fee
    LedgerFee,    \* KINIC_LEDGER_FEE
    MaxTime       \* bound: the clocks stop here

\* deposit_refund_amount of a quoted deposit is positive: a quote that
\* violates it is refused (RefundAmountTooSmall).
ASSUME AmountAssumption == /\ Gross \in Nat /\ ServiceFee \in Nat /\ LedgerFee \in Nat
                           /\ ServiceFee + LedgerFee < Gross
ASSUME TimeAssumption == TTL \in Nat \ {0} /\ MaxTime \in Nat

VARIABLES
    now,      \* the canister's clock
    bhead,    \* timestamp of Base's latest block
    ftime,    \* timestamp of Base's latest finalized block
    minedAt,  \* timestamp of the block that minted the deposit, 0: not minted
    supply,   \* bSNS minted for the deposit
    dep,      \* the deposit's record
    pc,       \* the await at which the handler that holds the guard is
    obs,      \* the finalized block that handler's RPC call returned
    escrow,   \* the deposit's tokens in the canister's ledger account
    fees      \* what it added to the fee reserve

vars == <<now, bhead, ftime, minedAt, supply, dep, pc, obs, escrow, fees>>
base == <<bhead, ftime, minedAt, supply>>
money == <<escrow, fees>>

States == {"EscrowedUnquoted", "AuthorizationPending", "AuthorizationAvailable",
           "RefundAvailable", "RefundPending", "Refunded", "Minted"}
Awaits == {"idle", "prepare", "revalidate", "sign", "revalidateSigned",
           "notify", "refundUnsigned", "refundSigned", "mintEvidence"}
Records == [state : States, deadline : Nat, dispatched : BOOLEAN, signed : BOOLEAN]
NoReply == [ts |-> 0, processed |-> FALSE]

TypeOK ==
    /\ now \in Nat /\ bhead \in Nat /\ ftime \in Nat
    /\ minedAt \in [Deposits -> Nat]
    /\ supply \in [Deposits -> Nat]
    /\ dep \in [Deposits -> Records]
    /\ pc \in [Deposits -> Awaits]
    /\ obs \in [Deposits -> [ts : Nat, processed : BOOLEAN]]
    /\ escrow \in [Deposits -> Nat]
    /\ fees \in [Deposits -> Nat]

\* The pull has succeeded (EscrowedUnquoted); both clocks run.
Init ==
    /\ now = 0 /\ bhead = 1 /\ ftime = 1
    /\ minedAt = [d \in Deposits |-> 0]
    /\ supply = [d \in Deposits |-> 0]
    /\ dep = [d \in Deposits |-> [state |-> "EscrowedUnquoted", deadline |-> 0,
                                  dispatched |-> FALSE, signed |-> FALSE]]
    /\ pc = [d \in Deposits |-> "idle"]
    /\ obs = [d \in Deposits |-> NoReply]
    /\ escrow = [d \in Deposits |-> Gross]
    /\ fees = [d \in Deposits |-> 0]
-----------------------------------------------------------------------------
(* Clocks and Base. *)

CanisterTick ==
    /\ now < MaxTime /\ now' = now + 1
    /\ UNCHANGED <<base, dep, pc, obs, money>>

BaseBlock ==
    /\ bhead < MaxTime /\ bhead' = bhead + 1
    /\ UNCHANGED <<now, ftime, minedAt, supply, dep, pc, obs, money>>

BaseFinalizes ==
    /\ \E t \in ftime + 1 .. bhead : ftime' = t
    /\ UNCHANGED <<now, bhead, minedAt, supply, dep, pc, obs, money>>

\* evaluateMint: not expired, and the deadline at most TTL ahead.
MintAccepted(ts, deadline) == ts <= deadline /\ deadline <= ts + TTL

\* Anyone submits the signed authorization.  Its block is any block that is
\* not final: a reorganisation may have replaced the ones already seen.
MintDeposit(d) ==
    /\ dep[d].signed /\ minedAt[d] = 0
    /\ \E ts \in ftime + 1 .. bhead :
           /\ MintAccepted(ts, dep[d].deadline)
           /\ minedAt' = [minedAt EXCEPT ![d] = ts]
    /\ supply' = [supply EXCEPT ![d] = Gross - ServiceFee]
    /\ UNCHANGED <<now, bhead, ftime, dep, pc, obs, money>>

\* A reorganisation drops a mint that is not final.
BaseReorg(d) ==
    /\ minedAt[d] > ftime
    /\ minedAt' = [minedAt EXCEPT ![d] = 0]
    /\ supply' = [supply EXCEPT ![d] = 0]
    /\ UNCHANGED <<now, bhead, ftime, dep, pc, obs, money>>

\* Mutant: the latest block is read instead of a finalized one.
ReadableLatest == 1..bhead
\* The quorum serves finalized blocks only; a cached one may be old.
Readable == 1..ftime

\* The RPC quorum answers with some finalized block, perhaps an old one.
RpcReplies(d) ==
    /\ pc[d] \in {"notify", "refundUnsigned", "refundSigned"} /\ obs[d] = NoReply
    /\ \E t \in Readable :
           obs' = [obs EXCEPT ![d] = [ts |-> t, processed |-> minedAt[d] # 0 /\ minedAt[d] <= t]]
    /\ UNCHANGED <<now, base, dep, pc, money>>
-----------------------------------------------------------------------------
(* Record transitions: DepositRecord::apply. *)

CommitAuthorization(d) ==
    [state |-> "AuthorizationPending", deadline |-> now + TTL, dispatched |-> FALSE, signed |-> FALSE]
InState(d, s) ==
    [state |-> s, deadline |-> dep[d].deadline, dispatched |-> dep[d].dispatched, signed |-> dep[d].signed]
Dispatched(d) ==
    [state |-> dep[d].state, deadline |-> dep[d].deadline, dispatched |-> TRUE, signed |-> dep[d].signed]
AuthorizationSigned(d) ==
    [state |-> "AuthorizationAvailable", deadline |-> dep[d].deadline, dispatched |-> TRUE, signed |-> TRUE]

Record(d, r) == dep' = [dep EXCEPT ![d] = r]
Await(d, p) == pc' = [pc EXCEPT ![d] = p] /\ obs' = [obs EXCEPT ![d] = NoReply]

\* mint_authorization_before_deadline
BeforeDeadline(d) == now < dep[d].deadline

\* The expiry test of a finalized block: Base still accepts at the deadline.
Expired(d, ts) == dep[d].deadline < ts
-----------------------------------------------------------------------------
(* advance_deposit, from one await to the next. *)

\* prepare_escrowed_deposit needs a snapshot of Base.
StartPrepare(d) ==
    /\ pc[d] = "idle" /\ dep[d].state = "EscrowedUnquoted"
    /\ Await(d, "prepare")
    /\ UNCHANGED <<now, base, dep, money>>

\* The quote is accepted: the authorization is committed and, in the same
\* message, the revalidation of the pending authorization is called.
CommitPrepared(d) ==
    /\ pc[d] = "prepare" /\ dep[d].state = "EscrowedUnquoted"
    /\ Record(d, CommitAuthorization(d))
    /\ Await(d, "revalidate")
    /\ UNCHANGED <<now, base, money>>

\* Recipient, pause, fee or limit refuse the quote.
RefuseQuote(d) ==
    /\ pc[d] = "prepare" /\ dep[d].state = "EscrowedUnquoted"
    /\ Record(d, InState(d, "RefundAvailable"))
    /\ Await(d, "idle")
    /\ UNCHANGED <<now, base, money>>

\* A run that finds the authorization pending rejects it or revalidates it.
RejectUnsigned(d) ==
    /\ pc[d] = "idle" /\ dep[d].state = "AuthorizationPending" /\ ~dep[d].signed
    /\ Record(d, InState(d, "RefundAvailable"))
    /\ UNCHANGED <<now, base, pc, obs, money>>

StartRevalidate(d) ==
    /\ pc[d] = "idle" /\ dep[d].state = "AuthorizationPending" /\ BeforeDeadline(d)
    /\ Await(d, "revalidate")
    /\ UNCHANGED <<now, base, dep, money>>

\* dispatch_signature is stored before the signing call.  It does not look
\* at the state: the sweep may have released the reservation meanwhile.
DispatchSignature(d) ==
    /\ pc[d] = "revalidate" /\ BeforeDeadline(d) /\ ~dep[d].signed
    /\ Record(d, Dispatched(d))
    /\ Await(d, "sign")
    /\ UNCHANGED <<now, base, money>>

SignatureReturned(d) ==
    /\ pc[d] = "sign"
    /\ Await(d, "revalidateSigned")
    /\ UNCHANGED <<now, base, dep, money>>

\* AuthorizationSigned is applied only to a pending authorization, in time.
MayInstall(d) == BeforeDeadline(d) /\ dep[d].state = "AuthorizationPending" /\ ~dep[d].signed

\* confirm_fee: the service fee is earned when the signature is installed.
FeeCredit(d) == [fees EXCEPT ![d] = fees[d] + ServiceFee]

InstallSignature(d) ==
    /\ pc[d] = "revalidateSigned" /\ dep[d].dispatched /\ MayInstall(d)
    /\ Record(d, AuthorizationSigned(d))
    /\ fees' = FeeCredit(d)
    /\ Await(d, "idle")
    /\ UNCHANGED <<now, base, escrow>>

\* The handler ends at its await: an error, a refusal, a deadline that has
\* passed, a lost lease, a trap, or an upgrade.  The guard goes with it.
Abandon(d) ==
    /\ pc[d] # "idle"
    /\ Await(d, "idle")
    /\ UNCHANGED <<now, base, dep, money>>
-----------------------------------------------------------------------------
(* release_expired_deposit_reservations, run by any admission or snapshot  *)
(* with the finalized timestamp it has: no guard of this deposit is held.  *)

Reserved(d) == dep[d].state \in {"AuthorizationPending", "AuthorizationAvailable"}

ReleaseExpired(d) ==
    /\ Reserved(d)
    /\ \E t \in Readable : Expired(d, t)
    /\ Record(d, InState(d, "RefundAvailable"))
    /\ UNCHANGED <<now, base, pc, obs, money>>
-----------------------------------------------------------------------------
(* notify_deposit_mint *)

\* Mutants: a refund under way is accepted again; RefundAvailable is refused.
ClaimableAgain(d) == dep[d].state \in {"AuthorizationAvailable", "RefundAvailable", "RefundPending"}
ClaimableOnce(d) == dep[d].state = "AuthorizationAvailable"
\* The states from which a signed deposit can be notified or refunded.
Claimable(d) == dep[d].state \in {"AuthorizationAvailable", "RefundAvailable"}

StartNotify(d) ==
    /\ pc[d] = "idle" /\ Claimable(d) /\ dep[d].signed
    /\ Await(d, "notify")
    /\ UNCHANGED <<now, base, dep, money>>

\* Mutant: the receipt is looked up whatever isDepositProcessed says.
ProcessedUnchecked(d) == obs[d].ts > 0
\* isDepositProcessed at the finalized block the quorum agreed on.
Processed(d) == obs[d].ts > 0 /\ obs[d].processed

\* exact_mint_receipt_evidence is asked only for a processed deposit.
NotifySeesMint(d) ==
    /\ pc[d] = "notify" /\ Processed(d)
    /\ Await(d, "mintEvidence")
    /\ UNCHANGED <<now, base, dep, money>>

MintReconciled(d) ==
    /\ pc[d] = "mintEvidence" /\ Claimable(d)
    /\ Record(d, InState(d, "Minted"))
    /\ Await(d, "idle")
    /\ UNCHANGED <<now, base, money>>
-----------------------------------------------------------------------------
(* request_deposit_refund *)

StartRefundOfPending(d) ==
    /\ pc[d] = "idle" /\ dep[d].state = "AuthorizationPending"
    /\ Await(d, "refundUnsigned")
    /\ UNCHANGED <<now, base, dep, money>>

StartRefundOfSigned(d) ==
    /\ pc[d] = "idle" /\ Claimable(d) /\ dep[d].signed
    /\ Await(d, "refundSigned")
    /\ UNCHANGED <<now, base, dep, money>>

\* No signature ever existed: the recorded reason is enough.
RefundUnsigned(d) ==
    /\ pc[d] = "idle" /\ dep[d].state = "RefundAvailable" /\ ~dep[d].signed
    /\ Record(d, InState(d, "RefundPending"))
    /\ UNCHANGED <<now, base, pc, obs, money>>

\* StartRefund is stored together with the claim of the settlement job.  A
\* claim that is refused (busy, quota) leaves the deposit RefundAvailable.
RefundOrAvailable == {"RefundAvailable", "RefundPending"}

RefundExpiredPending(d) ==
    /\ pc[d] = "refundUnsigned" /\ obs[d].ts > 0 /\ Expired(d, obs[d].ts)
    /\ \E s \in RefundOrAvailable : Record(d, InState(d, s))
    /\ Await(d, "idle")
    /\ UNCHANGED <<now, base, money>>

\* Mutant: an expired authorization is refunded without asking whether it
\* was used.
ProvenUnmintedByExpiry(d) == obs[d].ts > 0 /\ Expired(d, obs[d].ts)
\* expiry_refund_allowed: expired and not processed, at one finalized block.
ProvenUnminted(d) == obs[d].ts > 0 /\ Expired(d, obs[d].ts) /\ ~obs[d].processed

RefundExpiredSigned(d) ==
    /\ pc[d] = "refundSigned" /\ ProvenUnminted(d)
    /\ \E s \in RefundOrAvailable : Record(d, InState(d, s))
    /\ Await(d, "idle")
    /\ UNCHANGED <<now, base, money>>

\* Expired, but minted: the handler finishes the deposit as minted.
RefundFindsMint(d) ==
    /\ pc[d] = "refundSigned" /\ Processed(d) /\ Expired(d, obs[d].ts)
    /\ Record(d, InState(d, "RefundAvailable"))
    /\ Await(d, "mintEvidence")
    /\ UNCHANGED <<now, base, money>>

\* Mutant: the service fee is deducted from an unsigned deposit as well.
RefundAmountAlwaysCharged(d) == Gross - ServiceFee - LedgerFee
\* deposit_refund_amount: the service fee is kept only if it was earned.
RefundAmount(d) == Gross - (IF dep[d].signed THEN ServiceFee ELSE 0) - LedgerFee

\* The refund's transfer, at most once (module LedgerSettlement).
RefundSucceeded(d) ==
    /\ dep[d].state = "RefundPending"
    /\ Record(d, InState(d, "Refunded"))
    /\ escrow' = [escrow EXCEPT ![d] = escrow[d] - (RefundAmount(d) + LedgerFee)]
    /\ UNCHANGED <<now, base, pc, obs, fees>>
-----------------------------------------------------------------------------
Advance(d) ==
    \/ StartPrepare(d) \/ CommitPrepared(d) \/ RefuseQuote(d) \/ RejectUnsigned(d)
    \/ StartRevalidate(d) \/ DispatchSignature(d) \/ SignatureReturned(d)
    \/ InstallSignature(d) \/ RefundSucceeded(d)

Requests(d) ==
    \/ StartNotify(d) \/ NotifySeesMint(d) \/ MintReconciled(d)
    \/ StartRefundOfPending(d) \/ StartRefundOfSigned(d) \/ RefundUnsigned(d)
    \/ RefundExpiredPending(d) \/ RefundExpiredSigned(d) \/ RefundFindsMint(d)

Next ==
    \/ CanisterTick \/ BaseBlock \/ BaseFinalizes
    \/ \E d \in Deposits :
           \/ MintDeposit(d) \/ BaseReorg(d) \/ RpcReplies(d)
           \/ Advance(d) \/ Requests(d) \/ Abandon(d) \/ ReleaseExpired(d)

Spec == Init /\ [][Next]_vars

\* Base produces and finalizes blocks.  The owner keeps asking for a refund,
\* and an RPC call, a receipt lookup and a job claim that are tried again and
\* again succeed at last; RPC then returns the latest finalized block.
RpcRepliesLatest(d) ==
    RpcReplies(d) /\ pc[d] # "notify" /\ obs'[d].ts = ftime
ClaimRefund(d) ==
    /\ RefundExpiredPending(d) \/ RefundExpiredSigned(d)
    /\ dep'[d].state = "RefundPending"

Fairness ==
    /\ WF_vars(BaseBlock) /\ WF_vars(BaseFinalizes /\ ftime' = bhead)
    /\ \A d \in Deposits :
           /\ SF_vars(StartRefundOfPending(d)) /\ SF_vars(StartRefundOfSigned(d))
           /\ SF_vars(RefundUnsigned(d)) /\ SF_vars(RpcRepliesLatest(d))
           /\ SF_vars(ClaimRefund(d)) /\ SF_vars(RefundFindsMint(d))
           /\ SF_vars(MintReconciled(d)) /\ WF_vars(RefundSucceeded(d))
           /\ WF_vars(Abandon(d))

FairSpec == Spec /\ Fairness
-----------------------------------------------------------------------------
(* Properties *)

\* A deposit whose refund has started (request_deposit_refund) was never
\* minted on Base, and no later block or reorganisation mints it.
NeverMintedAndRefunded ==
    \A d \in Deposits : dep[d].state \in {"RefundPending", "Refunded"} => minedAt[d] = 0

\* A deposit is recorded Minted (notify_deposit_mint, or a refund request
\* that finds the mint) only for a mint that no reorganisation can undo.
MintedIsFinal ==
    \A d \in Deposits : dep[d].state = "Minted" => minedAt[d] \in 1..ftime

\* While some block of Base can still mint the deposit, its mint amount stays
\* reserved: the sweep releases only past the deadline, so admissions never
\* count capacity that an outstanding signature can use.
MintableIsReserved ==
    \A d \in Deposits :
        (dep[d].signed /\ minedAt[d] = 0 /\ ftime < dep[d].deadline) => Reserved(d)

\* asset_backed: the deposit's tokens in the ledger account are its supply on
\* Base, its earned fee and what is still owed to its owner.
Backed ==
    \A d \in Deposits :
        escrow[d] = supply[d] + fees[d]
                    + (IF minedAt[d] # 0 \/ dep[d].state = "Refunded" THEN 0
                       ELSE Gross - (IF dep[d].signed THEN ServiceFee ELSE 0))

\* The record of a settled deposit is never changed again, a refund that has
\* started never turns into a mint, and a signature that comes back after the
\* authorization stopped being pending (reservation released, refund started,
\* deposit settled) is never installed, although it was dispatched.
SettledIsStable ==
    [][\A d \in Deposits :
           /\ dep[d].state \in {"Minted", "Refunded"} => dep'[d] = dep[d]
           /\ dep[d].state = "RefundPending" => dep'[d].state \in {"RefundPending", "Refunded"}
           /\ dep[d].state # "AuthorizationPending" => dep'[d].signed = dep[d].signed]_vars

\* If the owner keeps asking, a deposit whose authorization was committed in
\* time for Base to pass its deadline ends minted or refunded.
Settles ==
    \A d \in Deposits :
        (dep[d].state \in {"AuthorizationPending", "AuthorizationAvailable", "RefundAvailable"}
            /\ dep[d].deadline < MaxTime)
        ~> dep[d].state \in {"Minted", "Refunded"}
-----------------------------------------------------------------------------
(* The inductive invariant, in parts. *)

\* The finalized block is not ahead of the latest one.
FinalizedBehind == 1 <= ftime /\ ftime <= bhead

\* A signature exists exactly from its installation on.
SignedFitsState(d) ==
    /\ dep[d].signed => dep[d].state \notin {"EscrowedUnquoted", "AuthorizationPending"}
    /\ dep[d].state \in {"AuthorizationAvailable", "Minted"} => dep[d].signed

\* Base mints only what was signed, and not after the deadline.
MintFitsAuthorization(d) ==
    minedAt[d] # 0 => dep[d].signed /\ minedAt[d] <= dep[d].deadline

\* The states a deposit can be in while a handler waits, given that only the
\* sweep runs without the guard.
AwaitFitsState(d) ==
    /\ pc[d] = "prepare" => dep[d].state = "EscrowedUnquoted"
    /\ pc[d] \in {"revalidate", "sign", "revalidateSigned", "refundUnsigned"} =>
           ~dep[d].signed /\ dep[d].state \in {"AuthorizationPending", "RefundAvailable"}
    /\ pc[d] \in {"notify", "refundSigned", "mintEvidence"} => dep[d].signed /\ Claimable(d)

\* What RPC answered stays true: its block is final.
ReplyStaysTrue(d) ==
    /\ obs[d].ts <= ftime
    /\ obs[d].processed <=> (minedAt[d] # 0 /\ minedAt[d] <= obs[d].ts)

\* A deposit that left the mint path can no longer be minted, is finally
\* minted, or never had a signature.
OutcomeIsDecided(d) ==
    /\ dep[d].signed /\ dep[d].state \in {"RefundAvailable", "RefundPending", "Refunded"} =>
           dep[d].deadline < ftime
    /\ dep[d].state \in {"RefundPending", "Refunded"} => minedAt[d] = 0
    /\ dep[d].state = "Minted" \/ pc[d] = "mintEvidence" => minedAt[d] \in 1..ftime

\* The three accounts of a deposit follow from its record and from Base.
BooksFit(d) ==
    /\ fees[d] = IF dep[d].signed THEN ServiceFee ELSE 0
    /\ supply[d] = IF minedAt[d] # 0 THEN Gross - ServiceFee ELSE 0
    /\ escrow[d] = IF dep[d].state = "Refunded" THEN fees[d] ELSE Gross

DepositInv(d) ==
    /\ SignedFitsState(d) /\ MintFitsAuthorization(d) /\ AwaitFitsState(d)
    /\ ReplyStaysTrue(d) /\ OutcomeIsDecided(d) /\ BooksFit(d)

\* Inductive: what every handler's step relies on, and the reason why a
\* deposit never ends on both chains.
IndInv == TypeOK /\ FinalizedBehind /\ \A d \in Deposits : DepositInv(d)
=============================================================================
