-------------------------- MODULE BaseObservation --------------------------
(***************************************************************************)
(* How the canister learns what happened on Base: evm_rpc.rs asks three    *)
(* RPC providers and uses an answer that two of them gave.                 *)
(*                                                                         *)
(* Base is a chain of blocks with a finalized prefix; the blocks after it  *)
(* may be replaced.  A correct provider shows the chain as it was at some  *)
(* earlier moment, never an earlier one than before; its finalized head    *)
(* may lag behind its newest block.  At most one provider is faulty: it    *)
(* answers anything.  Any provider may fail to answer.                     *)
(*                                                                         *)
(* An optional value is a sequence of at most one element.  A hash tells   *)
(* two blocks of one height apart: it is the number of the reorganisation  *)
(* after which the block was made.                                         *)
(***************************************************************************)
EXTENDS Naturals, Sequences, FiniteSets, FiniteSetsExt

CONSTANTS
  Providers,          \* the three providers of the configuration
  Faulty,             \* the one that may answer anything
  Txs,                \* transactions to the bridge
  Kind,               \* "withdrawal" (createWithdrawal) or "mint" (mintDeposit...)
  Payload,            \* the fields of the event of a transaction
  MaxHeight, MaxForks \* bounds of the chain

ASSUME ObservationAssumption ==
  /\ IsFiniteSet(Providers) /\ Cardinality(Providers) = 3
  /\ Faulty \subseteq Providers /\ Cardinality(Faulty) <= 1
  /\ Kind \in [Txs -> {"withdrawal", "mint"}]
  /\ MaxHeight \in Nat /\ MaxForks \in Nat

VARIABLES
  chain,      \* the blocks of Base
  final,      \* how many of them are finalized
  fork,       \* reorganisations so far
  view        \* the chain and the finalized height that a provider shows

baseVars == <<chain, final, fork, view>>

Correct == Providers \ Faulty

BaseInit ==
  /\ chain = <<>> /\ final = 0 /\ fork = 0
  /\ view = [p \in Correct |-> [chain |-> <<>>, final |-> 0]]

----------------------------------------------------------------------------
(* The chain, and what the bridge holds after a prefix of it               *)

Identity(c, n) == [number |-> n, hash |-> IF n = 0 THEN 0 ELSE c[n].fork]

IsCanonical(c, b) == b.number <= Len(c) /\ b = Identity(c, b.number)

\* The heights of the successful transactions of a kind.
Executed(c, n, kind) == {m \in 1..n : c[m].ok /\ Kind[c[m].tx] = kind}

\* The bridge numbers withdrawals in the order of their creation.
WithdrawalId(c, n) == Cardinality(Executed(c, n, "withdrawal"))

\* Its withdrawals with their fields, and the deposits it has minted.
BridgeState(c, n) ==
  [withdrawals |-> {[id |-> WithdrawalId(c, m), payload |-> Payload[c[m].tx]] :
                      m \in Executed(c, n, "withdrawal")},
   processed |-> {c[m].tx : m \in Executed(c, n, "mint")}]

Included(c) == {c[n].tx : n \in 1..Len(c)}

Mine(t, ok) ==
  /\ Len(chain) < MaxHeight /\ t \notin Included(chain)
  /\ chain' = Append(chain, [fork |-> fork, tx |-> t, ok |-> ok])
  /\ UNCHANGED <<final, fork, view>>

Reorganise(n) ==
  /\ fork < MaxForks /\ n \in final..(Len(chain) - 1)
  /\ chain' = SubSeq(chain, 1, n) /\ fork' = fork + 1
  /\ UNCHANGED <<final, view>>

Finalize ==
  /\ final < Len(chain)
  /\ final' = final + 1
  /\ UNCHANGED <<chain, fork, view>>

ProviderSyncs(p, n) ==
  /\ n \in view[p].final..final
  /\ view' = [view EXCEPT ![p] = [chain |-> chain, final |-> n]]
  /\ view' # view
  /\ UNCHANGED <<chain, final, fork>>

----------------------------------------------------------------------------
(* What a correct provider answers                                         *)

\* eth_getTransactionReceipt: nothing, or the block and what happened in it.
ReceiptOf(c, t) ==
  IF t \notin Included(c) THEN <<>>
  ELSE LET n == CHOOSE n \in 1..Len(c) : c[n].tx = t
       IN  <<[tx |-> t, block |-> Identity(c, n), ok |-> c[n].ok,
              id |-> WithdrawalId(c, n), payload |-> Payload[t]]>>

TransactionReceipt(p, t) == <<ReceiptOf(view[p].chain, t)>>

FinalizedHead(p) == <<Identity(view[p].chain, view[p].final)>>

BlockByNumber(p, n) ==
  IF n <= Len(view[p].chain) THEN <<Identity(view[p].chain, n)>> ELSE <<>>

\* eth_call at a block hash with requireCanonical; bridgeSnapshot tells the height.
CallAt(p, b) ==
  IF IsCanonical(view[p].chain, b)
  THEN <<[number |-> b.number, state |-> BridgeState(view[p].chain, b.number)]>>
  ELSE <<>>

\* The answers to one request, to which the correct providers' are `honest`: some
\* fail, the faulty one may agree with any other or give one of the answers `wrong`.
Answers(honest, wrong) ==
  {[p \in Providers |-> IF p \in Faulty THEN w ELSE IF p \in S THEN honest[p] ELSE <<>>] :
     S \in SUBSET Correct, w \in wrong \cup {<<>>} \cup Range(honest)}

\* A faulty provider's heads and blocks: any height, with a hash that occurs.
AnyBlock == {<<[number |-> n, hash |-> f]>> : n \in 0..MaxHeight, f \in 0..fork}

----------------------------------------------------------------------------
(* Agreement: evm_rpc.rs and the kernel                                    *)

\* exact_provider_response_quorum_by: a value that two providers gave.
Agreed(a, v) == Cardinality({p \in Providers : a[p] = v}) >= 2

ExactQuorum(a) ==
  IF \E p \in Providers : a[p] # <<>> /\ Agreed(a, a[p])
  THEN a[CHOOSE p \in Providers : a[p] # <<>> /\ Agreed(a, a[p])]
  ELSE <<>>

\* What a request may result in.
Results(honest) == {ExactQuorum(a) : a \in Answers(honest, {})}

Answered(a) == {p \in Providers : a[p] # <<>>}
Reached(a, n) == {p \in Answered(a) : a[p][1].number >= n}

\* withdrawal_common_checkpoint: the newest height that two heads have reached.
NewestHead(a) == Max({a[p][1].number : p \in Answered(a)})
CommonCheckpoint(a) ==
  Max({a[p][1].number : p \in {q \in Answered(a) :
                                 Cardinality(Reached(a, a[q][1].number)) >= 2}})

\* exact_finalized_block: all three agree on the block at the checkpoint, or two
\* do whose own finalized head has reached it.
ExactFinalizedBlock(eligible, checkpoint, a) ==
  IF Answered(a) = Providers /\ \A p, q \in Providers : a[p] = a[q]
  THEN LET block == a[CHOOSE p \in Providers : TRUE]
       IN  IF block[1].number = checkpoint THEN block ELSE <<>>
  ELSE ExactQuorum([p \in Providers |->
         IF p \in eligible /\ a[p] # <<>> /\ a[p][1].number = checkpoint
         THEN a[p] ELSE <<>>])

\* A second request for the block at the checkpoint; a faulty provider may name
\* any block.
CheckpointResults(eligible, checkpoint) ==
  {ExactFinalizedBlock(eligible, checkpoint, a) :
     a \in Answers([p \in Correct |-> BlockByNumber(p, checkpoint)], AnyBlock)}

============================================================================
