------------------------ MODULE BaseGovernanceProofs ------------------------
(***************************************************************************)
(* Proofs about BaseGovernance, for every number of operations, nonces,    *)
(* key generations and replacements: the nonces handed out are usable, the *)
(* roles on Base follow the canister's keys, no operation of the timelock  *)
(* is forgotten, and no dangerous signature leaves in an emergency.        *)
(*                                                                         *)
(* The three invariants need each other.  That a settled operation is      *)
(* really over rests on what the receipts in hand say about Base, and      *)
(* that rests on who may still have a transaction included: the lanes.     *)
(***************************************************************************)
EXTENDS BaseGovernance, TLAPS

ScheduleKinds == {"ScheduleActivation", "ScheduleRotation"}
ExecuteKinds  == {"ExecuteActivation", "ExecuteRotation"}

Gov == pending["governance"]
Canceller == pending["canceller"]

\* The transaction has a final receipt, with a given outcome.
HasReceipt(tx) == \E r \in receipts : r.id = tx.id
Landed(tx, ok) == [id |-> tx.id, ok |-> ok] \in receipts

-----------------------------------------------------------------------------
(* The inductive invariant *)

IsTx(t) ==
  /\ t \in [id : Nat, kind : Kinds, op : TimelockOps \cup {NoOp}, nonce : Int, key : {t.key},
            state : {"Prepared", "Signed"}, gen : {t.gen}, fee : {t.fee}, byBoot : {t.byBoot}]
  /\ LaneOf(t.kind) # "runtime" => t.op \in TimelockOps

IsArtifact(a) ==
  /\ a.id \in Nat /\ a.kind \in Kinds /\ a.role = LaneOf(a.kind)
  /\ a.key \in Generations /\ a.nonce \in Int
  /\ a.role # "runtime" => a.op \in TimelockOps

OpStates == {"unset", "waiting", "ready", "done"}

IsBase(b) ==
  b \in [depositMintsPaused : {b.depositMintsPaused}, withdrawalsPaused : {b.withdrawalsPaused},
         epoch : {b.epoch}, bridgeSigner : {b.bridgeSigner}, signerAtLastPause : {b.signerAtLastPause},
         retired : {b.retired}, runtimeAdministrator : {b.runtimeAdministrator},
         governor : {b.governor}, canceller : {b.canceller},
         serviceFee : {b.serviceFee}, ops : [TimelockOps -> OpStates]]

Shape ==
  /\ nextId \in Nat /\ key \in Generations /\ rotation \in Generations
  /\ timelock \in TimelockOps \cup {NoOp}
  /\ nonce \in [Lanes -> Int]
  /\ account \in [Lanes -> [Generations -> Int]]
  /\ pending = [l \in Lanes |-> pending[l]]
  /\ \A l \in Lanes : pending[l] = None \/ (IsTx(pending[l]) /\ LaneOf(pending[l].kind) = l)
  /\ \A a \in signed : IsArtifact(a) /\ a.key <= key
  /\ \A r \in receipts : r \in [id : Nat, ok : BOOLEAN]
  /\ IsBase(base)

\* Operations are numbered: a number that was not handed out is nobody's, and
\* the transactions of two lanes have two numbers.
Numbered ==
  /\ \A a \in signed : a.id < nextId
  /\ \A r \in receipts : r.id < nextId
  /\ \A l \in Lanes : pending[l] # None => pending[l].id < nextId
  /\ \A l, m \in Lanes : l # m /\ pending[l] # None => pending[l].id # pending[m].id
  /\ \A l \in Lanes, i \in Ids : pending[l] # None /\ pending[l].op = ActivationOp(i) => i < nextId
  /\ \A i \in Ids : timelock = ActivationOp(i) => i < nextId

\* What is signed or included belongs to the transaction on record.
OnRecord ==
  \A l \in Lanes : pending[l] # None =>
    /\ \A a \in signed : a.id = pending[l].id =>
         /\ a.role = l /\ a.kind = pending[l].kind /\ a.op = pending[l].op
         /\ pending[l].state = "Signed"
    /\ HasReceipt(pending[l]) => pending[l].state = "Signed"

\* A lane no rotation overtook: its transaction is the only one its account can
\* have included, and its receipts agree.
LaneOk(l) ==
  /\ \A a \in signed : a.role = l /\ a.key = key => a.id = pending[l].id
  /\ pending[l] = None => nonce[l] \in {-1, account[l][key]}
  /\ pending[l] # None =>
       /\ nonce[l] = pending[l].nonce + 1
       /\ account[l][key] = IF HasReceipt(pending[l]) THEN pending[l].nonce + 1 ELSE pending[l].nonce
       /\ \A a \in signed : a.id = pending[l].id =>
            a.key = key /\ a.nonce = pending[l].nonce /\ ~HasReceipt(pending[l])
       /\ ~(Landed(pending[l], TRUE) /\ Landed(pending[l], FALSE))
LanesOk == \A l \in Lanes \ carried : LaneOk(l)

\* What the running handler keeps across its awaits.
HandlerOk ==
  /\ handler.at \in {"observe", "store"} =>
       handler.kind \in Kinds /\ pending[LaneOf(handler.kind)] = None
  /\ handler.at = "store" =>
       /\ handler.nonce \in Int
       /\ LaneOf(handler.kind) \notin carried =>
            handler.nonce = IF nonce[LaneOf(handler.kind)] = -1 THEN account[LaneOf(handler.kind)][key]
                                                               ELSE nonce[LaneOf(handler.kind)]
  /\ handler.at \in {"sign", "replace", "receipt", "complete"} => handler.lane \in Lanes /\ handler.id \in Nat
  /\ handler.at = "complete" =>
       /\ pending[handler.lane] # None /\ pending[handler.lane].id = handler.id
       /\ handler.ok \in BOOLEAN /\ Landed(pending[handler.lane], handler.ok)

\* The governance lane is never overtaken, and the record of a rotation leads
\* to the next generation.
Rotations ==
  /\ "governance" \notin carried
  /\ \A a \in signed : a.role = "governance" => a.key = key
  /\ rotation # 0 => rotation = key + 1 /\ timelock = RotationOp(rotation)
  /\ \A g \in Generations \ {0} : timelock = RotationOp(g) => rotation = g
  /\ Gov # None =>
       /\ Gov.kind \in RotationKinds => Gov.op = RotationOp(key + 1)
       /\ Gov.kind \in ActivationKinds => Gov.op[1] = "activation"

\* The receipts in hand say what the timelock holds.
Scheduled == Gov # None /\ Gov.kind \in ScheduleKinds /\ ~Landed(Gov, TRUE)

Receipts ==
  /\ Scheduled => timelock = Gov.op /\ Gov.op \notin PendingOps(base)
  /\ Gov # None /\ Gov.kind \in ExecuteKinds /\ Landed(Gov, TRUE) => base.ops[Gov.op] = "done"
  /\ Canceller # None /\ Landed(Canceller, TRUE) /\ timelock = Canceller.op =>
       Canceller.op \notin PendingOps(base) /\ ~Scheduled

Rotated == Gov # None /\ Gov.kind = "ExecuteRotation" /\ Landed(Gov, TRUE)

IndInv ==
  /\ Shape /\ Numbered /\ OnRecord /\ LanesOk /\ HandlerOk /\ Rotations /\ Receipts
  /\ NoForgottenTimelock
  /\ RolesOf(IF Rotated THEN key + 1 ELSE key)

----------------------------------------------------------------------------
(* Operations and lanes *)

LEMMA Kinds3 ==
  /\ Lanes = {"governance", "runtime", "canceller"}
  /\ \A k \in Kinds : LaneOf(k) \in Lanes
  /\ \A k \in Kinds : LaneOf(k) = "canceller" <=> k = "CancelTimelock"
  /\ \A k \in Kinds : LaneOf(k) = "governance" <=> k \in ScheduleKinds \cup ExecuteKinds
  BY Zenon DEF Lanes, Kinds, LaneOf, EmergencyKinds, DangerousKinds, ActivationKinds, RotationKinds,
         ScheduleKinds, ExecuteKinds

LEMMA Ops3 ==
  /\ NoOp \notin TimelockOps
  /\ \A i \in Ids : ActivationOp(i) \in TimelockOps
  /\ \A g \in Generations \ {0} : RotationOp(g) \in TimelockOps
  /\ \A i, g : ActivationOp(i) # RotationOp(g)
  /\ \A i, j : ActivationOp(i) = ActivationOp(j) => i = j
  /\ \A i, j : RotationOp(i) = RotationOp(j) => i = j
  /\ \A o \in TimelockOps : (\E i \in Ids : o = ActivationOp(i)) \/ (\E g \in Generations \ {0} : o = RotationOp(g))
  BY Zenon DEF NoOp, TimelockOps, ActivationOp, RotationOp

LEMMA InitInv == Init => IndInv
  <1> SUFFICES ASSUME Init PROVE IndInv
    BY Zenon
  <1>1. /\ \A l \in Lanes : pending[l] = None /\ nonce[l] = -1
        /\ pending = [l \in Lanes |-> None]
        /\ signed = {} /\ receipts = {} /\ carried = {} /\ emergency = {}
        /\ nextId = 0 /\ timelock = NoOp /\ rotation = 0 /\ key = 0 /\ handler.at = "idle"
    BY Zenon DEF Init, Idle
  <1>2. 0 \in Generations
    BY GovernanceAssumption DEF Generations
  <1>3. account \in [Lanes -> [Generations -> Int]] /\ \A l \in Lanes : account[l][key] = 0
    BY <1>1, <1>2 DEF Init
  <1>4. base = Deployed(TimelockOps)
    BY Zenon DEF Init
  <1>5. base.ops = [o \in TimelockOps |-> "unset"] /\ PendingOps(base) = {}
    BY <1>4, Zenon DEF Deployed, PendingOps
  <1>6. RolesOf(key)
    BY <1>1, <1>4, Zenon DEF Deployed, RolesOf
  <1>7. Shape
    <2>1. nonce \in [Lanes -> Int] /\ 0 \in Nat
      BY DEF Init
    <2>2. IsBase(base)
      BY <1>4, Zenon DEF Deployed, OpStates, IsBase
    <2> QED BY <1>1, <1>2, <1>3, <2>1, <2>2, Zenon DEF Shape
  <1>8. Numbered /\ OnRecord /\ LanesOk /\ HandlerOk
    BY <1>1, Ops3, Zenon DEF Numbered, OnRecord, LanesOk, LaneOk, HandlerOk
  <1>9. Gov = None /\ Canceller = None
    BY <1>1, Zenon DEF Gov, Canceller, Lanes
  <1>10. Rotations /\ Receipts /\ ~Rotated
    BY <1>1, <1>9, Ops3, Zenon DEF Rotations, Receipts, Scheduled, Rotated
  <1>11. NoForgottenTimelock
    BY <1>1, <1>5, Zenon DEF NoForgottenTimelock
  <1> QED BY <1>6, <1>7, <1>8, <1>10, <1>11, Zenon DEF IndInv

----------------------------------------------------------------------------
(* Steps that move only the handler *)

core == <<nonce, pending, nextId, timelock, rotation, key, carried, base, account, signed, receipts>>

LEMMA Quiet ==
  ASSUME IndInv, UNCHANGED core, HandlerOk', "cancel" \in emergency' => timelock # NoOp
  PROVE  IndInv'
  <1>1. Shape' /\ Numbered' /\ OnRecord' /\ LanesOk'
    BY DEF IndInv, core, Shape, Numbered, OnRecord, LanesOk, LaneOk, HasReceipt, Landed
  <1>2. Rotations' /\ Receipts'
    BY Zenon DEF IndInv, core, Rotations, Receipts, Scheduled, Landed, Gov, Canceller
  <1>3. NoForgottenTimelock'
    BY Zenon DEF IndInv, core, NoForgottenTimelock
  <1>4. RolesOf(IF Rotated THEN key + 1 ELSE key)'
    BY Zenon DEF IndInv, core, RolesOf, Rotated, Landed, Gov
  <1> QED BY <1>1, <1>2, <1>3, <1>4, Zenon DEF IndInv

\* The steps of seal_operational_config, refresh_activation_attestation and
\* the pauses, and the end of a handler.
LEMMA AsideStep ==
  ASSUME IndInv,
         \/ BeginSeal \/ SealStores \/ BeginRefreshAttestation \/ RefreshAttestation
         \/ HandlerEnds \/ EmergencyPause \/ PauseNewDeposits \/ HandOver \/ UNCHANGED vars
  PROVE  IndInv'
  <1>1. UNCHANGED core
    BY Zenon DEF BeginSeal, SealStores, BeginRefreshAttestation, RefreshAttestation, HandlerEnds,
           EmergencyPause, PauseNewDeposits, HandOver, vars, canisterVars, baseVars, core
  <1>2. handler' = handler \/ handler'.at \in {"idle", "seal", "attest"}
    <2>1. CASE BeginRefreshAttestation
      <3>1. handler' = [at |-> "attest", paused |-> boot]
        BY <2>1, Zenon DEF BeginRefreshAttestation
      <3> QED BY <3>1, Zenon
    <2>2. CASE BeginSeal
      BY <2>2, Zenon DEF BeginSeal
    <2>3. CASE SealStores \/ RefreshAttestation \/ HandlerEnds
      <3>1. handler' = Idle
        BY <2>3, Zenon DEF SealStores, RefreshAttestation, HandlerEnds
      <3> QED BY <3>1, Zenon DEF Idle
    <2>4. CASE EmergencyPause \/ PauseNewDeposits \/ HandOver \/ UNCHANGED vars
      BY <2>4, Zenon DEF EmergencyPause, PauseNewDeposits, HandOver, vars
    <2> QED BY <2>1, <2>2, <2>3, <2>4, Zenon
  <1>3. HandlerOk'
    BY <1>1, <1>2, Zenon DEF IndInv, core, HandlerOk, Landed
  <1>4. "cancel" \in emergency' => timelock # NoOp
    <2>1. CASE EmergencyPause
      BY <2>1, Zenon DEF EmergencyPause
    <2>2. ASSUME ~EmergencyPause PROVE UNCHANGED emergency
      BY <2>2, Zenon DEF BeginSeal, SealStores, BeginRefreshAttestation, RefreshAttestation, HandlerEnds,
                         PauseNewDeposits, HandOver, vars, canisterVars
    <2> QED BY <2>1, <2>2, Zenon DEF IndInv, NoForgottenTimelock
  <1> QED BY <1>1, <1>3, <1>4, Quiet, Zenon

\* A lane's transaction is None or a transaction; its number tells which.
LEMMA PendingType ==
  ASSUME Shape, NEW l \in Lanes
  PROVE  /\ pending[l] # None => IsTx(pending[l]) /\ LaneOf(pending[l].kind) = l /\ pending[l].id \in Nat
         /\ pending[l] = None => pending[l].id = -1
  BY DEF Shape, IsTx, None

\* A handler begins: prepare, replace, confirm, and the drain of an emergency
\* that finds its lane empty or its own transaction in it.
LEMMA BeginStep ==
  ASSUME IndInv, UNCHANGED core, UNCHANGED emergency,
         \/ \E k \in Kinds : pending[LaneOf(k)] = None /\ handler' = Observing(k)
         \/ \E l \in Lanes : pending[l] # None /\ handler' \in {Signing(l, pending[l].id), Replacing(l, pending[l].id),
                                                               Confirming(l, pending[l].id)}
  PROVE  IndInv'
  <1>1. Shape
    BY Zenon DEF IndInv
  <1>2. HandlerOk'
    <2>1. ASSUME NEW k \in Kinds, pending[LaneOf(k)] = None, handler' = Observing(k)
          PROVE  HandlerOk'
      BY <2>1, Zenon DEF HandlerOk, Observing, core
    <2>2. ASSUME NEW l \in Lanes, pending[l] # None,
                 handler' \in {Signing(l, pending[l].id), Replacing(l, pending[l].id), Confirming(l, pending[l].id)}
          PROVE  HandlerOk'
      <3>1. pending[l].id \in Nat
        BY <1>1, <2>2, PendingType, Zenon
      <3> QED BY <2>2, <3>1 DEF HandlerOk, Signing, Replacing, Confirming, core
    <2> QED BY <2>1, <2>2, Zenon
  <1> QED BY <1>2, Quiet, Zenon DEF IndInv, NoForgottenTimelock

LEMMA ReadStep ==
  ASSUME IndInv, Observe \/ ReceiptArrives
  PROVE  IndInv'
  <1>1. UNCHANGED core /\ UNCHANGED emergency
    BY Zenon DEF Observe, ReceiptArrives, canisterVars, baseVars, core
  <1>2. CASE Observe
    <2>1. handler.kind \in Kinds /\ pending[LaneOf(handler.kind)] = None
      BY <1>2, Zenon DEF IndInv, HandlerOk, Observe
    <2> DEFINE l == LaneOf(handler.kind)
               n == IF nonce[l] = -1 THEN account[l][key] ELSE nonce[l]
    <2>2. handler' = Storing(handler.kind, n)
      BY <1>2, Zenon DEF Observe
    <2>3. n \in Int
      BY <2>1, Kinds3 DEF IndInv, Shape
    <2>4. HandlerOk'
      BY <1>1, <2>1, <2>2, <2>3, Zenon DEF HandlerOk, Storing, core
    <2> QED BY <1>1, <2>4, Quiet, Zenon DEF IndInv, NoForgottenTimelock
  <1>3. CASE ReceiptArrives
    <2> DEFINE l == handler.lane
               tx == pending[l]
    <2>1. l \in Lanes
      BY <1>3, Zenon DEF IndInv, HandlerOk, ReceiptArrives
    <2>2. PICK r \in receipts : r.id = tx.id /\ handler' = Completing(l, tx.id, r.ok)
      BY <1>3, Zenon DEF ReceiptArrives
    <2>3. r.id \in Nat /\ r.ok \in BOOLEAN /\ r = [id |-> r.id, ok |-> r.ok]
      BY Zenon DEF IndInv, Shape
    <2>4. tx # None
      BY <2>1, <2>2, <2>3, PendingType DEF IndInv
    <2>5. HandlerOk'
      BY <1>1, <2>1, <2>2, <2>3, <2>4, Zenon DEF HandlerOk, Completing, core, Landed
    <2> QED BY <1>1, <2>5, Quiet, Zenon DEF IndInv, NoForgottenTimelock
  <1> QED BY <1>2, <1>3, Zenon

----------------------------------------------------------------------------
(* What a transaction does to the contracts *)

SameRoles(b, c) ==
  /\ c.bridgeSigner = b.bridgeSigner /\ c.runtimeAdministrator = b.runtimeAdministrator
  /\ c.governor = b.governor /\ c.canceller = b.canceller

\* A call that touches neither the roles nor the operations.
Harmless(b, r) ==
  r.ok \in BOOLEAN /\ IsBase(r.b) /\ SameRoles(b, r.b) /\ r.b.ops = b.ops

LEMMA HarmlessCalls ==
  ASSUME NEW b, IsBase(b), NEW sender, NEW fee
  PROVE  /\ Harmless(b, PauseDepositMints(b, sender)) /\ Harmless(b, PauseWithdrawals(b, sender))
         /\ Harmless(b, SetServiceFee(b, sender, fee))
         /\ Harmless(b, UnpauseDepositMints(b)) /\ Harmless(b, UnpauseWithdrawals(b))
  <1>1. Harmless(b, Succeeds(b)) /\ Harmless(b, Reverts(b))
    BY Zenon DEF Harmless, SameRoles, Succeeds, Reverts
  <1>2. \A s, e : Harmless(b, Succeeds([b EXCEPT !.depositMintsPaused = TRUE, !.signerAtLastPause = s, !.epoch = e]))
    BY Zenon DEF Harmless, SameRoles, Succeeds, IsBase
  <1>3. /\ Harmless(b, Succeeds([b EXCEPT !.withdrawalsPaused = TRUE]))
        /\ Harmless(b, Succeeds([b EXCEPT !.withdrawalsPaused = FALSE]))
    BY Zenon DEF Harmless, SameRoles, Succeeds, IsBase
  <1>4. Harmless(b, Succeeds([b EXCEPT !.serviceFee = fee]))
    BY Zenon DEF Harmless, SameRoles, Succeeds, IsBase
  <1>5. \A e : Harmless(b, Succeeds([b EXCEPT !.depositMintsPaused = FALSE, !.epoch = e]))
    BY Zenon DEF Harmless, SameRoles, Succeeds, IsBase
  <1> QED BY <1>1, <1>2, <1>3, <1>4, <1>5, Zenon
             DEF PauseDepositMints, PauseWithdrawals, SetServiceFee, UnpauseDepositMints, UnpauseWithdrawals

LEMMA ScheduleCall ==
  ASSUME NEW b, IsBase(b), NEW sender, NEW op \in TimelockOps
  PROVE  LET r == ScheduleBatch(b, sender, op)
         IN  /\ r.ok \in BOOLEAN /\ IsBase(r.b) /\ SameRoles(b, r.b)
             /\ IF r.ok THEN b.ops[op] = "unset" /\ r.b.ops = [b.ops EXCEPT ![op] = "waiting"]
                        ELSE r.b.ops = b.ops
  BY Zenon DEF ScheduleBatch, SameRoles, Succeeds, Reverts, IsBase, OpStates

LEMMA CancelCall ==
  ASSUME NEW b, IsBase(b), NEW sender, NEW op \in TimelockOps
  PROVE  LET r == Cancel(b, sender, op)
         IN  /\ r.ok \in BOOLEAN /\ IsBase(r.b) /\ SameRoles(b, r.b)
             /\ IF r.ok THEN op \in PendingOps(b) /\ r.b.ops = [b.ops EXCEPT ![op] = "unset"]
                        ELSE r.b.ops = b.ops
  BY Zenon DEF Cancel, SameRoles, Succeeds, Reverts, IsBase, OpStates

\* The four roles belong to a generation.
HoldsRoles(b, g) ==
  /\ b.bridgeSigner = Account("mint", g) /\ b.runtimeAdministrator = Account("runtime", g)
  /\ b.governor = Account("governance", g) /\ b.canceller = Account("canceller", g)

LEMMA ActivationCall ==
  ASSUME NEW b, IsBase(b)
  PROVE  Harmless(b, ActivationCalls(b))
  <1> DEFINE r == UnpauseDepositMints(b)
  <1>1. Harmless(b, r)
    BY HarmlessCalls, Zenon
  <1>2. Harmless(r.b, UnpauseWithdrawals(r.b))
    BY <1>1, HarmlessCalls, Zenon DEF Harmless
  <1>3. ActivationCalls(b) = IF r.ok THEN UnpauseWithdrawals(r.b) ELSE r
    BY Zenon DEF ActivationCalls, AndThen
  <1> HIDE DEF r
  <1> QED BY <1>1, <1>2, <1>3, Zenon DEF Harmless, SameRoles

LEMMA RotationCall ==
  ASSUME NEW b, IsBase(b), NEW g
  PROVE  LET r == RotationCalls(b, g)
         IN  r.ok \in BOOLEAN /\ (r.ok => IsBase(r.b) /\ HoldsRoles(r.b, g) /\ r.b.ops = b.ops)
  <1> DEFINE r == RotateBridgeSigner(b, Account("mint", g))
             u == RotateRuntimeAdministrator(r.b, Account("runtime", g))
             v == RotateOperationalMembers(u.b, Account("governance", g), Account("canceller", g))
  <1>1. /\ r.ok \in BOOLEAN
        /\ r.ok => IsBase(r.b) /\ r.b.bridgeSigner = Account("mint", g) /\ r.b.ops = b.ops
    BY Zenon DEF RotateBridgeSigner, Succeeds, Reverts, IsBase
  <1> HIDE DEF r
  <1>2. /\ u.ok
        /\ IsBase(r.b) => /\ IsBase(u.b) /\ u.b.bridgeSigner = r.b.bridgeSigner
                          /\ u.b.runtimeAdministrator = Account("runtime", g) /\ u.b.ops = r.b.ops
    BY Zenon DEF RotateRuntimeAdministrator, Succeeds, IsBase
  <1> HIDE DEF u
  <1>3. /\ v.ok
        /\ IsBase(u.b) => /\ IsBase(v.b) /\ v.b.bridgeSigner = u.b.bridgeSigner
                          /\ v.b.runtimeAdministrator = u.b.runtimeAdministrator
                          /\ v.b.governor = Account("governance", g)
                          /\ v.b.canceller = Account("canceller", g) /\ v.b.ops = u.b.ops
    BY Zenon DEF RotateOperationalMembers, Succeeds, IsBase
  <1> HIDE DEF v
  <1>4. RotationCalls(b, g) = IF r.ok THEN v ELSE r
    BY <1>2, Zenon DEF RotationCalls, AndThen, r, u, v
  <1>5. CASE r.ok
    BY <1>1, <1>2, <1>3, <1>4, <1>5, Zenon DEF HoldsRoles
  <1>6. CASE ~r.ok
    BY <1>1, <1>4, <1>6, Zenon
  <1> QED BY <1>5, <1>6, Zenon

LEMMA ExecuteCall ==
  ASSUME NEW b, IsBase(b), NEW sender, NEW op \in TimelockOps
  PROVE  LET r == ExecuteBatch(b, sender, op)
         IN  /\ r.ok \in BOOLEAN /\ IsBase(r.b)
             /\ IF r.ok THEN /\ b.ops[op] = "ready" /\ r.b.ops = [b.ops EXCEPT ![op] = "done"]
                             /\ IF op[1] = "activation" THEN SameRoles(b, r.b)
                                                        ELSE HoldsRoles(r.b, op[2])
                        ELSE r.b = b
  <1> DEFINE c == Calls(b, op)
             d == Succeeds([c.b EXCEPT !.ops[op] = "done"])
  <1>1. CASE sender # b.governor \/ b.ops[op] # "ready" \/ ~c.ok
    <2>1. ExecuteBatch(b, sender, op) = Reverts(b)
      BY <1>1, Zenon DEF ExecuteBatch, AndThen
    <2> QED BY <2>1 DEF Reverts
  <1>2. CASE ~(sender # b.governor \/ b.ops[op] # "ready" \/ ~c.ok)
    <2>1. ExecuteBatch(b, sender, op) = d
      BY <1>2, Zenon DEF ExecuteBatch, AndThen, Succeeds
    <2>2. /\ IsBase(c.b) /\ c.b.ops = b.ops
          /\ IF op[1] = "activation" THEN SameRoles(b, c.b) ELSE HoldsRoles(c.b, op[2])
      BY <1>2, ActivationCall, RotationCall, Zenon DEF Calls, Harmless
    <2> HIDE DEF c
    <2>3. /\ d.ok /\ IsBase(d.b) /\ d.b.ops = [b.ops EXCEPT ![op] = "done"] /\ SameRoles(c.b, d.b)
      BY <2>2, Zenon DEF Succeeds, IsBase, OpStates, SameRoles
    <2> HIDE DEF d
    <2> QED BY <1>2, <2>1, <2>2, <2>3, Zenon DEF SameRoles, HoldsRoles
  <1> QED BY <1>1, <1>2, Zenon

\* What relaying an artifact does, by its kind.
LEMMA Effect ==
  ASSUME NEW a, IsArtifact(a), IsBase(base)
  PROVE  LET r == Included(a)
         IN  /\ r.ok \in BOOLEAN /\ IsBase(r.b)
             /\ a.role = "runtime" => SameRoles(base, r.b) /\ r.b.ops = base.ops
             /\ a.kind = "CancelTimelock" =>
                  /\ SameRoles(base, r.b)
                  /\ IF r.ok THEN a.op \in PendingOps(base) /\ r.b.ops = [base.ops EXCEPT ![a.op] = "unset"]
                             ELSE r.b.ops = base.ops
             /\ a.kind \in ScheduleKinds =>
                  /\ SameRoles(base, r.b)
                  /\ IF r.ok THEN r.b.ops = [base.ops EXCEPT ![a.op] = "waiting"]
                             ELSE r.b.ops = base.ops
             /\ a.kind \in ExecuteKinds =>
                  IF r.ok THEN /\ r.b.ops = [base.ops EXCEPT ![a.op] = "done"]
                               /\ IF a.op[1] = "activation" THEN SameRoles(base, r.b)
                                                            ELSE HoldsRoles(r.b, a.op[2])
                          ELSE SameRoles(base, r.b) /\ r.b.ops = base.ops
  <1> DEFINE r == Included(a)
             sender == Account(a.role, a.key)
  <1>1. CASE a.kind \in {"PauseDepositMints", "PauseWithdrawals", "SetServiceFee"}
    <2>1. Harmless(base, r)
      BY <1>1, HarmlessCalls, Zenon DEF Included
    <2>2. a.kind # "CancelTimelock" /\ a.kind \notin ScheduleKinds /\ a.kind \notin ExecuteKinds
      BY <1>1, Zenon DEF ScheduleKinds, ExecuteKinds
    <2> QED BY <2>1, <2>2, Zenon DEF Harmless
  <1>2. CASE a.kind = "CancelTimelock"
    <2>1. a.role = "canceller" /\ a.op \in TimelockOps
      BY <1>2, Zenon DEF IsArtifact, LaneOf
    <2>2. r = Cancel(base, sender, a.op)
      BY <1>2, Zenon DEF Included
    <2>3. a.kind \notin ScheduleKinds /\ a.kind \notin ExecuteKinds /\ a.role # "runtime"
      BY <1>2, <2>1, Zenon DEF ScheduleKinds, ExecuteKinds
    <2> HIDE DEF r, sender
    <2>4. /\ r.ok \in BOOLEAN /\ IsBase(r.b) /\ SameRoles(base, r.b)
          /\ IF r.ok THEN a.op \in PendingOps(base) /\ r.b.ops = [base.ops EXCEPT ![a.op] = "unset"]
                     ELSE r.b.ops = base.ops
      BY <2>1, <2>2, CancelCall, Zenon
    <2> QED BY <2>3, <2>4, Zenon DEF r
  <1>3. CASE a.kind \in ScheduleKinds
    <2>1. a.role = "governance" /\ a.op \in TimelockOps
      BY <1>3, Zenon DEF IsArtifact, LaneOf, ScheduleKinds
    <2>2. r = ScheduleBatch(base, sender, a.op)
      BY <1>3, Zenon DEF Included, ScheduleKinds
    <2> QED BY <1>3, <2>1, <2>2, ScheduleCall DEF ScheduleKinds, ExecuteKinds
  <1>4. CASE a.kind \in ExecuteKinds
    <2>1. a.role = "governance" /\ a.op \in TimelockOps
      BY <1>4, Zenon DEF IsArtifact, LaneOf, ExecuteKinds
    <2>2. r = ExecuteBatch(base, sender, a.op)
      BY <1>4, Zenon DEF Included, ExecuteKinds
    <2>3. a.kind # "CancelTimelock" /\ a.kind \notin ScheduleKinds /\ a.role # "runtime"
      BY <1>4, <2>1, Zenon DEF ScheduleKinds, ExecuteKinds
    <2>4. SameRoles(base, base)
      BY Zenon DEF SameRoles
    <2> HIDE DEF r, sender
    <2>5. /\ r.ok \in BOOLEAN /\ IsBase(r.b)
          /\ IF r.ok THEN /\ r.b.ops = [base.ops EXCEPT ![a.op] = "done"]
                          /\ IF a.op[1] = "activation" THEN SameRoles(base, r.b) ELSE HoldsRoles(r.b, a.op[2])
                     ELSE r.b = base
      BY <2>1, <2>2, ExecuteCall, Zenon
    <2> QED BY <2>3, <2>4, <2>5, Zenon DEF r
  <1> QED
    BY <1>1, <1>2, <1>3, <1>4, Zenon
       DEF IsArtifact, Kinds, EmergencyKinds, DangerousKinds, ActivationKinds, RotationKinds, ScheduleKinds, ExecuteKinds

LEMMA RelayLanes ==
  ASSUME IndInv, NEW a \in signed, Relay(a)
  PROVE  Shape' /\ Numbered' /\ OnRecord' /\ LanesOk' /\ HandlerOk' /\ Rotations'
  <1> DEFINE new == [id |-> a.id, ok |-> Included(a).ok]
  <1>0. Shape /\ Numbered /\ OnRecord /\ LanesOk /\ HandlerOk /\ Rotations
    BY Zenon DEF IndInv
  <1>1. /\ UNCHANGED <<nonce, pending, nextId, timelock, rotation, key, emergency, handler, carried>>
        /\ base' = Included(a).b
        /\ account' = [account EXCEPT ![a.role][a.key] = @ + 1]
        /\ signed' = {t \in signed : <<t.role, t.key, t.nonce>> # <<a.role, a.key, a.nonce>>}
        /\ receipts' = receipts \cup {new}
        /\ account[a.role][a.key] = a.nonce
    BY Zenon DEF Relay, canisterVars
  <1>2. /\ IsArtifact(a) /\ a.id \in Nat /\ a.role \in Lanes /\ a.key \in Generations /\ a.id < nextId
        /\ IsBase(base) /\ account \in [Lanes -> [Generations -> Int]] /\ key \in Generations
    BY <1>0, Kinds3, Zenon DEF Shape, IsArtifact, Numbered
  <1>3. new \in [id : Nat, ok : BOOLEAN] /\ new.id = a.id /\ IsBase(base')
    BY <1>1, <1>2, Effect, Zenon
  <1> HIDE DEF new
  <1>4. /\ account' \in [Lanes -> [Generations -> Int]]
        /\ account'[a.role][a.key] = account[a.role][a.key] + 1
        /\ \A l \in Lanes, g \in Generations : ~(l = a.role /\ g = a.key) => account'[l][g] = account[l][g]
    BY <1>1, <1>2
  <1>5. \A t \in signed' : t \in signed /\ ~(t.role = a.role /\ t.key = a.key /\ t.nonce = a.nonce)
    BY <1>1, Zenon
  <1>6. Shape'
    BY <1>0, <1>1, <1>3, <1>4, <1>5, Zenon DEF Shape
  <1>7. Numbered'
    BY <1>0, <1>1, <1>2, <1>3, <1>5, Zenon DEF Numbered
  <1>8. OnRecord'
    BY <1>0, <1>1, <1>3, <1>5 DEF OnRecord, HasReceipt
  <1>9. ASSUME NEW l \in Lanes \ carried, a.id = pending[l].id PROVE LaneOk(l)'
    <2>1. pending[l] # None
      <3>1. l \in Lanes /\ Shape
        BY <1>0, Zenon
      <3>2. pending[l] = None => pending[l].id = -1
        BY ONLY <3>1, PendingType, Zenon
      <3>3. a.id \in Nat /\ a.id = pending[l].id
        BY <1>2, <1>9, Zenon
      <3> QED BY ONLY <3>2, <3>3
    <2>2. /\ LaneOk(l) /\ a.role = l /\ a.key = key /\ a.nonce = pending[l].nonce /\ ~HasReceipt(pending[l])
      BY <1>0, <1>9, <2>1, Zenon DEF LanesOk, LaneOk, OnRecord
    <2>3. account'[l][key] = pending[l].nonce + 1
      BY <1>1, <1>4, <2>2, Zenon
    <2>4. HasReceipt(pending[l])'
      BY <1>1, <1>3, <1>9, Zenon DEF HasReceipt
    <2>5. \A t \in signed' : t.id # pending[l].id /\ ~(t.role = l /\ t.key = key)
      BY <1>0, <1>5, <1>9, <2>1, <2>2 DEF LaneOk, OnRecord
    <2>6. ~(Landed(pending[l], TRUE)' /\ Landed(pending[l], FALSE)')
      BY <1>1, <2>2 DEF HasReceipt, Landed
    <2> QED BY <1>1, <2>1, <2>2, <2>3, <2>4, <2>5, <2>6, Zenon DEF LaneOk
  <1>10. ASSUME NEW l \in Lanes \ carried, a.id # pending[l].id
         PROVE  account'[l][key] = account[l][key] /\ LaneOk(l)'
    <2>1. LaneOk(l) /\ ~(a.role = l /\ a.key = key)
      BY <1>0, <1>10, Zenon DEF LanesOk, LaneOk
    <2>2. account'[l][key] = account[l][key]
      BY <1>2, <1>4, <2>1, Zenon
    <2>3. HasReceipt(pending[l])' <=> HasReceipt(pending[l])
      BY <1>1, <1>3, <1>10, Zenon DEF HasReceipt
    <2>4. \A ok \in BOOLEAN : Landed(pending[l], ok)' <=> Landed(pending[l], ok)
      BY <1>1, <1>3, <1>10 DEF Landed
    <2> QED BY <1>1, <1>5, <2>1, <2>2, <2>3, <2>4, Zenon DEF LaneOk
  <1>11. LanesOk'
    BY <1>1, <1>9, <1>10, Zenon DEF LanesOk
  <1>12. HandlerOk'
    <2>1. ASSUME handler.at = "store", LaneOf(handler.kind) \notin carried
          PROVE  account'[LaneOf(handler.kind)][key] = account[LaneOf(handler.kind)][key]
      <3>1. LaneOf(handler.kind) \in Lanes \ carried /\ pending[LaneOf(handler.kind)] = None
        BY <1>0, <2>1, Kinds3, Zenon DEF HandlerOk
      <3>2. a.id # pending[LaneOf(handler.kind)].id
        BY <1>0, <1>2, <3>1, PendingType
      <3> QED BY <1>10, <3>1, <3>2, Zenon
    <2> QED BY <1>0, <1>1, <2>1, Zenon DEF HandlerOk, Landed
  <1>13. Rotations'
    BY <1>0, <1>1, <1>5, Zenon DEF Rotations, Gov
  <1> QED BY <1>6, <1>7, <1>8, <1>11, <1>12, <1>13, Zenon

\* What becomes pending, and what does not.
LEMMA PendingSame ==
  ASSUME NEW b, NEW c, c.ops = b.ops
  PROVE  PendingOps(c) = PendingOps(b)
  BY Zenon DEF PendingOps

LEMMA PendingLess ==
  ASSUME NEW b, IsBase(b), NEW c, NEW op \in TimelockOps,
         c.ops = [b.ops EXCEPT ![op] = "unset"] \/ c.ops = [b.ops EXCEPT ![op] = "done"]
  PROVE  PendingOps(c) = PendingOps(b) \ {op}
  BY Zenon DEF PendingOps, IsBase

LEMMA PendingMore ==
  ASSUME NEW b, IsBase(b), NEW c, NEW op \in TimelockOps,
         c.ops = [b.ops EXCEPT ![op] = "waiting"] \/ c.ops = [b.ops EXCEPT ![op] = "ready"]
  PROVE  PendingOps(c) = PendingOps(b) \cup {op}
  BY DEF PendingOps, IsBase

LEMMA RelayTimelock ==
  ASSUME IndInv, NEW a \in signed, Relay(a)
  PROVE  Receipts' /\ NoForgottenTimelock' /\ RolesOf(IF Rotated THEN key + 1 ELSE key)'
  <1> DEFINE new == [id |-> a.id, ok |-> Included(a).ok]
  <1>0. Shape /\ Numbered /\ OnRecord /\ LanesOk /\ Rotations /\ Receipts /\ NoForgottenTimelock
    BY Zenon DEF IndInv
  <1>1. /\ UNCHANGED <<nonce, pending, nextId, timelock, rotation, key, emergency, handler, carried>>
        /\ base' = Included(a).b /\ receipts' = receipts \cup {new}
    BY Zenon DEF Relay, canisterVars
  <1>2. /\ IsArtifact(a) /\ a.id \in Nat /\ IsBase(base) /\ key \in Nat
        /\ "governance" \in Lanes /\ "canceller" \in Lanes
    BY <1>0 DEF Shape, IsArtifact, Lanes, Generations
  <1>3. new.ok = Included(a).ok /\ new.ok \in BOOLEAN /\ new.id = a.id /\ IsBase(base')
    BY <1>1, <1>2, Effect, Zenon
  <1> HIDE DEF new
  <1>4. \A tx : a.id # tx.id => \A ok \in BOOLEAN : Landed(tx, ok)' <=> Landed(tx, ok)
    BY <1>1, <1>3, Zenon DEF Landed, new
  <1>5. Gov # None /\ a.id = Gov.id => a.role = "governance"
    BY <1>0, <1>2, Zenon DEF OnRecord, Gov
  <1>6. Canceller # None /\ a.id = Canceller.id => a.role = "canceller" /\ a.op = Canceller.op
    BY <1>0, <1>2, Zenon DEF OnRecord, Canceller
  <1>7. /\ UNCHANGED <<Gov, Canceller>>
    BY <1>1, Zenon DEF Gov, Canceller
  <1>8. /\ Gov # None => Gov.kind \in ScheduleKinds \cup ExecuteKinds /\ Gov.op \in TimelockOps
        /\ Canceller # None => Canceller.op \in TimelockOps
    <2>1. Gov # None => IsTx(Gov) /\ LaneOf(Gov.kind) = "governance"
      BY <1>0, <1>2, PendingType, Zenon DEF Gov
    <2>2. Canceller # None => IsTx(Canceller) /\ LaneOf(Canceller.kind) = "canceller"
      BY <1>0, <1>2, PendingType, Zenon DEF Canceller
    <2> QED BY <2>1, <2>2, Kinds3, Zenon DEF IsTx
  <1>9. a.role = "governance" =>
          /\ Gov # None /\ a.id = Gov.id /\ a.kind = Gov.kind /\ a.op = Gov.op
          /\ ~Landed(Gov, TRUE) /\ ~Landed(Gov, FALSE)
    <2> SUFFICES ASSUME a.role = "governance"
                 PROVE  /\ Gov # None /\ a.id = Gov.id /\ a.kind = Gov.kind /\ a.op = Gov.op
                        /\ ~Landed(Gov, TRUE) /\ ~Landed(Gov, FALSE)
      BY Zenon
    <2>1. LaneOk("governance") /\ a.key = key
      BY <1>0, <1>2, Zenon DEF LanesOk, Rotations
    <2>2. a.id = Gov.id
      BY <2>1, Zenon DEF LaneOk, Gov
    <2>3. Gov # None
      BY <1>0, <1>2, <2>2, PendingType DEF Gov
    <2>4. ~HasReceipt(Gov) /\ a.kind = Gov.kind /\ a.op = Gov.op
      BY <1>0, <1>2, <2>1, <2>2, <2>3, Zenon DEF LaneOk, OnRecord, Gov
    <2> QED BY <2>2, <2>3, <2>4, Zenon DEF HasReceipt, Landed
  <1>10. RolesOf(IF Rotated THEN key + 1 ELSE key)
    BY Zenon DEF IndInv
  <1>r. \A g : SameRoles(base, base') /\ RolesOf(g) => RolesOf(g)'
    BY Zenon DEF SameRoles, RolesOf
  <1>11. CASE a.role = "runtime"
    <2>1. SameRoles(base, base') /\ base'.ops = base.ops
      BY <1>1, <1>2, <1>11, Effect, Zenon
    <2>2. PendingOps(base') = PendingOps(base)
      BY <2>1, PendingSame, Zenon
    <2>3. Gov # None => \A ok \in BOOLEAN : Landed(Gov, ok)' <=> Landed(Gov, ok)
      BY <1>4, <1>5, <1>7, <1>11, Zenon DEF Landed
    <2>4. Canceller # None => \A ok \in BOOLEAN : Landed(Canceller, ok)' <=> Landed(Canceller, ok)
      BY <1>4, <1>6, <1>7, <1>11, Zenon DEF Landed
    <2>5. (Scheduled' <=> Scheduled) /\ (Rotated' <=> Rotated)
      BY <1>7, <2>3, Zenon DEF Scheduled, Rotated
    <2>6. Receipts'
      BY <1>0, <1>1, <1>7, <2>1, <2>2, <2>3, <2>4, <2>5, Zenon DEF Receipts
    <2>7. RolesOf(IF Rotated THEN key + 1 ELSE key)'
      BY <1>1, <1>10, <1>r, <2>1, <2>5, Zenon DEF RolesOf
    <2> QED BY <1>0, <1>1, <2>2, <2>6, <2>7, Zenon DEF NoForgottenTimelock
  <1>12. CASE a.role = "canceller"
    <2>0. a.kind = "CancelTimelock" /\ a.op \in TimelockOps
      BY <1>2, <1>12, Kinds3, Zenon DEF IsArtifact
    <2>1. /\ SameRoles(base, base')
          /\ IF new.ok THEN a.op \in PendingOps(base) /\ base'.ops = [base.ops EXCEPT ![a.op] = "unset"]
                       ELSE base'.ops = base.ops
      BY <1>1, <1>2, <1>3, <2>0, Effect, Zenon
    <2>2. PendingOps(base') = IF new.ok THEN PendingOps(base) \ {a.op} ELSE PendingOps(base)
      <3>1. CASE new.ok
        BY <1>2, <2>0, <2>1, <3>1, PendingLess, Zenon
      <3>2. CASE ~new.ok
        BY <2>1, <3>2, PendingSame, Zenon
      <3> QED BY <3>1, <3>2, Zenon
    <2>3. Gov # None => \A ok \in BOOLEAN : Landed(Gov, ok)' <=> Landed(Gov, ok)
      BY <1>4, <1>5, <1>7, <1>12, Zenon DEF Landed
    <2>4. (Scheduled' <=> Scheduled) /\ (Rotated' <=> Rotated)
      BY <1>7, <2>3, Zenon DEF Scheduled, Rotated
    <2>5. Scheduled => timelock = Gov.op /\ Gov.op \notin PendingOps(base')
      BY <1>0, <2>2, Zenon DEF Receipts
    <2>6. ASSUME Gov # None, Gov.kind \in ExecuteKinds, Landed(Gov, TRUE)
          PROVE  base'.ops[Gov.op] = "done"
      <3>1. base.ops[Gov.op] = "done" /\ Gov.op \in TimelockOps
        BY <1>0, <1>8, <2>6, Zenon DEF Receipts
      <3>2. Gov.op \notin PendingOps(base)
        BY <3>1, Zenon DEF PendingOps
      <3> QED BY <1>2, <2>1, <3>1, <3>2 DEF IsBase
    <2>7. ASSUME Canceller # None, Landed(Canceller, TRUE)', timelock = Canceller.op
          PROVE  Canceller.op \notin PendingOps(base') /\ ~Scheduled
      <3>1. CASE Landed(Canceller, TRUE)
        BY <1>0, <2>2, <2>7, <3>1, Zenon DEF Receipts
      <3>2. CASE ~Landed(Canceller, TRUE)
        <4>1. a.id = Canceller.id /\ new.ok
          BY <1>1, <1>3, <1>7, <2>7, <3>2 DEF Landed
        <4>2. a.op = timelock /\ a.op \in PendingOps(base)
          BY <1>6, <2>1, <2>7, <4>1, Zenon
        <4> QED BY <1>0, <2>2, <2>7, <4>1, <4>2, Zenon DEF Receipts
      <3> QED BY <3>1, <3>2, Zenon
    <2>8. Receipts'
      BY <1>1, <1>7, <2>3, <2>4, <2>5, <2>6, <2>7, Zenon DEF Receipts
    <2>9. RolesOf(IF Rotated THEN key + 1 ELSE key)'
      BY <1>1, <1>10, <1>r, <2>1, <2>4, Zenon DEF RolesOf
    <2> QED BY <1>0, <1>1, <2>2, <2>8, <2>9, Zenon DEF NoForgottenTimelock
  <1>13. CASE a.role = "governance" /\ Gov.kind \in ScheduleKinds
    <2>1. /\ SameRoles(base, base')
          /\ IF new.ok THEN base'.ops = [base.ops EXCEPT ![Gov.op] = "waiting"] ELSE base'.ops = base.ops
      BY <1>1, <1>2, <1>3, <1>9, <1>13, Effect, Zenon
    <2>2. PendingOps(base') = IF new.ok THEN PendingOps(base) \cup {Gov.op} ELSE PendingOps(base)
      <3>1. CASE new.ok
        <4>1. Gov.op \in TimelockOps /\ base'.ops = [base.ops EXCEPT ![Gov.op] = "waiting"]
          BY <1>8, <1>9, <1>13, <2>1, <3>1, Zenon
        <4> QED BY <1>2, <3>1, <4>1, PendingMore, Zenon
      <3>2. CASE ~new.ok
        BY <2>1, <3>2, PendingSame, Zenon
      <3> QED BY <3>1, <3>2, Zenon
    <2>3. Scheduled /\ timelock = Gov.op /\ Gov.op \notin PendingOps(base)
      BY <1>0, <1>9, <1>13, Zenon DEF Scheduled, Receipts
    <2>4. Scheduled' => ~new.ok
      BY <1>1, <1>3, <1>7, <1>9, <1>13, Zenon DEF Scheduled, Landed, new
    <2>5. Canceller # None => \A ok \in BOOLEAN : Landed(Canceller, ok)' <=> Landed(Canceller, ok)
      BY <1>4, <1>6, <1>7, <1>13, Zenon DEF Landed
    <2>6. Gov.kind \notin ExecuteKinds /\ Gov.kind # "ExecuteRotation"
      BY <1>13, Zenon DEF ScheduleKinds, ExecuteKinds
    <2>7. Receipts'
      BY <1>0, <1>1, <1>7, <2>2, <2>3, <2>4, <2>5, <2>6, Zenon DEF Receipts
    <2>8. RolesOf(IF Rotated THEN key + 1 ELSE key)'
      BY <1>1, <1>7, <1>10, <1>r, <2>1, <2>6, Zenon DEF Rotated, RolesOf
    <2> QED BY <1>0, <1>1, <2>2, <2>3, <2>7, <2>8, Zenon DEF NoForgottenTimelock
  <1>14. CASE a.role = "governance" /\ Gov.kind \in ExecuteKinds
    <2>1. IF new.ok THEN /\ base'.ops = [base.ops EXCEPT ![Gov.op] = "done"]
                         /\ IF Gov.op[1] = "activation" THEN SameRoles(base, base')
                                                        ELSE HoldsRoles(base', Gov.op[2])
                    ELSE SameRoles(base, base') /\ base'.ops = base.ops
      BY <1>1, <1>2, <1>3, <1>9, <1>14, Effect, Zenon
    <2>2. PendingOps(base') = IF new.ok THEN PendingOps(base) \ {Gov.op} ELSE PendingOps(base)
      <3>1. CASE new.ok
        <4>1. base'.ops = [base.ops EXCEPT ![Gov.op] = "done"] /\ Gov.op \in TimelockOps
          BY <1>8, <1>9, <1>14, <2>1, <3>1, Zenon
        <4> QED BY <1>2, <3>1, <4>1, PendingLess, Zenon
      <3>2. CASE ~new.ok
        BY <2>1, <3>2, PendingSame, Zenon
      <3> QED BY <3>1, <3>2, Zenon
    <2>3. Landed(Gov, TRUE)' <=> new.ok
      BY <1>1, <1>3, <1>7, <1>9, <1>14, Zenon DEF Landed, new
    <2>4. ~Scheduled' /\ ~Scheduled
      BY <1>7, <1>14, Zenon DEF Scheduled, ScheduleKinds, ExecuteKinds
    <2>5. new.ok => base'.ops[Gov.op] = "done"
      BY <1>2, <1>8, <1>9, <1>14, <2>1, Zenon DEF IsBase
    <2>6. Canceller # None => \A ok \in BOOLEAN : Landed(Canceller, ok)' <=> Landed(Canceller, ok)
      BY <1>4, <1>6, <1>7, <1>14, Zenon DEF Landed
    <2>7. Receipts'
      BY <1>0, <1>1, <1>7, <2>2, <2>3, <2>4, <2>5, <2>6, Zenon DEF Receipts
    <2>8. RolesOf(IF Rotated THEN key + 1 ELSE key)'
      <3>1. RolesOf(key)
        BY <1>9, <1>10, <1>14, Zenon DEF Rotated
      <3>2. CASE ~new.ok \/ Gov.kind = "ExecuteActivation"
        <4>1. ~Rotated'
          BY <1>7, <2>3, <3>2, Zenon DEF Rotated
        <4>2. SameRoles(base, base')
          BY <1>0, <1>9, <1>14, <2>1, <3>2, Zenon DEF Rotations, ActivationKinds
        <4> QED BY <1>1, <1>r, <3>1, <4>1, <4>2, Zenon DEF RolesOf
      <3>3. CASE new.ok /\ Gov.kind = "ExecuteRotation"
        <4>1. Rotated'
          BY <1>7, <1>9, <1>14, <2>3, <3>3, Zenon DEF Rotated
        <4>2. Gov.op = RotationOp(key + 1)
          BY <1>0, <1>9, <1>14, <3>3, Zenon DEF Rotations, RotationKinds
        <4>3. HoldsRoles(base', key + 1)
          BY <2>1, <3>3, <4>2 DEF RotationOp
        <4> QED BY <1>1, <4>1, <4>3, Zenon DEF RolesOf, HoldsRoles
      <3> QED BY <1>14, <3>2, <3>3, Zenon DEF ExecuteKinds
    <2> QED BY <1>0, <1>1, <2>2, <2>7, <2>8, Zenon DEF NoForgottenTimelock
  <1>15. a.role \in {"runtime", "canceller", "governance"}
    BY <1>2, Kinds3, Zenon DEF IsArtifact
  <1> QED BY <1>8, <1>9, <1>11, <1>12, <1>13, <1>14, <1>15, Zenon

LEMMA RelayStep ==
  ASSUME IndInv, NEW a \in signed, Relay(a)
  PROVE  IndInv'
  BY RelayLanes, RelayTimelock, Zenon DEF IndInv

\* A delay passes: the operation stays pending.
LEMMA DelayStep ==
  ASSUME IndInv, NEW op \in TimelockOps, TimePasses(op)
  PROVE  IndInv'
  <1>1. /\ UNCHANGED <<nonce, pending, nextId, timelock, rotation, key, emergency, handler, carried,
                       account, signed, receipts>>
        /\ base.ops[op] = "waiting" /\ base' = [base EXCEPT !.ops[op] = "ready"]
    BY Zenon DEF TimePasses, canisterVars, DelayPasses
  <1>2. /\ IsBase(base) /\ IsBase(base') /\ SameRoles(base, base')
        /\ base'.ops = [base.ops EXCEPT ![op] = "ready"]
    BY <1>1, Zenon DEF IndInv, Shape, IsBase, OpStates, SameRoles
  <1>3. PendingOps(base') = PendingOps(base)
    <2>1. op \in PendingOps(base)
      BY <1>1, <1>2, Zenon DEF PendingOps, IsBase
    <2>2. PendingOps(base') = PendingOps(base) \cup {op}
      BY <1>2, PendingMore, Zenon
    <2> QED BY <2>1, <2>2, Zenon
  <1>4. \A o \in TimelockOps : base.ops[o] = "done" => base'.ops[o] = "done"
    BY <1>1, <1>2, Zenon DEF IsBase
  <1>5. Shape' /\ Numbered' /\ OnRecord' /\ LanesOk'
    BY <1>1, <1>2 DEF IndInv, Shape, Numbered, OnRecord, LanesOk, LaneOk, HasReceipt, Landed
  <1>6. HandlerOk' /\ Rotations'
    BY <1>1, Zenon DEF IndInv, HandlerOk, Rotations, Gov, Landed
  <1>7. Receipts'
    <2>1. Gov # None /\ Gov.kind \in ExecuteKinds => Gov.op \in TimelockOps
      <3>1. Gov # None => IsTx(Gov) /\ LaneOf(Gov.kind) = "governance"
        BY PendingType, Zenon DEF IndInv, Gov, Lanes
      <3> QED BY <3>1, Zenon DEF IsTx
    <2> QED BY <1>1, <1>3, <1>4, <2>1, Zenon DEF IndInv, Receipts, Scheduled, Landed, Gov, Canceller
  <1>8. NoForgottenTimelock'
    BY <1>1, <1>3, Zenon DEF IndInv, NoForgottenTimelock
  <1>9. RolesOf(IF Rotated THEN key + 1 ELSE key)'
    BY <1>1, <1>2, Zenon DEF IndInv, RolesOf, SameRoles, Rotated, Landed, Gov
  <1> QED BY <1>5, <1>6, <1>7, <1>8, <1>9, Zenon DEF IndInv

----------------------------------------------------------------------------
(* Steps of the handlers *)

LEMMA GovType ==
  ASSUME Shape
  PROVE  /\ "governance" \in Lanes /\ "canceller" \in Lanes
         /\ Gov # None => /\ IsTx(Gov) /\ Gov.kind \in ScheduleKinds \cup ExecuteKinds
                          /\ Gov.op \in TimelockOps /\ Gov.id \in Nat
         /\ Canceller # None => /\ IsTx(Canceller) /\ Canceller.kind = "CancelTimelock"
                                /\ Canceller.op \in TimelockOps /\ Canceller.id \in Nat
  <1>1. "governance" \in Lanes /\ "canceller" \in Lanes
    BY Zenon DEF Lanes
  <1>2. Gov # None => IsTx(Gov) /\ LaneOf(Gov.kind) = "governance" /\ Gov.id \in Nat
    BY <1>1, PendingType, Zenon DEF Gov
  <1>3. Canceller # None => IsTx(Canceller) /\ LaneOf(Canceller.kind) = "canceller" /\ Canceller.id \in Nat
    BY <1>1, PendingType, Zenon DEF Canceller
  <1>4. \A t : IsTx(t) => t.kind \in Kinds /\ (LaneOf(t.kind) # "runtime" => t.op \in TimelockOps)
    BY Zenon DEF IsTx
  <1>5. Gov # None => Gov.kind \in ScheduleKinds \cup ExecuteKinds /\ Gov.op \in TimelockOps
    BY <1>2, <1>4, Kinds3, Zenon
  <1>6. Canceller # None => Canceller.kind = "CancelTimelock" /\ Canceller.op \in TimelockOps
    BY <1>3, <1>4, Kinds3, Zenon
  <1> QED BY <1>1, <1>2, <1>3, <1>5, <1>6, Zenon

\* What is on record is a rotation exactly when the record names a generation.
LEMMA RotationOnRecord ==
  ASSUME Rotations
  PROVE  /\ timelock = NoOp => rotation = 0
         /\ timelock[1] = "activation" => rotation = 0
  BY Ops3 DEF Rotations, RotationOp, NoOp

\* An unsigned transaction gives way: its nonce is Base's next one again, and
\* a schedule it stood for was never made.
LEMMA AbortStep ==
  ASSUME IndInv, NEW lane \in Lanes, pending[lane] # None, Abort(lane),
         UNCHANGED <<carried, base, account, signed, receipts>>,
         handler' = Idle \/ \E k \in Kinds : LaneOf(k) = lane /\ handler' = Observing(k)
  PROVE  IndInv'
  <1> DEFINE tx == pending[lane]
             schedules == tx.kind \in ScheduleKinds
  <1>0. Shape /\ Numbered /\ OnRecord /\ LanesOk /\ Rotations /\ Receipts /\ NoForgottenTimelock
    BY Zenon DEF IndInv
  <1>1. /\ emergency # {} /\ tx.state = "Prepared" /\ nonce[lane] = tx.nonce + 1
        /\ schedules => timelock = tx.op
        /\ pending' = [pending EXCEPT ![lane] = None]
        /\ nonce' = [nonce EXCEPT ![lane] = tx.nonce]
        /\ timelock' = (IF schedules THEN NoOp ELSE timelock)
        /\ rotation' = (IF tx.kind = "ScheduleRotation" THEN 0 ELSE rotation)
        /\ emergency' = (IF schedules THEN emergency \ {"cancel"} ELSE emergency)
        /\ UNCHANGED <<nextId, key>>
    BY Zenon DEF Abort, MayAbort, ScheduleKinds
  <1>2. IsTx(tx) /\ LaneOf(tx.kind) = lane /\ tx.id \in Nat /\ tx.nonce \in Int /\ tx.kind \in Kinds
    BY <1>0, PendingType, Zenon DEF IsTx
  <1>3. /\ ~HasReceipt(tx) /\ ~Landed(tx, TRUE) /\ ~Landed(tx, FALSE)
        /\ \A a \in signed : a.id # tx.id
    BY <1>0, <1>1, Zenon DEF OnRecord, HasReceipt, Landed
  <1> HIDE DEF tx
  <1>4. /\ pending' = [l \in Lanes |-> pending'[l]]
        /\ pending'[lane] = None /\ \A l \in Lanes : l # lane => pending'[l] = pending[l]
    BY <1>0, <1>1, Zenon DEF Shape
  <1>5. /\ nonce' \in [Lanes -> Int] /\ nonce'[lane] = tx.nonce
        /\ \A l \in Lanes : l # lane => nonce'[l] = nonce[l]
    BY <1>0, <1>1, <1>2, Zenon DEF Shape
  <1>6. pending'[lane].id = -1 /\ None.id = -1
    BY <1>4 DEF None
  <1>7. schedules => /\ lane = "governance" /\ tx = Gov /\ Scheduled
    BY <1>2, <1>3, Kinds3, Zenon DEF Scheduled, Gov, tx
  <1>8. Shape'
    <2>1. rotation' \in Generations /\ timelock' \in TimelockOps \cup {NoOp}
      BY <1>0, <1>1, GovernanceAssumption DEF Shape, Generations
    <2> QED BY <1>0, <1>1, <1>4, <1>5, <2>1, Zenon DEF Shape
  <1>9. Numbered'
    <2>1. \A l, m \in Lanes : l # m /\ pending'[l] # None => pending'[l].id # pending'[m].id
      BY <1>0, <1>4, <1>6, PendingType DEF Numbered
    <2>2. \A i \in Ids : timelock' = ActivationOp(i) => i < nextId
      BY <1>0, <1>1, Ops3, Zenon DEF Numbered
    <2> QED BY <1>0, <1>1, <1>4, <2>1, <2>2, Zenon DEF Numbered
  <1>10. OnRecord'
    BY <1>0, <1>4 DEF OnRecord, HasReceipt
  <1>11. LanesOk'
    <2>1. ASSUME NEW l \in Lanes \ carried PROVE LaneOk(l)'
      <3>1. CASE l = lane
        <4>1. LaneOk(lane)
          BY <1>0, <2>1, <3>1, Zenon DEF LanesOk
        <4>2. account[lane][key] = tx.nonce
          BY <1>3, <4>1, Zenon DEF LaneOk, tx
        <4>3. \A a \in signed : ~(a.role = lane /\ a.key = key)
          BY <1>3, <4>1, Zenon DEF LaneOk, tx
        <4> QED BY <1>1, <1>4, <1>5, <3>1, <4>2, <4>3, Zenon DEF LaneOk
      <3>2. CASE l # lane
        <4>1. LaneOk(l) /\ pending'[l] = pending[l] /\ nonce'[l] = nonce[l]
          BY <1>0, <1>4, <1>5, <2>1, <3>2, Zenon DEF LanesOk
        <4>2. UNCHANGED <<key, account, signed, receipts>>
          BY <1>1, Zenon
        <4>3. /\ HasReceipt(pending[l])' <=> HasReceipt(pending[l])
              /\ Landed(pending[l], TRUE)' <=> Landed(pending[l], TRUE)
              /\ Landed(pending[l], FALSE)' <=> Landed(pending[l], FALSE)
          BY <4>1, <4>2, Zenon DEF HasReceipt, Landed
        <4> QED BY <4>1, <4>2, <4>3, Zenon DEF LaneOk
      <3> QED BY <3>1, <3>2, Zenon
    <2> QED BY <2>1, Zenon DEF LanesOk
  <1>12. HandlerOk'
    BY <1>4 DEF HandlerOk, Idle, Observing
  <1>13. lane # "governance" => Gov' = Gov
    BY <1>0, <1>4, GovType, Zenon DEF Gov
  <1>14. lane = "governance" => Gov' = None
    BY <1>4, Zenon DEF Gov
  <1>15. Canceller' \in {Canceller, None}
    BY <1>0, <1>4, GovType, Zenon DEF Canceller
  <1>16. Rotations'
    <2>1. schedules => rotation' = 0
      <3>1. CASE tx.kind = "ScheduleRotation"
        BY <1>1, <3>1, Zenon
      <3>2. CASE tx.kind = "ScheduleActivation"
        <4>1. schedules
          BY <3>2, Zenon DEF ScheduleKinds
        <4>2. timelock[1] = "activation"
          BY <1>0, <1>1, <1>7, <3>2, <4>1, Zenon DEF Rotations, ActivationKinds, Scheduled
        <4> QED BY <1>0, <1>1, <3>2, <4>2, RotationOnRecord, Zenon
      <3> QED BY <3>1, <3>2, Zenon DEF ScheduleKinds
    <2>2. ~schedules => rotation' = rotation
      BY <1>1, Zenon DEF ScheduleKinds
    <2>3. \A g \in Generations \ {0} : timelock' = RotationOp(g) => rotation' = g
      BY <1>0, <1>1, <2>2, Ops3, Zenon DEF Rotations
    <2> QED BY <1>0, <1>1, <1>13, <1>14, <2>1, <2>2, <2>3, Zenon DEF Rotations
  <1>17. Receipts'
    <2>1. Scheduled' => Scheduled /\ ~schedules
      BY <1>7, <1>13, <1>14, Zenon DEF Scheduled, Landed
    <2>2. Scheduled' => timelock' = Gov'.op /\ Gov'.op \notin PendingOps(base)
      BY <1>0, <1>1, <1>13, <1>14, <2>1, Zenon DEF Receipts, Scheduled
    <2>3. Gov' # None /\ Gov'.kind \in ExecuteKinds /\ Landed(Gov, TRUE)' => base.ops[Gov'.op] = "done"
      BY <1>0, <1>13, <1>14, Zenon DEF Receipts, Landed
    <2>4. ASSUME Canceller' # None, Landed(Canceller, TRUE)', timelock' = Canceller'.op
          PROVE  Canceller'.op \notin PendingOps(base) /\ ~Scheduled'
      <3>1. Canceller' = Canceller /\ Canceller.op # NoOp /\ Landed(Canceller, TRUE)
        BY <1>0, <1>15, <2>4, GovType, Ops3, Zenon DEF Landed
      <3>2. timelock' = timelock
        BY <1>1, <2>4, <3>1, Zenon
      <3> QED BY <1>0, <2>1, <2>4, <3>1, <3>2, Zenon DEF Receipts
    <2> QED BY <2>2, <2>3, <2>4, Zenon DEF Receipts
  <1>18. NoForgottenTimelock'
    <2>1. schedules => PendingOps(base) = {}
      BY <1>0, <1>1, <1>7, Zenon DEF NoForgottenTimelock, Receipts
    <2> QED BY <1>0, <1>1, <2>1, Zenon DEF NoForgottenTimelock
  <1>19. RolesOf(IF Rotated THEN key + 1 ELSE key)'
    <2>1. Rotated' <=> Rotated
      BY <1>3, <1>13, <1>14, Zenon DEF Rotated, Landed, Gov, tx
    <2> QED BY <1>1, <2>1, Zenon DEF IndInv, RolesOf
  <1> QED BY <1>8, <1>9, <1>10, <1>11, <1>12, <1>16, <1>17, <1>18, <1>19, Zenon DEF IndInv

\* A signature is stored: the artifact is the recorded transaction's, under the
\* key in force, and only if its nonce is still free.
LEMMA PublishStep ==
  ASSUME IndInv, NEW lane \in Lanes, pending[lane] # None, NEW t, IsTx(t), t.state = "Signed",
         t.id = pending[lane].id, t.kind = pending[lane].kind, t.op = pending[lane].op,
         t.nonce = pending[lane].nonce, Publish(lane, t), handler' = Idle, UNCHANGED carried
  PROVE  IndInv'
  <1> DEFINE new == Artifact(t)
  <1>0. Shape /\ Numbered /\ OnRecord /\ LanesOk /\ Rotations /\ Receipts /\ NoForgottenTimelock
    BY Zenon DEF IndInv
  <1>1. /\ pending' = [pending EXCEPT ![lane] = t]
        /\ signed' = signed \cup {a \in {new} : a.nonce >= account[lane][key]}
        /\ UNCHANGED <<nonce, nextId, timelock, rotation, key, emergency, base, account, receipts, carried>>
    BY Zenon DEF Publish
  <1>2. LaneOf(t.kind) = lane /\ t.id \in Nat /\ t # None /\ t.kind \in Kinds /\ t.nonce \in Int
        /\ (lane # "runtime" => t.op \in TimelockOps)
    BY <1>0, PendingType DEF IsTx, None
  <1>3. /\ new.id = t.id /\ new.kind = t.kind /\ new.op = t.op /\ new.nonce = t.nonce
        /\ new.role = lane /\ new.key = key
    BY <1>2, Zenon DEF Artifact
  <1> HIDE DEF new
  <1>4. IsArtifact(new)
    BY <1>0, <1>2, <1>3, Zenon DEF IsArtifact, Shape
  <1>5. /\ pending' = [l \in Lanes |-> pending'[l]]
        /\ pending'[lane] = t /\ \A l \in Lanes : l # lane => pending'[l] = pending[l]
    BY <1>0, <1>1, Zenon DEF Shape
  <1>6. \A l \in Lanes :
          /\ pending'[l] = None <=> pending[l] = None
          /\ pending'[l].id = pending[l].id
          /\ pending[l] # None => /\ pending'[l].kind = pending[l].kind /\ pending'[l].op = pending[l].op
                                  /\ pending'[l].nonce = pending[l].nonce
    BY <1>2, <1>5, Zenon
  <1>8. Shape'
    BY <1>0, <1>1, <1>2, <1>3, <1>4, <1>5 DEF Shape, Generations
  <1>9. Numbered'
    <2>1. \A a \in signed' : a.id < nextId
      BY <1>0, <1>1, <1>3, Zenon DEF Numbered
    <2>2. ASSUME NEW l \in Lanes, NEW m \in Lanes, l # m, pending'[l] # None
          PROVE  pending'[l].id # pending'[m].id
      <3>1. pending[l] # None /\ pending'[l].id = pending[l].id /\ pending'[m].id = pending[m].id
        BY ONLY <1>6, <2>2, Zenon
      <3>2. pending[l].id # pending[m].id
        BY <1>0, <2>2, <3>1, Zenon DEF Numbered
      <3> QED BY ONLY <3>1, <3>2, Zenon
    <2>3. ASSUME NEW l \in Lanes, pending'[l] # None
          PROVE  /\ pending'[l].id < nextId
                 /\ \A i \in Ids : pending'[l].op = ActivationOp(i) => i < nextId
      <3>1. pending[l] # None /\ pending'[l].id = pending[l].id /\ pending'[l].op = pending[l].op
        BY ONLY <1>6, <2>3, Zenon
      <3>2. pending[l].id < nextId /\ \A i \in Ids : pending[l].op = ActivationOp(i) => i < nextId
        BY <1>0, <3>1, Zenon DEF Numbered
      <3> QED BY <3>1, <3>2, Zenon
    <2> QED BY <1>0, <1>1, <2>1, <2>2, <2>3, Zenon DEF Numbered
  <1>10. OnRecord'
    <2>1. ASSUME NEW l \in Lanes, pending[l] # None, NEW a \in signed', a.id = pending[l].id
          PROVE  a.role = l /\ a.kind = pending[l].kind /\ a.op = pending[l].op /\ pending'[l].state = "Signed"
      <3>1. CASE a = new
        <4>1. l = lane
          BY <1>0, <1>3, <2>1, <3>1, Zenon DEF Numbered
        <4> QED BY <1>3, <1>5, <3>1, <4>1, Zenon
      <3>2. CASE a \in signed
        BY <1>0, <1>5, <2>1, <3>2 DEF OnRecord
      <3> QED BY <1>1, <3>1, <3>2, Zenon
    <2>2. ASSUME NEW l \in Lanes, pending[l] # None, HasReceipt(pending[l])
          PROVE  pending'[l].state = "Signed"
      BY <1>0, <1>5, <2>2 DEF OnRecord
    <2>3. \A l \in Lanes : pending'[l] # None => pending[l] # None
      BY <1>6, Zenon
    <2>4. ASSUME NEW l \in Lanes, pending'[l] # None
          PROVE  /\ \A a \in signed' : a.id = pending'[l].id =>
                      /\ a.role = l /\ a.kind = pending'[l].kind /\ a.op = pending'[l].op
                      /\ pending'[l].state = "Signed"
                 /\ HasReceipt(pending[l])' => pending'[l].state = "Signed"
      <3>1. HasReceipt(pending[l])' => HasReceipt(pending[l])
        BY <1>1, <1>6, Zenon DEF HasReceipt
      <3>2. pending[l] # None /\ pending'[l].id = pending[l].id /\ pending'[l].kind = pending[l].kind
            /\ pending'[l].op = pending[l].op
        BY <1>6, <2>4, Zenon
      <3> QED BY <2>1, <2>2, <3>1, <3>2, Zenon
    <2> QED BY <2>4, Zenon DEF OnRecord
  <1>11. LanesOk'
    <2>1. ASSUME NEW l \in Lanes \ carried PROVE LaneOk(l)'
      <3>0. LaneOk(l)
        BY <1>0, Zenon DEF LanesOk
      <3>r. pending'[l].id = pending[l].id /\ receipts' = receipts
        BY <1>1, <1>6, Zenon
      <3>h. HasReceipt(pending[l])' <=> HasReceipt(pending[l])
        BY <3>r, Zenon DEF HasReceipt
      <3>d. (Landed(pending[l], TRUE)' <=> Landed(pending[l], TRUE))
            /\ (Landed(pending[l], FALSE)' <=> Landed(pending[l], FALSE))
        BY <3>r, Zenon DEF Landed
      <3>1. CASE l = lane
        <4>1. ASSUME NEW a \in signed', a = new PROVE ~HasReceipt(pending[l])
          <5>1. a \in signed \/ t.nonce >= account[lane][key]
            BY <1>1, <1>3, <4>1, Zenon
          <5>2. CASE a \in signed
            BY <1>3, <3>0, <3>1, <4>1, <5>2, Zenon DEF LaneOk
          <5>3. CASE t.nonce >= account[lane][key]
            <6>1. account[lane][key] = IF HasReceipt(pending[lane]) THEN t.nonce + 1 ELSE t.nonce
              BY <3>0, <3>1, Zenon DEF LaneOk
            <6>2. t.nonce \in Int
              BY <1>2, Zenon
            <6>3. ~HasReceipt(pending[lane])
              BY ONLY <5>3, <6>1, <6>2
            <6> QED BY <3>1, <6>3, Zenon
          <5> QED BY <5>1, <5>2, <5>3, Zenon
        <4>2. \A a \in signed' : a = new \/ a \in signed
          BY <1>1, Zenon
        <4>3. pending[l] # None /\ pending'[l] # None /\ pending'[l].nonce = pending[l].nonce
          BY <1>6, <3>1, Zenon
        <4>4. \A a \in signed' : a.role = l /\ a.key = key => a.id = pending'[l].id
          BY <1>3, <3>0, <3>r, <3>1, <4>2, Zenon DEF LaneOk
        <4>5. ASSUME NEW a \in signed', a.id = pending'[l].id
              PROVE  a.key = key /\ a.nonce = pending[l].nonce /\ ~HasReceipt(pending[l])
          <5>1. CASE a = new
            BY <1>3, <3>1, <4>1, <5>1, Zenon
          <5>2. CASE a \in signed
            BY <3>0, <3>r, <4>3, <4>5, <5>2, Zenon DEF LaneOk
          <5> QED BY <4>2, <5>1, <5>2, Zenon
        <4> QED BY <1>1, <3>0, <3>h, <3>d, <4>3, <4>4, <4>5, Zenon DEF LaneOk
      <3>2. CASE l # lane
        <4>1. \A a \in signed' : a \in signed \/ (a.role # l /\ (pending[l] # None => a.id # pending[l].id))
          BY <1>0, <1>1, <1>3, <3>2, Zenon DEF Numbered
        <4>2. /\ pending'[l] = pending[l] /\ nonce' = nonce /\ account' = account /\ key' = key
          BY <1>1, <1>5, <3>2, Zenon
        <4>3. \A a \in signed' : a.role = l /\ a.key = key => a.id = pending[l].id
          BY <3>0, <4>1, Zenon DEF LaneOk
        <4>4. pending[l] # None =>
                \A a \in signed' : a.id = pending[l].id =>
                  a.key = key /\ a.nonce = pending[l].nonce /\ ~HasReceipt(pending[l])
          BY <3>0, <4>1, Zenon DEF LaneOk
        <4> QED BY ONLY <3>0, <3>h, <3>d, <4>2, <4>3, <4>4, Zenon DEF LaneOk
      <3> QED BY <3>1, <3>2, Zenon
    <2> QED BY <1>1, <2>1, Zenon DEF LanesOk
  <1>12. HandlerOk'
    BY Zenon DEF HandlerOk, Idle
  <1>13. /\ Gov' = None <=> Gov = None
         /\ Gov # None => Gov'.kind = Gov.kind /\ Gov'.op = Gov.op
         /\ Landed(Gov, TRUE)' <=> Landed(Gov, TRUE)
         /\ Canceller' = None <=> Canceller = None
         /\ Canceller # None => Canceller'.op = Canceller.op
         /\ Landed(Canceller, TRUE)' <=> Landed(Canceller, TRUE)
    <2>1. Gov'.id = Gov.id /\ Canceller'.id = Canceller.id /\ receipts' = receipts
      BY <1>0, <1>1, <1>6, GovType, Zenon DEF Gov, Canceller
    <2>2. /\ Landed(Gov, TRUE)' <=> Landed(Gov, TRUE)
          /\ Landed(Canceller, TRUE)' <=> Landed(Canceller, TRUE)
      BY <2>1, Zenon DEF Landed
    <2> QED BY <1>0, <1>6, <2>2, GovType, Zenon DEF Gov, Canceller
  <1>14. Rotations'
    BY <1>0, <1>1, <1>3, <1>13, Zenon DEF Rotations
  <1>15. (Scheduled' <=> Scheduled) /\ (Rotated' <=> Rotated)
    BY <1>13, Zenon DEF Scheduled, Rotated
  <1>16. Receipts'
    BY <1>0, <1>1, <1>13, <1>15, Zenon DEF Receipts, Scheduled
  <1>17. NoForgottenTimelock'
    BY <1>0, <1>1, Zenon DEF NoForgottenTimelock
  <1>18. RolesOf(IF Rotated THEN key + 1 ELSE key)'
    BY <1>1, <1>15, Zenon DEF IndInv, RolesOf
  <1> QED BY <1>8, <1>9, <1>10, <1>11, <1>12, <1>14, <1>16, <1>17, <1>18, Zenon DEF IndInv

\* A transaction is stored: a fresh number, the nonce Base expects, and an
\* operation that is new or the one on record.
LEMMA StoreStep ==
  ASSUME IndInv, StorePrepared
  PROVE  IndInv'
  <1> DEFINE kind == handler.kind
             lane == LaneOf(kind)
             tx == NewTransaction(kind, handler.nonce)
             schedules == kind \in ScheduleKinds
  <1>0. Shape /\ Numbered /\ OnRecord /\ LanesOk /\ HandlerOk /\ Rotations /\ Receipts /\ NoForgottenTimelock
    BY Zenon DEF IndInv
  <1>1. /\ handler.at = "store" /\ nextId < MaxOps
        /\ Encodable(kind) /\ Storable(kind, handler.nonce)
        /\ pending' = [pending EXCEPT ![lane] = tx]
        /\ nonce' = [nonce EXCEPT ![lane] = handler.nonce + 1]
        /\ nextId' = nextId + 1
        /\ timelock' = OpAfterStoring(kind)
        /\ rotation' = (IF kind = "ScheduleRotation" THEN key + 1 ELSE rotation)
        /\ handler' = Signing(lane, nextId)
        /\ UNCHANGED <<key, emergency, carried, base, account, signed, receipts>>
    BY Zenon DEF StorePrepared, baseVars
  <1>2. /\ kind \in Kinds /\ lane \in Lanes /\ pending[lane] = None /\ handler.nonce \in Int
        /\ nextId \in Nat /\ key \in Nat /\ nextId \in Ids
        /\ nonce[lane] \in {-1, handler.nonce}
    <2>1. kind \in Kinds /\ handler.nonce \in Int
      BY <1>0, <1>1, Zenon DEF HandlerOk
    <2>2. lane \in Lanes
      BY <2>1, Kinds3, Zenon
    <2>3. pending[lane] = None /\ nonce[lane] \in {-1, handler.nonce}
      BY <1>1, Zenon DEF Storable
    <2>4. nextId \in Nat /\ key \in Nat /\ nextId \in Ids
      <3>1. nextId \in Nat /\ key \in Generations /\ nextId < MaxOps
        BY <1>0, <1>1, Zenon DEF Shape
      <3>2. MaxOps \in Nat /\ MaxGeneration \in Nat
        BY GovernanceAssumption, Zenon
      <3> QED BY ONLY <3>1, <3>2 DEF Ids, Generations
    <2> QED BY <2>1, <2>2, <2>3, <2>4, Zenon
  <1>3. /\ tx.id = nextId /\ tx.kind = kind /\ tx.op = OpOf(kind) /\ tx.nonce = handler.nonce
        /\ tx.state = "Prepared"
    BY Zenon DEF NewTransaction
  <1>4. /\ kind = "ScheduleRotation" => key + 1 \in Generations \ {0}
        /\ kind \in ExecuteKinds \cup {"CancelTimelock"} => timelock \in TimelockOps
    <2>1. /\ kind = "ScheduleRotation" => key < MaxGeneration
          /\ kind \in ExecuteKinds \cup {"CancelTimelock"} => timelock # NoOp
      BY <1>1, Zenon DEF Encodable, ExecuteKinds
    <2>2. timelock \in TimelockOps \cup {NoOp}
      BY <1>0, Zenon DEF Shape
    <2> QED BY <1>2, <2>1, <2>2, GovernanceAssumption DEF Generations
  <1>5. /\ kind = "ScheduleActivation" => OpOf(kind) = ActivationOp(nextId)
        /\ kind = "ScheduleRotation" => OpOf(kind) = RotationOp(key + 1)
        /\ kind \in ExecuteKinds \cup {"CancelTimelock"} => OpOf(kind) = timelock
        /\ lane = "runtime" => OpOf(kind) = NoOp
    BY <1>2, Zenon DEF OpOf, ExecuteKinds, LaneOf, Kinds, EmergencyKinds, DangerousKinds, ActivationKinds, RotationKinds
  <1>6. lane # "runtime" => OpOf(kind) \in TimelockOps
    BY <1>2, <1>4, <1>5, Kinds3, Ops3 DEF ScheduleKinds
  <1>7. IsTx(tx)
    BY <1>2, <1>3, <1>5, <1>6, Zenon DEF IsTx, NewTransaction
  <1> HIDE DEF tx
  <1>8. tx # None
    <2>1. None.id = -1 /\ nextId # -1
      BY <1>2 DEF None
    <2> QED BY <1>3, <2>1, Zenon
  <1>9. /\ pending' = [l \in Lanes |-> pending'[l]]
        /\ pending'[lane] = tx /\ \A l \in Lanes : l # lane => pending'[l] = pending[l]
    BY <1>0, <1>1, <1>2, Zenon DEF Shape
  <1>10. /\ nonce' \in [Lanes -> Int] /\ nonce'[lane] = handler.nonce + 1
         /\ \A l \in Lanes : l # lane => nonce'[l] = nonce[l]
    BY <1>0, <1>1, <1>2 DEF Shape
  <1>11. /\ ~HasReceipt(tx) /\ ~Landed(tx, TRUE) /\ ~Landed(tx, FALSE)
         /\ \A a \in signed : a.id # tx.id
    BY <1>0, <1>2, <1>3 DEF Shape, IsArtifact, Numbered, HasReceipt, Landed
  <1>13. timelock' = IF schedules THEN OpOf(kind) ELSE timelock
    BY <1>1, Zenon DEF OpAfterStoring, ScheduleKinds
  <1>14. schedules => timelock = NoOp /\ rotation = 0 /\ lane = "governance" /\ PendingOps(base) = {}
    <2>1. schedules => timelock = NoOp /\ rotation = 0 /\ lane = "governance"
      BY <1>1, <1>2, Kinds3, Zenon DEF Storable, ScheduleKinds
    <2>2. PendingOps(base) \subseteq TimelockOps
      BY <1>0, Zenon DEF Shape, IsBase, PendingOps
    <2> QED BY <1>0, <2>1, <2>2, Ops3 DEF NoForgottenTimelock
  <1>15. Shape'
    <2>1. rotation' \in Generations /\ timelock' \in TimelockOps \cup {NoOp}
      BY <1>0, <1>1, <1>4, <1>6, <1>13, <1>14, Zenon DEF Shape
    <2>2. nextId' \in Nat
      BY <1>1, <1>2
    <2> QED BY <1>0, <1>1, <1>3, <1>7, <1>9, <1>10, <2>1, <2>2, Zenon DEF Shape
  <1>16. Numbered'
    <2>1. \A i \in Ids : OpOf(kind) = ActivationOp(i) => i < nextId + 1
      <3>1. CASE kind = "ScheduleActivation"
        BY <1>2, <1>5, <3>1, Ops3
      <3>2. CASE kind = "ScheduleRotation"
        BY <1>5, <3>2, Ops3, Zenon
      <3>3. CASE kind \in ExecuteKinds \cup {"CancelTimelock"}
        BY <1>0, <1>2, <1>5, <3>3 DEF Numbered, Ids
      <3>4. CASE lane = "runtime"
        BY <1>5, <3>4, Ops3
      <3> QED BY <1>2, <3>1, <3>2, <3>3, <3>4, Kinds3, Zenon DEF ScheduleKinds
    <2>2. \A i \in Ids : timelock' = ActivationOp(i) => i < nextId + 1
      BY <1>0, <1>2, <1>13, <2>1 DEF Numbered, Ids
    <2>3. /\ \A a \in signed : a.id < nextId + 1
          /\ \A r \in receipts : r.id < nextId + 1
      BY <1>0, <1>2 DEF Numbered, Shape, IsArtifact
    <2>4. ASSUME NEW l \in Lanes, pending'[l] # None
          PROVE  /\ pending'[l].id < nextId + 1
                 /\ \A i \in Ids : pending'[l].op = ActivationOp(i) => i < nextId + 1
                 /\ \A m \in Lanes : l # m => pending'[l].id # pending'[m].id
      <3>1. ASSUME NEW m \in Lanes PROVE pending[m].id # nextId
        <4>1. pending[m] # None => pending[m].id \in Nat /\ pending[m].id < nextId
          BY <1>0, PendingType, Zenon DEF Numbered
        <4>2. pending[m] = None => pending[m].id = -1
          BY <1>0, PendingType, Zenon
        <4> QED BY <1>2, <4>1, <4>2
      <3>2. CASE l = lane
        BY <1>2, <1>3, <1>9, <2>1, <3>1, <3>2
      <3>3. CASE l # lane
        <4>1. pending'[l] = pending[l] /\ pending[l].id \in Nat /\ pending[l].id < nextId
          BY <1>0, <1>9, <2>4, <3>3, PendingType, Zenon DEF Numbered
        <4>2. \A i \in Ids : pending[l].op = ActivationOp(i) => i < nextId
          BY <1>0, <2>4, <4>1, Zenon DEF Numbered
        <4> QED BY <1>0, <1>2, <1>3, <1>9, <2>4, <3>1, <4>1, <4>2 DEF Numbered, Ids
      <3> QED BY <3>2, <3>3, Zenon
    <2> QED BY <1>1, <2>2, <2>3, <2>4, Zenon DEF Numbered
  <1>17. OnRecord'
    <2>1. ASSUME NEW l \in Lanes, pending'[l] # None
          PROVE  /\ \A a \in signed' : a.id = pending'[l].id =>
                      /\ a.role = l /\ a.kind = pending'[l].kind /\ a.op = pending'[l].op
                      /\ pending'[l].state = "Signed"
                 /\ HasReceipt(pending[l])' => pending'[l].state = "Signed"
      <3>1. CASE l = lane
        <4>1. ~HasReceipt(pending[l])'
          <5>1. pending'[l] = tx /\ receipts' = receipts
            BY <1>1, <1>9, <3>1, Zenon
          <5> QED BY <1>11, <5>1, Zenon DEF HasReceipt
        <4> QED BY <1>1, <1>9, <1>11, <3>1, <4>1, Zenon
      <3>2. CASE l # lane
        BY <1>0, <1>1, <1>9, <2>1, <3>2, Zenon DEF OnRecord, HasReceipt
      <3> QED BY <3>1, <3>2, Zenon
    <2> QED BY <2>1, Zenon DEF OnRecord
  <1>18. LanesOk'
    <2>1. ASSUME NEW l \in Lanes \ carried PROVE LaneOk(l)'
      <3>0. LaneOk(l)
        BY <1>0, Zenon DEF LanesOk
      <3>1. CASE l = lane
        <4>1. account[lane][key] = handler.nonce
          BY <1>0, <1>1, <1>2, <3>0, <3>1, <2>1, Zenon DEF LaneOk, HandlerOk
        <4>2. ASSUME NEW a \in signed PROVE ~(a.role = lane /\ a.key = key)
          <5>1. a.id \in Nat
            BY <1>0, Zenon DEF Shape, IsArtifact
          <5>2. pending[lane].id = -1
            BY <1>0, <1>2, PendingType, Zenon
          <5>3. a.role = l /\ a.key = key => a.id = pending[l].id
            BY <3>0, Zenon DEF LaneOk
          <5> QED BY <3>1, <5>1, <5>2, <5>3
        <4>3. pending'[l] = tx /\ receipts' = receipts /\ signed' = signed /\ account' = account /\ key' = key
          BY <1>1, <1>9, <3>1, Zenon
        <4>4. ~HasReceipt(pending[l])' /\ ~Landed(pending[l], TRUE)'
          BY <1>11, <4>3, Zenon DEF HasReceipt, Landed
        <4> QED BY <1>3, <1>8, <1>10, <1>11, <3>1, <4>1, <4>2, <4>3, <4>4, Zenon DEF LaneOk
      <3>2. CASE l # lane
        BY <1>1, <1>9, <1>10, <3>0, <3>2, Zenon DEF LaneOk, HasReceipt, Landed
      <3> QED BY <3>1, <3>2, Zenon
    <2> QED BY <1>1, <2>1, Zenon DEF LanesOk
  <1>19. HandlerOk'
    BY <1>1, <1>2, Zenon DEF HandlerOk, Signing
  <1>20. /\ lane = "governance" => Gov' = tx /\ Gov = None /\ Canceller' = Canceller
         /\ lane = "canceller" => Gov' = Gov /\ Canceller' = tx
         /\ lane = "runtime" => Gov' = Gov /\ Canceller' = Canceller
    BY <1>2, <1>9, Kinds3, Zenon DEF Gov, Canceller
  <1>21. Rotations'
    <2>1. kind = "ExecuteActivation" => timelock[1] = "activation"
      <3> SUFFICES ASSUME kind = "ExecuteActivation" PROVE timelock[1] = "activation"
        BY Zenon
      <3>1. timelock \in TimelockOps /\ rotation = 0
        BY <1>1, <1>4, Zenon DEF Encodable, ExecuteKinds
      <3>2. \A g \in Generations \ {0} : timelock # RotationOp(g)
        BY <1>0, <3>1, Zenon DEF Rotations
      <3>3. PICK i \in Ids : timelock = ActivationOp(i)
        BY <3>1, <3>2, Ops3, Zenon
      <3> QED BY <3>3, Zenon DEF ActivationOp
    <2>2. kind = "ExecuteRotation" => timelock = RotationOp(key + 1)
      BY <1>0, <1>1, Zenon DEF Encodable, Rotations
    <2>3. ASSUME lane = "governance"
          PROVE  /\ kind \in RotationKinds => OpOf(kind) = RotationOp(key + 1)
                 /\ kind \in ActivationKinds => OpOf(kind)[1] = "activation"
      BY <1>5, <2>1, <2>2 DEF RotationKinds, ActivationKinds, ExecuteKinds, ActivationOp
    <2>4. /\ rotation' # 0 => rotation' = key + 1 /\ timelock' = RotationOp(rotation')
          /\ \A g \in Generations \ {0} : timelock' = RotationOp(g) => rotation' = g
      <3>1. CASE kind = "ScheduleRotation"
        BY <1>1, <1>5, <1>13, <3>1, Ops3, Zenon DEF ScheduleKinds
      <3>2. CASE kind = "ScheduleActivation"
        BY <1>1, <1>5, <1>13, <1>14, <3>2, Ops3, Zenon DEF ScheduleKinds
      <3>3. CASE ~schedules
        BY <1>0, <1>1, <1>13, <3>3, Zenon DEF Rotations, ScheduleKinds
      <3> QED BY <3>1, <3>2, <3>3, Zenon DEF ScheduleKinds
    <2>5. Gov' # None => /\ Gov'.kind \in RotationKinds => Gov'.op = RotationOp(key + 1)
                         /\ Gov'.kind \in ActivationKinds => Gov'.op[1] = "activation"
      BY <1>0, <1>2, <1>3, <1>20, <2>3, Kinds3, Zenon DEF Rotations
    <2> QED BY <1>0, <1>1, <2>4, <2>5, Zenon DEF Rotations
  <1>22. Receipts'
    <2>1. CASE lane = "governance"
      <3>1. ~Landed(Gov, TRUE)'
        BY <1>1, <1>11, <1>20, <2>1, Zenon DEF Landed
      <3>2. Scheduled' => timelock' = Gov'.op /\ Gov'.op \notin PendingOps(base)
        BY <1>3, <1>13, <1>14, <1>20, <2>1, Zenon DEF Scheduled
      <3>3. ASSUME Canceller # None, Landed(Canceller, TRUE)', timelock' = Canceller.op
            PROVE  Canceller.op \notin PendingOps(base) /\ ~Scheduled'
        <4>1. Landed(Canceller, TRUE)
          BY <1>1, <1>20, <2>1, <3>3, Zenon DEF Landed
        <4>2. kind # "ScheduleRotation"
          BY <1>1, <3>3, Zenon DEF Storable, RotationKinds, Canceller
        <4>3. kind # "ScheduleActivation"
          <5>1. \A i \in Ids : Canceller.op = ActivationOp(i) => i < nextId
            BY <1>0, <3>3, GovType, Zenon DEF Numbered, Canceller
          <5> QED BY <1>2, <1>5, <1>13, <3>3, <5>1 DEF ScheduleKinds
        <4>4. ~schedules
          BY <4>2, <4>3, Zenon DEF ScheduleKinds
        <4> QED BY <1>0, <1>3, <1>13, <1>20, <2>1, <3>3, <4>1, <4>4, Zenon DEF Receipts, Scheduled
      <3> QED BY <1>1, <1>20, <2>1, <3>1, <3>2, <3>3, Zenon DEF Receipts
    <2>2. CASE lane = "canceller"
      <3>1. ~Landed(Canceller, TRUE)'
        BY <1>1, <1>11, <1>20, <2>2, Zenon DEF Landed
      <3>2. Landed(Gov, TRUE)' <=> Landed(Gov, TRUE)
        BY <1>1, <1>20, <2>2, Zenon DEF Landed
      <3>3. timelock' = timelock
        BY <1>13, <1>14, <2>2, Zenon
      <3> QED BY <1>0, <1>1, <1>20, <2>2, <3>1, <3>2, <3>3, Zenon DEF Receipts, Scheduled
    <2>3. CASE lane = "runtime"
      <3>1. /\ Landed(Gov, TRUE)' <=> Landed(Gov, TRUE)
            /\ Landed(Canceller, TRUE)' <=> Landed(Canceller, TRUE)
        BY <1>1, <1>20, <2>3, Zenon DEF Landed
      <3>2. timelock' = timelock
        BY <1>13, <1>14, <2>3, Zenon
      <3> QED BY <1>0, <1>1, <1>20, <2>3, <3>1, <3>2, Zenon DEF Receipts, Scheduled
    <2> QED BY <1>2, <2>1, <2>2, <2>3, Kinds3, Zenon
  <1>23. NoForgottenTimelock'
    BY <1>0, <1>1, <1>6, <1>13, <1>14, Ops3, Zenon DEF NoForgottenTimelock
  <1>24. RolesOf(IF Rotated THEN key + 1 ELSE key)'
    <2>1. Rotated' <=> Rotated
      <3>1. CASE lane = "governance"
        <4>1. ~Landed(Gov, TRUE)'
          BY <1>1, <1>11, <1>20, <3>1, Zenon DEF Landed
        <4> QED BY <1>20, <3>1, <4>1, Zenon DEF Rotated
      <3>2. CASE lane # "governance"
        BY <1>1, <1>2, <1>20, <3>2, Kinds3, Zenon DEF Rotated, Landed
      <3> QED BY <3>1, <3>2, Zenon
    <2> QED BY <1>1, <2>1, Zenon DEF IndInv, RolesOf
  <1> QED BY <1>15, <1>16, <1>17, <1>18, <1>19, <1>21, <1>22, <1>23, <1>24, Zenon DEF IndInv

\* A refused transaction leaves the nonce Base expects in a lane that had none.
LEMMA RefusedStep ==
  ASSUME IndInv, StoreRefused
  PROVE  IndInv'
  <1> DEFINE lane == LaneOf(handler.kind)
  <1>0. Shape /\ Numbered /\ OnRecord /\ LanesOk /\ HandlerOk /\ Rotations /\ Receipts /\ NoForgottenTimelock
    BY Zenon DEF IndInv
  <1>1. /\ handler.at = "store" /\ handler' = Idle
        /\ nonce' = [nonce EXCEPT ![lane] = IF nonce[lane] = -1 THEN handler.nonce ELSE nonce[lane]]
        /\ UNCHANGED <<pending, nextId, timelock, rotation, key, emergency, carried, base, account,
                       signed, receipts>>
    BY Zenon DEF StoreRefused, baseVars
  <1>2. lane \in Lanes /\ handler.nonce \in Int /\ pending[lane] = None
    BY <1>0, <1>1, Kinds3, Zenon DEF HandlerOk
  <1>3. /\ nonce \in [Lanes -> Int] /\ nonce' \in [Lanes -> Int]
        /\ nonce'[lane] = (IF nonce[lane] = -1 THEN handler.nonce ELSE nonce[lane])
        /\ \A l \in Lanes : l # lane => nonce'[l] = nonce[l]
    BY <1>0, <1>1, <1>2, Zenon DEF Shape
  <1>4. Shape'
    BY <1>0, <1>1, <1>3, Zenon DEF Shape
  <1>9. Numbered' /\ OnRecord'
    BY <1>0, <1>1, Zenon DEF Numbered, OnRecord, HasReceipt
  <1>5. LanesOk'
    <2>1. ASSUME NEW l \in Lanes \ carried PROVE LaneOk(l)'
      <3>0. LaneOk(l)
        BY <1>0, Zenon DEF LanesOk
      <3>1. CASE l = lane
        <4>1. handler.nonce = IF nonce[l] = -1 THEN account[l][key] ELSE nonce[l]
          BY <1>0, <1>1, <2>1, <3>1, Zenon DEF HandlerOk
        <4>2. nonce[l] \in {-1, account[l][key]}
          BY <1>2, <3>0, <3>1, Zenon DEF LaneOk
        <4>3. nonce'[l] \in {-1, account[l][key]} /\ pending'[l] = None
          BY <1>1, <1>2, <1>3, <3>1, <4>1, <4>2, Zenon
        <4> QED BY <1>1, <3>0, <4>3, Zenon DEF LaneOk, HasReceipt, Landed
      <3>2. CASE l # lane
        BY <1>1, <1>3, <3>0, <3>2, Zenon DEF LaneOk, HasReceipt, Landed
      <3> QED BY <3>1, <3>2, Zenon
    <2> QED BY <1>1, <2>1, Zenon DEF LanesOk
  <1>6. HandlerOk'
    BY <1>1, Zenon DEF HandlerOk, Idle
  <1>7. Rotations' /\ Receipts' /\ NoForgottenTimelock'
    BY <1>0, <1>1, Zenon DEF Rotations, Receipts, NoForgottenTimelock, Scheduled, Landed, Gov, Canceller
  <1>8. RolesOf(IF Rotated THEN key + 1 ELSE key)'
    BY <1>1, Zenon DEF IndInv, RolesOf, Rotated, Landed, Gov
  <1> QED BY <1>4, <1>5, <1>6, <1>7, <1>8, <1>9, Zenon DEF IndInv

\* A confirmation: the receipt in hand says that a settled operation is over, and
\* only an executed rotation changes the keys.
LEMMA CompleteStep ==
  ASSUME IndInv, ConfirmCompletes
  PROVE  IndInv'
  <1>0. Shape /\ Numbered /\ OnRecord /\ LanesOk /\ HandlerOk /\ Rotations /\ Receipts /\ NoForgottenTimelock
    BY Zenon DEF IndInv
  <1>1. handler.lane \in Lanes /\ handler.ok \in BOOLEAN
    BY <1>0, Zenon DEF HandlerOk, ConfirmCompletes
  <1>l. PICK ln \in Lanes, ok \in BOOLEAN : ln = handler.lane /\ ok = handler.ok
    BY <1>1, Zenon
  <1>2. PICK tx : ln = handler.lane /\ ok = handler.ok /\ tx = pending[ln]
    BY <1>l, Zenon
  <1> DEFINE settles == SettlesTimelock(tx, ok)
             rotated == KeyAfter(tx, ok) # key
  <1>3. /\ settles => timelock = tx.op
        /\ settles /\ tx.kind \in RotationKinds => rotation = tx.op[2]
        /\ pending' = [pending EXCEPT ![ln] = None]
        /\ timelock' = IF settles THEN NoOp ELSE timelock
        /\ rotation' = IF settles /\ tx.kind \notin ActivationKinds THEN 0 ELSE rotation
        /\ emergency' = emergency \ Discharged(tx, ok)
        /\ key' = KeyAfter(tx, ok)
        /\ nonce' = IF rotated THEN [l \in Lanes |-> -1] ELSE nonce
        /\ carried' = IF rotated THEN carried \cup {l \in Lanes : pending'[l] # None} ELSE carried
        /\ receipts' = {r \in receipts : r.id # tx.id}
        /\ handler' = Idle
        /\ UNCHANGED <<nextId, base, account, signed>>
    BY <1>2, Zenon DEF ConfirmCompletes
  <1>4. tx # None /\ Landed(tx, ok) /\ IsTx(tx) /\ LaneOf(tx.kind) = ln /\ tx.kind \in Kinds
    <2>1. tx # None /\ Landed(tx, ok)
      BY <1>0, <1>2, Zenon DEF HandlerOk, ConfirmCompletes
    <2> QED BY <1>0, <1>2, <2>1, Zenon DEF Shape, IsTx
  <1>5. HasReceipt(tx) /\ tx.id \in Nat
    BY <1>4, Zenon DEF HasReceipt, Landed, IsTx
  <1>6. /\ pending' = [l \in Lanes |-> pending'[l]] /\ pending'[ln] = None
        /\ \A l \in Lanes : l # ln => pending'[l] = pending[l]
    BY <1>0, <1>3, Zenon DEF Shape
  <1>8. /\ ln = "governance" <=> tx = Gov /\ tx.kind \in ScheduleKinds \cup ExecuteKinds
        /\ ln = "canceller" <=> tx = Canceller /\ tx.kind = "CancelTimelock"
        /\ ln = "governance" => tx = Gov
        /\ ln = "canceller" => tx = Canceller
    BY <1>2, <1>4, Kinds3, Zenon DEF Gov, Canceller
  <1>9. LaneOk("governance")
    BY <1>0, Kinds3, Zenon DEF LanesOk, Rotations
  <1>10. ln = "governance" => ~(Landed(Gov, TRUE) /\ Landed(Gov, FALSE))
    BY <1>4, <1>8, <1>9, Zenon DEF LaneOk, Gov
  <1>11. settles => ln # "runtime"
    BY <1>4, <1>8, Kinds3, Zenon DEF SettlesTimelock, ScheduleKinds, ExecuteKinds
  <1>12. settles => tx.op \notin PendingOps(base)
    <2>0. (ok => Landed(tx, TRUE)) /\ (~ok => Landed(tx, FALSE))
      <3>1. CASE ok = TRUE
        BY <1>4, <3>1, Zenon
      <3>2. CASE ok = FALSE
        BY <1>4, <3>2, Zenon
      <3> QED BY <3>1, <3>2, Zenon
    <2>1. CASE tx.kind = "CancelTimelock" /\ ok
      <3>1. settles /\ timelock = tx.op
        BY <1>3, <2>1, Zenon DEF SettlesTimelock
      <3>2. tx = Canceller /\ Landed(Canceller, TRUE)
        BY <1>8, <2>0, <2>1, <1>4, Kinds3, Zenon
      <3> QED BY <1>0, <1>4, <3>1, <3>2, Zenon DEF Receipts
    <2>2. CASE tx.kind \in ExecuteKinds /\ ok
      <3>1. tx = Gov /\ Landed(Gov, TRUE)
        BY <1>8, <2>0, <2>2, <1>4, Kinds3, Zenon
      <3>2. base.ops[tx.op] = "done"
        BY <1>0, <1>4, <2>2, <3>1, Zenon DEF Receipts
      <3> QED BY <3>2, Zenon DEF PendingOps
    <2>3. CASE tx.kind \in ScheduleKinds /\ ~ok
      <3>1. ln = "governance" /\ tx = Gov /\ ~Landed(Gov, TRUE)
        BY <1>4, <1>8, <1>10, <2>0, <2>3, Kinds3, Zenon
      <3> QED BY <1>0, <1>4, <2>3, <3>1, Zenon DEF Receipts, Scheduled
    <2> QED BY <2>1, <2>2, <2>3, Zenon DEF SettlesTimelock, ScheduleKinds, ExecuteKinds
  <1>13. settles => PendingOps(base) = {}
    BY <1>0, <1>3, <1>12, Zenon DEF NoForgottenTimelock
  <1>14. /\ rotated => /\ tx.kind = "ExecuteRotation" /\ ok /\ settles /\ ln = "governance"
                       /\ key' = key + 1 /\ key' \in Generations /\ Rotated
         /\ ~rotated => key' = key /\ ~(tx.kind = "ExecuteRotation" /\ ok)
    <2>0. key \in Nat /\ rotation \in Generations
      BY <1>0, GovernanceAssumption DEF Shape, Generations
    <2>1. CASE tx.kind = "ExecuteRotation" /\ ok
      <3>1. settles /\ ln = "governance" /\ tx = Gov
        BY <1>4, <1>8, <2>1, Kinds3, Zenon DEF SettlesTimelock, ExecuteKinds
      <3>2. tx.op = RotationOp(key + 1)
        BY <1>0, <1>4, <2>1, <3>1, Zenon DEF Rotations, RotationKinds
      <3>3. tx.op[2] = key + 1
        BY <3>2 DEF RotationOp
      <3>4. KeyAfter(tx, ok) = key + 1 /\ rotation = key + 1
        BY <1>3, <2>1, <3>1, <3>3, Zenon DEF KeyAfter, RotationKinds
      <3>5. ok = TRUE
        BY <2>1, Zenon
      <3>6. Rotated
        BY <1>4, <2>1, <3>1, <3>5, Zenon DEF Rotated
      <3>7. key' = KeyAfter(tx, ok)
        BY <1>3, Zenon
      <3>8. rotated /\ key' = key + 1 /\ key' \in Generations
        BY <2>0, <3>4, <3>7
      <3> QED BY <2>1, <3>1, <3>6, <3>8, Zenon
    <2>2. CASE ~(tx.kind = "ExecuteRotation" /\ ok)
      BY <1>3, <2>2, Zenon DEF KeyAfter
    <2> QED BY <2>1, <2>2, Zenon
  <1>15. settles /\ rotation # 0 => tx.kind \notin ActivationKinds
    <2>1. ASSUME settles, tx.kind \in ActivationKinds PROVE rotation = 0
      <3>1. ln = "governance" /\ tx = Gov
        BY <1>4, <1>8, <2>1, Kinds3, Zenon DEF ActivationKinds, ScheduleKinds, ExecuteKinds
      <3>2. timelock[1] = "activation"
        BY <1>0, <1>3, <1>4, <2>1, <3>1, Zenon DEF Rotations
      <3> QED BY <1>0, <3>2, RotationOnRecord, Zenon
    <2> QED BY <2>1, Zenon
  <1> HIDE DEF settles, rotated
  <1>16. Shape'
    <2>1. rotation' \in Generations /\ timelock' \in TimelockOps \cup {NoOp}
      BY <1>0, <1>3, GovernanceAssumption DEF Shape, Generations
    <2>2. nonce' \in [Lanes -> Int]
      BY <1>0, <1>3 DEF Shape
    <2>3. key' \in Generations /\ key <= key'
      BY <1>0, <1>14, GovernanceAssumption DEF Shape, Generations
    <2>4. ASSUME NEW a \in signed PROVE IsArtifact(a) /\ a.key <= key'
      <3>1. IsArtifact(a) /\ a.key <= key
        BY <1>0, Zenon DEF Shape
      <3>2. a.key \in Generations /\ key \in Generations
        BY <1>0, <3>1, Zenon DEF Shape, IsArtifact
      <3> QED BY <2>3, <3>1, <3>2, GovernanceAssumption DEF Generations
    <2> QED BY <1>0, <1>3, <1>6, <2>1, <2>2, <2>3, <2>4, Zenon DEF Shape
  <1>17. Numbered'
    <2>1. \A i \in Ids : timelock' = ActivationOp(i) => i < nextId
      BY <1>0, <1>3, Ops3, Zenon DEF Numbered, NoOp, ActivationOp
    <2>2. \A l \in Lanes : pending'[l] # None => pending'[l] = pending[l]
      BY <1>6, Zenon
    <2>3. ASSUME NEW l \in Lanes, NEW m \in Lanes, l # m, pending'[l] # None
          PROVE  pending'[l].id # pending'[m].id
      <3>1. pending'[l] = pending[l] /\ pending[l].id \in Nat
        BY <1>0, <2>2, <2>3, PendingType, Zenon
      <3>2. pending'[m] = pending[m] \/ pending'[m] = None
        BY <1>6, Zenon
      <3>3. pending[l].id # pending[m].id
        BY <1>0, <2>3, <3>1, Zenon DEF Numbered
      <3>4. None.id = -1
        BY Zenon DEF None
      <3> QED BY <3>1, <3>2, <3>3, <3>4
    <2> QED BY <1>0, <1>3, <2>1, <2>2, <2>3, Zenon DEF Numbered
  <1>18. OnRecord'
    <2>1. ASSUME NEW l \in Lanes, pending'[l] # None
          PROVE  /\ \A a \in signed' : a.id = pending'[l].id =>
                      /\ a.role = l /\ a.kind = pending'[l].kind /\ a.op = pending'[l].op
                      /\ pending'[l].state = "Signed"
                 /\ HasReceipt(pending[l])' => pending'[l].state = "Signed"
      <3>1. l # ln /\ pending'[l] = pending[l]
        BY <1>6, <2>1, Zenon
      <3>2. HasReceipt(pending[l])' => HasReceipt(pending[l])
        BY <1>3, <3>1, Zenon DEF HasReceipt
      <3>3. signed' = signed
        BY <1>3, Zenon
      <3>4. /\ \A a \in signed : a.id = pending[l].id =>
                 /\ a.role = l /\ a.kind = pending[l].kind /\ a.op = pending[l].op
                 /\ pending[l].state = "Signed"
            /\ HasReceipt(pending[l]) => pending[l].state = "Signed"
        BY <1>0, <2>1, <3>1, Zenon DEF OnRecord
      <3> QED BY <3>1, <3>2, <3>3, <3>4, Zenon
    <2> QED BY <2>1, Zenon DEF OnRecord
  <1>19. HandlerOk'
    BY <1>3, Zenon DEF HandlerOk, Idle
  <1>20. LanesOk'
    <2>1. ASSUME NEW l \in Lanes \ carried' PROVE LaneOk(l)'
      <3>1. CASE rotated
        <4>1. pending'[l] = None /\ nonce'[l] = -1
          BY <1>3, <2>1, <3>1, Zenon
        <4>2. \A a \in signed : a.key # key'
          <5>1. \A a \in signed : a.key \in Nat /\ a.key <= key
            BY <1>0, GovernanceAssumption DEF Shape, IsArtifact, Generations
          <5>2. key \in Nat /\ key' = key + 1
            BY <1>0, <1>14, <3>1, GovernanceAssumption DEF Shape, Generations
          <5> QED BY <5>1, <5>2
        <4> QED BY <1>3, <4>1, <4>2, Zenon DEF LaneOk
      <3>2. CASE ~rotated
        <4>0. LaneOk(l) /\ nonce' = nonce /\ key' = key /\ account' = account /\ signed' = signed
          BY <1>0, <1>3, <1>14, <2>1, <3>2, Zenon DEF LanesOk
        <4>1. CASE l = ln
          <5>1. tx = pending[l] /\ pending'[l] = None
            BY <1>2, <1>6, <4>1, Zenon
          <5>2. nonce[l] = account[l][key] /\ \A a \in signed : ~(a.role = l /\ a.key = key)
            BY <1>4, <1>5, <4>0, <5>1, Zenon DEF LaneOk
          <5> QED BY <4>0, <5>1, <5>2, Zenon DEF LaneOk
        <4>2. CASE l # ln /\ pending[l] # None
          <5>1. /\ pending'[l] = pending[l]
                /\ HasReceipt(pending[l])' <=> HasReceipt(pending[l])
                /\ Landed(pending[l], TRUE)' => Landed(pending[l], TRUE)
                /\ Landed(pending[l], FALSE)' => Landed(pending[l], FALSE)
            <6>1. pending'[l] = pending[l] /\ pending[l].id # tx.id
              BY <1>0, <1>2, <1>6, <4>2, Zenon DEF Numbered
            <6>2. HasReceipt(pending[l])' <=> HasReceipt(pending[l])
              BY <1>3, <6>1, Zenon DEF HasReceipt
            <6>3. receipts' \subseteq receipts
              BY <1>3, Zenon
            <6> QED BY <6>1, <6>2, <6>3, Zenon DEF Landed
          <5> QED BY <4>0, <4>2, <5>1, Zenon DEF LaneOk
        <4>3. CASE l # ln /\ pending[l] = None
          <5>1. pending'[l] = None
            BY <1>6, <4>3, Zenon
          <5> QED BY <4>0, <4>3, <5>1, Zenon DEF LaneOk
        <4> QED BY <4>1, <4>2, <4>3, Zenon
      <3> QED BY <3>1, <3>2, Zenon
    <2> QED BY <2>1, Zenon DEF LanesOk
  <1>21. /\ Gov' # None => ln # "governance" /\ Gov' = Gov /\ key' = key
         /\ Canceller' # None => ln # "canceller" /\ Canceller' = Canceller
         /\ Landed(Gov, TRUE)' /\ Gov' = Gov => Landed(Gov, TRUE)
         /\ Landed(Canceller, TRUE)' /\ Canceller' = Canceller => Landed(Canceller, TRUE)
    <2>1. /\ Gov' # None => ln # "governance" /\ Gov' = Gov
          /\ Canceller' # None => ln # "canceller" /\ Canceller' = Canceller
      BY <1>6, Kinds3, Zenon DEF Gov, Canceller
    <2>2. receipts' \subseteq receipts
      BY <1>3, Zenon
    <2> QED BY <1>14, <2>1, <2>2, Zenon DEF Landed
  <1>22. Gov' # None => (Landed(Gov, TRUE)' <=> Landed(Gov, TRUE))
    <2> SUFFICES ASSUME Gov' # None PROVE Landed(Gov, TRUE) => Landed(Gov, TRUE)'
      BY <1>21, Zenon
    <2>1. Gov' = Gov /\ Gov # None /\ ln # "governance"
      BY <1>21, Zenon
    <2>2. Gov.id # tx.id
      BY <1>0, <1>2, <2>1, Kinds3, Zenon DEF Numbered, Gov
    <2>3. \A i : i # tx.id /\ [id |-> i, ok |-> TRUE] \in receipts => [id |-> i, ok |-> TRUE] \in receipts'
      BY <1>3, Zenon
    <2> QED BY <2>1, <2>2, <2>3, Zenon DEF Landed
  <1>23. Rotations'
    <2>1. /\ "governance" \notin carried'
          /\ \A a \in signed' : a.role = "governance" => a.key = key'
      <3>1. CASE rotated
        <4>1. \A a \in signed : a.role # "governance"
          BY <1>0, <1>2, <1>4, <1>5, <1>9, <1>14, <3>1, Zenon DEF Rotations, LaneOk
        <4> QED BY <1>0, <1>3, <1>6, <1>14, <3>1, <4>1, Zenon DEF Rotations
      <3>2. CASE ~rotated
        BY <1>0, <1>3, <1>14, <3>2, Zenon DEF Rotations
      <3> QED BY <3>1, <3>2, Zenon
    <2>2. rotation' # 0 => ~settles
      BY <1>3, <1>15, Zenon
    <2>3. rotation' # 0 => rotation' = key' + 1 /\ timelock' = RotationOp(rotation')
      BY <1>0, <1>3, <1>14, <2>2, Zenon DEF Rotations
    <2>4. \A g \in Generations \ {0} : timelock' = RotationOp(g) => rotation' = g
      BY <1>0, <1>3, Ops3, Zenon DEF Rotations
    <2>5. Gov' # None => /\ Gov'.kind \in RotationKinds => Gov'.op = RotationOp(key' + 1)
                         /\ Gov'.kind \in ActivationKinds => Gov'.op[1] = "activation"
      BY <1>0, <1>21, Zenon DEF Rotations
    <2> QED BY <2>1, <2>3, <2>4, <2>5, Zenon DEF Rotations
  <1>24. Scheduled' => Scheduled /\ ~settles
    <2> SUFFICES ASSUME Scheduled' PROVE Scheduled /\ ~settles
      BY Zenon
    <2>1. Scheduled /\ ln # "governance"
      BY <1>21, <1>22, Zenon DEF Scheduled
    <2>2. ASSUME settles PROVE FALSE
      <3>1. ln = "canceller" /\ tx = Canceller /\ tx.kind = "CancelTimelock" /\ timelock = tx.op
        BY <1>3, <1>8, <1>11, <2>1, <2>2, <1>4, Kinds3, Zenon
      <3>2. ok = TRUE
        BY <2>2, <3>1, Zenon DEF settles, SettlesTimelock
      <3> QED BY <1>0, <1>4, <2>1, <3>1, <3>2, Zenon DEF Receipts
    <2> QED BY <2>1, <2>2, Zenon
  <1>25. Receipts'
    <2>1. Scheduled' => timelock' = Gov'.op /\ Gov'.op \notin PendingOps(base)
      BY <1>0, <1>3, <1>21, <1>24, Zenon DEF Receipts, Scheduled
    <2>2. Gov' # None /\ Gov'.kind \in ExecuteKinds /\ Landed(Gov, TRUE)' => base.ops[Gov'.op] = "done"
      BY <1>0, <1>21, Zenon DEF Receipts
    <2>3. ASSUME Canceller' # None, Landed(Canceller, TRUE)', timelock' = Canceller'.op
          PROVE  Canceller'.op \notin PendingOps(base) /\ ~Scheduled'
      <3>1. Canceller' = Canceller /\ Landed(Canceller, TRUE)
        BY <1>21, <2>3, Zenon
      <3>2. timelock' # NoOp
        BY <1>0, <2>3, <3>1, GovType, Ops3, Zenon
      <3> QED BY <1>0, <1>3, <1>24, <2>3, <3>1, <3>2, Zenon DEF Receipts
    <2> QED BY <1>3, <2>1, <2>2, <2>3, Zenon DEF Receipts
  <1>26. NoForgottenTimelock'
    <2>1. PendingOps(base) \subseteq {timelock'}
      BY <1>0, <1>3, <1>13, Zenon DEF NoForgottenTimelock
    <2>2. emergency' \subseteq emergency /\ (settles => "cancel" \notin emergency')
      BY <1>3, Zenon DEF Discharged, settles
    <2> QED BY <1>0, <1>3, <2>1, <2>2, Zenon DEF NoForgottenTimelock
  <1>27. RolesOf(IF Rotated THEN key + 1 ELSE key)'
    <2>1. RolesOf(IF Rotated THEN key + 1 ELSE key)
      BY Zenon DEF IndInv
    <2>2. RolesOf(IF Rotated' THEN key' + 1 ELSE key')
      <3>1. CASE rotated
        <4>1. ~Rotated' /\ Rotated /\ key' = key + 1
          BY <1>14, <1>21, <3>1, Zenon DEF Rotated
        <4> QED BY <2>1, <4>1, Zenon
      <3>2. CASE ~rotated /\ ln = "governance"
        <4>1. ~Rotated'
          BY <1>21, <3>2, Zenon DEF Rotated
        <4>2. ~Rotated
          <5> SUFFICES ASSUME Rotated PROVE FALSE
            BY Zenon
          <5>1. ok = FALSE
            BY <1>8, <1>14, <3>2, Zenon DEF Rotated
          <5> QED BY <1>4, <1>8, <1>10, <3>2, <5>1, Zenon DEF Rotated
        <4> QED BY <1>14, <2>1, <3>2, <4>1, <4>2, Zenon
      <3>3. CASE ~rotated /\ ln # "governance"
        <4>1. Gov' = Gov /\ key' = key
          BY <1>6, <1>14, <3>3, Kinds3, Zenon DEF Gov
        <4>2. Rotated' <=> Rotated
          BY <1>22, <4>1, Zenon DEF Rotated
        <4> QED BY <2>1, <4>1, <4>2, Zenon
      <3> QED BY <3>1, <3>2, <3>3, Zenon
    <2> QED BY <1>3, <2>2, Zenon DEF RolesOf
  <1> QED BY <1>16, <1>17, <1>18, <1>19, <1>20, <1>23, <1>25, <1>26, <1>27, Zenon DEF IndInv

\* A signature or a replacement returns.
LEMMA SignStep ==
  ASSUME IndInv, SignatureReturns
  PROVE  IndInv'
  <1>l. PICK lane \in Lanes : lane = handler.lane
    BY Zenon DEF IndInv, HandlerOk, SignatureReturns
  <1>1. PICK tx :
          /\ tx = pending[lane] /\ tx.id = handler.id /\ handler.id \in Nat /\ handler' = Idle
          /\ UNCHANGED carried
          /\ \/ Abort(lane) /\ UNCHANGED baseVars
             \/ Publish(lane, [tx EXCEPT !.state = "Signed"])
    BY <1>l, Zenon DEF IndInv, HandlerOk, SignatureReturns
  <1>2. tx # None /\ IsTx(tx)
    BY <1>1, PendingType DEF IndInv, None
  <1>3. CASE Abort(lane) /\ UNCHANGED baseVars
    BY <1>1, <1>2, <1>3, AbortStep, Zenon DEF baseVars
  <1>4. CASE Publish(lane, [tx EXCEPT !.state = "Signed"])
    <2> DEFINE t == [tx EXCEPT !.state = "Signed"]
    <2>1. /\ t.state = "Signed" /\ t.id = tx.id /\ t.kind = tx.kind /\ t.op = tx.op /\ t.nonce = tx.nonce
          /\ IsTx(t)
      BY <1>2, Zenon DEF IsTx
    <2> HIDE DEF t
    <2> QED BY <1>1, <1>2, <1>4, <2>1, PublishStep, Zenon DEF t
  <1> QED BY <1>1, <1>3, <1>4, Zenon

LEMMA ReplaceStep ==
  ASSUME IndInv, ReplacementReturns
  PROVE  IndInv'
  <1>l. PICK lane \in Lanes : lane = handler.lane
    BY Zenon DEF IndInv, HandlerOk, ReplacementReturns
  <1>1. PICK tx :
          /\ tx = pending[lane] /\ tx.id = handler.id /\ handler.id \in Nat /\ tx.state = "Signed"
          /\ handler' = Idle /\ UNCHANGED carried
          /\ Publish(lane, [tx EXCEPT !.gen = @ + 1, !.fee = LeastBump(@)])
    BY <1>l, Zenon DEF IndInv, HandlerOk, ReplacementReturns
  <1>2. tx # None /\ IsTx(tx)
    BY <1>1, PendingType DEF IndInv, None
  <1> DEFINE t == [tx EXCEPT !.gen = @ + 1, !.fee = LeastBump(@)]
  <1>3. /\ t.state = "Signed" /\ t.id = tx.id /\ t.kind = tx.kind /\ t.op = tx.op /\ t.nonce = tx.nonce
        /\ IsTx(t)
    BY <1>1, <1>2, Zenon DEF IsTx
  <1> HIDE DEF t
  <1> QED BY <1>1, <1>2, <1>3, PublishStep, Zenon DEF t

\* The handlers that begin.
LEMMA PrepareStep ==
  ASSUME IndInv, Prepare \/ Sns
  PROVE  IndInv'
  <1>1. PICK c \in Callers, k \in Kinds : BeginPrepare(c, k)
    BY ActionsAssumption, Zenon DEF Prepare, Sns, SnsActivation, Callers
  <1>2. UNCHANGED core /\ UNCHANGED emergency
    BY <1>1, Zenon DEF BeginPrepare, canisterVars, baseVars, core
  <1>3. LaneOf(k) \in Lanes
    BY Kinds3, Zenon
  <1>4. CASE pending[LaneOf(k)] = None /\ handler' = Observing(k)
    BY <1>2, <1>4, BeginStep, Zenon
  <1>5. CASE pending[LaneOf(k)] # None /\ Resume(c, pending[LaneOf(k)])
    <2>1. LaneOf(pending[LaneOf(k)].kind) = LaneOf(k)
      BY <1>3, <1>5, PendingType, Zenon DEF IndInv
    <2>2. handler' = Signing(LaneOf(k), pending[LaneOf(k)].id)
      BY <1>5, <2>1, Zenon DEF Resume
    <2> QED BY <1>2, <1>3, <1>5, <2>2, BeginStep, Zenon
  <1> QED BY <1>1, <1>4, <1>5, Zenon DEF BeginPrepare

LEMMA AgainStep ==
  ASSUME IndInv, Replace \/ Confirm
  PROVE  IndInv'
  <1>1. UNCHANGED core /\ UNCHANGED emergency
    BY Zenon DEF Replace, Confirm, BeginReplacement, BeginConfirm, canisterVars, baseVars, core
  <1>2. \E l \in Lanes : pending[l] # None /\ handler' \in {Replacing(l, pending[l].id), Confirming(l, pending[l].id)}
    BY Zenon DEF Replace, Confirm, BeginReplacement, BeginConfirm
  <1> QED BY <1>1, <1>2, BeginStep, Zenon

LEMMA DrainStep ==
  ASSUME IndInv, DrainEmergency
  PROVE  IndInv'
  <1> DEFINE kind == NextEmergency
             lane == LaneOf(kind)
  <1>1. kind \in EmergencyKinds /\ kind \in Kinds
    BY Zenon DEF NextEmergency, Kinds, EmergencyKinds
  <1>2. lane \in Lanes
    BY <1>1, Kinds3, Zenon
  <1>3. PICK c \in Callers : PrepareNextEmergency(c)
    BY Zenon DEF DrainEmergency
  <1>4. UNCHANGED <<controllers, carried, baseVars>>
    BY <1>3, Zenon DEF PrepareNextEmergency
  <1>5. CASE pending[lane] = None /\ handler' = Observing(kind) /\ UNCHANGED canisterVars
    BY <1>1, <1>4, <1>5, BeginStep, Zenon DEF canisterVars, baseVars, core
  <1>6. CASE pending[lane] # None /\ Resume(c, pending[lane]) /\ UNCHANGED canisterVars
    <2>1. LaneOf(pending[lane].kind) = lane
      BY <1>2, <1>6, PendingType, Zenon DEF IndInv
    <2>2. handler' = Signing(lane, pending[lane].id)
      BY <1>6, <2>1, Zenon DEF Resume
    <2>3. UNCHANGED core /\ UNCHANGED emergency
      BY <1>4, <1>6, Zenon DEF canisterVars, baseVars, core
    <2> QED BY <1>2, <1>6, <2>2, <2>3, BeginStep, Zenon
  <1>7. CASE pending[lane] # None /\ Abort(lane) /\ handler' = Observing(kind)
    <2>1. UNCHANGED <<carried, base, account, signed, receipts>>
      BY <1>4, Zenon DEF baseVars
    <2>2. \E k \in Kinds : LaneOf(k) = lane /\ handler' = Observing(k)
      BY <1>1, <1>7, Zenon
    <2> QED BY <1>2, <1>7, <2>1, <2>2, AbortStep, Zenon
  <1> QED BY <1>3, <1>5, <1>6, <1>7, Zenon DEF PrepareNextEmergency

LEMMA StepInv == IndInv /\ [Next]_vars => IndInv'
  <1> SUFFICES ASSUME IndInv, [Next]_vars PROVE IndInv'
    BY Zenon
  <1>1. CASE \/ BeginSeal \/ SealStores \/ BeginRefreshAttestation \/ RefreshAttestation
             \/ HandlerEnds \/ EmergencyPause \/ PauseNewDeposits \/ HandOver \/ UNCHANGED vars
    BY <1>1, AsideStep, Zenon
  <1>2. CASE Prepare \/ Sns
    BY <1>2, PrepareStep, Zenon
  <1>3. CASE Replace \/ Confirm
    BY <1>3, AgainStep, Zenon
  <1>4. CASE DrainEmergency
    BY <1>4, DrainStep, Zenon
  <1>5. CASE Observe \/ ReceiptArrives
    BY <1>5, ReadStep, Zenon
  <1>6. CASE StorePrepared
    BY <1>6, StoreStep, Zenon
  <1>r. CASE StoreRefused
    BY <1>r, RefusedStep, Zenon
  <1>7. CASE SignatureReturns
    BY <1>7, SignStep, Zenon
  <1>8. CASE ReplacementReturns
    BY <1>8, ReplaceStep, Zenon
  <1>9. CASE ConfirmCompletes
    BY <1>9, CompleteStep, Zenon
  <1>10. CASE RelaySome
    BY <1>10, RelayStep, Zenon DEF RelaySome
  <1>11. CASE DelayEnds
    BY <1>11, DelayStep, Zenon DEF DelayEnds
  <1> QED BY <1>1, <1>2, <1>3, <1>4, <1>5, <1>6, <1>r, <1>7, <1>8, <1>9, <1>10, <1>11, Zenon DEF Next

LEMMA Inductive == Spec => []IndInv
  BY InitInv, StepInv, PTL DEF Spec

----------------------------------------------------------------------------
(* Theorems *)

\* The nonces the canister hands out are the ones Base expects, and nothing else
\* that was signed can take them, in every lane no confirmed rotation overtook
\* (prepare_governance_transaction, the abort and the confirmation keep the lane's
\* counter in step with Base although any relay may happen at any time).
THEOREM NoncesStayUsable == Spec => []NoncesUsable
  <1>1. IndInv => NoncesUsable
    BY Zenon DEF IndInv, LanesOk, LaneOk, HasReceipt, NoncesUsable
  <1> QED BY <1>1, Inductive, PTL

\* The four roles on Base always belong to one generation of keys: the
\* canister's, or the next one while the rotation that was executed awaits its
\* confirmation (confirm_base_governance_transaction moves the canister's keys).
THEOREM RolesFollowKeys == Spec => []RolesFollowRotation
  <1>1. ASSUME IndInv PROVE RolesFollowRotation
    <2>1. key \in Generations
      BY <1>1, Zenon DEF IndInv, Shape
    <2>2. CASE ~Rotated
      BY <1>1, <2>1, <2>2, Zenon DEF IndInv, RolesFollowRotation
    <2>3. CASE Rotated
      <3>1. Gov # None /\ Gov.kind = "ExecuteRotation" /\ Landed(Gov, TRUE)
        BY <2>3, Zenon DEF Rotated
      <3>2. RolesOf(key + 1)
        BY <1>1, <2>3, Zenon DEF IndInv
      <3>3. key + 1 \in Generations
        <4>1. Gov.op = RotationOp(key + 1) /\ Gov.op \in TimelockOps
          BY <1>1, <3>1, GovType, Zenon DEF IndInv, Rotations, RotationKinds
        <4> QED BY <4>1, Ops3, Zenon
      <3> QED BY <3>1, <3>2, <3>3, Zenon DEF RolesFollowRotation, Landed, Gov
    <2> QED BY <2>2, <2>3, Zenon
  <1> QED BY <1>1, Inductive, PTL

\* What waits in the timelock is the operation on the canister's record, so that
\* emergency_pause always asks for its cancellation, and a required cancellation
\* always has an operation to name.
THEOREM TimelockNeverForgotten == Spec => []NoForgottenTimelock
  <1>1. IndInv => NoForgottenTimelock
    BY Zenon DEF IndInv
  <1> QED BY <1>1, Inductive, PTL

\* A dangerous signature is stored only while no emergency action is due, however
\* emergency_pause falls between the awaits of sign_prepared and
\* prepare_replacement; and the canister resumes only without an emergency.
THEOREM NoDangerLeaves == Spec => NoDangerInEmergency
  <1> DEFINE Quietly == /\ \A a \in signed' \ signed : a.kind \in DangerousKinds => emergency = {}
                        /\ icPaused /\ ~icPaused' => emergency' = {}
  <1>1. ASSUME IndInv, [Next]_vars PROVE [Quietly]_vars
    <2>1. CASE SignatureReturns
      <3>l. PICK lane \in Lanes : lane = handler.lane
        BY <1>1, <2>1, Zenon DEF IndInv, HandlerOk, SignatureReturns
      <3>1. PICK tx :
              /\ tx = pending[lane] /\ tx.id = handler.id /\ handler.id \in Nat
              /\ \/ Abort(lane) /\ UNCHANGED baseVars
                 \/ ~HeldBack(tx) /\ Publish(lane, [tx EXCEPT !.state = "Signed"])
        BY <1>1, <2>1, <3>l, Zenon DEF IndInv, HandlerOk, SignatureReturns
      <3>2. IsTx(tx)
        BY <1>1, <3>1, PendingType DEF IndInv, None
      <3>3. icPaused' = icPaused
        BY <3>1, Zenon DEF Abort, Publish
      <3>4. CASE Abort(lane) /\ UNCHANGED baseVars
        BY <3>3, <3>4, Zenon DEF baseVars
      <3>5. CASE ~HeldBack(tx) /\ Publish(lane, [tx EXCEPT !.state = "Signed"])
        <4>1. Artifact([tx EXCEPT !.state = "Signed"]).kind = tx.kind
          BY <3>2, Zenon DEF IsTx, Artifact
        <4>2. \A a \in signed' \ signed : a = Artifact([tx EXCEPT !.state = "Signed"])
          BY <3>5, Zenon DEF Publish
        <4> QED BY <3>3, <3>5, <4>1, <4>2, Zenon DEF HeldBack
      <3> QED BY <3>1, <3>4, <3>5, Zenon
    <2>2. CASE ReplacementReturns
      <3>l. PICK lane \in Lanes : lane = handler.lane
        BY <1>1, <2>2, Zenon DEF IndInv, HandlerOk, ReplacementReturns
      <3>1. PICK tx :
              /\ tx = pending[lane] /\ tx.id = handler.id /\ handler.id \in Nat
              /\ ~HeldBack(tx) /\ Publish(lane, [tx EXCEPT !.gen = @ + 1, !.fee = LeastBump(@)])
        BY <1>1, <2>2, <3>l, Zenon DEF IndInv, HandlerOk, ReplacementReturns
      <3>2. IsTx(tx)
        BY <1>1, <3>1, PendingType DEF IndInv, None
      <3>3. icPaused' = icPaused
        BY <3>1, Zenon DEF Publish
      <3> DEFINE t == [tx EXCEPT !.gen = @ + 1, !.fee = LeastBump(@)]
      <3>4. Artifact(t).kind = tx.kind
        BY <3>2, Zenon DEF IsTx, Artifact
      <3>5. \A a \in signed' \ signed : a = Artifact(t)
        BY <3>1, Zenon DEF Publish
      <3> QED BY <3>1, <3>3, <3>4, <3>5, Zenon DEF HeldBack
    <2>3. CASE ConfirmCompletes
      BY <2>3, Zenon DEF ConfirmCompletes
    <2>4. CASE RelaySome
      BY <2>4 DEF RelaySome, Relay, canisterVars
    <2>5. CASE \/ BeginSeal \/ SealStores \/ BeginRefreshAttestation \/ RefreshAttestation
               \/ HandlerEnds \/ EmergencyPause \/ PauseNewDeposits \/ HandOver
               \/ Observe \/ StorePrepared \/ StoreRefused \/ ReceiptArrives
      BY <2>5, Zenon DEF BeginSeal, SealStores, BeginRefreshAttestation, RefreshAttestation, HandlerEnds,
                  EmergencyPause, PauseNewDeposits, HandOver, Observe, StorePrepared, StoreRefused, ReceiptArrives,
                  canisterVars, baseVars
    <2>6. CASE Prepare \/ Sns \/ Replace \/ Confirm
      BY <2>6, Zenon DEF Prepare, Sns, SnsActivation, BeginPrepare, Replace, BeginReplacement, Confirm, BeginConfirm,
                  canisterVars, baseVars
    <2>7. CASE DrainEmergency
      BY <2>7, Zenon DEF DrainEmergency, PrepareNextEmergency, Abort, canisterVars, baseVars
    <2>8. CASE DelayEnds
      BY <2>8 DEF DelayEnds, TimePasses, canisterVars
    <2> QED BY <1>1, <2>1, <2>2, <2>3, <2>4, <2>5, <2>6, <2>7, <2>8, Zenon DEF Next
  <1>2. IndInv /\ [Next]_vars => [Quietly]_vars
    BY <1>1, Zenon
  <1> QED BY <1>2, Inductive, PTL DEF Spec, NoDangerInEmergency

=============================================================================
