---------------------------- MODULE OutgoingPayment ----------------------------
(***************************************************************************)
(* What the canister promises about money it owes on the ICP ledger (the   *)
(* refund of a deposit, the release of a withdrawal): once a liability is  *)
(* recorded, the ledger moves its amount at most once, and the liability   *)
(* is closed only when the ledger has moved it.  How calls, lost replies,  *)
(* holds, resends, history scans and new transfer identities bring this    *)
(* about is LedgerSettlement's business.                                   *)
(***************************************************************************)
EXTENDS Naturals

CONSTANT Liabilities   \* refunds and releases

VARIABLES phase,       \* [Liabilities -> {"none", "owed", "closed"}]
          moved        \* [Liabilities -> Nat]: ledger blocks that moved its amount

vars == <<phase, moved>>

Init == /\ phase = [l \in Liabilities |-> "none"]
        /\ moved = [l \in Liabilities |-> 0]

\* The liability is recorded (StartRefund, StartRelease).
Owe(l) == /\ phase[l] = "none"
          /\ phase' = [phase EXCEPT ![l] = "owed"]
          /\ UNCHANGED moved

\* The ledger moves the amount: only while it is owed, and never twice.
Move(l) == /\ phase[l] = "owed"
           /\ moved[l] = 0
           /\ moved' = [moved EXCEPT ![l] = 1]
           /\ UNCHANGED phase

\* The canister records the payment: only after the ledger has moved it.
Close(l) == /\ phase[l] = "owed"
            /\ moved[l] = 1
            /\ phase' = [phase EXCEPT ![l] = "closed"]
            /\ UNCHANGED moved

Next == \E l \in Liabilities : Owe(l) \/ Move(l) \/ Close(l)

Spec == Init /\ [][Next]_vars
=============================================================================
