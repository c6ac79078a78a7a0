---------------------------- MODULE ReserveProofs ----------------------------
(***************************************************************************)
(* Proofs about the two reserves of the canister: the fees it has earned,  *)
(* from which payouts are made (FeePayout), for every set of principals,   *)
(* amounts and fees, and the cycles it keeps for its obligations           *)
(* (CycleReserve), for every finite set of transactions, every limit,      *)
(* price, floor and ceiling.  The two models share no state.               *)
(*                                                                         *)
(* The accounting of fees is about sums over the payouts.  Total is a      *)
(* recursive function; what is needed of it (how it grows with a payout,   *)
(* how it changes with one record, that it is monotone) is proved by       *)
(* descent: the least index at which a statement fails is a contradiction. *)
(*                                                                         *)
(* LiabilitiesFunded is inductive as it stands.  What makes it so is that  *)
(* a notification holds two slots: the requests of one notification may    *)
(* use up the first one, because the second is still there for every       *)
(* notification in flight, the paying one included.                        *)
(***************************************************************************)
EXTENDS FeePayout, CycleReserve, FiniteSetTheorems, WellFoundedInduction, TLAPS

----------------------------------------------------------------------------
(* Sums *)

\* A nonempty set of numbers has a least element.
LEMMA Least ==
  ASSUME NEW T \in SUBSET Nat, T # {}
  PROVE  \E x \in T : \A y \in T : x <= y
  <1>1. PICK x \in T : \A y \in T : ~(<<y, x>> \in OpToRel(<, Nat))
    BY NatLessThanWellFounded, WFMin, Zenon
  <1>2. ASSUME NEW y \in T PROVE x <= y
    <2>1. ~(<<y, x>> \in OpToRel(<, Nat))
      BY <1>1, Zenon
    <2>2. ~(y < x)
      BY <2>1, Zenon DEF OpToRel
    <2> QED BY <2>2
  <1> QED BY <1>2, Zenon

\* Induction over the indices 0, ..., n.
LEMMA Induct ==
  ASSUME NEW n \in Nat, NEW Good, 0 \in Good, \A k \in 1..n : k - 1 \in Good => k \in Good
  PROVE  \A k \in 0..n : k \in Good
  <1> DEFINE Bad == {k \in 0..n : k \notin Good}
  <1>1. SUFFICES ASSUME Bad # {} PROVE FALSE
    BY Zenon
  <1>2. Bad \in SUBSET Nat
    OBVIOUS
  <1>3. PICK k \in Bad : \A j \in Bad : k <= j
    BY <1>1, <1>2, Least, Zenon
  <1>4. k \in 1..n /\ k - 1 \in 0..n /\ ~(k <= k - 1)
    OBVIOUS
  <1>5. k - 1 \in Good
    BY <1>3, <1>4, Zenon
  <1> QED BY <1>4, <1>5, Zenon

\* f lists the partial sums of d.
Sums(d, n, f) == f \in [0..n -> Int] /\ f[0] = 0 /\ \A i \in 1..n : f[i] = f[i - 1] + d[i]

LEMMA SumsExist ==
  ASSUME NEW n \in Nat, NEW d \in [1..n -> Int]
  PROVE  \E f : Sums(d, n, f)
  <1> DEFINE Good == {k \in 0..n : \E f : Sums(d, k, f)}
  <1>1. 0 \in Good
    <2>1. Sums(d, 0, [i \in 0..0 |-> 0])
      BY DEF Sums
    <2> QED BY <2>1
  <1>2. ASSUME NEW k \in 1..n, k - 1 \in Good PROVE k \in Good
    <2>1. PICK f : Sums(d, k - 1, f)
      BY <1>2, Zenon
    <2> DEFINE g == [i \in 0..k |-> IF i = k THEN f[k - 1] + d[k] ELSE f[i]]
    <2>2. f \in [0..(k - 1) -> Int] /\ f[0] = 0 /\ \A i \in 1..(k - 1) : f[i] = f[i - 1] + d[i]
      BY <2>1, Zenon DEF Sums
    <2>3. f[k - 1] \in Int /\ d[k] \in Int
      BY <2>2
    <2>4. g \in [0..k -> Int]
      BY <2>2, <2>3
    <2>5. g[0] = 0
      BY <2>2
    <2>6. \A i \in 1..k : g[i] = g[i - 1] + d[i]
      BY <2>2
    <2>7. Sums(d, k, g)
      BY <2>4, <2>5, <2>6, Zenon DEF Sums
    <2> QED BY <2>7
  <1> HIDE DEF Good
  <1>3. \A k \in 0..n : k \in Good
    BY <1>1, <1>2, Induct, Zenon
  <1>4. n \in Good
    BY <1>3
  <1> QED BY <1>4, Zenon DEF Good

\* Total is the last partial sum.
LEMMA TotalIs ==
  ASSUME NEW n \in Nat, NEW d \in [1..n -> Int], NEW f, Sums(d, n, f)
  PROVE  Total(d, n) = f[n] /\ Total(d, n) \in Int
  <1> DEFINE s == CHOOSE sum : sum = [i \in 0..n |-> IF i = 0 THEN 0 ELSE sum[i - 1] + d[i]]
  <1>1. f = [i \in 0..n |-> IF i = 0 THEN 0 ELSE f[i - 1] + d[i]]
    BY DEF Sums
  <1>2. s = [i \in 0..n |-> IF i = 0 THEN 0 ELSE s[i - 1] + d[i]]
    BY <1>1, Zenon
  <1>3. Total(d, n) = s[n]
    BY Zenon DEF Total
  <1> HIDE DEF s
  <1>4. s[0] = 0 /\ \A i \in 1..n : s[i] = s[i - 1] + d[i]
    BY <1>2
  <1>5. f[0] = 0 /\ \A i \in 1..n : f[i] = f[i - 1] + d[i]
    BY Zenon DEF Sums
  <1>6. s[n] = f[n]
    <2> DEFINE Good == {k \in 0..n : s[k] = f[k]}
    <2>1. 0 \in Good
      BY <1>4, <1>5
    <2>2. ASSUME NEW k \in 1..n, k - 1 \in Good PROVE k \in Good
      BY <1>4, <1>5, <2>2
    <2> HIDE DEF Good
    <2>3. \A k \in 0..n : k \in Good
      BY <2>1, <2>2, Induct, Zenon
    <2>4. n \in Good
      BY <2>3
    <2> QED BY <2>4, Zenon DEF Good
  <1>7. f[n] \in Int
    BY DEF Sums
  <1> QED BY <1>3, <1>6, <1>7, Zenon

LEMMA TotalEmpty == ASSUME NEW d PROVE Total(d, 0) = 0
  <1> DEFINE s == CHOOSE sum : sum = [i \in 0..0 |-> IF i = 0 THEN 0 ELSE sum[i - 1] + d[i]]
  <1>1. \E f : f = [i \in 0..0 |-> IF i = 0 THEN 0 ELSE f[i - 1] + d[i]]
    <2> DEFINE f == [i \in 0..0 |-> 0]
    <2>1. f = [i \in 0..0 |-> IF i = 0 THEN 0 ELSE f[i - 1] + d[i]]
      OBVIOUS
    <2> QED BY <2>1, Zenon
  <1>2. s = [i \in 0..0 |-> IF i = 0 THEN 0 ELSE s[i - 1] + d[i]]
    BY <1>1, Zenon
  <1>3. Total(d, 0) = s[0]
    BY Zenon DEF Total
  <1> HIDE DEF s
  <1> QED BY <1>2, <1>3

\* One more summand.
LEMMA TotalAppend ==
  ASSUME NEW n \in Nat, NEW d \in [1..n -> Int], NEW e \in [1..(n + 1) -> Int],
         \A i \in 1..n : e[i] = d[i]
  PROVE  Total(e, n + 1) = Total(d, n) + e[n + 1]
  <1>1. PICK f : Sums(d, n, f)
    BY SumsExist, Zenon
  <1> DEFINE g == [i \in 0..(n + 1) |-> IF i = n + 1 THEN f[n] + e[n + 1] ELSE f[i]]
  <1>2. f \in [0..n -> Int] /\ f[0] = 0 /\ \A i \in 1..n : f[i] = f[i - 1] + d[i]
    BY <1>1, Zenon DEF Sums
  <1>3. f[n] + e[n + 1] \in Int
    BY <1>2
  <1>4. g \in [0..(n + 1) -> Int] /\ g[0] = 0
    BY <1>2, <1>3
  <1>5. \A i \in 1..(n + 1) : g[i] = g[i - 1] + e[i]
    BY <1>2
  <1>6. g[n + 1] = f[n] + e[n + 1]
    OBVIOUS
  <1> HIDE DEF g
  <1>7. Sums(e, n + 1, g)
    BY <1>4, <1>5, Zenon DEF Sums
  <1>8. Total(e, n + 1) = g[n + 1]
    BY <1>7, TotalIs
  <1> QED BY <1>1, <1>6, <1>8, TotalIs, Zenon

\* Another value for one summand.
LEMMA TotalUpdate ==
  ASSUME NEW n \in Nat, NEW d \in [1..n -> Int], NEW e \in [1..n -> Int], NEW k \in 1..n,
         \A i \in 1..n : i # k => e[i] = d[i]
  PROVE  Total(e, n) = Total(d, n) - d[k] + e[k]
  <1>1. PICK f : Sums(d, n, f)
    BY SumsExist, Zenon
  <1> DEFINE g == [i \in 0..n |-> IF i < k THEN f[i] ELSE f[i] - d[k] + e[k]]
  <1>2. f \in [0..n -> Int] /\ f[0] = 0 /\ \A i \in 1..n : f[i] = f[i - 1] + d[i]
    BY <1>1, Zenon DEF Sums
  <1>3. d[k] \in Int /\ e[k] \in Int
    BY Zenon
  <1>4. g \in [0..n -> Int]
    <2>1. ASSUME NEW i \in 0..n PROVE (IF i < k THEN f[i] ELSE f[i] - d[k] + e[k]) \in Int
      <3>1. f[i] \in Int
        BY <1>2, Zenon
      <3> QED BY <1>3, <3>1
    <2> QED BY <2>1, Zenon
  <1>5. g[0] = 0
    BY <1>2
  <1>6. ASSUME NEW i \in 1..n PROVE g[i] = g[i - 1] + e[i]
    <2>1. f[i] = f[i - 1] + d[i] /\ f[i - 1] \in Int /\ d[i] \in Int
      BY <1>2
    <2>2. i - 1 \in 0..n /\ i \in 0..n
      OBVIOUS
    <2>3. CASE i < k
      BY <2>1, <2>2, <2>3
    <2>4. CASE i = k
      BY <2>1, <2>2, <2>4, <1>3
    <2>5. CASE i > k
      BY <2>1, <2>2, <2>5, <1>3
    <2> QED BY <2>3, <2>4, <2>5
  <1>7. g[n] = f[n] - d[k] + e[k]
    OBVIOUS
  <1> HIDE DEF g
  <1>8. Sums(e, n, g)
    BY <1>4, <1>5, <1>6, Zenon DEF Sums
  <1>9. Total(e, n) = g[n] /\ Total(d, n) = f[n]
    BY <1>1, <1>8, TotalIs, Zenon
  <1> QED BY <1>7, <1>9, Zenon

\* A sum is bounded by the sum of bounds.
LEMMA TotalBelow ==
  ASSUME NEW n \in Nat, NEW d \in [1..n -> Int], NEW e \in [1..n -> Int], NEW c \in [1..n -> Int],
         \A i \in 1..n : c[i] <= d[i] + e[i]
  PROVE  Total(c, n) <= Total(d, n) + Total(e, n)
  <1>1. PICK f : Sums(d, n, f)
    BY SumsExist, Zenon
  <1>2. PICK g : Sums(e, n, g)
    BY SumsExist, Zenon
  <1>3. PICK h : Sums(c, n, h)
    BY SumsExist, Zenon
  <1>4. /\ f \in [0..n -> Int] /\ g \in [0..n -> Int] /\ h \in [0..n -> Int]
        /\ f[0] = 0 /\ g[0] = 0 /\ h[0] = 0
    BY <1>1, <1>2, <1>3, Zenon DEF Sums
  <1> DEFINE Good == {k \in 0..n : h[k] <= f[k] + g[k]}
  <1>5. 0 \in Good
    BY <1>4
  <1>6. ASSUME NEW k \in 1..n, k - 1 \in Good PROVE k \in Good
    <2>1. h[k - 1] <= f[k - 1] + g[k - 1] /\ k - 1 \in 0..n /\ k \in 0..n
      BY <1>6
    <2>2. f[k] = f[k - 1] + d[k] /\ g[k] = g[k - 1] + e[k] /\ h[k] = h[k - 1] + c[k]
      BY <1>1, <1>2, <1>3, Zenon DEF Sums
    <2>3. /\ f[k - 1] \in Int /\ g[k - 1] \in Int /\ h[k - 1] \in Int
      BY <1>4, <2>1, Zenon
    <2>4. d[k] \in Int /\ e[k] \in Int /\ c[k] \in Int /\ c[k] <= d[k] + e[k]
      BY Zenon
    <2>5. h[k - 1] + c[k] <= (f[k - 1] + d[k]) + (g[k - 1] + e[k])
      <3>1. \A a, b, p, q, x, y \in Int : a <= p + q /\ b <= x + y => a + b <= (p + x) + (q + y)
        OBVIOUS
      <3> QED BY <2>1, <2>3, <2>4, <3>1, Zenon
    <2>6. h[k] <= f[k] + g[k]
      BY <2>2, <2>3, <2>4, <2>5, Zenon
    <2> QED BY <2>1, <2>6, Zenon
  <1> HIDE DEF Good
  <1>7. \A k \in 0..n : k \in Good
    BY <1>5, <1>6, Induct, Zenon
  <1>8. h[n] <= f[n] + g[n]
    BY <1>7 DEF Good
  <1>9. Total(d, n) = f[n] /\ Total(e, n) = g[n] /\ Total(c, n) = h[n]
    BY <1>1, <1>2, <1>3, TotalIs, Zenon
  <1> QED BY <1>8, <1>9, Zenon

\* A summand is at most the sum of nonnegative summands.
LEMMA TotalCovers ==
  ASSUME NEW n \in Nat, NEW d \in [1..n -> Nat], NEW k \in 1..n
  PROVE  d[k] <= Total(d, n)
  <1> DEFINE c == [i \in 1..n |-> IF i = k THEN d[k] ELSE 0]
             z == [i \in 1..n |-> 0]
             s == [i \in 0..n |-> 0]
  <1>1. d \in [1..n -> Int] /\ c \in [1..n -> Int] /\ z \in [1..n -> Int]
    OBVIOUS
  <1>2. \A i \in 1..n : c[i] <= d[i] + z[i]
    OBVIOUS
  <1>3. Sums(z, n, s) /\ s[n] = 0
    BY DEF Sums
  <1>4. z[k] = 0 /\ c[k] = d[k] /\ \A i \in 1..n : i # k => c[i] = z[i]
    BY Zenon
  <1>t. d[k] \in Nat
    BY Zenon
  <1> HIDE DEF c, z, s
  <1>5. Total(z, n) = 0
    BY <1>1, <1>3, TotalIs, Zenon
  <1>6. Total(c, n) = Total(z, n) - z[k] + c[k]
    BY <1>1, <1>4, TotalUpdate, Zenon
  <1>7. Total(c, n) <= Total(d, n) + Total(z, n)
    BY <1>1, <1>2, TotalBelow, Zenon
  <1>8. Total(d, n) \in Int
    BY <1>1, SumsExist, TotalIs, Zenon
  <1> QED BY <1>t, <1>4, <1>5, <1>6, <1>7, <1>8

----------------------------------------------------------------------------
(* The inductive invariant *)

Payout == [amount : Nat, to : Principals, state : States, block : Nat, scan : Int]

Shape ==
  /\ payouts \in Seq(Payout)
  /\ reserve \in Int /\ earned \in Int /\ pendingDebit \in Int
  /\ recipient \in Principals
  /\ run \in Seq({"idle", "sent", "scan"}) /\ Len(run) = Len(payouts)
  /\ reply \in Seq({"none", "confirmed", "ambiguous", "refused", "retry"}) /\ Len(reply) = Len(payouts)
  /\ window \in Seq({"open", "closing", "closed"}) /\ Len(window) = Len(payouts)
  /\ ledger \in Seq(Nat) /\ \A b \in DOMAIN ledger : ledger[b] \in 1..Len(payouts)
  /\ feeChanged \in BOOLEAN

\* The debit of a payout in one of some states, and the sum over all payouts.
DebitIn(p, S) == IF p.state \in S THEN Debit(p) ELSE 0
DebitsIn(ps, S) == [id \in 1..Len(ps) |-> DebitIn(ps[id], S)]
Debits(ps, S) == Total(DebitsIn(ps, S), Len(ps))

Unfinished == {"pending", "hold"}

\* The counter is the sum of the unfinished debits, the reserve is what was
\* earned less the finished ones, and the counter never exceeds the reserve.
Books ==
  /\ pendingDebit = Debits(payouts, Unfinished)
  /\ earned = reserve + Debits(payouts, {"succeeded"})
  /\ pendingDebit <= reserve

\* What a run, its answer and a recorded outcome establish about the ledger.
Evidence(id) ==
  /\ run[id] # "idle" => IsPending(payouts[id])
  /\ run[id] = "scan" => payouts[id].state = "hold" /\ window[id] = "closed"
  /\ reply[id] = "confirmed" => Executed(id)
  /\ reply[id] = "refused" /\ IsPending(payouts[id]) => feeChanged \/ payouts[id].to = Minter
  /\ payouts[id].to = Minter => ~Executed(id)
  /\ payouts[id].state = "succeeded" =>
       payouts[id].block \in DOMAIN ledger /\ ledger[payouts[id].block] = id
  /\ payouts[id].state = "failed" /\ ~feeChanged =>
       ~Executed(id) /\ (window[id] = "closed" \/ payouts[id].to = Minter)

\* The four roles are held by four principals.
Apart(a, b, c, d) == a # b /\ a # c /\ a # d /\ b # c /\ b # d /\ c # d
RolesApart == Apart(Governance, Relayer, pauser, recipient)

Promised == \A id \in Ids : IsPending(payouts[id]) => payouts[id].to = recipient

IndInv ==
  /\ Shape /\ Books /\ RolesApart /\ Promised
  /\ \A id \in Ids : Evidence(id)

----------------------------------------------------------------------------
(* The sums of the books *)

LEMMA DebitType ==
  ASSUME NEW p \in Payout, NEW S
  PROVE  Debit(p) \in Nat \ {0} /\ DebitIn(p, S) \in Nat
  BY AmountAssumption DEF Payout, Debit, DebitIn

LEMMA DebitsType ==
  ASSUME NEW ps \in Seq(Payout), NEW S
  PROVE  /\ Len(ps) \in Nat /\ Debits(ps, S) \in Int
         /\ DebitsIn(ps, S) \in [1..Len(ps) -> Nat] /\ DebitsIn(ps, S) \in [1..Len(ps) -> Int]
  <1>1. \A id \in 1..Len(ps) : DebitIn(ps[id], S) \in Nat
    BY DebitType
  <1>2. DebitsIn(ps, S) \in [1..Len(ps) -> Nat] /\ DebitsIn(ps, S) \in [1..Len(ps) -> Int]
    BY <1>1 DEF DebitsIn
  <1>3. Len(ps) \in Nat
    OBVIOUS
  <1>4. Debits(ps, S) \in Int
    BY <1>2, <1>3, SumsExist, TotalIs, Zenon DEF Debits
  <1> QED BY <1>2, <1>3, <1>4, Zenon

LEMMA DebitsAppend ==
  ASSUME NEW ps \in Seq(Payout), NEW p \in Payout, NEW S
  PROVE  Debits(Append(ps, p), S) = Debits(ps, S) + DebitIn(p, S)
  <1> DEFINE qs == Append(ps, p)
  <1>1. /\ qs \in Seq(Payout) /\ Len(qs) = Len(ps) + 1 /\ qs[Len(ps) + 1] = p
        /\ \A i \in 1..Len(ps) : qs[i] = ps[i]
    OBVIOUS
  <1> HIDE DEF qs
  <1>2. /\ DebitsIn(qs, S)[Len(ps) + 1] = DebitIn(p, S)
        /\ \A i \in 1..Len(ps) : DebitsIn(qs, S)[i] = DebitsIn(ps, S)[i]
    BY <1>1 DEF DebitsIn
  <1>3. /\ Len(ps) \in Nat /\ DebitsIn(ps, S) \in [1..Len(ps) -> Int]
        /\ DebitsIn(qs, S) \in [1..(Len(ps) + 1) -> Int]
    BY <1>1, DebitsType, Zenon
  <1>4. Total(DebitsIn(qs, S), Len(ps) + 1) = Total(DebitsIn(ps, S), Len(ps)) + DebitsIn(qs, S)[Len(ps) + 1]
    BY <1>2, <1>3, TotalAppend, Zenon
  <1> QED BY <1>1, <1>2, <1>4, Zenon DEF Debits, qs

LEMMA DebitsUpdate ==
  ASSUME NEW ps \in Seq(Payout), NEW id \in 1..Len(ps), NEW p \in Payout, NEW S
  PROVE  Debits([ps EXCEPT ![id] = p], S) = Debits(ps, S) - DebitIn(ps[id], S) + DebitIn(p, S)
  <1> DEFINE qs == [ps EXCEPT ![id] = p]
  <1>1. /\ qs \in Seq(Payout) /\ Len(qs) = Len(ps) /\ qs[id] = p
        /\ \A i \in 1..Len(ps) : i # id => qs[i] = ps[i]
    OBVIOUS
  <1> HIDE DEF qs
  <1>2. /\ DebitsIn(qs, S)[id] = DebitIn(p, S) /\ DebitsIn(ps, S)[id] = DebitIn(ps[id], S)
        /\ \A i \in 1..Len(ps) : i # id => DebitsIn(qs, S)[i] = DebitsIn(ps, S)[i]
    BY <1>1, Zenon DEF DebitsIn
  <1>3. /\ Len(ps) \in Nat /\ DebitsIn(ps, S) \in [1..Len(ps) -> Int]
        /\ DebitsIn(qs, S) \in [1..Len(ps) -> Int]
    BY <1>1, DebitsType, Zenon
  <1>4. Total(DebitsIn(qs, S), Len(ps)) =
          Total(DebitsIn(ps, S), Len(ps)) - DebitsIn(ps, S)[id] + DebitsIn(qs, S)[id]
    BY <1>2, <1>3, TotalUpdate, Zenon
  <1> QED BY <1>1, <1>2, <1>4, Zenon DEF Debits, qs

\* The counter is zero only when nothing is unfinished.
LEMMA NothingPending ==
  ASSUME Shape, Books, pendingDebit = 0, NEW id \in Ids
  PROVE  ~IsPending(payouts[id])
  <1>1. /\ payouts \in Seq(Payout) /\ payouts[id] \in Payout /\ id \in 1..Len(payouts)
    BY DEF Shape, Ids
  <1>2. DebitsIn(payouts, Unfinished)[id] <= Debits(payouts, Unfinished)
    BY <1>1, DebitsType, TotalCovers, Zenon DEF Debits
  <1>3. DebitsIn(payouts, Unfinished)[id] = DebitIn(payouts[id], Unfinished)
    BY <1>1, Zenon DEF DebitsIn
  <1>4. Debit(payouts[id]) \in Nat \ {0}
    BY <1>1, DebitType, Zenon
  <1>5. DebitIn(payouts[id], Unfinished) <= 0
    BY <1>2, <1>3, Zenon DEF Books
  <1> QED BY <1>4, <1>5 DEF DebitIn, IsPending, Unfinished

----------------------------------------------------------------------------
(* Steps *)

LEMMA Grown ==
  ASSUME NEW S, NEW s \in Seq(S), NEW x \in S
  PROVE  /\ Append(s, x) \in Seq(S) /\ Len(Append(s, x)) = Len(s) + 1
         /\ DOMAIN s = 1..Len(s) /\ DOMAIN Append(s, x) = 1..(Len(s) + 1)
         /\ Append(s, x)[Len(s) + 1] = x /\ \A i \in 1..Len(s) : Append(s, x)[i] = s[i]
  OBVIOUS

LEMMA Replaced ==
  ASSUME NEW S, NEW s \in Seq(S), NEW k \in 1..Len(s), NEW x \in S
  PROVE  /\ [s EXCEPT ![k] = x] \in Seq(S) /\ Len([s EXCEPT ![k] = x]) = Len(s)
         /\ [s EXCEPT ![k] = x][k] = x
         /\ \A i \in 1..Len(s) : i # k => [s EXCEPT ![k] = x][i] = s[i]
  OBVIOUS

\* The block of an executed payout is its own.
LEMMA BlockOfExecuted ==
  ASSUME Shape, NEW id, Executed(id)
  PROVE  BlockOf(id) \in Nat /\ BlockOf(id) \in DOMAIN ledger /\ ledger[BlockOf(id)] = id
  <1>1. BlockOf(id) \in DOMAIN ledger /\ ledger[BlockOf(id)] = id
    BY Zenon DEF Executed, BlockOf
  <1>2. DOMAIN ledger = 1..Len(ledger) /\ Len(ledger) \in Nat
    BY DEF Shape
  <1> QED BY ONLY <1>1, <1>2

\* What a step leaves of a payout's evidence: the ledger only grows.
LEMMA EvidenceKept ==
  ASSUME Shape, NEW id \in Ids, Evidence(id),
         payouts'[id].state = payouts[id].state, payouts'[id].block = payouts[id].block,
         payouts'[id].to = payouts[id].to,
         run'[id] \in {run[id], "idle"}, reply'[id] \in {reply[id], "none"}, window'[id] = window[id],
         ledger' = ledger, feeChanged' = feeChanged
  PROVE  Evidence(id)'
  BY Zenon DEF Evidence, IsPending, Executed

\* Amounts spread over paid and unfinished payouts only are within what was
\* earned: the books bound them.
LEMMA WithinEarned ==
  ASSUME IndInv, NEW c \in [Ids -> Int],
         \A id \in Ids : c[id] <= DebitIn(payouts[id], {"succeeded"}) + DebitIn(payouts[id], Unfinished)
  PROVE  Total(c, Len(payouts)) \in Int /\ Total(c, Len(payouts)) <= earned
  <1> DEFINE n == Len(payouts)
             d == DebitsIn(payouts, {"succeeded"})
             e == DebitsIn(payouts, Unfinished)
  <1>1. payouts \in Seq(Payout) /\ n \in Nat /\ Ids = 1..n /\ c \in [1..n -> Int]
    BY DEF IndInv, Shape, Ids
  <1>2. d \in [1..n -> Int] /\ e \in [1..n -> Int]
    BY <1>1, DebitsType, Zenon
  <1>3. \A id \in 1..n : c[id] <= d[id] + e[id]
    BY <1>1, Zenon DEF DebitsIn
  <1> HIDE DEF d, e
  <1>4. Total(c, n) <= Total(d, n) + Total(e, n)
    BY <1>1, <1>2, <1>3, TotalBelow, Zenon
  <1>5. Debits(payouts, {"succeeded"}) = Total(d, n) /\ Debits(payouts, Unfinished) = Total(e, n)
    BY Zenon DEF Debits, d, e
  <1>6. /\ Debits(payouts, Unfinished) \in Int /\ Debits(payouts, {"succeeded"}) \in Int
        /\ reserve \in Int
    BY <1>1, DebitsType, Zenon DEF IndInv, Shape
  <1>7. earned = reserve + Debits(payouts, {"succeeded"}) /\ Debits(payouts, Unfinished) <= reserve
    BY Zenon DEF IndInv, Books
  <1>8. Total(c, n) \in Int
    BY <1>1, SumsExist, TotalIs, Zenon
  <1>9. Total(c, n) <= Debits(payouts, {"succeeded"}) + Debits(payouts, Unfinished)
    BY <1>4, <1>5, Zenon
  <1> QED BY ONLY <1>6, <1>7, <1>8, <1>9

LEMMA PayoutType ==
  ASSUME IndInv, NEW id \in Ids
  PROVE  payouts[id] \in Payout /\ Debit(payouts[id]) \in Nat
  <1>1. payouts[id] \in Payout
    BY DEF IndInv, Shape, Ids
  <1>2. Debit(payouts[id]) \in Nat \ {0}
    BY <1>1, DebitType, Zenon
  <1> QED BY <1>1, <1>2, Zenon

\* What the ledger took for one payout, and what it took for all of them.
TakenFor == [id \in Ids |-> IF Executed(id) THEN Debit(payouts[id]) ELSE 0]

LEMMA TakenForPaid ==
  ASSUME IndInv, ~feeChanged, NEW id \in Ids
  PROVE  /\ Debit(payouts[id]) \in Nat /\ TakenFor \in [Ids -> Int]
         /\ TakenFor[id] <= DebitIn(payouts[id], {"succeeded"}) + DebitIn(payouts[id], Unfinished)
  <1>1. \A i \in Ids : payouts[i] \in Payout /\ Debit(payouts[i]) \in Nat
    BY PayoutType, Zenon
  <1>2. TakenFor \in [Ids -> Int]
    BY <1>1 DEF TakenFor
  <1>3. TakenFor[id] = (IF Executed(id) THEN Debit(payouts[id]) ELSE 0)
    BY Zenon DEF TakenFor
  <1>4. Executed(id) => payouts[id].state \in {"succeeded"} \cup Unfinished
    BY <1>1, Zenon DEF IndInv, Evidence, Payout, States, Unfinished
  <1>5. /\ DebitIn(payouts[id], {"succeeded"}) \in Nat /\ DebitIn(payouts[id], Unfinished) \in Nat
        /\ payouts[id].state = "succeeded" => DebitIn(payouts[id], {"succeeded"}) = Debit(payouts[id])
        /\ payouts[id].state \in Unfinished => DebitIn(payouts[id], Unfinished) = Debit(payouts[id])
    BY <1>1, DebitType, Zenon DEF DebitIn
  <1>6. \/ TakenFor[id] = 0 \/ TakenFor[id] = DebitIn(payouts[id], {"succeeded"})
           \/ TakenFor[id] = DebitIn(payouts[id], Unfinished)
    BY <1>3, <1>4, <1>5, Zenon
  <1>7. \A x, y \in Nat : \A z : z = 0 \/ z = x \/ z = y => z <= x + y
    OBVIOUS
  <1> QED BY <1>1, <1>2, <1>5, <1>6, <1>7, Zenon

LEMMA MovedWithinEarned ==
  ASSUME IndInv, ~feeChanged
  PROVE  Moved <= earned
  <1>1. TakenFor \in [Ids -> Int]
    <2>1. \A i \in Ids : Debit(payouts[i]) \in Nat
      BY PayoutType, Zenon
    <2> QED BY <2>1 DEF TakenFor
  <1>2. \A id \in Ids : TakenFor[id] <= DebitIn(payouts[id], {"succeeded"}) + DebitIn(payouts[id], Unfinished)
    BY TakenForPaid, Zenon
  <1>3. Total(TakenFor, Len(payouts)) <= earned
    BY <1>1, <1>2, WithinEarned, Zenon
  <1> QED BY <1>3, Zenon DEF Moved, TakenFor

\* The fees left cover every payout that is unfinished and not executed, so
\* the ledger never finds too little for it.
LEMMA FundsSuffice ==
  ASSUME IndInv, ~feeChanged, NEW id \in Ids, IsPending(payouts[id]), ~Executed(id)
  PROVE  ~(earned - Moved < Debit(payouts[id]))
  <1> DEFINE n == Len(payouts)
             c == [TakenFor EXCEPT ![id] = Debit(payouts[id])]
  <1>1. /\ Ids = 1..n /\ n \in Nat /\ earned \in Int
        /\ TakenFor \in [Ids -> Int] /\ Debit(payouts[id]) \in Nat
    BY TakenForPaid DEF IndInv, Shape, Ids
  <1>2. /\ c \in [Ids -> Int] /\ c[id] = Debit(payouts[id])
        /\ \A i \in Ids : i # id => c[i] = TakenFor[i]
    BY <1>1
  <1> HIDE DEF c
  <1>3. TakenFor[id] = 0
    BY Zenon DEF TakenFor
  <1>4. ASSUME NEW i \in Ids
        PROVE  c[i] <= DebitIn(payouts[i], {"succeeded"}) + DebitIn(payouts[i], Unfinished)
    <2>1. CASE i # id
      BY <1>2, <2>1, TakenForPaid, Zenon
    <2>2. CASE i = id
      <3>1. /\ DebitIn(payouts[id], Unfinished) = Debit(payouts[id])
            /\ DebitIn(payouts[id], {"succeeded"}) = 0
        BY Zenon DEF IsPending, DebitIn, Unfinished
      <3> QED BY ONLY <1>1, <1>2, <2>2, <3>1
    <2> QED BY <2>1, <2>2, Zenon
  <1>5. Total(c, n) \in Int /\ Total(c, n) <= earned
    BY <1>2, <1>4, WithinEarned, Zenon
  <1>6. Total(c, n) = Total(TakenFor, n) - TakenFor[id] + c[id]
    BY <1>1, <1>2, TotalUpdate, Zenon
  <1>7. Total(TakenFor, n) \in Int /\ Moved = Total(TakenFor, n)
    BY <1>1, SumsExist, TotalIs, Zenon DEF Moved, TakenFor
  <1> QED BY ONLY <1>1, <1>2, <1>3, <1>5, <1>6, <1>7

\* Roles change only between principals that hold none, and the recipient only
\* when nothing is unfinished.
LEMMA RoleStep ==
  ASSUME IndInv, NEW caller \in Principals, NEW next \in Principals,
         RotateFeeRecipient(caller, next) \/ RotatePausePrincipal(caller, next)
  PROVE  IndInv'
  <1>1. UNCHANGED <<payouts, reserve, earned, pendingDebit, run, reply, window, ledger, feeChanged>>
    BY Zenon DEF RotateFeeRecipient, RotatePausePrincipal, books, external
  <1>2. Shape' /\ Books'
    BY <1>1, Zenon DEF IndInv, Shape, Books, Ids, RotateFeeRecipient, RotatePausePrincipal
  <1>3. RolesApart'
    BY Zenon DEF IndInv, RolesApart, Apart, RotateFeeRecipient, RotatePausePrincipal, RotationAllowed
  <1>4. Promised'
    <2>1. CASE RotateFeeRecipient(caller, next)
      <3>1. \A id \in Ids : ~IsPending(payouts[id])
        BY <2>1, NothingPending, Zenon DEF IndInv, RotateFeeRecipient, RotationAllowed
      <3> QED BY <1>1, <3>1, Zenon DEF Promised, Ids, IsPending
    <2>2. CASE RotatePausePrincipal(caller, next)
      BY <1>1, <2>2, Zenon DEF IndInv, Promised, Ids, IsPending, RotatePausePrincipal
    <2> QED BY <2>1, <2>2, Zenon
  <1>5. \A id \in Ids' : Evidence(id)'
    BY <1>1, EvidenceKept, Zenon DEF IndInv, Ids
  <1> QED BY <1>2, <1>3, <1>4, <1>5, Zenon DEF IndInv

LEMMA FeeStep ==
  ASSUME IndInv, NEW fee \in FeeAmounts, ConfirmFee(fee)
  PROVE  IndInv'
  <1>1. UNCHANGED <<payouts, pendingDebit, recipient, pauser, run, reply, window, ledger, feeChanged>>
    BY Zenon DEF ConfirmFee, roles, external
  <1>2. fee \in Nat /\ reserve' = reserve + fee /\ earned' = earned + fee
    BY AmountAssumption, Zenon DEF ConfirmFee
  <1>3. Shape'
    BY <1>1, <1>2 DEF IndInv, Shape, Ids
  <1>4. Books'
    <2>1. Debits(payouts, {"succeeded"}) \in Int /\ reserve \in Int /\ pendingDebit \in Int
      BY DebitsType, Zenon DEF IndInv, Shape
    <2> QED BY <1>1, <1>2, <2>1 DEF IndInv, Books
  <1>5. RolesApart' /\ Promised'
    BY <1>1, Zenon DEF IndInv, RolesApart, Promised, Ids, IsPending
  <1>6. \A id \in Ids' : Evidence(id)'
    BY <1>1, EvidenceKept, Zenon DEF IndInv, Ids
  <1> QED BY <1>3, <1>4, <1>5, <1>6, Zenon DEF IndInv

\* A request is granted from what is neither paid nor promised.
LEMMA RequestStep ==
  ASSUME IndInv, NEW caller \in Principals, NEW amount \in Amounts, RequestFeePayout(caller, amount)
  PROVE  IndInv'
  <1> DEFINE p == [amount |-> amount, to |-> recipient, state |-> "pending",
                   block |-> NoBlock, scan |-> NoScan]
             n == Len(payouts)
  <1>1. /\ payouts' = Append(payouts, p) /\ pendingDebit' = pendingDebit + amount + LedgerFee
        /\ run' = Append(run, "idle") /\ reply' = Append(reply, "none") /\ window' = Append(window, "open")
        /\ UNCHANGED <<reserve, earned, recipient, pauser, ledger, feeChanged>>
        /\ amount + LedgerFee <= reserve - pendingDebit
    BY Zenon DEF RequestFeePayout, roles, PayoutDecision
  <1>2. amount \in Nat /\ LedgerFee \in Nat
    BY AmountAssumption, Zenon
  <1>t. /\ payouts \in Seq(Payout) /\ n \in Nat /\ Ids = 1..n
        /\ reserve \in Int /\ earned \in Int /\ pendingDebit \in Int
        /\ recipient \in Principals /\ ledger \in Seq(Nat) /\ feeChanged \in BOOLEAN
    BY DEF IndInv, Shape, Ids
  <1>3. p \in Payout
    BY <1>2, <1>t DEF Payout, States, NoBlock, NoScan
  <1>4. p.state = "pending" /\ p.to = recipient /\ Debit(p) = amount + LedgerFee
    BY Zenon DEF Debit
  <1> HIDE DEF p
  <1>5. /\ payouts' \in Seq(Payout) /\ Len(payouts') = n + 1 /\ payouts'[n + 1] = p
        /\ \A i \in 1..n : payouts'[i] = payouts[i]
    BY <1>1, <1>3, <1>t
  <1>6. Ids' = 1..(n + 1)
    BY <1>5, Zenon DEF Ids
  <1>7. /\ run' \in Seq({"idle", "sent", "scan"}) /\ Len(run') = n + 1
        /\ run'[n + 1] = "idle" /\ \A i \in 1..n : run'[i] = run[i]
    <2>1. run \in Seq({"idle", "sent", "scan"}) /\ Len(run) = n
      BY Zenon DEF IndInv, Shape
    <2> QED BY <1>1, <2>1
  <1>8. /\ reply' \in Seq({"none", "confirmed", "ambiguous", "refused", "retry"}) /\ Len(reply') = n + 1
        /\ reply'[n + 1] = "none" /\ \A i \in 1..n : reply'[i] = reply[i]
    <2>1. reply \in Seq({"none", "confirmed", "ambiguous", "refused", "retry"}) /\ Len(reply) = n
      BY Zenon DEF IndInv, Shape
    <2> QED BY <1>1, <2>1
  <1>9. /\ window' \in Seq({"open", "closing", "closed"}) /\ Len(window') = n + 1
        /\ window'[n + 1] = "open" /\ \A i \in 1..n : window'[i] = window[i]
    <2>1. window \in Seq({"open", "closing", "closed"}) /\ Len(window) = n
      BY Zenon DEF IndInv, Shape
    <2> QED BY <1>1, <2>1
  <1>10. Shape'
    <2>1. /\ reserve' \in Int /\ earned' \in Int /\ pendingDebit' \in Int /\ recipient' \in Principals
          /\ ledger' \in Seq(Nat) /\ feeChanged' \in BOOLEAN
      BY ONLY <1>1, <1>2, <1>t
    <2>2. Len(run') = Len(payouts') /\ Len(reply') = Len(payouts') /\ Len(window') = Len(payouts')
      BY ONLY <1>5, <1>7, <1>8, <1>9, Zenon
    <2>3. \A b \in DOMAIN ledger' : ledger'[b] \in 1..Len(payouts')
      <3>1. ledger' = ledger /\ \A b \in DOMAIN ledger : ledger[b] \in 1..n
        BY <1>1, Zenon DEF IndInv, Shape
      <3>2. \A i \in 1..n : i \in 1..Len(payouts')
        BY ONLY <1>5, <1>t
      <3> QED BY <3>1, <3>2, Zenon
    <2> QED BY <1>5, <1>7, <1>8, <1>9, <2>1, <2>2, <2>3, Zenon DEF Shape
  <1>11. Books'
    <2>1. /\ Debits(payouts', Unfinished) = Debits(payouts, Unfinished) + DebitIn(p, Unfinished)
          /\ Debits(payouts', {"succeeded"}) = Debits(payouts, {"succeeded"}) + DebitIn(p, {"succeeded"})
      BY <1>1, <1>3, <1>t, DebitsAppend, Zenon
    <2>2. DebitIn(p, Unfinished) = amount + LedgerFee /\ DebitIn(p, {"succeeded"}) = 0
      BY <1>4, Zenon DEF DebitIn, Unfinished
    <2>3. Debits(payouts, {"succeeded"}) \in Int /\ Debits(payouts, Unfinished) \in Int
      BY <1>t, DebitsType, Zenon
    <2>4. pendingDebit' = Debits(payouts', Unfinished)
      BY <1>1, <1>2, <1>t, <2>1, <2>2, <2>3 DEF IndInv, Books
    <2>5. earned' = reserve' + Debits(payouts', {"succeeded"})
      BY <1>1, <2>1, <2>2, <2>3 DEF IndInv, Books
    <2>6. pendingDebit' <= reserve'
      BY <1>1, <1>2, <1>t
    <2>7. Debits(payouts, Unfinished)' = Debits(payouts', Unfinished)
          /\ Debits(payouts, {"succeeded"})' = Debits(payouts', {"succeeded"})
      BY Zenon DEF Debits, DebitsIn, DebitIn, Total, Unfinished, Debit
    <2> QED BY <2>4, <2>5, <2>6, <2>7, Zenon DEF Books
  <1>12. RolesApart'
    BY <1>1, Zenon DEF IndInv, RolesApart
  <1>13. Promised'
    <2>1. ASSUME NEW i \in 1..(n + 1), IsPending(payouts'[i]) PROVE payouts'[i].to = recipient
      <3>1. CASE i = n + 1
        BY <1>4, <1>5, <3>1, Zenon
      <3>2. CASE i \in 1..n
        BY <1>5, <1>t, <2>1, <3>2, Zenon DEF IndInv, Promised, IsPending
      <3> QED BY <1>t, <3>1, <3>2
    <2> QED BY <1>1, <1>6, <2>1, Zenon DEF Promised, IsPending
  <1>14. ASSUME NEW i \in 1..(n + 1) PROVE Evidence(i)'
    <2>1. CASE i = n + 1
      <3>1. ~Executed(i)'
        <4>1. \A b \in DOMAIN ledger : ledger[b] \in 1..n
          BY Zenon DEF IndInv, Shape
        <4>2. n + 1 \notin 1..n
          BY <1>t
        <4>3. ledger' = ledger
          BY <1>1, Zenon
        <4> QED BY <2>1, <4>1, <4>2, <4>3, Zenon DEF Executed
      <3> QED BY <1>4, <1>5, <1>7, <1>8, <1>9, <2>1, <3>1, Zenon DEF Evidence
    <2>2. CASE i \in 1..n
      BY <1>1, <1>5, <1>7, <1>8, <1>9, <1>t, <2>2, EvidenceKept, Zenon DEF IndInv
    <2> QED BY <1>t, <2>1, <2>2
  <1> QED BY <1>6, <1>10, <1>11, <1>12, <1>13, <1>14, Zenon DEF IndInv

\* The ledger executes a payout only while its window is open, and its answers
\* say what it did.
LEMMA LedgerStep ==
  ASSUME IndInv, NEW id \in Ids, NEW kind \in {"live", "late"}, LedgerProcesses(id, kind)
  PROVE  IndInv'
  <1>1. UNCHANGED <<payouts, reserve, earned, pendingDebit, recipient, pauser, run, window, feeChanged>>
    BY Zenon DEF LedgerProcesses, books, roles
  <1>t. /\ Ids = 1..Len(payouts) /\ id \in Nat
        /\ ledger \in Seq(Nat) /\ Len(reply) = Len(payouts)
        /\ reply \in Seq({"none", "confirmed", "ambiguous", "refused", "retry"})
    BY DEF IndInv, Shape, Ids
  <1>2. \/ ledger' = ledger
        \/ /\ ledger' = Append(ledger, id)
           /\ ~feeChanged /\ window[id] = "open" /\ payouts[id].to # Minter
    BY Zenon DEF LedgerProcesses
  <1>3. PICK r \in {"confirmed", "ambiguous", "refused", "retry"} :
          /\ reply' = reply \/ reply' = [reply EXCEPT ![id] = r]
          /\ r = "confirmed" => ledger' = IF Executed(id) THEN ledger ELSE Append(ledger, id)
          /\ r = "refused" => Refuses(id)
    BY Zenon DEF LedgerProcesses, Answer
  <1>r. r = "refused" /\ IsPending(payouts[id]) => feeChanged \/ payouts[id].to = Minter
    BY <1>3, FundsSuffice, Zenon DEF Refuses
  <1>4. ledger' \in Seq(Nat) /\ \A b \in DOMAIN ledger : b \in DOMAIN ledger' /\ ledger'[b] = ledger[b]
    <2>1. CASE ledger' = ledger
      BY <1>t, <2>1, Zenon
    <2>2. CASE ledger' = Append(ledger, id)
      BY <1>t, <2>2, Grown
    <2> QED BY <1>2, <2>1, <2>2, Zenon
  <1>k. \A b \in DOMAIN ledger' : ledger'[b] \in 1..Len(payouts)
    <2>1. \A b \in DOMAIN ledger : ledger[b] \in 1..Len(payouts)
      BY Zenon DEF IndInv, Shape
    <2>2. CASE ledger' = Append(ledger, id)
      <3>1. id \in 1..Len(payouts)
        BY <1>t, Zenon
      <3> QED BY ONLY <1>t, <2>1, <2>2, <3>1
    <2> QED BY <1>2, <2>1, <2>2, Zenon
  <1>5. /\ reply' \in Seq({"none", "confirmed", "ambiguous", "refused", "retry"})
        /\ Len(reply') = Len(payouts)
        /\ \A j \in Ids : reply'[j] = reply[j] \/ (j = id /\ reply'[j] = r)
    BY <1>3, <1>t
  <1>6. Shape' /\ Books' /\ RolesApart' /\ Promised'
    BY <1>1, <1>4, <1>5, <1>k, Zenon DEF IndInv, Shape, Books, RolesApart, Promised, Ids, IsPending
  <1>7. ASSUME NEW j \in Ids PROVE Evidence(j)'
    <2>0. Evidence(j)
      BY Zenon DEF IndInv
    <2>1. Executed(j) => Executed(j)'
      BY <1>4, <1>t, Zenon DEF Executed
    <2>2. r = "confirmed" => Executed(id)'
      BY <1>3, <1>t DEF Executed
    <2>3. /\ payouts[j].state = "failed" /\ ~feeChanged => ~Executed(j)'
          /\ payouts[j].to = Minter => ~Executed(j)'
      <3>1. CASE ledger' = ledger
        BY <2>0, <3>1, Zenon DEF Evidence, Executed
      <3>2. CASE ledger' = Append(ledger, id) /\ window[id] = "open" /\ payouts[id].to # Minter
        <4>1. \A i \in 1..Len(ledger') : ledger'[i] = id \/ (i \in 1..Len(ledger) /\ ledger'[i] = ledger[i])
          BY <1>t, <3>2
        <4>2. DOMAIN ledger = 1..Len(ledger) /\ DOMAIN ledger' = 1..Len(ledger')
          BY <1>t, <3>2
        <4> QED BY <2>0, <3>2, <4>1, <4>2, Zenon DEF Evidence, Executed
      <3> QED BY <1>2, <3>1, <3>2, Zenon
    <2>4. reply'[j] = "confirmed" => Executed(j)'
      BY <1>5, <2>0, <2>1, <2>2, Zenon DEF Evidence
    <2>5. reply'[j] = "refused" /\ IsPending(payouts[j]) => feeChanged \/ payouts[j].to = Minter
      BY <1>r, <1>5, <2>0, Zenon DEF Evidence
    <2> QED BY <1>1, <1>4, <2>0, <2>3, <2>4, <2>5, Zenon DEF Evidence, IsPending
  <1> QED BY <1>1, <1>6, <1>7, Zenon DEF IndInv, Ids

\* The other steps outside the canister, and the ones that only start or lose
\* a run: the books are left alone.
LEMMA RunStep ==
  ASSUME IndInv, NEW id \in Ids, CallAmbiguous(id) \/ WindowEnds(id) \/ SendTransfer(id) \/ LoseRun(id)
  PROVE  IndInv'
  <1>1. UNCHANGED <<payouts, reserve, earned, pendingDebit, recipient, pauser, ledger, feeChanged>>
    BY Zenon DEF CallAmbiguous, WindowEnds, SendTransfer, LoseRun, books, roles
  <1>t. /\ Ids = 1..Len(payouts)
        /\ run \in Seq({"idle", "sent", "scan"}) /\ Len(run) = Len(payouts)
        /\ reply \in Seq({"none", "confirmed", "ambiguous", "refused", "retry"}) /\ Len(reply) = Len(payouts)
        /\ window \in Seq({"open", "closing", "closed"}) /\ Len(window) = Len(payouts)
    BY Zenon DEF IndInv, Shape, Ids
  <1>2. /\ run' \in Seq({"idle", "sent", "scan"}) /\ Len(run') = Len(payouts)
        /\ \A j \in Ids : run'[j] = run[j] \/ run'[j] = "idle"
                          \/ (run'[j] = "sent" /\ payouts[j].state \in Unfinished)
    <2>1. \/ run' = run
          \/ run' = [run EXCEPT ![id] = "idle"]
          \/ run' = [run EXCEPT ![id] = "sent"] /\ payouts[id].state \in Unfinished
      BY Zenon DEF CallAmbiguous, WindowEnds, SendTransfer, LoseRun, Unfinished
    <2> QED BY <1>t, <2>1
  <1>3. /\ reply' \in Seq({"none", "confirmed", "ambiguous", "refused", "retry"})
        /\ Len(reply') = Len(payouts)
        /\ \A j \in Ids : reply'[j] \in {reply[j], "none", "ambiguous"}
    <2>1. \/ reply' = reply
          \/ \E r \in {"none", "ambiguous"} : reply' = [reply EXCEPT ![id] = r]
      BY Zenon DEF CallAmbiguous, WindowEnds, SendTransfer, LoseRun
    <2> QED BY <1>t, <2>1
  <1>4. /\ window' \in Seq({"open", "closing", "closed"}) /\ Len(window') = Len(payouts)
        /\ \A j \in Ids : window[j] = "closed" => window'[j] = "closed"
    <2>1. \/ window' = window
          \/ /\ window[id] # "closed"
             /\ \E w \in {"closing", "closed"} : window' = [window EXCEPT ![id] = w]
      BY Zenon DEF CallAmbiguous, WindowEnds, SendTransfer, LoseRun
    <2> QED BY <1>t, <2>1
  <1>5. Shape' /\ Books' /\ RolesApart' /\ Promised'
    BY <1>1, <1>2, <1>3, <1>4, Zenon DEF IndInv, Shape, Books, RolesApart, Promised, Ids, IsPending
  <1>6. ASSUME NEW j \in Ids PROVE Evidence(j)'
    <2>0. Evidence(j)
      BY Zenon DEF IndInv
    <2> QED BY <1>1, <1>2, <1>3, <1>4, <2>0, Zenon DEF Evidence, IsPending, Executed, Unfinished
  <1> QED BY <1>1, <1>5, <1>6, Zenon DEF IndInv, Ids

LEMMA FeeChangeStep ==
  ASSUME IndInv, LedgerFeeChanges
  PROVE  IndInv'
  <1>1. UNCHANGED <<payouts, reserve, earned, pendingDebit, recipient, pauser, run, reply, window, ledger>>
        /\ feeChanged' = TRUE
    BY Zenon DEF LedgerFeeChanges, books, roles
  <1>2. Shape' /\ Books' /\ RolesApart' /\ Promised'
    BY <1>1, Zenon DEF IndInv, Shape, Books, RolesApart, Promised, Ids, IsPending
  <1>3. \A j \in Ids : Evidence(j)'
    BY <1>1, Zenon DEF IndInv, Evidence, IsPending, Executed
  <1> QED BY <1>1, <1>2, <1>3, Zenon DEF IndInv, Ids

\* A scan position is moved; nothing else of the payout changes.
LEMMA ScanStep ==
  ASSUME IndInv, NEW id \in Ids, StartScan(id) \/ ScanProgress(id)
  PROVE  IndInv'
  <1>1. UNCHANGED <<reserve, earned, pendingDebit, recipient, pauser, reply, window, ledger, feeChanged>>
    BY Zenon DEF StartScan, ScanProgress, roles, external
  <1>t. /\ Ids = 1..Len(payouts) /\ payouts \in Seq(Payout) /\ Len(payouts) \in Nat
        /\ run \in Seq({"idle", "sent", "scan"}) /\ Len(run) = Len(payouts)
    BY DEF IndInv, Shape, Ids
  <1>2. payouts[id] \in Payout /\ payouts[id].scan \in Int
    <2>1. payouts[id] \in Payout
      BY <1>t
    <2> QED BY <2>1, Zenon DEF Payout
  <1>3. PICK k \in Int : payouts' = [payouts EXCEPT ![id].scan = k]
    <2>1. CASE StartScan(id)
      <3>1. (IF payouts[id].scan = NoScan THEN 0 ELSE payouts[id].scan) \in Int
        BY <1>2
      <3> QED BY <2>1, <3>1, Zenon DEF StartScan
    <2>2. CASE ScanProgress(id) /\ UNCHANGED payouts
      <3>1. payouts = [payouts EXCEPT ![id].scan = payouts[id].scan]
        BY <1>t, <1>2 DEF Payout
      <3> QED BY <1>2, <2>2, <3>1, Zenon
    <2>3. CASE ScanProgress(id) /\ payouts' = [payouts EXCEPT ![id].scan = Min({@ + 1, Pages})]
      <3>1. Min({payouts[id].scan + 1, Pages}) \in Int
        <4>1. payouts[id].scan + 1 \in Int /\ Pages \in Int
          BY <1>2, BoundAssumption
        <4>2. \E x \in {payouts[id].scan + 1, Pages} : \A y \in {payouts[id].scan + 1, Pages} : x <= y
          BY <4>1
        <4> QED BY <4>1, <4>2, Zenon DEF Min
      <3> QED BY <2>3, <3>1, Zenon
    <2> QED BY <2>1, <2>2, <2>3, Zenon DEF ScanProgress
  <1>4. /\ payouts' \in Seq(Payout) /\ Len(payouts') = Len(payouts)
        /\ \A j \in Ids : /\ payouts'[j].state = payouts[j].state /\ payouts'[j].block = payouts[j].block
                          /\ payouts'[j].to = payouts[j].to /\ payouts'[j].amount = payouts[j].amount
    <2> DEFINE q == [payouts[id] EXCEPT !.scan = k]
    <2>1. /\ q \in Payout /\ q.state = payouts[id].state /\ q.block = payouts[id].block
          /\ q.to = payouts[id].to /\ q.amount = payouts[id].amount
      BY <1>2, Zenon DEF Payout
    <2>2. payouts' = [payouts EXCEPT ![id] = q]
      BY <1>3, Zenon
    <2> HIDE DEF q
    <2> QED BY <1>t, <2>1, <2>2
  <1>5. /\ run' \in Seq({"idle", "sent", "scan"}) /\ Len(run') = Len(payouts)
        /\ \A j \in Ids : \/ run'[j] \in {run[j], "idle"}
                          \/ run'[j] = "scan" /\ payouts[j].state = "hold" /\ window[j] = "closed"
    <2>1. \/ run' = [run EXCEPT ![id] = "idle"]
          \/ run' = [run EXCEPT ![id] = "scan"] /\ payouts[id].state = "hold" /\ window[id] = "closed"
      BY Zenon DEF StartScan, ScanProgress, StillAcceptable
    <2> QED BY <1>t, <2>1
  <1>6. Ids' = Ids /\ Shape'
    BY <1>1, <1>4, <1>5, <1>t, Zenon DEF IndInv, Shape, Ids
  <1>7. \A S : Debits(payouts', S) = Debits(payouts, S)
    <2>1. ASSUME NEW S PROVE DebitsIn(payouts', S) = DebitsIn(payouts, S)
      BY <1>4, <1>t, Zenon DEF DebitsIn, DebitIn, Debit
    <2> QED BY <1>4, <2>1, Zenon DEF Debits
  <1>8. Books'
    BY <1>1, <1>7, Zenon DEF IndInv, Books
  <1>9. RolesApart' /\ Promised'
    BY <1>1, <1>4, <1>6, Zenon DEF IndInv, RolesApart, Promised, IsPending
  <1>10. ASSUME NEW j \in Ids PROVE Evidence(j)'
    <2>0. Evidence(j)
      BY Zenon DEF IndInv
    <2> QED BY <1>1, <1>4, <1>5, <2>0, Zenon DEF Evidence, IsPending, Executed
  <1> QED BY <1>6, <1>8, <1>9, <1>10, Zenon DEF IndInv

\* The end of a run: an unfinished payout is held, paid or given up.  The
\* counter drops what is no longer promised, and the reserve drops it too when
\* it was paid.
LEMMA TransitionStep ==
  ASSUME IndInv, NEW id \in Ids, NEW st \in {"hold", "succeeded", "failed"}, NEW block \in Nat,
         IsPending(payouts[id]), Transition(id, st, block),
         run' = [run EXCEPT ![id] = "idle"],
         reply' = reply \/ reply' = [reply EXCEPT ![id] = "none"],
         UNCHANGED <<recipient, pauser, window, ledger, feeChanged>>,
         st = "succeeded" => block \in DOMAIN ledger /\ ledger[block] = id,
         st = "failed" /\ ~feeChanged =>
           ~Executed(id) /\ (window[id] = "closed" \/ payouts[id].to = Minter)
  PROVE  IndInv'
  <1> DEFINE p == payouts[id]
             q == [p EXCEPT !.state = st, !.block = block,
                            !.scan = IF st \in {"succeeded", "failed"} THEN NoScan ELSE @]
  <1>t. /\ Ids = 1..Len(payouts) /\ payouts \in Seq(Payout) /\ Len(payouts) \in Nat
        /\ reserve \in Int /\ earned \in Int /\ pendingDebit \in Int
        /\ run \in Seq({"idle", "sent", "scan"}) /\ Len(run) = Len(payouts)
        /\ reply \in Seq({"none", "confirmed", "ambiguous", "refused", "retry"}) /\ Len(reply) = Len(payouts)
    BY DEF IndInv, Shape, Ids
  <1>1. p \in Payout
    BY <1>t
  <1>2. /\ q \in Payout /\ q.state = st /\ q.block = block /\ q.to = p.to /\ q.amount = p.amount
    <2>1. /\ p.amount \in Nat /\ p.to \in Principals /\ p.state \in States /\ p.block \in Nat /\ p.scan \in Int
          /\ p = [amount |-> p.amount, to |-> p.to, state |-> p.state, block |-> p.block, scan |-> p.scan]
      BY <1>1, Zenon DEF Payout
    <2>2. (IF st \in {"succeeded", "failed"} THEN NoScan ELSE p.scan) \in Int
      <3>1. NoScan \in Int
        BY ONLY DEF NoScan
      <3> QED BY ONLY <2>1, <3>1, Zenon
    <2>3. st \in States
      BY Zenon DEF States
    <2> HIDE DEF p
    <2>4. q = [amount |-> p.amount, to |-> p.to, state |-> st, block |-> block,
               scan |-> IF st \in {"succeeded", "failed"} THEN NoScan ELSE p.scan]
      <3> DEFINE r == [p EXCEPT !.state = st]
                 u == [r EXCEPT !.block = block]
      <3>1. r = [amount |-> p.amount, to |-> p.to, state |-> st, block |-> p.block, scan |-> p.scan]
        BY <2>1
      <3> HIDE DEF r
      <3>2. u = [amount |-> p.amount, to |-> p.to, state |-> st, block |-> block, scan |-> p.scan]
        BY <3>1
      <3> HIDE DEF u
      <3>3. q = [u EXCEPT !.scan = IF st \in {"succeeded", "failed"} THEN NoScan ELSE u.scan]
        BY Zenon DEF u, r
      <3> QED BY <3>2, <3>3
    <2> QED BY <2>1, <2>2, <2>3, <2>4, Zenon DEF Payout
  <1>3. /\ payouts' = [payouts EXCEPT ![id] = q]
        /\ pendingDebit' = AdjustPendingDebit(p, q)
        /\ reserve' = IF st = "succeeded" THEN reserve - Debit(p) ELSE reserve
        /\ earned' = earned
    BY Zenon DEF Transition
  <1>4. p.state \in Unfinished
    BY Zenon DEF IsPending, Unfinished
  <1> HIDE DEF p, q
  <1>5. /\ payouts' \in Seq(Payout) /\ Len(payouts') = Len(payouts) /\ payouts'[id] = q
        /\ \A j \in Ids : j # id => payouts'[j] = payouts[j]
    <2>1. id \in 1..Len(payouts) /\ payouts \in Seq(Payout) /\ q \in Payout
      BY <1>2, <1>t, Zenon
    <2>2. payouts' = [payouts EXCEPT ![id] = q]
      BY <1>3, Zenon
    <2> QED BY ONLY <1>t, <2>1, <2>2
  <1>6. /\ run' \in Seq({"idle", "sent", "scan"}) /\ Len(run') = Len(payouts) /\ run'[id] = "idle"
        /\ \A j \in Ids : run'[j] \in {run[j], "idle"}
    BY <1>t
  <1>7. /\ reply' \in Seq({"none", "confirmed", "ambiguous", "refused", "retry"})
        /\ Len(reply') = Len(payouts)
        /\ \A j \in Ids : reply'[j] \in {reply[j], "none"}
    BY <1>t
  <1>8. Debit(p) \in Nat /\ Debit(q) = Debit(p)
    BY <1>1, <1>2, DebitType, Zenon DEF Debit
  <1>9. pendingDebit' = pendingDebit - Debit(p) + DebitIn(q, Unfinished)
    BY <1>3, <1>4, Zenon DEF AdjustPendingDebit, IsPending, DebitIn, Unfinished
  <1>10. Ids' = Ids /\ Shape'
    <2>1. pendingDebit' \in Int /\ reserve' \in Int /\ earned' \in Int
      BY <1>2, <1>3, <1>8, <1>9, <1>t, DebitType
    <2> QED BY <1>5, <1>6, <1>7, <1>t, <2>1, Zenon DEF IndInv, Shape, Ids
  <1>11. Books'
    <2>1. /\ Debits(payouts', Unfinished) =
               Debits(payouts, Unfinished) - DebitIn(p, Unfinished) + DebitIn(q, Unfinished)
          /\ Debits(payouts', {"succeeded"}) =
               Debits(payouts, {"succeeded"}) - DebitIn(p, {"succeeded"}) + DebitIn(q, {"succeeded"})
      <3>1. id \in 1..Len(payouts) /\ payouts \in Seq(Payout) /\ payouts[id] = p /\ q \in Payout
        BY <1>2, <1>t, Zenon DEF p
      <3>2. payouts' = [payouts EXCEPT ![id] = q]
        BY <1>3, Zenon
      <3> QED BY <3>1, <3>2, DebitsUpdate, Zenon
    <2>2. DebitIn(p, Unfinished) = Debit(p) /\ DebitIn(p, {"succeeded"}) = 0
      BY <1>4, Zenon DEF DebitIn, Unfinished
    <2>3. /\ DebitIn(q, Unfinished) = IF st = "hold" THEN Debit(p) ELSE 0
          /\ DebitIn(q, {"succeeded"}) = IF st = "succeeded" THEN Debit(p) ELSE 0
      BY <1>2, <1>8, Zenon DEF DebitIn, Unfinished
    <2>4. Debits(payouts, Unfinished) \in Int /\ Debits(payouts, {"succeeded"}) \in Int
      BY <1>t, DebitsType, Zenon
    <2>5. pendingDebit' = Debits(payouts', Unfinished)
      BY <1>8, <1>9, <1>t, <2>1, <2>2, Zenon DEF IndInv, Books
    <2>6. earned' = reserve' + Debits(payouts', {"succeeded"})
      <3>1. earned' = earned /\ earned = reserve + Debits(payouts, {"succeeded"})
        BY <1>3, Zenon DEF IndInv, Books
      <3>2. CASE st = "succeeded"
        <4>1. reserve' = reserve - Debit(p) /\ DebitIn(q, {"succeeded"}) = Debit(p)
          BY ONLY <1>3, <2>3, <3>2, Zenon
        <4> QED BY ONLY <1>8, <1>t, <2>1, <2>2, <2>4, <3>1, <4>1
      <3>3. CASE st # "succeeded"
        <4>1. reserve' = reserve /\ DebitIn(q, {"succeeded"}) = 0
          BY ONLY <1>3, <2>3, <3>3, Zenon
        <4> QED BY ONLY <1>8, <1>t, <2>1, <2>2, <2>4, <3>1, <4>1
      <3> QED BY <3>2, <3>3, Zenon
    <2>7. pendingDebit' <= reserve'
      BY <1>3, <1>8, <1>9, <1>t, <2>3 DEF IndInv, Books
    <2>8. Debits(payouts, Unfinished)' = Debits(payouts', Unfinished)
          /\ Debits(payouts, {"succeeded"})' = Debits(payouts', {"succeeded"})
      BY Zenon DEF Debits, DebitsIn, DebitIn, Total, Unfinished, Debit
    <2> QED BY <2>5, <2>6, <2>7, <2>8, Zenon DEF Books
  <1>12. RolesApart' /\ Promised'
    <2>1. ASSUME NEW j \in Ids, IsPending(payouts'[j]) PROVE payouts'[j].to = recipient
      <3>1. CASE j = id
        BY <1>2, <1>5, <3>1, Zenon DEF IndInv, Promised, p
      <3>2. CASE j # id
        BY <1>5, <2>1, <3>2, Zenon DEF IndInv, Promised, IsPending
      <3> QED BY <3>1, <3>2, Zenon
    <2> QED BY <1>10, <2>1, Zenon DEF IndInv, RolesApart, Promised, IsPending
  <1>13. ASSUME NEW j \in Ids PROVE Evidence(j)'
    <2>0. Evidence(j)
      BY Zenon DEF IndInv
    <2>1. CASE j = id
      <3>1. /\ payouts'[j].to = payouts[j].to /\ payouts'[j].state = st /\ payouts'[j].block = block
            /\ run'[j] = "idle" /\ reply'[j] \in {reply[j], "none"}
        BY <1>2, <1>5, <1>6, <1>7, <2>1, Zenon DEF p
      <3>2. Executed(j)' <=> Executed(j)
        BY Zenon DEF Executed
      <3>3. /\ payouts[j].to = Minter => ~Executed(j)
            /\ reply[j] = "confirmed" => Executed(j)
            /\ reply[j] = "refused" => feeChanged \/ payouts[j].to = Minter
        BY <2>0, <2>1, Zenon DEF Evidence
      <3> QED BY <2>1, <3>1, <3>2, <3>3, Zenon DEF Evidence
    <2>2. CASE j # id
      BY <1>5, <1>6, <1>7, <2>0, <2>2, Zenon DEF Evidence, Executed, IsPending
    <2> QED BY <2>1, <2>2, Zenon
  <1> QED BY <1>10, <1>11, <1>12, <1>13, Zenon DEF IndInv

LEMMA AnswerStep ==
  ASSUME IndInv, NEW id \in Ids, OnAnswer(id)
  PROVE  IndInv'
  <1>t. Shape /\ Evidence(id) /\ reply[id] \in {"none", "confirmed", "ambiguous", "refused", "retry"}
    BY DEF IndInv, Shape, Ids
  <1>1. /\ IsPending(payouts[id]) /\ reply[id] # "none"
        /\ run' = [run EXCEPT ![id] = "idle"] /\ reply' = [reply EXCEPT ![id] = "none"]
        /\ UNCHANGED <<recipient, pauser, window, ledger, feeChanged>>
    BY <1>t, Zenon DEF OnAnswer, Evidence, roles, external
  <1>2. CASE reply[id] = "confirmed"
    <2>1. Transition(id, "succeeded", BlockOf(id)) /\ Executed(id)
      BY <1>t, <1>2, Zenon DEF OnAnswer, Evidence
    <2>2. BlockOf(id) \in Nat /\ BlockOf(id) \in DOMAIN ledger /\ ledger[BlockOf(id)] = id
      BY <1>t, <2>1, BlockOfExecuted, Zenon
    <2> QED BY <1>1, <2>1, <2>2, TransitionStep, Zenon
  <1>3. CASE reply[id] = "refused"
    <2>1. /\ Transition(id, "failed", NoBlock) /\ NoBlock \in Nat
          /\ ~feeChanged => payouts[id].to = Minter /\ ~Executed(id)
      BY <1>t, <1>1, <1>3, Zenon DEF OnAnswer, Evidence, NoBlock
    <2> QED BY <1>1, <2>1, TransitionStep, Zenon
  <1>4. CASE reply[id] = "ambiguous"
    <2>1. Transition(id, "hold", NoBlock) /\ NoBlock \in Nat
      BY <1>4, Zenon DEF OnAnswer, NoBlock
    <2> QED BY <1>1, <2>1, TransitionStep, Zenon
  <1>5. CASE reply[id] = "retry"
    <2>1. UNCHANGED books
      BY <1>5, Zenon DEF OnAnswer
    <2>2. /\ run' \in Seq({"idle", "sent", "scan"}) /\ Len(run') = Len(payouts)
          /\ \A j \in Ids : run'[j] \in {run[j], "idle"}
      BY <1>1, <1>t DEF Shape, Ids
    <2>3. /\ reply' \in Seq({"none", "confirmed", "ambiguous", "refused", "retry"})
          /\ Len(reply') = Len(payouts)
          /\ \A j \in Ids : reply'[j] \in {reply[j], "none"}
      BY <1>1, <1>t DEF Shape, Ids
    <2>4. Shape' /\ Books' /\ RolesApart' /\ Promised'
      BY <1>1, <2>1, <2>2, <2>3, Zenon DEF IndInv, Shape, Books, RolesApart, Promised, Ids, IsPending, books
    <2>5. \A j \in Ids : Evidence(j)'
      BY <1>1, <1>t, <2>1, <2>2, <2>3, EvidenceKept, Zenon DEF IndInv, books
    <2> QED BY <2>1, <2>4, <2>5, Zenon DEF IndInv, Ids, books
  <1> QED BY <1>1, <1>t, <1>2, <1>3, <1>4, <1>5, Zenon

LEMMA ScanEndStep ==
  ASSUME IndInv, NEW id \in Ids, ScanFindsBlock(id) \/ ScanFindsNothing(id)
  PROVE  IndInv'
  <1>1. /\ Shape /\ IsPending(payouts[id]) /\ window[id] = "closed"
        /\ run' = [run EXCEPT ![id] = "idle"]
        /\ UNCHANGED <<reply, recipient, pauser, window, ledger, feeChanged>>
    BY Zenon DEF IndInv, Evidence, ScanFindsBlock, ScanFindsNothing, roles, external
  <1>2. CASE ScanFindsBlock(id)
    <2>1. Transition(id, "succeeded", BlockOf(id)) /\ Executed(id)
      BY <1>2, Zenon DEF ScanFindsBlock
    <2>2. BlockOf(id) \in Nat /\ BlockOf(id) \in DOMAIN ledger /\ ledger[BlockOf(id)] = id
      BY <1>1, <2>1, BlockOfExecuted, Zenon
    <2> QED BY <1>1, <2>1, <2>2, TransitionStep, Zenon
  <1>3. CASE ScanFindsNothing(id)
    <2>1. Transition(id, "failed", NoBlock) /\ ~Executed(id) /\ NoBlock \in Nat
      BY <1>3, Zenon DEF ScanFindsNothing, NoBlock
    <2> QED BY <1>1, <2>1, TransitionStep, Zenon
  <1> QED BY <1>2, <1>3, Zenon

----------------------------------------------------------------------------
(* The theorems *)

\* Four principals are four exactly when no two of them meet.
LEMMA FourApart ==
  \A a, b, c, d : Cardinality({a, b, c, d}) = 4 <=> Apart(a, b, c, d)
  <1> SUFFICES ASSUME NEW a, NEW b, NEW c, NEW d
               PROVE  Cardinality({a, b, c, d}) = 4 <=> Apart(a, b, c, d)
    BY Zenon
  <1>1. PICK S : S = {a} \cup {b}
    BY Zenon
  <1>2. PICK T : T = S \cup {c}
    BY Zenon
  <1>3. IsFiniteSet({a}) /\ Cardinality({a}) = 1
    BY FS_Singleton, Zenon
  <1>4. IsFiniteSet(S) /\ Cardinality(S) = IF b \in {a} THEN Cardinality({a}) ELSE Cardinality({a}) + 1
    BY <1>1, <1>3, FS_AddElement, Zenon
  <1>5. IsFiniteSet(T) /\ Cardinality(T) = IF c \in S THEN Cardinality(S) ELSE Cardinality(S) + 1
    BY <1>2, <1>4, FS_AddElement, Zenon
  <1>6. Cardinality(T \cup {d}) = IF d \in T THEN Cardinality(T) ELSE Cardinality(T) + 1
    BY <1>5, FS_AddElement, Zenon
  <1>7. T \cup {d} = {a, b, c, d}
    BY ONLY <1>1, <1>2, Zenon
  <1>8. Cardinality(T \cup {d}) = 4 <=> b \notin {a} /\ c \notin S /\ d \notin T
    BY ONLY <1>3, <1>4, <1>5, <1>6
  <1>9. b \notin {a} /\ c \notin S /\ d \notin T <=> Apart(a, b, c, d)
    BY ONLY <1>1, <1>2, Zenon DEF Apart
  <1> QED BY <1>7, <1>8, <1>9, Zenon

LEMMA InitInv == Init => IndInv
  <1> SUFFICES ASSUME Init PROVE IndInv
    BY Zenon
  <1>1. Ids = {} /\ payouts = <<>> /\ Len(payouts) = 0
    BY DEF Init, Ids
  <1>2. Shape
    <2>1. /\ payouts \in Seq(Payout) /\ ledger \in Seq(Nat)
          /\ run \in Seq({"idle", "sent", "scan"}) /\ Len(run) = 0
          /\ reply \in Seq({"none", "confirmed", "ambiguous", "refused", "retry"}) /\ Len(reply) = 0
          /\ window \in Seq({"open", "closing", "closed"}) /\ Len(window) = 0
          /\ \A b \in DOMAIN ledger : ledger[b] \in 1..Len(payouts)
      BY DEF Init
    <2>2. reserve \in Int /\ earned \in Int /\ pendingDebit \in Int
      BY DEF Init
    <2>4. feeChanged \in BOOLEAN
      BY Zenon DEF Init
    <2>3. recipient \in Principals
      BY RolesAssumption, Zenon DEF Init
    <2> QED BY <1>1, <2>1, <2>2, <2>3, <2>4, Zenon DEF Shape
  <1>3. Books
    BY <1>1, TotalEmpty DEF Init, Books, Debits
  <1>4. RolesApart
    <2>1. Apart(Governance, Relayer, Installer, FirstRecipient)
      BY RolesAssumption, FourApart, Zenon
    <2> QED BY <2>1, Zenon DEF Init, RolesApart
  <1> QED BY <1>1, <1>2, <1>3, <1>4, Zenon DEF IndInv, Promised

LEMMA StepInv == IndInv /\ [Next]_vars => IndInv'
  <1> SUFFICES ASSUME IndInv, [Next]_vars PROVE IndInv'
    BY Zenon
  <1>1. CASE UNCHANGED vars
    <2>1. UNCHANGED <<payouts, reserve, earned, pendingDebit, recipient, pauser, run, reply, window,
                      ledger, feeChanged>>
      BY <1>1, Zenon DEF vars
    <2> QED BY <2>1, Zenon DEF IndInv, Shape, Books, RolesApart, Promised, Evidence, Ids, IsPending, Executed
  <1>2. ASSUME NEW caller \in Principals, NEW next \in Principals,
               RotateFeeRecipient(caller, next) \/ RotatePausePrincipal(caller, next)
        PROVE  IndInv'
    BY <1>2, RoleStep, Zenon
  <1>3. ASSUME NEW fee \in FeeAmounts, ConfirmFee(fee) PROVE IndInv'
    BY <1>3, FeeStep, Zenon
  <1>4. ASSUME NEW caller \in Principals, NEW amount \in Amounts, RequestFeePayout(caller, amount)
        PROVE  IndInv'
    BY <1>4, RequestStep, Zenon
  <1>5. ASSUME NEW id \in Ids, NEW kind \in {"live", "late"}, LedgerProcesses(id, kind) PROVE IndInv'
    BY <1>5, LedgerStep, Zenon
  <1>6. ASSUME NEW id \in Ids, CallAmbiguous(id) \/ WindowEnds(id) \/ SendTransfer(id) \/ LoseRun(id)
        PROVE  IndInv'
    BY <1>6, RunStep, Zenon
  <1>7. ASSUME NEW id \in Ids, OnAnswer(id) PROVE IndInv'
    BY <1>7, AnswerStep, Zenon
  <1>8. ASSUME NEW id \in Ids, StartScan(id) \/ ScanProgress(id) PROVE IndInv'
    BY <1>8, ScanStep, Zenon
  <1>9. ASSUME NEW id \in Ids, ScanFindsBlock(id) \/ ScanFindsNothing(id) PROVE IndInv'
    BY <1>9, ScanEndStep, Zenon
  <1>10. CASE LedgerFeeChanges
    BY <1>10, FeeChangeStep, Zenon
  <1> QED
    BY <1>1, <1>2, <1>3, <1>4, <1>5, <1>6, <1>7, <1>8, <1>9, <1>10, Zenon DEF Next, SnsRequestFeePayout

LEMMA Inductive == Spec => []IndInv
  BY InitInv, StepInv, PTL DEF Spec

\* What the ledger has taken for payouts never exceeds the fees earned, and
\* what request_fee_payout has promised never exceeds what is left of them,
\* for any number of payouts, amounts and fees.
THEOREM PayoutsNeverExceedFees == Spec => []PayoutsWithinEarnedFees
  <1>1. IndInv => PayoutsWithinEarnedFees
    BY MovedWithinEarned, Zenon DEF IndInv, Books, PayoutsWithinEarnedFees
  <1> QED BY <1>1, Inductive, PTL

\* The outcome advance_fee_payout records is the one the ledger gave.
THEOREM OutcomesAreTrue == Spec => []RecordedOutcomeIsTrue
  <1>1. IndInv => RecordedOutcomeIsTrue
    BY Zenon DEF IndInv, Evidence, RecordedOutcomeIsTrue
  <1> QED BY <1>1, Inductive, PTL

\* A rotation never leaves a promise to an earlier recipient behind, and no
\* sequence of rotations gives two roles to one principal.
THEOREM UnpaidFeesFollowRecipient == Spec => []UnpaidFeesBelongToRecipient
  <1>1. IndInv => UnpaidFeesBelongToRecipient
    <2>1. RolesApart => Cardinality({Governance, Relayer, pauser, recipient}) = 4
      BY FourApart, Zenon DEF RolesApart
    <2> QED BY <2>1, Zenon DEF IndInv, Promised, UnpaidFeesBelongToRecipient
  <1> QED BY <1>1, Inductive, PTL

----------------------------------------------------------------------------
(* The cycle reserve                                                       *)

\* The part of the types the argument rests on.
Places ==
  /\ cycles \in Nat /\ deposits \in Nat
  /\ DOMAIN flight = Txs /\ DOMAIN record = Txs

ReserveInv == Places /\ LiabilitiesFunded

\* What the balance has to cover, for a number of slots.
Needed(slots) == Floor + Ceiling * slots

\* More slots need at least as much, and one more exactly the ceiling more.
LEMMA NeededMonotone ==
  ASSUME NEW m \in Nat, NEW n \in Nat, m <= n
  PROVE  Needed(m) <= Needed(n) /\ Needed(m) \in Nat
  <1>1. Ceiling \in Nat /\ Floor \in Nat
    BY ReserveAssumption, Zenon
  <1>2. n - m \in Nat /\ n = m + (n - m)
    OBVIOUS
  <1>3. Ceiling * m \in Nat /\ Ceiling * (n - m) \in Nat
    BY <1>1, <1>2
  <1>4. Ceiling * n = Ceiling * m + Ceiling * (n - m)
    BY <1>1, <1>2
  <1> QED BY <1>1, <1>3, <1>4 DEF Needed

LEMMA NeededNext ==
  ASSUME NEW n \in Nat
  PROVE  Needed(n + 1) = Needed(n) + Ceiling
  BY ReserveAssumption DEF Needed

\* Both sets of slots are finite.
LEMMA Finite ==
  /\ IsFiniteSet(Liabilities) /\ IsFiniteSet(InFlight)
  /\ Cardinality(Liabilities) \in Nat /\ Cardinality(InFlight) \in Nat
  <1>1. Liabilities \in SUBSET Txs /\ InFlight \in SUBSET Txs
    BY Zenon DEF Liabilities, InFlight
  <1>2. IsFiniteSet(Liabilities) /\ IsFiniteSet(InFlight)
    BY <1>1, QuotaAssumption, FS_Subset, Zenon
  <1> QED BY <1>2, FS_CardinalityType, Zenon

\* The step leaves a balance that covers the slots it leaves.
LEMMA Covered ==
  ASSUME NEW n \in Nat, cycles' \in Nat, deposits' \in Nat, Places,
         DOMAIN flight' = Txs, DOMAIN record' = Txs,
         Cardinality(Liabilities') + deposits' + Cardinality(InFlight') \in Nat,
         Cardinality(Liabilities') + deposits' + Cardinality(InFlight') <= n,
         cycles' >= Needed(n)
  PROVE  ReserveInv'
  BY NeededMonotone DEF ReserveInv, Places, LiabilitiesFunded, Needed

\* A notification that begins takes one more place, one that ends gives it back.
LEMMA Begun ==
  ASSUME Places, NEW t \in Txs \ InFlight, NEW c \in Callers, flight' = [flight EXCEPT ![t] = c]
  PROVE  DOMAIN flight' = Txs /\ Cardinality(InFlight') = Cardinality(InFlight) + 1
  <1>1. InFlight' = InFlight \cup {t}
    BY ReserveAssumption, Zenon DEF Places, InFlight
  <1> QED BY <1>1, Finite, FS_AddElement, Zenon DEF Places

LEMMA Ended ==
  ASSUME Places, NEW t \in InFlight, Ends(t)
  PROVE  /\ DOMAIN flight' = Txs /\ Cardinality(InFlight) >= 1
         /\ Cardinality(InFlight') = Cardinality(InFlight) - 1
  <1>1. InFlight' = InFlight \ {t} /\ DOMAIN flight' = Txs
    BY Zenon DEF Places, InFlight, Ends
  <1>2. Cardinality(InFlight) # 0
    BY Finite, FS_EmptySet, Zenon
  <1>3. Cardinality(InFlight \ {t}) = Cardinality(InFlight) - 1
    BY Finite, FS_RemoveElement, Zenon
  <1>4. Cardinality(InFlight) \in Nat
    BY Finite, Zenon
  <1> QED BY <1>1, <1>2, <1>3, <1>4

\* A record that changes adds at most one liability, and none when it was one
\* already or is none afterwards.
LEMMA Recorded ==
  ASSUME Places, NEW t \in Txs, NEW s, record' = [record EXCEPT ![t] = s]
  PROVE  /\ DOMAIN record' = Txs /\ Cardinality(Liabilities') \in Nat
         /\ Cardinality(Liabilities') <= Cardinality(Liabilities) + 1
         /\ t \in Liabilities \/ s \in {"minted", "paid"} =>
              Cardinality(Liabilities') <= Cardinality(Liabilities)
  <1>1. Liabilities' \in SUBSET (Liabilities \cup {t}) /\ DOMAIN record' = Txs
    BY Zenon DEF Places, Liabilities
  <1>2. s \in {"minted", "paid"} => Liabilities' \in SUBSET Liabilities
    BY Zenon DEF Places, Liabilities
  <1>3. /\ IsFiniteSet(Liabilities \cup {t})
        /\ Cardinality(Liabilities \cup {t}) =
             IF t \in Liabilities THEN Cardinality(Liabilities) ELSE Cardinality(Liabilities) + 1
    BY Finite, FS_AddElement, Zenon
  <1>4. IsFiniteSet(Liabilities') /\ Cardinality(Liabilities') <= Cardinality(Liabilities \cup {t})
    BY <1>1, <1>3, FS_Subset, Zenon
  <1>5. Cardinality(Liabilities') \in Nat
    BY <1>4, FS_CardinalityType, Zenon
  <1>6. s \in {"minted", "paid"} => Cardinality(Liabilities') <= Cardinality(Liabilities)
    BY <1>2, Finite, FS_Subset, Zenon
  <1> QED BY <1>1, <1>3, <1>4, <1>5, <1>6, Finite

\* After a notification has paid a request, the balance still covers a slot for
\* every liability, every deposit and every notification, and one to spare for
\* each notification but itself.
LEMMA PaidCovers ==
  ASSUME ReserveInv, NEW t \in InFlight, Affordable(TRUE)
  PROVE  /\ cycles - CallCost \in Nat /\ Cardinality(InFlight) >= 1
         /\ cycles - CallCost >= Needed(Cardinality(Liabilities) + deposits + Cardinality(InFlight))
  <1> DEFINE L == Cardinality(Liabilities)
             F == Cardinality(InFlight)
  <1>1. L \in Nat /\ F \in Nat /\ F # 0
    BY Finite, FS_EmptySet, Zenon
  <1>2. /\ CallCost \in Nat /\ Ceiling \in Nat /\ Floor \in Nat
        /\ cycles \in Nat /\ deposits \in Nat
    BY ReserveAssumption, Zenon DEF ReserveInv, Places
  <1> HIDE DEF L, F
  <1>3. cycles >= Needed(L + 2 * F - 2 + deposits) + CallCost + Ceiling
    BY <1>1, <1>2 DEF Affordable, CallRequirement, ExcludingOwner, RequiredCycles, Reserved,
                      NotificationSlots, Needed, L, F
  <1>4. /\ L + 2 * F - 2 + deposits \in Nat
        /\ L + deposits + F \in Nat /\ L + deposits + F <= (L + 2 * F - 2 + deposits) + 1
    BY <1>1, <1>2
  <1>5. /\ Needed(L + 2 * F - 2 + deposits + 1) = Needed(L + 2 * F - 2 + deposits) + Ceiling
        /\ Needed(L + deposits + F) <= Needed((L + 2 * F - 2 + deposits) + 1)
        /\ Needed(L + deposits + F) \in Nat
        /\ Needed(L + 2 * F - 2 + deposits) \in Nat
    BY <1>4, NeededNext, NeededMonotone
  <1>6. cycles - CallCost >= Needed(L + deposits + F) /\ cycles - CallCost \in Nat
    BY <1>2, <1>3, <1>5
  <1> QED BY <1>1, <1>6 DEF L, F

\* The steps of a notification.
LEMMA NotificationStep ==
  ASSUME ReserveInv, NEW t \in Txs,
         \/ \E c \in Callers : Notify(t, c)
         \/ Unaffordable(t) \/ RequestAnswered(t) \/ RequestFails(t) \/ MintConfirmed(t) \/ Ingest(t)
  PROVE  ReserveInv'
  <1> DEFINE L == Cardinality(Liabilities)
             F == Cardinality(InFlight)
  <1>0. /\ Places /\ cycles \in Nat /\ deposits \in Nat /\ L \in Nat /\ F \in Nat
        /\ cycles >= Needed(L + deposits + F)
    BY Finite, Zenon DEF ReserveInv, Places, LiabilitiesFunded, Needed
  <1>1. CASE \E c \in Callers : Notify(t, c)
    <2>1. PICK c \in Callers : Notify(t, c)
      BY <1>1, Zenon
    <2>2. /\ t \notin InFlight /\ flight' = [flight EXCEPT ![t] = c]
          /\ record' = record /\ cycles' = cycles /\ deposits' = deposits
      BY <2>1, Zenon DEF Notify
    <2>3. Cardinality(InFlight') = F + 1 /\ Liabilities' = Liabilities /\ DOMAIN flight' = Txs
      BY <1>0, <2>2, Begun, Zenon DEF Liabilities
    <2>4. cycles > Needed(L + 2 * F + deposits + 2)
      BY <1>0, <2>1, Zenon DEF Notify, HasNotificationBudget, HasLiabilityBudget, RequiredCycles, Reserved,
                        NotificationSlots, Needed
    <2>5. /\ L + 2 * F + deposits + 2 \in Nat /\ L + deposits + (F + 1) \in Nat
          /\ L + deposits + (F + 1) <= L + 2 * F + deposits + 2
      BY <1>0
    <2>6. Needed(L + 2 * F + deposits + 2) \in Nat
      BY <2>5, NeededMonotone
    <2>7. cycles >= Needed(L + 2 * F + deposits + 2)
      BY <1>0, <2>4, <2>6
    <2> HIDE DEF L, F
    <2> QED BY <1>0, <2>2, <2>3, <2>5, <2>7, Covered, Zenon DEF Places, L
  <1>2. CASE Unaffordable(t)
    <2>1. /\ t \in InFlight /\ Ends(t) /\ record' = record /\ cycles' = cycles /\ deposits' = deposits
      BY <1>2, Zenon DEF Unaffordable, Fails
    <2>2. /\ Cardinality(InFlight') = F - 1 /\ F >= 1 /\ DOMAIN flight' = Txs
          /\ Liabilities' = Liabilities
      BY <1>0, <2>1, Ended, Zenon DEF Liabilities
    <2>3. L + deposits + (F - 1) \in Nat /\ L + deposits + (F - 1) <= L + deposits + F
      BY <1>0, <2>2
    <2>4. Cardinality(Liabilities') + deposits' + Cardinality(InFlight') \in Nat
          /\ Cardinality(Liabilities') + deposits' + Cardinality(InFlight') <= L + deposits + F
      BY ONLY <1>0, <2>1, <2>2, <2>3, Zenon
    <2>5. L + deposits + F \in Nat
      BY ONLY <1>0
    <2> QED BY <1>0, <2>1, <2>2, <2>4, <2>5, Covered, Zenon DEF Places
  <1>3. CASE RequestAnswered(t) \/ RequestFails(t) \/ MintConfirmed(t) \/ Ingest(t)
    <2>1. t \in InFlight /\ Affordable(TRUE) /\ cycles' = cycles - CallCost /\ deposits' = deposits
      BY <1>3, Zenon DEF RequestAnswered, RequestFails, MintConfirmed, Ingest, Paid
    <2>2. cycles' \in Nat /\ F >= 1 /\ cycles' >= Needed(L + deposits + F)
      BY <2>1, PaidCovers, Zenon
    <2>3. CASE RequestAnswered(t)
      <3>1. flight' = flight /\ record' = record
        BY <2>3, Zenon DEF RequestAnswered
      <3>2. Liabilities' = Liabilities /\ InFlight' = InFlight
        BY <3>1, Zenon DEF Liabilities, InFlight
      <3>3. Cardinality(Liabilities') + deposits' + Cardinality(InFlight') \in Nat
            /\ Cardinality(Liabilities') + deposits' + Cardinality(InFlight') <= L + deposits + F
        BY ONLY <1>0, <2>1, <3>2
      <3>4. L + deposits + F \in Nat
        BY ONLY <1>0
      <3> QED BY <1>0, <2>1, <2>2, <3>1, <3>3, <3>4, Covered, Zenon DEF Places
    <2>4. CASE RequestFails(t) \/ MintConfirmed(t) \/ Ingest(t)
      <3>1. Ends(t)
        BY <2>4, Zenon DEF RequestFails, MintConfirmed, Ingest, Fails
      <3>2. Cardinality(InFlight') = F - 1 /\ DOMAIN flight' = Txs
        BY <1>0, <2>1, <3>1, Ended, Zenon
      <3>3. /\ Cardinality(Liabilities') \in Nat /\ Cardinality(Liabilities') <= L + 1
            /\ DOMAIN record' = Txs
        <4>1. CASE RequestFails(t)
          <5>1. record' = record
            BY <4>1, Zenon DEF RequestFails, Fails
          <5>2. Liabilities' = Liabilities /\ DOMAIN record' = Txs
            BY <1>0, <5>1, Zenon DEF Liabilities, Places
          <5> QED BY ONLY <1>0, <5>2
        <4>2. CASE MintConfirmed(t) \/ Ingest(t)
          <5>1. \E s : record' = [record EXCEPT ![t] = s]
            BY <4>2, Zenon DEF MintConfirmed, Ingest
          <5> QED BY <1>0, <5>1, Recorded, Zenon
        <4> QED BY <2>4, <4>1, <4>2, Zenon
      <3>4. /\ Cardinality(Liabilities') + deposits + (F - 1) \in Nat
            /\ Cardinality(Liabilities') + deposits + (F - 1) <= L + deposits + F
        BY <1>0, <2>2, <3>3
      <3>5. L + deposits + F \in Nat
        BY <1>0
      <3> QED BY <1>0, <2>1, <2>2, <3>2, <3>3, <3>4, <3>5, Covered, Zenon
    <2> QED BY <1>3, <2>3, <2>4, Zenon
  <1> QED BY <1>1, <1>2, <1>3, Zenon

\* The settlement of a liability never creates another one.
LEMMA SettlementStep ==
  ASSUME ReserveInv, NEW t \in Txs, ContinueObserved(t) \/ Pay(t) \/ Hold(t) \/ ResolveHold(t)
  PROVE  ReserveInv'
  <1>0. /\ Places /\ cycles \in Nat /\ deposits \in Nat
        /\ Cardinality(Liabilities) \in Nat /\ Cardinality(InFlight) \in Nat
        /\ cycles >= Needed(Cardinality(Liabilities) + deposits + Cardinality(InFlight))
    BY Finite, Zenon DEF ReserveInv, Places, LiabilitiesFunded, Needed
  <1>1. t \in Liabilities /\ flight' = flight /\ cycles' = cycles /\ deposits' = deposits
    BY Zenon DEF ContinueObserved, Pay, Hold, ResolveHold, Settle, Liabilities
  <1>2. record' = record \/ \E s : record' = [record EXCEPT ![t] = s]
    BY Zenon DEF ContinueObserved, Pay, Hold, ResolveHold, Settle, SetState
  <1>3. /\ Cardinality(Liabilities') \in Nat /\ DOMAIN record' = Txs
        /\ Cardinality(Liabilities') <= Cardinality(Liabilities)
    <2>1. CASE record' = record
      <3>1. Liabilities' = Liabilities /\ DOMAIN record' = Txs
        BY <1>0, <2>1, Zenon DEF Liabilities, Places
      <3> QED BY ONLY <1>0, <3>1
    <2>2. CASE \E s : record' = [record EXCEPT ![t] = s]
      BY <1>0, <1>1, <2>2, Recorded, Zenon
    <2> QED BY <1>2, <2>1, <2>2, Zenon
  <1>4. InFlight' = InFlight
    BY <1>1, Zenon DEF InFlight
  <1>5. Cardinality(Liabilities') + deposits' + Cardinality(InFlight') \in Nat
        /\ Cardinality(Liabilities') + deposits' + Cardinality(InFlight') <= Cardinality(Liabilities) + deposits + Cardinality(InFlight)
    BY ONLY <1>0, <1>1, <1>3, <1>4
  <1>6. Cardinality(Liabilities) + deposits + Cardinality(InFlight) \in Nat
    BY ONLY <1>0
  <1> QED BY <1>0, <1>1, <1>3, <1>5, <1>6, Covered, Zenon DEF Places

\* Deposits, other paid calls, refills, upgrades and time.
LEMMA OtherStep ==
  ASSUME ReserveInv,
         \/ AdmitDeposit \/ FinishDeposit \/ OtherCall \/ ControlPlaneCall \/ TopUp
         \/ (\E fee \in LedgerFees : Upgrade(fee)) \/ Tick \/ UNCHANGED reserveVars
  PROVE  ReserveInv'
  <1> DEFINE L == Cardinality(Liabilities)
             F == Cardinality(InFlight)
  <1>0. /\ Places /\ cycles \in Nat /\ deposits \in Nat /\ L \in Nat /\ F \in Nat
        /\ cycles >= Needed(L + deposits + F) /\ L + deposits + F \in Nat
        /\ CallCost \in Nat /\ Ceiling \in Nat /\ TopUpAmount \in Nat
    <2>1. /\ Places /\ cycles \in Nat /\ deposits \in Nat /\ L \in Nat /\ F \in Nat
          /\ cycles >= Needed(L + deposits + F)
      BY Finite, Zenon DEF ReserveInv, Places, LiabilitiesFunded, Needed
    <2>2. CallCost \in Nat /\ Ceiling \in Nat /\ TopUpAmount \in Nat
      BY ReserveAssumption, Zenon
    <2> QED BY ONLY <2>1, <2>2
  <1>1. flight' = flight /\ record' = record
    BY Zenon DEF AdmitDeposit, FinishDeposit, OtherCall, ControlPlaneCall, TopUp, Upgrade, Tick, reserveVars
  <1>2. Liabilities' = Liabilities /\ InFlight' = InFlight
    BY <1>1, Zenon DEF Liabilities, InFlight
  <1>3. CASE AdmitDeposit
    <2>1. cycles' = cycles /\ deposits' = deposits + 1 /\ cycles >= Needed(L + 2 * F + deposits + 1)
      BY <1>3, Zenon DEF AdmitDeposit, RequiredCycles, Reserved, NotificationSlots, Needed
    <2>2. /\ L + 2 * F + deposits + 1 \in Nat /\ L + (deposits + 1) + F \in Nat
          /\ L + (deposits + 1) + F <= L + 2 * F + deposits + 1
      BY <1>0
    <2>3. Cardinality(Liabilities') + deposits' + Cardinality(InFlight') \in Nat
          /\ Cardinality(Liabilities') + deposits' + Cardinality(InFlight') <= L + 2 * F + deposits + 1
      BY ONLY <1>0, <1>2, <2>1, <2>2, Zenon
    <2>4. L + 2 * F + deposits + 1 \in Nat /\ deposits' \in Nat
      BY ONLY <1>0, <2>1, <2>2
    <2> QED BY <1>0, <1>1, <2>1, <2>3, <2>4, Covered, Zenon DEF Places
  <1>4. CASE FinishDeposit
    <2>1. deposits' \in Nat /\ deposits' <= deposits /\ cycles' = cycles
      <3>1. deposits > 0 /\ deposits' = deposits - 1 /\ cycles' = cycles
        BY <1>4, Zenon DEF FinishDeposit
      <3> QED BY ONLY <1>0, <3>1
    <2>2. L + deposits' + F \in Nat /\ L + deposits' + F <= L + deposits + F
      BY <1>0, <2>1
    <2> QED BY <1>0, <1>1, <1>2, <2>1, <2>2, Covered, Zenon DEF Places
  <1>5. CASE OtherCall
    <2>1. cycles' = cycles - CallCost /\ deposits' = deposits
      BY <1>5, Zenon DEF OtherCall
    <2>2. cycles >= Needed(L + 2 * F + deposits) + CallCost + Ceiling
      <3>1. cycles >= Floor + Ceiling * ((L + 2 * F) + deposits + 0) + CallCost + Ceiling
        BY <1>5, Zenon DEF OtherCall, Affordable, CallRequirement, ExcludingOwner, RequiredCycles,
                             Reserved, NotificationSlots
      <3>2. (L + 2 * F) + deposits + 0 = L + 2 * F + deposits
        BY ONLY <1>0
      <3> QED BY <3>1, <3>2, Zenon DEF Needed
    <2>3. L + 2 * F + deposits \in Nat /\ L + deposits + F <= L + 2 * F + deposits
      BY <1>0
    <2>4. Needed(L + 2 * F + deposits) \in Nat
      BY <2>3, NeededMonotone
    <2>5. cycles' \in Nat /\ cycles' >= Needed(L + 2 * F + deposits)
      BY ONLY <1>0, <2>1, <2>2, <2>4
    <2> QED BY <1>0, <1>1, <1>2, <2>1, <2>3, <2>5, Covered, Zenon DEF Places
  <1>6. CASE ControlPlaneCall \/ TopUp \/ (\E fee \in LedgerFees : Upgrade(fee)) \/ Tick \/ UNCHANGED reserveVars
    <2>1. deposits' = deposits /\ (cycles' = cycles \/ cycles' = cycles + TopUpAmount)
      BY <1>6, Zenon DEF ControlPlaneCall, TopUp, Upgrade, Tick, reserveVars
    <2>2. Needed(L + deposits + F) \in Nat
      BY <1>0, NeededMonotone
    <2>3. cycles' \in Nat /\ cycles' >= Needed(L + deposits + F)
      BY <1>0, <2>1, <2>2
    <2>4. Cardinality(Liabilities') + deposits' + Cardinality(InFlight') \in Nat
          /\ Cardinality(Liabilities') + deposits' + Cardinality(InFlight') <= L + deposits + F
      BY ONLY <1>0, <1>2, <2>1
    <2>5. L + deposits + F \in Nat
      BY ONLY <1>0, Zenon
    <2> QED BY <1>0, <1>1, <2>1, <2>3, <2>4, <2>5, Covered, Zenon DEF Places
  <1> QED BY <1>3, <1>4, <1>5, <1>6, Zenon

\* The balance of the first release covers the floor, and nothing is owed.
LEMMA ReserveInitInv == ReserveInit => ReserveInv
  <1> SUFFICES ASSUME ReserveInit PROVE ReserveInv
    BY Zenon
  <1>1. Liabilities = {} /\ InFlight = {}
    BY Zenon DEF ReserveInit, Liabilities, InFlight
  <1>2. Cardinality(Liabilities) = 0 /\ Cardinality(InFlight) = 0
    BY <1>1, FS_EmptySet, Zenon
  <1>3. Places /\ cycles >= Floor /\ deposits = 0
    BY ReserveAssumption, Zenon DEF ReserveInit, Places
  <1> QED BY <1>2, <1>3, ReserveAssumption DEF ReserveInv, LiabilitiesFunded

\* The balance covers the floor and a settlement for every liability, deposit
\* and notification in flight, whatever the order in which notifications pay
\* their requests (require_external_call_cycle_budget).
THEOREM LiabilitiesAlwaysFunded == ReserveSpec => []LiabilitiesFunded
  <1>1. ReserveInv /\ [ReserveNext]_reserveVars => ReserveInv'
    BY NotificationStep, SettlementStep, OtherStep, Zenon DEF ReserveNext
  <1>2. ReserveInv => LiabilitiesFunded
    BY Zenon DEF ReserveInv
  <1> QED BY ReserveInitInv, <1>1, <1>2, PTL DEF ReserveSpec
==============================================================================
