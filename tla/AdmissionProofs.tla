-------------------------- MODULE AdmissionProofs --------------------------
(***************************************************************************)
(* Proofs about Admission, for every set of deposits, owners and limits.   *)
(***************************************************************************)
EXTENDS Admission, FiniteSetTheorems, WellFoundedInduction, TLAPS

----------------------------------------------------------------------------
(* Finite sets and sums over them                                         *)

\* A nonempty set of numbers has a least element.
LEMMA Least ==
  ASSUME NEW T \in SUBSET Nat, T # {}
  PROVE  \E x \in T : \A y \in T : x <= y
  <1>1. PICK x \in T : \A y \in T : ~(<<y, x>> \in OpToRel(<, Nat))
    BY NatLessThanWellFounded, WFMin, Zenon
  <1>2. ASSUME NEW y \in T PROVE x <= y
    <2>1. ~(<<y, x>> \in OpToRel(<, Nat))
      BY <1>1, Zenon
    <2>2. ~(y < x)
      BY <2>1, Zenon DEF OpToRel
    <2> QED BY <2>2
  <1> QED BY <1>2, Zenon

\* A nonempty family of subsets of a finite set has a smallest member.
LEMMA Smallest ==
  ASSUME NEW S, IsFiniteSet(S), NEW F \in SUBSET SUBSET S, F # {}
  PROVE  \E s \in F : \A x \in s : s \ {x} \notin F
  <1>1. \A s \in F : IsFiniteSet(s) /\ Cardinality(s) \in Nat
    BY FS_Subset, FS_CardinalityType, Zenon
  <1> DEFINE T == {Cardinality(s) : s \in F}
  <1>2. T \in SUBSET Nat /\ T # {}
    BY <1>1, Zenon
  <1>3. PICK n \in T : \A m \in T : n <= m
    BY <1>2, Least, Zenon
  <1>4. PICK s \in F : n = Cardinality(s)
    BY Zenon
  <1>5. ASSUME NEW x \in s, s \ {x} \in F PROVE FALSE
    <2>1. Cardinality(s \ {x}) = Cardinality(s) - 1
      BY <1>1, FS_RemoveElement, Zenon
    <2>2. Cardinality(s) <= Cardinality(s \ {x})
      BY <1>3, <1>4, <1>5, Zenon
    <2>3. Cardinality(s) \in Nat
      BY <1>1, Zenon
    <2> QED BY <2>1, <2>2, <2>3
  <1> QED BY <1>4, <1>5, Zenon

\* Induction over the subsets of a finite set.
LEMMA SetInduct ==
  ASSUME NEW S, IsFiniteSet(S), NEW Good, {} \in Good,
         \A s \in SUBSET S : s # {} /\ (\A x \in s : s \ {x} \in Good) => s \in Good
  PROVE  \A s \in SUBSET S : s \in Good
  <1> DEFINE F == {s \in SUBSET S : s \notin Good}
  <1> SUFFICES ASSUME F # {} PROVE FALSE
    BY Zenon
  <1>1. PICK s \in F : \A x \in s : s \ {x} \notin F
    BY Smallest, Zenon
  <1>2. \A x \in s : s \ {x} \in Good
    BY <1>1, Zenon
  <1> QED BY <1>1, <1>2, Zenon

Pick(s) == CHOOSE x \in s : TRUE

\* g has the sum of v over each subset of S.
Sums(v, S, g) == g = [s \in SUBSET S |-> IF s = {} THEN 0 ELSE v[Pick(s)] + g[s \ {Pick(s)}]]

\* What that means for each of them.
SumsTo(v, S, g) ==
  g[{}] = 0 /\ \A s \in SUBSET S : s # {} => g[s] = v[Pick(s)] + g[s \ {Pick(s)}]

LEMMA PickIn == ASSUME NEW s, s # {} PROVE Pick(s) \in s
  BY Zenon DEF Pick

LEMMA SumsAt ==
  ASSUME NEW S, NEW v, NEW g, Sums(v, S, g)
  PROVE  SumsTo(v, S, g)
  BY Zenon DEF Sums, SumsTo

SameSums(T, h, g) == \A s \in SUBSET T : h[s] = g[s]

\* The sums over subsets of s do not depend on what else there is.
LEMMA SumsAgree ==
  ASSUME NEW S, IsFiniteSet(S), NEW T \in SUBSET S, NEW v, NEW g, Sums(v, S, g), NEW h, Sums(v, T, h)
  PROVE  SameSums(T, h, g)
  <1> DEFINE Good == {s \in SUBSET T : h[s] = g[s]}
  <1>g. SumsTo(v, S, g) /\ SumsTo(v, T, h)
    BY SumsAt, Zenon
  <1>1. {} \in Good
    BY <1>g, Zenon DEF SumsTo
  <1>2. ASSUME NEW s \in SUBSET T, s # {}, \A x \in s : s \ {x} \in Good PROVE s \in Good
    <2>1. Pick(s) \in s
      BY <1>2, PickIn, Zenon
    <2>2. h[s \ {Pick(s)}] = g[s \ {Pick(s)}]
      BY <1>2, <2>1, Zenon
    <2>3. h[s] = v[Pick(s)] + h[s \ {Pick(s)}] /\ g[s] = v[Pick(s)] + g[s \ {Pick(s)}]
      BY <1>2, <1>g, Zenon DEF SumsTo
    <2> QED BY <2>2, <2>3, Zenon
  <1>3. IsFiniteSet(T)
    BY FS_Subset, Zenon
  <1> HIDE DEF Good
  <1>4. \A s \in SUBSET T : s \in Good
    BY <1>1, <1>2, <1>3, SetInduct, Zenon
  <1> QED BY <1>4, Zenon DEF Good, SameSums

SumsBelow(v, t) == CHOOSE h : Sums(v, t \ {Pick(t)}, h)

LEMMA SumsExist ==
  ASSUME NEW S, IsFiniteSet(S), NEW v
  PROVE  \E g : Sums(v, S, g)
  <1> DEFINE Good == {s \in SUBSET S : \E g : Sums(v, s, g)}
  <1>1. {} \in Good
    <2> DEFINE g == [s \in SUBSET {} |-> 0]
    <2>1. Sums(v, {}, g)
      BY Zenon DEF Sums
    <2> QED BY <2>1, Zenon
  <1>2. ASSUME NEW s \in SUBSET S, s # {}, \A x \in s : s \ {x} \in Good PROVE s \in Good
    <2> DEFINE g == [t \in SUBSET s |-> IF t = {} THEN 0 ELSE v[Pick(t)] + SumsBelow(v, t)[t \ {Pick(t)}]]
    <2>f. IsFiniteSet(s)
      BY FS_Subset, Zenon
    <2>1. ASSUME NEW x \in s PROVE \E h : Sums(v, s \ {x}, h)
      BY <1>2, Zenon
    <2>2. ASSUME NEW t \in SUBSET s, t # {} PROVE Sums(v, t \ {Pick(t)}, SumsBelow(v, t))
      <3> DEFINE p == Pick(t)
      <3>1. p \in t
        BY <2>2, PickIn, Zenon
      <3>2. PICK k : Sums(v, s \ {p}, k)
        BY <2>1, <3>1, Zenon
      <3> HIDE DEF p
      <3> DEFINE h == [u \in SUBSET (t \ {p}) |-> k[u]]
      <3>3. k[{}] = 0 /\ \A u \in SUBSET (s \ {p}) : u # {} => k[u] = v[Pick(u)] + k[u \ {Pick(u)}]
        <4>1. SumsTo(v, s \ {p}, k)
          BY <3>2, SumsAt, Zenon
        <4> QED BY <4>1, Zenon DEF SumsTo
      <3>4. ASSUME NEW u \in SUBSET (t \ {p})
            PROVE  h[u] = IF u = {} THEN 0 ELSE v[Pick(u)] + h[u \ {Pick(u)}]
        <4>1. u \in SUBSET (s \ {p}) /\ h[u] = k[u]
          BY <3>1, Zenon
        <4>2. CASE u = {}
          BY <3>3, <4>1, <4>2, Zenon
        <4>3. CASE u # {}
          <5>1. k[u] = v[Pick(u)] + k[u \ {Pick(u)}]
            BY <3>3, <4>1, <4>3, Zenon
          <5>2. h[u \ {Pick(u)}] = k[u \ {Pick(u)}]
            BY Zenon
          <5> QED BY <4>1, <4>3, <5>1, <5>2, Zenon
        <4> QED BY <4>2, <4>3, Zenon
      <3>5. Sums(v, t \ {p}, h)
        BY <3>4, Zenon DEF Sums
      <3> QED BY <3>5, Zenon DEF p, SumsBelow
    <2>3. ASSUME NEW t \in SUBSET s, t # {}
          PROVE  SumsBelow(v, t)[t \ {Pick(t)}] = g[t \ {Pick(t)}]
      <3> DEFINE u == t \ {Pick(t)}
      <3>1. Sums(v, u, SumsBelow(v, t)) /\ u \in SUBSET s
        BY <2>2, <2>3, Zenon
      <3> HIDE DEF u
      <3>2. CASE u = {}
        <4>1. SumsBelow(v, t)[{}] = 0
          BY <3>1, SumsAt, Zenon DEF SumsTo
        <4> QED BY <3>2, <4>1, Zenon DEF u
      <3>3. CASE u # {}
        <4>1. Sums(v, u \ {Pick(u)}, SumsBelow(v, u))
          BY <2>2, <3>1, <3>3, Zenon
        <4>2. IsFiniteSet(u) /\ u \ {Pick(u)} \in SUBSET u
          BY <2>f, <3>1, FS_Subset, Zenon
        <4>a. SameSums(u \ {Pick(u)}, SumsBelow(v, u), SumsBelow(v, t))
          BY ONLY <3>1, <4>1, <4>2, SumsAgree, Zenon
        <4>3. SumsBelow(v, u)[u \ {Pick(u)}] = SumsBelow(v, t)[u \ {Pick(u)}]
          BY ONLY <4>a, Zenon DEF SameSums
        <4>4. SumsBelow(v, t)[u] = v[Pick(u)] + SumsBelow(v, t)[u \ {Pick(u)}]
          <5>1. SumsTo(v, u, SumsBelow(v, t))
            BY <3>1, SumsAt, Zenon
          <5> QED BY ONLY <3>3, <5>1, Zenon DEF SumsTo
        <4>5. g[u] = v[Pick(u)] + SumsBelow(v, u)[u \ {Pick(u)}]
          BY <3>1, <3>3, Zenon
        <4> QED BY <4>3, <4>4, <4>5, Zenon DEF u
      <3> QED BY <3>2, <3>3, Zenon DEF u
    <2>4. ASSUME NEW t \in SUBSET s
          PROVE  g[t] = IF t = {} THEN 0 ELSE v[Pick(t)] + g[t \ {Pick(t)}]
      <3>1. CASE t = {}
        BY <3>1, Zenon
      <3>2. CASE t # {}
        <4>1. g[t] = v[Pick(t)] + SumsBelow(v, t)[t \ {Pick(t)}]
          BY <3>2, Zenon
        <4>2. SumsBelow(v, t)[t \ {Pick(t)}] = g[t \ {Pick(t)}]
          BY <2>3, <3>2, Zenon
        <4> QED BY ONLY <3>2, <4>1, <4>2, Zenon
      <3> QED BY <3>1, <3>2, Zenon
    <2>5. DOMAIN g = SUBSET s /\ g = [t \in SUBSET s |-> g[t]]
      BY Zenon
    <2> HIDE DEF g
    <2>6. Sums(v, s, g)
      BY <2>4, <2>5, Zenon DEF Sums
    <2> QED BY <2>6, Zenon
  <1> HIDE DEF Good
  <1>3. \A s \in SUBSET S : s \in Good
    BY <1>1, <1>2, SetInduct, Zenon
  <1> QED BY <1>3, Zenon DEF Good

\* The library's fold computes these sums.
LEMMA SumIs ==
  ASSUME NEW S, IsFiniteSet(S), NEW v, NEW g, Sums(v, S, g)
  PROVE  \A T \in SUBSET S : SumFunctionOnSet(v, T) = g[T]
  <1> SUFFICES ASSUME NEW T \in SUBSET S PROVE SumFunctionOnSet(v, T) = g[T]
    BY Zenon
  <1> DEFINE h == CHOOSE iter : iter = [s \in SUBSET T |-> IF s = {} THEN 0 ELSE v[Pick(s)] + iter[s \ {Pick(s)}]]
  <1>1. SumFunctionOnSet(v, T) = h[T]
    BY Zenon DEF SumFunctionOnSet, FoldFunctionOnSet, MapThenFoldSet, Pick
  <1>2. IsFiniteSet(T)
    BY FS_Subset, Zenon
  <1>3. \E k : Sums(v, T, k)
    BY ONLY <1>2, SumsExist, Zenon
  <1>4. Sums(v, T, h)
    BY ONLY <1>3, Zenon DEF Sums
  <1> HIDE DEF h
  <1>5. SameSums(T, h, g)
    BY <1>4, SumsAgree, Zenon
  <1> QED BY <1>1, <1>5, Zenon DEF SameSums

LEMMA SumEmpty == ASSUME NEW v PROVE SumFunctionOnSet(v, {}) = 0
  <1>1. IsFiniteSet({})
    BY FS_EmptySet, Zenon
  <1>2. PICK g : Sums(v, {}, g)
    BY <1>1, SumsExist, Zenon
  <1>3. g[{}] = 0
    BY <1>2, SumsAt, Zenon DEF SumsTo
  <1>4. SumFunctionOnSet(v, {}) = g[{}]
    BY <1>1, <1>2, SumIs, Zenon
  <1> QED BY <1>3, <1>4, Zenon

LEMMA SumsInt ==
  ASSUME NEW S, IsFiniteSet(S), NEW v, \A x \in S : v[x] \in Int, NEW g, Sums(v, S, g)
  PROVE  \A s \in SUBSET S : g[s] \in Int
  <1>2. SumsTo(v, S, g)
    BY SumsAt, Zenon
  <1> DEFINE Good == {s \in SUBSET S : g[s] \in Int}
  <1>3. {} \in Good
    BY <1>2 DEF SumsTo
  <1>4. ASSUME NEW s \in SUBSET S, s # {}, \A y \in s : s \ {y} \in Good PROVE s \in Good
    <2>1. Pick(s) \in s /\ g[s] = v[Pick(s)] + g[s \ {Pick(s)}]
      BY <1>2, <1>4, PickIn, Zenon DEF SumsTo
    <2>2. g[s \ {Pick(s)}] \in Int /\ v[Pick(s)] \in Int
      BY <1>4, <2>1, Zenon
    <2> QED BY <2>1, <2>2
  <1> HIDE DEF Good
  <1>5. \A s \in SUBSET S : s \in Good
    BY <1>3, <1>4, SetInduct, Zenon
  <1> QED BY <1>5, Zenon DEF Good

\* A sum may be started with any of its members.
LEMMA SumRemove ==
  ASSUME NEW S, IsFiniteSet(S), NEW v, \A x \in S : v[x] \in Int, NEW x \in S
  PROVE  /\ SumFunctionOnSet(v, S) \in Int /\ SumFunctionOnSet(v, S \ {x}) \in Int
         /\ SumFunctionOnSet(v, S) = v[x] + SumFunctionOnSet(v, S \ {x})
  <1>1. PICK g : Sums(v, S, g)
    BY SumsExist, Zenon
  <1>2. SumsTo(v, S, g)
    BY <1>1, SumsAt, Zenon
  <1> DEFINE Good == {s \in SUBSET S : \A y \in s : g[s] = v[y] + g[s \ {y}]}
  <1>t. \A s \in SUBSET S : g[s] \in Int
    BY <1>1, SumsInt, Zenon
  <1>3. {} \in Good
    BY Zenon
  <1>4. ASSUME NEW s \in SUBSET S, s # {}, \A y \in s : s \ {y} \in Good PROVE s \in Good
    <2> DEFINE p == Pick(s)
    <2>1. p \in s /\ g[s] = v[p] + g[s \ {p}]
      BY <1>2, <1>4, PickIn, Zenon DEF SumsTo
    <2> HIDE DEF p
    <2>2. v[p] \in Int
      BY <1>4, <2>1, Zenon
    <2>3. ASSUME NEW y \in s PROVE g[s] = v[y] + g[s \ {y}]
      <3>1. CASE y = p
        BY <2>1, <3>1, Zenon
      <3>2. CASE y # p
        <4>1. y \in s \ {p} /\ p \in s \ {y} /\ s \ {p} \in Good /\ s \ {y} \in Good
          BY <1>4, <2>1, <3>2, Zenon
        <4>2. g[s \ {p}] = v[y] + g[(s \ {p}) \ {y}] /\ g[s \ {y}] = v[p] + g[(s \ {y}) \ {p}]
          BY <4>1, Zenon
        <4>3. (s \ {p}) \ {y} = (s \ {y}) \ {p}
          BY Zenon
        <4>4. v[y] \in Int
          BY Zenon
        <4>5. PICK r : r = g[(s \ {y}) \ {p}]
          BY Zenon
        <4>6. (s \ {y}) \ {p} \in SUBSET S
          BY Zenon
        <4>7. r \in Int
          BY <1>t, <4>5, <4>6, Zenon
        <4>8. g[s \ {p}] = v[y] + r /\ g[s \ {y}] = v[p] + r
          BY ONLY <4>2, <4>3, <4>5, Zenon
        <4> QED BY ONLY <2>1, <2>2, <4>4, <4>7, <4>8
      <3> QED BY <3>1, <3>2, Zenon
    <2> QED BY <2>3, Zenon
  <1> HIDE DEF Good
  <1>5. \A s \in SUBSET S : s \in Good
    BY <1>3, <1>4, SetInduct, Zenon
  <1>6. S \in Good /\ S \ {x} \in Good
    BY <1>5, Zenon
  <1>7. SumFunctionOnSet(v, S) = g[S] /\ SumFunctionOnSet(v, S \ {x}) = g[S \ {x}]
    BY <1>1, SumIs
  <1> QED BY <1>6, <1>7, <1>t, Zenon DEF Good

LEMMA SumType ==
  ASSUME NEW S, IsFiniteSet(S), NEW v, \A x \in S : v[x] \in Int
  PROVE  SumFunctionOnSet(v, S) \in Int
  <1>1. CASE S = {}
    BY <1>1, SumEmpty
  <1>2. CASE S # {}
    <2>1. PICK x \in S : TRUE
      BY <1>2, Zenon
    <2> QED BY <2>1, SumRemove, Zenon
  <1> QED BY <1>1, <1>2, Zenon

LEMMA SumAdd ==
  ASSUME NEW S, IsFiniteSet(S), NEW x, x \notin S, NEW v, v[x] \in Int, \A y \in S : v[y] \in Int
  PROVE  SumFunctionOnSet(v, S \cup {x}) = v[x] + SumFunctionOnSet(v, S)
  <1> DEFINE T == S \cup {x}
  <1>1. IsFiniteSet(T) /\ x \in T /\ T \ {x} = S /\ \A y \in T : v[y] \in Int
    BY FS_AddElement, Zenon
  <1> HIDE DEF T
  <1>2. SumFunctionOnSet(v, T) = v[x] + SumFunctionOnSet(v, T \ {x})
    BY ONLY <1>1, SumRemove, Zenon
  <1> QED BY <1>1, <1>2, Zenon DEF T

\* A sum of larger terms, over more of them, is larger.
LEMMA SumLeq ==
  ASSUME NEW S, IsFiniteSet(S), NEW T \in SUBSET S, NEW u, NEW v,
         \A x \in S : v[x] \in Int /\ v[x] >= 0,
         \A x \in T : u[x] \in Int /\ u[x] <= v[x]
  PROVE  SumFunctionOnSet(u, T) <= SumFunctionOnSet(v, S)
  <1> DEFINE Good == {s \in SUBSET S : SumFunctionOnSet(u, s \cap T) <= SumFunctionOnSet(v, s)}
  <1>1. {} \in Good
    <2>1. {} \cap T = {}
      BY Zenon
    <2> QED BY <2>1, SumEmpty
  <1>2. ASSUME NEW s \in SUBSET S, s # {}, \A y \in s : s \ {y} \in Good PROVE s \in Good
    <2>1. PICK x \in s : TRUE
      BY <1>2, Zenon
    <2>2. SumFunctionOnSet(u, (s \ {x}) \cap T) <= SumFunctionOnSet(v, s \ {x})
      BY <1>2, <2>1, Zenon
    <2>3. IsFiniteSet(s) /\ IsFiniteSet(s \cap T) /\ IsFiniteSet(s \ {x})
      BY FS_Subset, Zenon
    <2>4. /\ SumFunctionOnSet(v, s) = v[x] + SumFunctionOnSet(v, s \ {x})
          /\ SumFunctionOnSet(v, s) \in Int /\ SumFunctionOnSet(v, s \ {x}) \in Int
      BY <2>1, <2>3, SumRemove, Zenon
    <2>5. v[x] \in Int /\ v[x] >= 0
      BY <2>1, Zenon
    <2>6. CASE x \in T
      <3>1. (s \ {x}) \cap T = (s \cap T) \ {x} /\ x \in s \cap T
        BY <2>1, <2>6, Zenon
      <3>2. /\ SumFunctionOnSet(u, s \cap T) = u[x] + SumFunctionOnSet(u, (s \cap T) \ {x})
            /\ SumFunctionOnSet(u, s \cap T) \in Int /\ SumFunctionOnSet(u, (s \cap T) \ {x}) \in Int
        BY <2>3, <3>1, SumRemove, Zenon
      <3>3. u[x] \in Int /\ u[x] <= v[x]
        BY <2>6, Zenon
      <3>4. SumFunctionOnSet(u, (s \cap T) \ {x}) <= SumFunctionOnSet(v, s \ {x})
        BY <2>2, <3>1, Zenon
      <3>5. SumFunctionOnSet(u, s \cap T) <= SumFunctionOnSet(v, s)
        BY ONLY <2>4, <2>5, <3>2, <3>3, <3>4
      <3> QED BY <3>5, Zenon
    <2>7. CASE x \notin T
      <3>1. (s \ {x}) \cap T = s \cap T
        BY <2>7, Zenon
      <3>2. SumFunctionOnSet(u, s \cap T) \in Int
        BY <2>3, SumType, Zenon
      <3>3. SumFunctionOnSet(u, s \cap T) <= SumFunctionOnSet(v, s)
        BY ONLY <2>2, <2>4, <2>5, <3>1, <3>2
      <3> QED BY <3>3, Zenon
    <2> QED BY <2>6, <2>7, Zenon
  <1> HIDE DEF Good
  <1>3. \A s \in SUBSET S : s \in Good
    BY <1>1, <1>2, SetInduct, Zenon
  <1>4. S \cap T = T
    BY Zenon
  <1> QED BY <1>3, <1>4, Zenon DEF Good

LEMMA SumNat ==
  ASSUME NEW S, IsFiniteSet(S), NEW v, \A x \in S : v[x] \in Int /\ v[x] >= 0
  PROVE  SumFunctionOnSet(v, S) \in Nat
  <1>1. SumFunctionOnSet(v, {}) <= SumFunctionOnSet(v, S)
    BY SumLeq, Zenon
  <1> QED BY <1>1, SumEmpty, SumType

\* Terms that agree have the same sum.
LEMMA SumSame ==
  ASSUME NEW S, IsFiniteSet(S), NEW u, NEW v, \A x \in S : u[x] \in Int /\ u[x] >= 0 /\ v[x] = u[x]
  PROVE  SumFunctionOnSet(v, S) = SumFunctionOnSet(u, S)
  <1>1. SumFunctionOnSet(v, S) <= SumFunctionOnSet(u, S)
    BY SumLeq
  <1>2. SumFunctionOnSet(u, S) <= SumFunctionOnSet(v, S)
    BY SumLeq
  <1> QED BY <1>1, <1>2, SumType

\* A union has at most the sum of its parts.
LEMMA SumCover ==
  ASSUME NEW S, IsFiniteSet(S), NEW T, IsFiniteSet(T), NEW v, \A x \in S \cup T : v[x] \in Int /\ v[x] >= 0
  PROVE  /\ SumFunctionOnSet(v, S \cup T) <= SumFunctionOnSet(v, S) + SumFunctionOnSet(v, T)
         /\ S \cap T = {} => SumFunctionOnSet(v, S \cup T) = SumFunctionOnSet(v, S) + SumFunctionOnSet(v, T)
  <1> DEFINE Good == {t \in SUBSET T :
        /\ SumFunctionOnSet(v, S \cup t) <= SumFunctionOnSet(v, S) + SumFunctionOnSet(v, t)
        /\ S \cap t = {} => SumFunctionOnSet(v, S \cup t) = SumFunctionOnSet(v, S) + SumFunctionOnSet(v, t)}
  <1>t. SumFunctionOnSet(v, S) \in Int
    BY SumType, Zenon
  <1>1. {} \in Good
    <2>1. S \cup {} = S
      BY Zenon
    <2> QED BY <1>t, <2>1, SumEmpty
  <1>2. ASSUME NEW t \in SUBSET T, t # {}, \A y \in t : t \ {y} \in Good PROVE t \in Good
    <2>1. PICK x \in t : TRUE
      BY <1>2, Zenon
    <2> DEFINE r == t \ {x}
    <2>2. /\ SumFunctionOnSet(v, S \cup r) <= SumFunctionOnSet(v, S) + SumFunctionOnSet(v, r)
          /\ S \cap r = {} => SumFunctionOnSet(v, S \cup r) = SumFunctionOnSet(v, S) + SumFunctionOnSet(v, r)
      BY <1>2, <2>1, Zenon
    <2>3. IsFiniteSet(t) /\ IsFiniteSet(r) /\ IsFiniteSet(S \cup r) /\ v[x] \in Int /\ v[x] >= 0
      BY <2>1, FS_Subset, FS_Union, Zenon
    <2>4. SumFunctionOnSet(v, t) = v[x] + SumFunctionOnSet(v, r) /\ SumFunctionOnSet(v, r) \in Int
      BY <2>1, <2>3, SumRemove, Zenon
    <2>5. SumFunctionOnSet(v, S \cup r) \in Int
      BY <2>3, SumType, Zenon
    <2>6. CASE x \in S
      <3>1. S \cup t = S \cup r /\ S \cap t # {}
        BY <2>1, <2>6, Zenon
      <3> HIDE DEF r
      <3>2. /\ SumFunctionOnSet(v, S \cup t) <= SumFunctionOnSet(v, S) + SumFunctionOnSet(v, t)
        <4>1. SumFunctionOnSet(v, S \cup t) = SumFunctionOnSet(v, S \cup r)
          BY <3>1, Zenon
        <4> QED BY ONLY <1>t, <2>2, <2>3, <2>4, <2>5, <4>1
      <3> QED BY <3>1, <3>2, Zenon
    <2>7. CASE x \notin S
      <3>1. S \cup t = (S \cup r) \cup {x} /\ x \notin S \cup r /\ (S \cap t = {} => S \cap r = {})
        BY <2>1, <2>7, Zenon
      <3>2. \A y \in S \cup r : v[y] \in Int
        BY Zenon
      <3> HIDE DEF r
      <3>3. SumFunctionOnSet(v, S \cup t) = v[x] + SumFunctionOnSet(v, S \cup r)
        <4>1. PICK w : w = S \cup r
          BY Zenon
        <4>2. SumFunctionOnSet(v, w \cup {x}) = v[x] + SumFunctionOnSet(v, w)
          BY ONLY <2>3, <3>1, <3>2, <4>1, SumAdd, Zenon
        <4> QED BY <3>1, <4>1, <4>2, Zenon
      <3>4. /\ SumFunctionOnSet(v, S \cup t) <= SumFunctionOnSet(v, S) + SumFunctionOnSet(v, t)
            /\ S \cap t = {} => SumFunctionOnSet(v, S \cup t) = SumFunctionOnSet(v, S) + SumFunctionOnSet(v, t)
        BY ONLY <1>t, <2>2, <2>3, <2>4, <2>5, <3>1, <3>3
      <3> QED BY <3>4, Zenon
    <2> QED BY <2>6, <2>7, Zenon
  <1> HIDE DEF Good
  <1>3. \A t \in SUBSET T : t \in Good
    BY <1>1, <1>2, SetInduct, Zenon
  <1> QED BY <1>3, Zenon DEF Good

----------------------------------------------------------------------------
(* Quota windows, and the sweep                                            *)

LEMMA Times ==
  ASSUME NEW n \in Nat \ {0}, NEW p \in Nat, NEW q \in Nat, p < q
  PROVE  n * p + n <= n * q
  <1>1. PICK k \in Nat : q = p + 1 + k
    <2>1. q - p - 1 \in Nat
      OBVIOUS
    <2> QED BY <2>1
  <1>2. n * q = n * p + n + n * k
    BY <1>1
  <1>3. n * k >= 0
    OBVIOUS
  <1> QED BY <1>2, <1>3

LEMMA Division ==
  ASSUME NEW a \in Nat, NEW n \in Nat \ {0}
  PROVE  a \div n \in Nat /\ a % n \in 0..(n - 1) /\ a = n * (a \div n) + (a % n)
  OBVIOUS

\* Windows follow each other in time.
LEMMA WindowGrows ==
  ASSUME NEW a \in Nat, NEW n \in Nat \ {0}
  PROVE  a \div n \in Nat /\ (a + 1) \div n \in Nat /\ a \div n <= (a + 1) \div n
  <1>1. PICK b \in Nat : b = a + 1
    OBVIOUS
  <1>2. /\ a \div n \in Nat /\ a % n \in 0..(n - 1) /\ a = n * (a \div n) + (a % n)
        /\ b \div n \in Nat /\ b % n \in 0..(n - 1) /\ b = n * (b \div n) + (b % n)
    BY Division, Zenon
  <1>3. PICK p, q, r, s, x, y :
          p = a \div n /\ q = b \div n /\ r = a % n /\ s = b % n /\ x = n * p /\ y = n * q
    BY Zenon
  <1>4. p \in Nat /\ q \in Nat /\ r \in 0..(n - 1) /\ s \in 0..(n - 1) /\ x \in Nat /\ y \in Nat
    BY <1>2, <1>3
  <1>5. a = x + r /\ b = y + s
    BY <1>2, <1>3, Zenon
  <1>6. q < p => y + n <= x
    BY <1>3, <1>4, Times, Zenon
  <1>7. ~(q < p)
    BY ONLY <1>1, <1>4, <1>5, <1>6
  <1>8. p <= q
    BY ONLY <1>4, <1>7
  <1> QED BY ONLY <1>1, <1>3, <1>4, <1>8, Zenon

\* From a finite set one can take any number of members, those with the least
\* values.
LEMMA LeastMembers ==
  ASSUME NEW E, IsFiniteSet(E), NEW v, \A x \in E : v[x] \in Nat, NEW m \in Nat, m <= Cardinality(E)
  PROVE  \E S \in SUBSET E : Cardinality(S) = m /\ \A x \in S, y \in E \ S : v[x] <= v[y]
  <1> DEFINE Low(S) == \A x \in S, y \in E \ S : v[x] <= v[y]
             T == {k \in Nat : \E S \in SUBSET E : Low(S) /\ Cardinality(S) + k = m}
  <1>1. m \in T
    <2>1. Low({}) /\ Cardinality({}) + m = m
      BY FS_EmptySet
    <2> QED BY <2>1, Zenon
  <1>2. PICK k \in T : \A j \in T : k <= j
    BY <1>1, Least, Zenon
  <1>3. PICK S \in SUBSET E : Low(S) /\ Cardinality(S) + k = m
    BY <1>2, Zenon
  <1>4. IsFiniteSet(S) /\ Cardinality(S) \in Nat /\ Cardinality(E) \in Nat
    BY FS_Subset, FS_CardinalityType, Zenon
  <1>5. ASSUME k # 0 PROVE FALSE
    <2>1. E \ S # {}
      <3>1. S # E
        BY <1>3, <1>4, <1>5
      <3> QED BY <3>1, Zenon
    <2> DEFINE V == {v[x] : x \in E \ S}
    <2>2. V \in SUBSET Nat /\ V # {}
      BY <2>1, Zenon
    <2>3. PICK a \in V : \A b \in V : a <= b
      BY <2>2, Least, Zenon
    <2>4. PICK z \in E \ S : a = v[z]
      BY <2>3, Zenon
    <2>5. \A y \in E \ S : v[z] <= v[y]
      BY <2>3, <2>4, Zenon
    <2>6. Low(S \cup {z})
      BY <1>3, <2>5, Zenon
    <2>7. Cardinality(S \cup {z}) = Cardinality(S) + 1
      BY <1>4, <2>4, FS_AddElement, Zenon
    <2>8. k - 1 \in T
      <3>1. k - 1 \in Nat /\ Cardinality(S \cup {z}) + (k - 1) = m
        BY <1>3, <1>4, <1>5, <2>7
      <3>2. S \cup {z} \in SUBSET E
        BY <2>4, Zenon
      <3> QED BY <2>6, <3>1, <3>2, Zenon
    <2> HIDE DEF T
    <2>9. k \in Nat
      BY <1>2, Zenon DEF T
    <2> QED BY <1>2, <2>8, <2>9
  <1> QED BY <1>3, <1>4, <1>5

----------------------------------------------------------------------------
(* The inductive invariant                                                 *)

Phases == {"none", "funding", "held", "escrowed", "pending", "dispatched", "available",
           "refund", "minted", "refunded"}
Record == [phase : Phases, deadline : Nat, epoch : Nat, fee : Nat, signed : BOOLEAN]
Block == [time : Nat, start : Nat, minted : Nat, epoch : Nat, paused : BOOLEAN, fee : Nat,
          processed : SUBSET Deposits, changes : Nat]
Heights == 1..Len(blocks)

\* The snapshot is of a block that was observed, and so was finalized.
Shape ==
  /\ now \in Nat /\ blocks \in Seq(Block) /\ final \in Heights /\ progress \in 0..final
  /\ dep \in [Deposits -> Record] /\ overlooked \in SUBSET Deposits
  /\ cache.block \in {None} \cup 1..progress

\* A later block is of a later time and keeps what earlier ones recorded.
Chain ==
  /\ \A i \in Heights : blocks[i].time <= now
  /\ \A i, j \in Heights : i <= j =>
       /\ blocks[i].time <= blocks[j].time /\ blocks[i].epoch <= blocks[j].epoch
       /\ blocks[i].processed \subseteq blocks[j].processed

\* What Base minted since a block.
Since(i) == Latest.processed \ blocks[i].processed
Carried(i) == IF Latest.start = blocks[i].start THEN blocks[i].minted ELSE 0

\* Whatever is in the window of Base was in it at an earlier block or has been
\* minted since, by authorizations that block did not show as expired.
Accounted ==
  \A i \in Heights :
    /\ Latest.minted <= SumFunctionOnSet(NetOf, Since(i)) + Carried(i)
    /\ \A d \in Since(i) : blocks[i].time <= dep[d].deadline

Records ==
  \A d \in Deposits :
    /\ dep[d].fee <= Gross[d] /\ dep[d].epoch <= Latest.epoch
    /\ dep[d].signed => dep[d].phase \in {"available", "refund", "minted", "refunded"}
    /\ dep[d].phase = "available" \/ d \in Latest.processed \/ d \in overlooked => dep[d].signed

\* A signed authorization that reserves nothing any more was minted or expired
\* at the block observed last, or is one of the overlooked mints.
Spent(d) == progress >= 1 /\ (d \in blocks[progress].processed \/ dep[d].deadline < blocks[progress].time)
Released ==
  \A d \in Deposits : dep[d].signed /\ dep[d].phase # "available" => d \in overlooked \/ Spent(d)

Counted(w) == {d \in Deposits : admittedIn[d] = w}
CountedOf(w, o) == {d \in Counted(w) : Owner[d] = o}

\* The counters are the requests counted in their window, and no request is
\* counted in a later one.
Counters ==
  /\ now \in Nat /\ quota.window \in Nat /\ quota.window <= now \div QuotaWindow
  /\ quota = [window |-> quota.window, global |-> quota.global, callers |-> quota.callers]
  /\ quota.global = Cardinality(Counted(quota.window))
  /\ quota.callers = [o \in Owners |-> Cardinality(CountedOf(quota.window, o))]
  /\ admittedIn \in [Deposits -> Nat \cup {None}] /\ reservations \in [Deposits -> Nat \cup {None}]
  /\ \A d \in Deposits :
       /\ admittedIn[d] <= quota.window
       /\ dep[d].phase = "none" => admittedIn[d] = None
       /\ dep[d].phase = "funding" => admittedIn[d] # None /\ reservations[d] = admittedIn[d]
  /\ \A w \in Nat :
       /\ Cardinality(Counted(w)) <= GlobalLimit
       /\ \A o \in Owners : Cardinality(CountedOf(w, o)) <= PerPrincipalLimit

----------------------------------------------------------------------------
(* Observations and the sweep                                              *)

LEMMA Lesser ==
  ASSUME NEW a \in Nat, NEW b \in Nat
  PROVE  Min({a, b}) \in Nat /\ Min({a, b}) <= b
  <1>1. \E x \in {a, b} : \A y \in {a, b} : x <= y
    OBVIOUS
  <1> QED BY <1>1, Zenon DEF Min

\* The sweep takes expired reservations only.
LEMMA SweepTakesExpired ==
  ASSUME Shape, NEW time
  PROVE  Sweep(time) \in SUBSET ExpiredAt(time)
  <1> DEFINE E == ExpiredAt(time)
             v == [d \in Deposits |-> dep[d].deadline]
             m == Min({SweepLimit, Cardinality(E)})
  <1>1. IsFiniteSet(E) /\ E \in SUBSET Deposits
    BY AdmissionAssumption, FS_Subset, Zenon DEF ExpiredAt
  <1>2. Cardinality(E) \in Nat /\ SweepLimit \in Nat
    BY <1>1, FS_CardinalityType, AdmissionAssumption, Zenon
  <1>3. \A x \in E : v[x] \in Nat /\ v[x] = dep[x].deadline
    BY <1>1, Zenon DEF Shape, Record
  <1>4. m \in Nat /\ m <= Cardinality(E)
    BY <1>2, Lesser, Zenon
  <1> HIDE DEF E, v, m
  <1>5. PICK S \in SUBSET E : Cardinality(S) = m /\ \A x \in S, y \in E \ S : v[x] <= v[y]
    BY <1>1, <1>3, <1>4, LeastMembers
  <1>6. \A x \in S, y \in E \ S : dep[x].deadline <= dep[y].deadline
    BY <1>3, <1>5, Zenon
  <1> QED BY <1>5, <1>6, Zenon DEF Sweep, E, m

----------------------------------------------------------------------------
(* A step of the canister                                                  *)

\* What a step may do to a record: nothing, anything that leaves an unsigned one
\* unsigned, the release of a signed one for cause, or the signature.
Rewritten(d) ==
  /\ ~dep[d].signed /\ ~dep'[d].signed /\ dep'[d].phase # "available"
  /\ dep'[d].fee <= Gross[d] /\ dep'[d].epoch <= Latest.epoch
Closed(d) ==
  /\ dep[d].signed /\ dep'[d].signed /\ dep'[d].phase \in {"refund", "minted", "refunded"}
  /\ dep'[d].fee = dep[d].fee /\ dep'[d].epoch = dep[d].epoch /\ dep'[d].deadline = dep[d].deadline
  /\ d \in overlooked' \/ Spent(d)'
Moved(d) == dep'[d] \in Record /\ (dep'[d] = dep[d] \/ Rewritten(d) \/ Closed(d))

Installed(d) ==
  /\ ~dep[d].signed /\ dep'[d] \in Record /\ dep'[d].signed /\ dep'[d].phase = "available"
  /\ dep'[d].fee = dep[d].fee /\ dep'[d].epoch = dep[d].epoch /\ dep'[d].deadline = dep[d].deadline

\* The observations of a step.
Observed ==
  /\ UNCHANGED <<now, blocks, final>>
  /\ progress' \in progress..final
  /\ cache'.block \in {None} \cup 1..progress' /\ cache.block <= cache'.block

StoreStep ==
  /\ Observed
  /\ dep' = [d \in Deposits |-> dep'[d]] /\ \A d \in Deposits : Moved(d) \/ Installed(d)
  /\ overlooked \subseteq overlooked' /\ overlooked' \subseteq Deposits
  /\ \A d \in overlooked' \ overlooked : dep'[d].signed
CanisterStep == StoreStep /\ \A d \in Deposits : Moved(d)

Facts == Shape /\ Chain /\ Accounted /\ Records /\ Released

\* A claim asks for the evidence of a mint only when the reservation is released.
Evidenced ==
  /\ waiting = [d \in Deposits |-> waiting[d]]
  /\ \A d \in Deposits : waiting[d].kind = "evidence" => dep[d].phase # "available"

LEMMA BlockType ==
  ASSUME Shape, NEW i \in Heights
  PROVE  /\ blocks[i] \in Block
         /\ blocks[i].time \in Nat /\ blocks[i].start \in Nat /\ blocks[i].minted \in Nat
         /\ blocks[i].epoch \in Nat /\ blocks[i].fee \in Nat /\ blocks[i].processed \in SUBSET Deposits
  <1>1. blocks[i] \in Block
    BY DEF Shape, Heights
  <1> QED BY <1>1, Zenon DEF Block

LEMMA LatestType ==
  ASSUME Shape
  PROVE  /\ Len(blocks) \in Heights /\ Len(blocks) \in Nat /\ Latest = blocks[Len(blocks)]
         /\ final \in Heights /\ progress \in 0..final /\ \A i \in Heights : i <= Len(blocks)
         /\ \A i \in Nat : i \in 1..final => i \in Heights
  BY DEF Shape, Heights, Latest

LEMMA RecordType ==
  ASSUME Shape, NEW d \in Deposits
  PROVE  /\ dep[d] \in Record
         /\ dep[d].deadline \in Nat /\ dep[d].epoch \in Nat /\ dep[d].fee \in Nat
         /\ dep[d].signed \in BOOLEAN /\ dep[d].phase \in Phases
         /\ Gross[d] \in Nat
  <1>1. dep[d] \in Record
    BY Zenon DEF Shape
  <1> QED BY <1>1, AdmissionAssumption, Zenon DEF Record

LEMMA NetType ==
  ASSUME Shape, Records, NEW d \in Deposits
  PROVE  NetOf[d] \in Int /\ NetOf[d] >= 0 /\ NetOf[d] = Gross[d] - dep[d].fee
  <1>1. NetOf[d] = Gross[d] - dep[d].fee /\ dep[d].fee <= Gross[d]
    BY Zenon DEF NetOf, Net, Records
  <1> QED BY <1>1, RecordType

LEMMA SumKept ==
  ASSUME Shape, Records, NEW S \in SUBSET Deposits,
         \A d \in S : dep'[d].fee = dep[d].fee
  PROVE  /\ SumFunctionOnSet(NetOf, S)' = SumFunctionOnSet(NetOf, S)
         /\ SumFunctionOnSet(NetOf, S) \in Nat
  <1> DEFINE u == NetOf
             v == NetOf'
  <1>1. IsFiniteSet(S)
    BY AdmissionAssumption, FS_Subset, Zenon
  <1>2. ASSUME NEW x \in S PROVE u[x] \in Int /\ u[x] >= 0 /\ v[x] = u[x]
    <2>1. v[x] = Gross[x] - dep'[x].fee
      BY Zenon DEF NetOf, Net
    <2>2. u[x] \in Int /\ u[x] >= 0 /\ u[x] = Gross[x] - dep[x].fee
      BY NetType, Zenon
    <2> QED BY <2>1, <2>2, Zenon
  <1> HIDE DEF u, v
  <1>3. SumFunctionOnSet(v, S) = SumFunctionOnSet(u, S) /\ SumFunctionOnSet(u, S) \in Nat
    BY <1>1, <1>2, SumSame, SumNat, Zenon
  <1> QED BY <1>3, Zenon DEF u, v

LEMMA SumsTyped ==
  ASSUME Shape, Records, NEW S \in SUBSET Deposits
  PROVE  SumFunctionOnSet(NetOf, S) \in Nat /\ IsFiniteSet(S)
  <1>1. IsFiniteSet(S)
    BY AdmissionAssumption, FS_Subset, Zenon
  <1>2. \A d \in S : NetOf[d] \in Int /\ NetOf[d] >= 0
    BY NetType, Zenon
  <1> QED BY <1>1, <1>2, SumNat, Zenon

LEMMA ConsumedType ==
  ASSUME Shape
  PROVE  Consumed(now, Latest) \in Nat /\ Consumed(now, Latest) <= Latest.minted /\ Latest.minted \in Nat
  <1>1. Latest.minted \in Nat
    BY LatestType, BlockType, Zenon
  <1> QED BY <1>1 DEF Consumed

LEMMA StoreFacts ==
  ASSUME Facts, StoreStep
  PROVE  Facts'
  <1>0. Shape /\ Chain /\ Accounted /\ Records /\ Released
    BY Zenon DEF Facts
  <1>1. /\ now' = now /\ blocks' = blocks /\ final' = final /\ Heights' = Heights /\ Latest' = Latest
        /\ progress \in 0..final /\ final \in Heights /\ progress' \in progress..final
    BY <1>0, Zenon DEF StoreStep, Observed, Heights, Latest, Shape
  <1>2. Shape'
    BY <1>0, <1>1 DEF StoreStep, Observed, Shape, Moved, Installed, Heights
  <1>3. Chain'
    BY <1>0, <1>1, Zenon DEF Chain
  <1>4. Records'
    <2>1. ASSUME NEW d \in Deposits PROVE
            /\ dep'[d].fee <= Gross[d] /\ dep'[d].epoch <= Latest.epoch
            /\ dep'[d].signed => dep'[d].phase \in {"available", "refund", "minted", "refunded"}
            /\ dep'[d].phase = "available" \/ d \in Latest.processed \/ d \in overlooked' => dep'[d].signed
      BY <1>0, Zenon DEF StoreStep, Moved, Rewritten, Closed, Installed, Records
    <2> QED BY <1>1, <2>1, Zenon DEF Records
  <1>5. Accounted'
    <2>1. ASSUME NEW i \in Heights
          PROVE  /\ (Latest.minted <= SumFunctionOnSet(NetOf, Since(i)) + Carried(i))'
                 /\ \A d \in Since(i) : blocks[i].time <= dep'[d].deadline
      <3>1. Since(i) \in SUBSET Deposits
        BY <1>0, LatestType, BlockType, Zenon DEF Since
      <3>2. ASSUME NEW d \in Since(i)
            PROVE  dep'[d].fee = dep[d].fee /\ dep'[d].deadline = dep[d].deadline
        <4>1. d \in Deposits /\ dep[d].signed
          BY <1>0, <3>1, Zenon DEF Records, Since
        <4> QED BY <4>1, Zenon DEF StoreStep, Moved, Rewritten, Closed, Installed
      <3>3. SumFunctionOnSet(NetOf, Since(i))' = SumFunctionOnSet(NetOf', Since(i))
        BY <1>1, Zenon DEF Since
      <3>4. SumFunctionOnSet(NetOf', Since(i)) = SumFunctionOnSet(NetOf, Since(i))
        BY <1>0, <3>1, <3>2, SumKept, Zenon
      <3>5. Carried(i)' = Carried(i)
        BY <1>1, Zenon DEF Carried
      <3> QED BY <1>0, <1>1, <3>2, <3>3, <3>4, <3>5, Zenon DEF Accounted
    <2> QED BY <1>1, <2>1, Zenon DEF Accounted, Since
  <1>6. Released'
    <2>1. ASSUME NEW d \in Deposits, dep'[d].signed, dep'[d].phase # "available"
          PROVE  d \in overlooked' \/ Spent(d)'
      <3>1. Moved(d)
        BY <2>1, Zenon DEF StoreStep, Installed
      <3>2. CASE dep'[d] = dep[d]
        <4>1. d \in overlooked \/ Spent(d)
          BY <1>0, <2>1, <3>2, Zenon DEF Released
        <4>2. ASSUME Spent(d) PROVE Spent(d)'
          <5>1. progress \in Heights /\ progress' \in Heights /\ progress <= progress'
            BY <1>1, <4>2 DEF Spent, Heights
          <5>2. /\ blocks[progress].time <= blocks[progress'].time
                /\ blocks[progress].processed \subseteq blocks[progress'].processed
            BY <1>0, <5>1, Zenon DEF Chain
          <5>4. blocks[progress].time \in Nat /\ blocks[progress'].time \in Nat /\ dep[d].deadline \in Nat
            BY <1>0, <5>1, BlockType, RecordType, Zenon
          <5> QED BY <1>1, <3>2, <4>2, <5>1, <5>2, <5>4 DEF Spent, Heights
        <4> QED BY <4>1, <4>2, Zenon DEF StoreStep
      <3> QED BY <2>1, <3>1, <3>2, Zenon DEF Moved, Rewritten, Closed, Installed
    <2> QED BY <2>1, Zenon DEF Released
  <1> QED BY <1>2, <1>3, <1>4, <1>5, <1>6, Zenon DEF Facts

MintSet == {d \in Deposits : Mintable(d)}

LEMMA CanisterCapacity ==
  ASSUME Facts, CapacityHonoured, CanisterStep
  PROVE  CapacityHonoured'
  <1>0. Shape /\ Records /\ Shape' /\ Records'
    BY StoreFacts, Zenon DEF Facts, CanisterStep
  <1>1. now' = now /\ Latest' = Latest
    BY Zenon DEF CanisterStep, StoreStep, Observed, Latest
  <1>2. ASSUME NEW d \in Deposits
        PROVE  /\ dep'[d].signed <=> dep[d].signed
               /\ dep[d].signed => /\ dep'[d].fee = dep[d].fee /\ dep'[d].epoch = dep[d].epoch
                                   /\ dep'[d].deadline = dep[d].deadline
    BY Zenon DEF CanisterStep, Moved, Rewritten, Closed
  <1>3. MintSet' = MintSet /\ \A d \in MintSet : dep[d].signed
    BY <1>1, <1>2, Zenon DEF MintSet, Mintable
  <1>4. SumFunctionOnSet(NetOf', MintSet) = SumFunctionOnSet(NetOf, MintSet)
    <2>1. MintSet \in SUBSET Deposits /\ \A d \in MintSet : dep'[d].fee = dep[d].fee
      BY <1>2, <1>3, Zenon DEF MintSet
    <2> QED BY <1>0, <2>1, SumKept, Zenon
  <1>5. /\ SumFunctionOnSet(NetOf, overlooked) <= SumFunctionOnSet(NetOf', overlooked')
        /\ SumFunctionOnSet(NetOf', overlooked') \in Nat
    <2> DEFINE u == NetOf
               v == NetOf'
    <2>1. overlooked' \in SUBSET Deposits /\ overlooked \in SUBSET overlooked' /\ IsFiniteSet(overlooked')
      BY AdmissionAssumption, FS_Subset, Zenon DEF CanisterStep, StoreStep
    <2>2. ASSUME NEW d \in overlooked' PROVE v[d] \in Int /\ v[d] >= 0
      <3>1. v[d] = Gross[d] - dep'[d].fee /\ dep'[d].fee <= Gross[d]
        BY <1>0, <2>1, Zenon DEF NetOf, Net, Records
      <3>2. dep'[d].fee \in Nat /\ Gross[d] \in Nat
        BY <1>0, <2>1, AdmissionAssumption, Zenon DEF Shape, Record
      <3> QED BY ONLY <3>1, <3>2
    <2>3. ASSUME NEW d \in overlooked PROVE u[d] \in Int /\ u[d] <= v[d]
      <3>1. d \in Deposits /\ dep'[d].fee = dep[d].fee
        BY <1>0, <1>2, <2>1, Zenon DEF Records
      <3>2. v[d] = Gross[d] - dep'[d].fee
        BY <3>1, Zenon DEF NetOf, Net
      <3>3. u[d] \in Int /\ u[d] = Gross[d] - dep[d].fee
        BY <1>0, <3>1, NetType, Zenon
      <3> QED BY <3>1, <3>2, <3>3
    <2> HIDE DEF u, v
    <2>4. SumFunctionOnSet(u, overlooked) <= SumFunctionOnSet(v, overlooked')
      BY ONLY <2>1, <2>2, <2>3, SumLeq, Zenon
    <2>5. SumFunctionOnSet(v, overlooked') \in Nat
      BY ONLY <2>1, <2>2, SumNat, Zenon
    <2> QED BY <2>4, <2>5, Zenon DEF u, v
  <1>6. /\ SumFunctionOnSet(NetOf, overlooked) \in Int
        /\ SumFunctionOnSet(NetOf, MintSet) \in Int /\ Consumed(now, Latest) \in Int /\ MintWindowLimit \in Nat
    <2>1. overlooked \in SUBSET Deposits /\ MintSet \in SUBSET Deposits
      BY <1>0, Zenon DEF Shape, MintSet
    <2> QED BY <1>0, <2>1, SumsTyped, ConsumedType, AdmissionAssumption
  <1>7. Consumed(now, Latest) + SumFunctionOnSet(NetOf, MintSet) <= MintWindowLimit + SumFunctionOnSet(NetOf, overlooked)
    BY Zenon DEF CapacityHonoured, MintSet
  <1>8. Consumed(now, Latest) + SumFunctionOnSet(NetOf', MintSet) <= MintWindowLimit + SumFunctionOnSet(NetOf', overlooked')
    BY ONLY <1>4, <1>5, <1>6, <1>7
  <1>9. Consumed(now, Latest)' = Consumed(now, Latest) /\ SumFunctionOnSet(NetOf, MintSet)' = SumFunctionOnSet(NetOf', MintSet)
    BY <1>1, <1>3, Zenon DEF Consumed, WindowExpired
  <1> QED BY <1>8, <1>9, Zenon DEF CapacityHonoured, MintSet

----------------------------------------------------------------------------
(* A block of Base                                                         *)

Appends(b) ==
  /\ b \in Block /\ b.time = now /\ Latest.epoch <= b.epoch
  /\ Latest.processed \subseteq b.processed /\ \A d \in b.processed : dep[d].signed
  /\ blocks' = Append(blocks, b)
  /\ UNCHANGED <<now, final, dep, progress, cache, overlooked>>

LEMMA AppendChain ==
  ASSUME Facts, NEW b, Appends(b)
  PROVE  /\ Shape' /\ Chain' /\ Records' /\ Released'
         /\ Latest' = b /\ Heights' = Heights \cup {Len(blocks) + 1} /\ blocks'[Len(blocks) + 1] = b
         /\ \A i \in Heights : blocks'[i] = blocks[i]
         /\ NetOf' = NetOf
  <1>0. Shape /\ Chain /\ Records /\ Released
    BY Zenon DEF Facts
  <1>1. /\ b \in Block /\ b.time = now /\ Latest.epoch <= b.epoch /\ Latest.processed \subseteq b.processed
        /\ blocks' = Append(blocks, b) /\ \A d \in b.processed : dep[d].signed
        /\ now' = now /\ final' = final /\ dep' = dep /\ progress' = progress /\ cache' = cache
        /\ overlooked' = overlooked
    BY Zenon DEF Appends
  <1>2. blocks \in Seq(Block)
    BY <1>0, Zenon DEF Shape
  <1>3. /\ blocks' \in Seq(Block) /\ Len(blocks') = Len(blocks) + 1 /\ Len(blocks) \in Nat
        /\ blocks'[Len(blocks) + 1] = b /\ \A i \in 1..Len(blocks) : blocks'[i] = blocks[i]
    <2>1. b \in Block /\ blocks' = Append(blocks, b)
      BY <1>1, Zenon
    <2> QED BY ONLY <1>2, <2>1
  <1>4. /\ Latest' = b /\ Heights' = Heights \cup {Len(blocks) + 1} /\ \A i \in Heights : blocks'[i] = blocks[i]
    BY ONLY <1>3 DEF Latest, Heights
  <1>5. NetOf' = NetOf
    BY <1>1, Zenon DEF NetOf, Net
  <1>6. Shape'
    BY <1>0, <1>1, <1>3, <1>4, Zenon DEF Shape
  <1>7. Chain'
    <2>1. ASSUME NEW i \in Heights'
          PROVE  /\ blocks'[i].time <= b.time /\ blocks'[i].epoch <= b.epoch /\ blocks'[i].processed \subseteq b.processed
      <3>1. CASE i = Len(blocks) + 1
        <4>1. blocks'[i] = b /\ b.time \in Nat /\ b.epoch \in Nat
          BY <1>1, <1>3, <3>1, Zenon DEF Block
        <4> QED BY <4>1
      <3>2. CASE i \in Heights
        <4>1. blocks'[i] = blocks[i] /\ i <= Len(blocks) /\ Len(blocks) \in Heights /\ Latest = blocks[Len(blocks)]
          BY <1>0, <1>4, <3>2, LatestType, Zenon
        <4>2. /\ blocks[i].time <= now /\ blocks[i].epoch <= Latest.epoch
              /\ blocks[i].processed \subseteq Latest.processed
          BY <1>0, <3>2, <4>1, Zenon DEF Chain
        <4>3. blocks[i].epoch \in Nat /\ Latest.epoch \in Nat /\ b.epoch \in Nat
          BY <1>0, <1>1, <3>2, <4>1, BlockType, Zenon DEF Block
        <4>4. blocks[i].epoch <= b.epoch
          BY ONLY <1>1, <4>2, <4>3
        <4> QED BY <1>1, <4>1, <4>2, <4>4, Zenon
      <3> QED BY <1>4, <2>1, <3>1, <3>2, Zenon
    <2>2. ASSUME NEW i \in Heights', NEW j \in Heights', i <= j
          PROVE  /\ blocks'[i].time <= blocks'[j].time /\ blocks'[i].epoch <= blocks'[j].epoch
                 /\ blocks'[i].processed \subseteq blocks'[j].processed
      <3>1. CASE j = Len(blocks) + 1
        BY <1>3, <2>1, <3>1, Zenon
      <3>2. CASE j \in Heights
        <4>1. i \in Heights
          BY <1>3, <1>4, <2>2, <3>2 DEF Heights
        <4> QED BY <1>0, <1>4, <2>2, <3>2, <4>1, Zenon DEF Chain
      <3> QED BY <1>4, <3>1, <3>2, Zenon
    <2> QED BY <1>1, <2>1, <2>2, Zenon DEF Chain
  <1>8. Records'
    <2>1. ASSUME NEW d \in Deposits PROVE dep[d].epoch <= b.epoch
      <3>1. dep[d].epoch <= Latest.epoch /\ dep[d].epoch \in Nat /\ Latest.epoch \in Nat /\ b.epoch \in Nat
        BY <1>0, <1>1, RecordType, LatestType, BlockType, Zenon DEF Records, Block
      <3> QED BY <1>1, <3>1
    <2> QED BY <1>0, <1>1, <1>4, <2>1, Zenon DEF Records
  <1>9. Released'
    <2>1. progress >= 1 => progress \in Heights
      BY <1>0, LatestType DEF Heights
    <2>2. progress >= 1 => blocks'[progress] = blocks[progress]
      BY <1>4, <2>1, Zenon
    <2> QED BY <1>0, <1>1, <2>2, Zenon DEF Released, Spent
  <1> QED BY <1>3, <1>4, <1>5, <1>6, <1>7, <1>8, <1>9, Zenon

\* A block that leaves the mint window as it was.
LEMMA PlainBlock ==
  ASSUME Facts, CapacityHonoured, NEW b, Appends(b), b.processed = Latest.processed,
         b.start = Latest.start, b.minted = Latest.minted,
         \A d \in Deposits : Mintable(d)' => Mintable(d)
  PROVE  Facts' /\ CapacityHonoured'
  <1>0. /\ Shape /\ Chain /\ Accounted /\ Records /\ dep' = dep /\ now' = now /\ overlooked' = overlooked
    BY Zenon DEF Facts, Appends
  <1>1. /\ Shape' /\ Chain' /\ Records' /\ Released'
        /\ Latest' = b /\ Heights' = Heights \cup {Len(blocks) + 1} /\ blocks'[Len(blocks) + 1] = b
        /\ NetOf' = NetOf /\ \A i \in Heights : blocks'[i] = blocks[i]
    BY AppendChain, Zenon
  <1>2. Accounted'
    <2>1. ASSUME NEW i \in Heights'
          PROVE  /\ (Latest.minted <= SumFunctionOnSet(NetOf, Since(i)) + Carried(i))'
                 /\ \A d \in Since(i)' : blocks'[i].time <= dep'[d].deadline
      <3>1. CASE i \in Heights
        <4>1. Since(i)' = Since(i) /\ Carried(i)' = Carried(i)
          BY <1>1, <3>1, Zenon DEF Since, Carried
        <4> QED BY <1>0, <1>1, <3>1, <4>1, Zenon DEF Accounted
      <3>2. CASE i = Len(blocks) + 1
        <4>1. Since(i)' = {} /\ Carried(i)' = b.minted /\ b.minted \in Nat
          BY <1>1, <3>2, Zenon DEF Since, Carried, Appends, Block
        <4>2. SumFunctionOnSet(NetOf, Since(i))' = 0
          BY <4>1, SumEmpty, Zenon
        <4> QED BY <1>1, <4>1, <4>2
      <3> QED BY <1>1, <3>1, <3>2, Zenon
    <2> QED BY <2>1, Zenon DEF Accounted
  <1>3. CapacityHonoured'
    <2>1. MintSet' \in SUBSET MintSet /\ MintSet \in SUBSET Deposits
      BY Zenon DEF MintSet
    <2>2. SumFunctionOnSet(NetOf, MintSet') <= SumFunctionOnSet(NetOf, MintSet)
      <3>1. \A d \in MintSet : NetOf[d] \in Int /\ NetOf[d] >= 0
        BY <1>0, <2>1, NetType, Zenon
      <3>2. \A d \in MintSet' : NetOf[d] \in Int /\ NetOf[d] <= NetOf[d]
        BY <2>1, <3>1
      <3>3. IsFiniteSet(MintSet)
        BY <1>0, <2>1, SumsTyped, Zenon
      <3> QED BY ONLY <2>1, <3>1, <3>2, <3>3, SumLeq, Zenon
    <2>3. /\ SumFunctionOnSet(NetOf, MintSet') \in Nat /\ SumFunctionOnSet(NetOf, MintSet) \in Nat
          /\ SumFunctionOnSet(NetOf, overlooked) \in Nat /\ Consumed(now, Latest) \in Nat /\ MintWindowLimit \in Nat
      <3>1. MintSet' \in SUBSET Deposits /\ overlooked \in SUBSET Deposits
        BY <1>0, <2>1, Zenon DEF Shape
      <3> QED BY <1>0, <2>1, <3>1, SumsTyped, ConsumedType, AdmissionAssumption, Zenon
    <2>4. Consumed(now, Latest) + SumFunctionOnSet(NetOf, MintSet) <= MintWindowLimit + SumFunctionOnSet(NetOf, overlooked)
      BY Zenon DEF CapacityHonoured, MintSet
    <2>5. Consumed(now, Latest) + SumFunctionOnSet(NetOf, MintSet') <= MintWindowLimit + SumFunctionOnSet(NetOf, overlooked)
      BY ONLY <2>2, <2>3, <2>4
    <2>6. Consumed(now, Latest)' = Consumed(now, Latest)
      BY <1>0, <1>1, Zenon DEF Consumed, WindowExpired
    <2>7. SumFunctionOnSet(NetOf, MintSet)' = SumFunctionOnSet(NetOf, MintSet')
      BY <1>1, Zenon
    <2> QED BY <1>0, <1>1, <2>5, <2>6, <2>7, Zenon DEF CapacityHonoured, MintSet
  <1> QED BY <1>1, <1>2, <1>3, Zenon DEF Facts

\* A mint spends what its authorization kept.
LEMMA MintBlock ==
  ASSUME Facts, CapacityHonoured, NEW d \in Deposits, dep[d].signed,
         MintAccepted(now, Latest, d, dep[d]), NEW b, Appends(b),
         b.processed = Latest.processed \cup {d}, b.epoch = Latest.epoch, b.paused = Latest.paused,
         b.start = (IF WindowExpired(now, Latest) THEN now ELSE Latest.start),
         b.minted = Consumed(now, Latest) + NetOf[d]
  PROVE  Facts' /\ CapacityHonoured'
  <1>0. /\ Shape /\ Chain /\ Accounted /\ Records /\ dep' = dep /\ now' = now /\ overlooked' = overlooked
    BY Zenon DEF Facts, Appends
  <1>1. /\ Shape' /\ Chain' /\ Records' /\ Released'
        /\ Latest' = b /\ Heights' = Heights \cup {Len(blocks) + 1} /\ blocks'[Len(blocks) + 1] = b
        /\ NetOf' = NetOf /\ \A i \in Heights : blocks'[i] = blocks[i]
    BY AppendChain, Zenon
  <1>2. d \notin Latest.processed /\ now <= dep[d].deadline /\ ~Latest.paused /\ dep[d].epoch = Latest.epoch
    BY Zenon DEF MintAccepted
  <1>3. /\ NetOf[d] \in Nat /\ Consumed(now, Latest) \in Nat /\ Latest.minted \in Nat /\ b.minted \in Nat
        /\ dep[d].deadline \in Nat /\ now \in Nat
    <2>1. NetOf[d] \in Int /\ NetOf[d] >= 0 /\ dep[d].deadline \in Nat /\ now \in Nat
      BY <1>0, NetType, RecordType, Zenon DEF Shape
    <2>2. Consumed(now, Latest) \in Nat /\ Latest.minted \in Nat
      BY <1>0, ConsumedType, Zenon
    <2>3. b.minted = Consumed(now, Latest) + NetOf[d]
      BY Zenon
    <2> QED BY ONLY <2>1, <2>2, <2>3
  <1>4. Accounted'
    <2>1. ASSUME NEW i \in Heights'
          PROVE  /\ (Latest.minted <= SumFunctionOnSet(NetOf, Since(i)) + Carried(i))'
                 /\ \A e \in Since(i)' : blocks'[i].time <= dep'[e].deadline
      <3>1. CASE i \in Heights
        <4>1. blocks[i].processed \subseteq Latest.processed /\ blocks[i].time <= now
          <5>1. i <= Len(blocks) /\ Len(blocks) \in Heights /\ Latest = blocks[Len(blocks)]
            BY <1>0, <3>1, LatestType, Zenon
          <5> QED BY <1>0, <3>1, <5>1, Zenon DEF Chain
        <4>2. Since(i)' = Since(i) \cup {d} /\ d \notin Since(i)
          BY <1>1, <1>2, <3>1, <4>1, Zenon DEF Since
        <4>3. Since(i) \in SUBSET Deposits
          BY <1>0, LatestType, BlockType, Zenon DEF Since
        <4>4. /\ SumFunctionOnSet(NetOf, Since(i))' = NetOf[d] + SumFunctionOnSet(NetOf, Since(i))
              /\ SumFunctionOnSet(NetOf, Since(i)) \in Nat
          <5>1. IsFiniteSet(Since(i)) /\ SumFunctionOnSet(NetOf, Since(i)) \in Nat
            BY <1>0, <4>3, SumsTyped, Zenon
          <5>2. \A e \in Since(i) : NetOf[e] \in Int
            BY <1>0, <4>3, NetType, Zenon
          <5>3. NetOf[d] \in Int
            BY <1>3
          <5>4. SumFunctionOnSet(NetOf, Since(i) \cup {d}) = NetOf[d] + SumFunctionOnSet(NetOf, Since(i))
            BY ONLY <4>2, <5>1, <5>2, <5>3, SumAdd, Zenon
          <5> QED BY <1>1, <4>2, <5>1, <5>4, Zenon
        <4>5. b.minted <= SumFunctionOnSet(NetOf, Since(i))' + Carried(i)'
          <5>1. blocks'[i] = blocks[i] /\ blocks[i].minted \in Nat /\ Carried(i)' \in Nat
            BY <1>0, <1>1, <3>1, BlockType, Zenon DEF Carried
          <5>2. CASE WindowExpired(now, Latest)
            <6>1. Consumed(now, Latest) = 0
              BY ONLY <5>2, Zenon DEF Consumed
            <6>2. b.minted = Consumed(now, Latest) + NetOf[d]
              BY Zenon
            <6>3. b.minted = NetOf[d]
              BY ONLY <1>3, <6>1, <6>2
            <6>4. SumFunctionOnSet(NetOf, Since(i))' \in Nat /\ NetOf[d] <= SumFunctionOnSet(NetOf, Since(i))'
              BY ONLY <1>3, <4>4
            <6> QED BY ONLY <1>3, <5>1, <6>3, <6>4
          <5>3. CASE ~WindowExpired(now, Latest)
            <6>1. Carried(i)' = Carried(i)
              BY <1>1, <5>1, <5>3, Zenon DEF Carried
            <6>2. Latest.minted <= SumFunctionOnSet(NetOf, Since(i)) + Carried(i)
              BY <1>0, <3>1, Zenon DEF Accounted
            <6>3. b.minted = Latest.minted + NetOf[d]
              BY <5>3, Zenon DEF Consumed
            <6> QED BY ONLY <1>3, <4>4, <5>1, <6>1, <6>2, <6>3
          <5> QED BY <5>2, <5>3, Zenon
        <4>6. \A e \in Since(i)' : blocks'[i].time <= dep'[e].deadline
          <5>1. blocks[i].time <= dep[d].deadline
            <6>1. blocks[i].time \in Nat
              BY <1>0, <3>1, BlockType, Zenon
            <6> QED BY ONLY <1>2, <1>3, <4>1, <6>1
          <5> QED BY <1>0, <1>1, <3>1, <4>2, <5>1, Zenon DEF Accounted
        <4> QED BY <1>1, <4>5, <4>6, Zenon
      <3>2. CASE i = Len(blocks) + 1
        <4>1. Since(i)' = {} /\ Carried(i)' = b.minted
          BY <1>1, <3>2, Zenon DEF Since, Carried
        <4>2. SumFunctionOnSet(NetOf, Since(i))' = 0
          BY <4>1, SumEmpty, Zenon
        <4>3. (Latest.minted <= SumFunctionOnSet(NetOf, Since(i)) + Carried(i))'
          BY ONLY <1>1, <1>3, <4>1, <4>2
        <4> QED BY ONLY <4>1, <4>3, Zenon
      <3> QED BY <1>1, <3>1, <3>2, Zenon
    <2> QED BY <2>1, Zenon DEF Accounted
  <1>5. CapacityHonoured'
    <2>1. MintSet' = MintSet \ {d} /\ MintSet \in SUBSET Deposits /\ d \in MintSet
      BY <1>0, <1>1, <1>2, Zenon DEF MintSet, Mintable
    <2>2. SumFunctionOnSet(NetOf, MintSet) = NetOf[d] + SumFunctionOnSet(NetOf, MintSet')
      <3>1. IsFiniteSet(MintSet) /\ \A e \in MintSet : NetOf[e] \in Int
        BY <1>0, <2>1, NetType, SumsTyped, Zenon
      <3>2. SumFunctionOnSet(NetOf, MintSet) = NetOf[d] + SumFunctionOnSet(NetOf, MintSet \ {d})
        BY ONLY <2>1, <3>1, SumRemove, Zenon
      <3> QED BY <2>1, <3>2, Zenon
    <2>3. /\ SumFunctionOnSet(NetOf, MintSet') \in Nat /\ SumFunctionOnSet(NetOf, MintSet) \in Nat
          /\ SumFunctionOnSet(NetOf, overlooked) \in Nat /\ MintWindowLimit \in Nat
      <3>1. MintSet' \in SUBSET Deposits /\ overlooked \in SUBSET Deposits
        BY <1>0, <2>1, Zenon DEF Shape
      <3> QED BY <1>0, <2>1, <3>1, SumsTyped, AdmissionAssumption, Zenon
    <2>4. Consumed(now, Latest) + SumFunctionOnSet(NetOf, MintSet) <= MintWindowLimit + SumFunctionOnSet(NetOf, overlooked)
      BY Zenon DEF CapacityHonoured, MintSet
    <2>5. Consumed(now, Latest)' <= Consumed(now, Latest) + NetOf[d] /\ Consumed(now, Latest)' \in Nat
      <3>1. Consumed(now, Latest)' = 0 \/ Consumed(now, Latest)' = b.minted
        BY <1>0, <1>1, Zenon DEF Consumed
      <3>2. b.minted = Consumed(now, Latest) + NetOf[d]
        BY Zenon
      <3> QED BY ONLY <1>3, <3>1, <3>2
    <2>6. Consumed(now, Latest)' + SumFunctionOnSet(NetOf, MintSet') <= MintWindowLimit + SumFunctionOnSet(NetOf, overlooked)
      BY ONLY <1>3, <2>2, <2>3, <2>4, <2>5
    <2>7. SumFunctionOnSet(NetOf, MintSet)' = SumFunctionOnSet(NetOf, MintSet')
      BY <1>1, Zenon
    <2> QED BY <1>0, <1>1, <2>6, <2>7, Zenon DEF CapacityHonoured, MintSet
  <1> QED BY <1>1, <1>4, <1>5, Zenon DEF Facts

LEMMA FewerMintable ==
  ASSUME Shape, Records, CapacityHonoured, NEW M \in SUBSET MintSet, NEW c \in Nat, c <= Consumed(now, Latest)
  PROVE  c + SumFunctionOnSet(NetOf, M) <= MintWindowLimit + SumFunctionOnSet(NetOf, overlooked)
  <1>1. M \in SUBSET Deposits /\ MintSet \in SUBSET Deposits /\ overlooked \in SUBSET Deposits
    BY Zenon DEF MintSet, Shape
  <1>2. SumFunctionOnSet(NetOf, M) <= SumFunctionOnSet(NetOf, MintSet)
    <2>1. \A d \in MintSet : NetOf[d] \in Int /\ NetOf[d] >= 0
      BY <1>1, NetType, Zenon
    <2>2. \A d \in M : NetOf[d] \in Int /\ NetOf[d] <= NetOf[d]
      BY <1>1, <2>1
    <2>3. IsFiniteSet(MintSet)
      BY <1>1, SumsTyped, Zenon
    <2> QED BY <2>1, <2>2, <2>3, SumLeq, Zenon
  <1>3. /\ SumFunctionOnSet(NetOf, M) \in Nat /\ SumFunctionOnSet(NetOf, MintSet) \in Nat
        /\ SumFunctionOnSet(NetOf, overlooked) \in Nat /\ Consumed(now, Latest) \in Nat /\ MintWindowLimit \in Nat
    BY <1>1, SumsTyped, ConsumedType, AdmissionAssumption, Zenon
  <1>4. Consumed(now, Latest) + SumFunctionOnSet(NetOf, MintSet) <= MintWindowLimit + SumFunctionOnSet(NetOf, overlooked)
    BY Zenon DEF CapacityHonoured, MintSet
  <1>5. c \in Nat /\ c <= Consumed(now, Latest)
    BY Zenon
  <1> QED BY ONLY <1>2, <1>3, <1>4, <1>5

\* A block carries its time, and the rest of the record that was changed.
LEMMA Stamped ==
  ASSUME NEW c \in Block, now \in Nat, NEW b, b = [c EXCEPT !.time = now]
  PROVE  /\ b \in Block /\ b.time = now /\ b.start = c.start /\ b.minted = c.minted /\ b.epoch = c.epoch
         /\ b.paused = c.paused /\ b.processed = c.processed
  BY Zenon DEF Block

LEMMA BlockStep ==
  ASSUME Facts, CapacityHonoured,
         \/ Administer \/ OtherBlock \/ \E d \in Deposits : MintDepositWithAuthorization(d)
  PROVE  Facts' /\ CapacityHonoured'
  <1>0. Shape /\ Records /\ now \in Nat
    BY Zenon DEF Facts, Shape
  <1>1. /\ Latest \in Block /\ Latest.time \in Nat /\ Latest.start \in Nat /\ Latest.minted \in Nat
        /\ Latest.epoch \in Nat /\ Latest.fee \in Nat /\ Latest.processed \in SUBSET Deposits
        /\ Latest.paused \in BOOLEAN /\ Latest.changes \in Nat
    BY <1>0, LatestType, BlockType, Zenon DEF Block
  <1>2. \A d \in Latest.processed : dep[d].signed
    BY <1>0, <1>1, Zenon DEF Records
  <1>3. ASSUME NEW c \in Block, c.start = Latest.start, c.minted = Latest.minted, c.processed = Latest.processed,
               Latest.epoch <= c.epoch, c.epoch = Latest.epoch => c.paused = Latest.paused, Append1(c),
               UNCHANGED <<now, final, dep, progress, cache, overlooked>>
        PROVE  Facts' /\ CapacityHonoured'
    <2>1. PICK b : b = [c EXCEPT !.time = now]
      BY Zenon
    <2>2. /\ b \in Block /\ b.time = now /\ b.start = c.start /\ b.minted = c.minted /\ b.epoch = c.epoch
          /\ b.paused = c.paused /\ b.processed = c.processed
      BY <1>0, <2>1, Stamped, Zenon
    <2>3. Appends(b)
      BY <1>2, <1>3, <2>1, <2>2, Zenon DEF Appends, Append1
    <2>4. Latest' = b
      BY <2>3, AppendChain, Zenon
    <2>5. ASSUME NEW d \in Deposits, Mintable(d)' PROVE Mintable(d)
      <3>1. /\ dep[d].signed /\ dep[d].epoch = b.epoch /\ ~b.paused /\ d \notin b.processed /\ now <= dep[d].deadline
        BY <1>3, <2>4, <2>5, Zenon DEF Mintable
      <3>2. dep[d].epoch <= Latest.epoch /\ dep[d].epoch \in Nat
        BY <1>0, RecordType, Zenon DEF Records
      <3>3. b.epoch = Latest.epoch
        BY <1>1, <1>3, <2>2, <3>1, <3>2
      <3> QED BY <1>3, <2>2, <3>1, <3>3, Zenon DEF Mintable
    <2> QED BY <1>3, <2>2, <2>3, <2>5, PlainBlock, Zenon
  <1>4. CASE OtherBlock
    BY <1>1, <1>3, <1>4 DEF OtherBlock
  <1>5. CASE Administer
    <2>1. CASE Append1([Latest EXCEPT !.paused = ~@, !.epoch = @ + 1, !.changes = @ + 1])
      <3>1. PICK c : c = [Latest EXCEPT !.paused = ~@, !.epoch = @ + 1, !.changes = @ + 1]
        BY Zenon
      <3>2. /\ c \in Block /\ c.start = Latest.start /\ c.minted = Latest.minted
            /\ c.processed = Latest.processed /\ c.epoch = Latest.epoch + 1
        <4>1. PICK p, e, h : p = ~Latest.paused /\ e = Latest.epoch + 1 /\ h = Latest.changes + 1
          BY Zenon
        <4>2. p \in BOOLEAN /\ e \in Nat /\ h \in Nat /\ c = [Latest EXCEPT !.paused = p, !.epoch = e, !.changes = h]
          BY <1>1, <3>1, <4>1
        <4> QED BY ONLY <1>1, <4>1, <4>2, Zenon DEF Block
      <3>3. Append1(c) /\ UNCHANGED <<now, final, dep, progress, cache, overlooked>>
        BY <1>5, <2>1, <3>1, Zenon DEF Administer
      <3>4. Latest.epoch <= c.epoch /\ c.epoch # Latest.epoch
        BY <1>1, <3>2
      <3> QED BY ONLY <1>3, <3>2, <3>3, <3>4, Zenon
    <2>2. ASSUME NEW fee \in Fees, Append1([Latest EXCEPT !.fee = fee, !.changes = @ + 1])
          PROVE  Facts' /\ CapacityHonoured'
      <3>1. PICK c : c = [Latest EXCEPT !.fee = fee, !.changes = @ + 1]
        BY Zenon
      <3>2. /\ c \in Block /\ c.start = Latest.start /\ c.minted = Latest.minted
            /\ c.processed = Latest.processed /\ c.epoch = Latest.epoch /\ c.paused = Latest.paused
        <4>1. PICK h : h = Latest.changes + 1
          BY Zenon
        <4>2. fee \in Nat /\ h \in Nat /\ c = [Latest EXCEPT !.fee = fee, !.changes = h]
          BY <1>1, <3>1, <4>1, AdmissionAssumption
        <4> QED BY ONLY <1>1, <4>2, Zenon DEF Block
      <3>3. Append1(c) /\ UNCHANGED <<now, final, dep, progress, cache, overlooked>>
        BY <1>5, <2>2, <3>1, Zenon DEF Administer
      <3>4. Latest.epoch <= c.epoch
        BY <1>1, <3>2
      <3> QED BY ONLY <1>3, <3>2, <3>3, <3>4, Zenon
    <2> QED BY <1>5, <2>1, <2>2, Zenon DEF Administer
  <1>6. ASSUME NEW d \in Deposits, MintDepositWithAuthorization(d) PROVE Facts' /\ CapacityHonoured'
    <2>1. PICK c : c = AfterMint(now, Latest, d, dep[d])
      BY Zenon
    <2>2. PICK b : b = [c EXCEPT !.time = now]
      BY Zenon
    <2>3. /\ dep[d].signed /\ MintAccepted(now, Latest, d, dep[d]) /\ blocks' = Append(blocks, b)
          /\ UNCHANGED <<now, final, dep, progress, cache, overlooked>>
      BY <1>6, <2>1, <2>2, Zenon DEF MintDepositWithAuthorization, Append1
    <2>4. /\ Consumed(now, Latest) \in Nat /\ NetOf[d] \in Int /\ NetOf[d] >= 0
          /\ NetOf[d] = Gross[d] - dep[d].fee /\ Gross[d] \in Nat /\ dep[d].fee \in Nat
      BY <1>0, ConsumedType, NetType, RecordType, Zenon
    <2>5. PICK p, q, m : /\ p = Latest.processed \cup {d}
                         /\ q = (IF WindowExpired(now, Latest) THEN now ELSE Latest.start)
                         /\ m = Consumed(now, Latest) + Gross[d] - dep[d].fee
      BY Zenon
    <2>6. p \in SUBSET Deposits /\ q \in Nat /\ m \in Nat /\ m = Consumed(now, Latest) + NetOf[d]
      BY <1>0, <1>1, <2>4, <2>5
    <2>7. c = [Latest EXCEPT !.processed = p, !.start = q, !.minted = m]
      BY <2>1, <2>5, Zenon DEF AfterMint
    <2>8. /\ c \in Block /\ c.processed = p /\ c.start = q /\ c.minted = m
          /\ c.epoch = Latest.epoch /\ c.paused = Latest.paused
      BY ONLY <1>1, <2>6, <2>7, Zenon DEF Block
    <2>9. /\ b \in Block /\ b.time = now /\ b.start = c.start /\ b.minted = c.minted /\ b.epoch = c.epoch
          /\ b.paused = c.paused /\ b.processed = c.processed
      BY <1>0, <2>2, <2>8, Stamped, Zenon
    <2>10. Appends(b)
      <3>1. \A e \in b.processed : dep[e].signed
        BY <1>2, <2>3, <2>5, <2>8, <2>9, Zenon
      <3>2. Latest.processed \subseteq b.processed /\ Latest.epoch <= b.epoch
        BY <1>1, <2>5, <2>8, <2>9
      <3> QED BY <2>3, <2>9, <3>1, <3>2, Zenon DEF Appends
    <2> QED BY <2>3, <2>5, <2>6, <2>8, <2>9, <2>10, MintBlock, Zenon
  <1> QED BY <1>4, <1>5, <1>6, Zenon

LEMMA FinalizeStep ==
  ASSUME Facts, CapacityHonoured, Finalize
  PROVE  Facts' /\ CapacityHonoured'
  <1>1. /\ final' = final + 1 /\ final < Len(blocks)
        /\ UNCHANGED <<now, blocks, dep, progress, cache, overlooked>>
    BY Zenon DEF Finalize
  <1>2. Shape'
    BY <1>1 DEF Facts, Shape, Heights
  <1>3. Chain' /\ Accounted' /\ Records' /\ Released' /\ CapacityHonoured'
    BY <1>1, Zenon DEF Facts, Chain, Accounted, Records, Released, CapacityHonoured, Heights, Latest, Since, Carried,
                NetOf, Net, Spent, Mintable, Consumed, WindowExpired
  <1> QED BY <1>2, <1>3, Zenon DEF Facts

LEMMA TickStep ==
  ASSUME Facts, CapacityHonoured, Tick
  PROVE  Facts' /\ CapacityHonoured'
  <1>1. /\ now' = now + 1 /\ UNCHANGED <<final, blocks, dep, progress, cache, overlooked>>
    BY Zenon DEF Tick
  <1>0. Shape /\ Records /\ now \in Nat
    BY Zenon DEF Facts, Shape
  <1>2. Shape'
    BY <1>1 DEF Facts, Shape, Heights
  <1>3. Chain'
    <2>1. \A i \in Heights : blocks[i].time <= now /\ blocks[i].time \in Nat
      BY <1>0, BlockType, Zenon DEF Facts, Chain
    <2>2. \A i \in Heights : blocks[i].time <= now + 1
      BY <1>0, <2>1
    <2> QED BY <1>1, <2>2, Zenon DEF Facts, Chain, Heights
  <1>4. Accounted' /\ Records' /\ Released'
    BY <1>1, Zenon DEF Facts, Accounted, Records, Released, Heights, Latest, Since, Carried, NetOf, Net, Spent
  <1>5. CapacityHonoured'
    <2>1. Latest' = Latest /\ NetOf' = NetOf /\ Latest.start \in Nat /\ Latest.minted \in Nat /\ MintWindowDuration \in Nat
      BY <1>0, <1>1, LatestType, BlockType, AdmissionAssumption, Zenon DEF Latest, NetOf, Net
    <2>2. MintSet' \in SUBSET MintSet
      <3>1. ASSUME NEW d \in Deposits, Mintable(d)' PROVE Mintable(d)
        BY <1>0, <1>1, <2>1, <3>1, RecordType DEF Mintable
      <3> QED BY <3>1, Zenon DEF MintSet
    <2>3. Consumed(now, Latest)' \in Nat /\ Consumed(now, Latest)' <= Consumed(now, Latest)
      <3>1. WindowExpired(now, Latest) => WindowExpired(now, Latest)'
        BY <1>0, <1>1, <2>1 DEF WindowExpired
      <3> QED BY <2>1, <3>1 DEF Consumed
    <2>4. PICK M, c : M = MintSet' /\ c = Consumed(now, Latest)'
      BY Zenon
    <2>5. c + SumFunctionOnSet(NetOf, M) <= MintWindowLimit + SumFunctionOnSet(NetOf, overlooked)
      BY <1>0, <2>2, <2>3, <2>4, FewerMintable, Zenon
    <2>6. SumFunctionOnSet(NetOf, MintSet)' = SumFunctionOnSet(NetOf, M)
      BY <2>1, <2>4, Zenon
    <2> QED BY <1>1, <2>1, <2>4, <2>5, <2>6, Zenon DEF CapacityHonoured, MintSet
  <1> QED BY <1>2, <1>3, <1>4, <1>5, Zenon DEF Facts

----------------------------------------------------------------------------
(* The operations of the canister                                          *)

SignedPhases == {"available", "refund", "minted", "refunded"}
DepMoved == dep' = [d \in Deposits |-> dep'[d]] /\ \A d \in Deposits : Moved(d)

\* A record in another phase is otherwise the same.
LEMMA OtherPhase ==
  ASSUME NEW r \in Record, NEW p \in Phases, NEW x, x = [r EXCEPT !.phase = p]
  PROVE  /\ x \in Record /\ x.phase = p /\ x.deadline = r.deadline /\ x.epoch = r.epoch
         /\ x.fee = r.fee /\ x.signed = r.signed
  BY Zenon DEF Record

LEMMA UnsignedPhase ==
  ASSUME Facts, NEW d \in Deposits
  PROVE  /\ dep[d].phase \notin SignedPhases => ~dep[d].signed
         /\ dep[d].phase = "available" => dep[d].signed
         /\ dep[d].fee <= Gross[d] /\ dep[d].epoch <= Latest.epoch
  BY Zenon DEF Facts, Records, SignedPhases

LEMMA SameMoved ==
  ASSUME Facts, dep' = dep
  PROVE  DepMoved
  BY Zenon DEF Facts, Shape, DepMoved, Moved

\* An unsigned record changes its phase.
LEMMA PhaseMoved ==
  ASSUME Facts, NEW d \in Deposits, NEW p \in Phases, p # "available", ~dep[d].signed,
         dep' = [dep EXCEPT ![d].phase = p]
  PROVE  DepMoved
  <1>1. dep \in [Deposits -> Record] /\ dep[d] \in Record
    BY Zenon DEF Facts, Shape
  <1>2. dep'[d] = [dep[d] EXCEPT !.phase = p] /\ \A e \in Deposits : e # d => dep'[e] = dep[e]
    BY <1>1, Zenon
  <1>3. /\ dep'[d] \in Record /\ dep'[d].phase = p /\ dep'[d].epoch = dep[d].epoch
        /\ dep'[d].fee = dep[d].fee /\ dep'[d].signed = dep[d].signed
    BY <1>1, <1>2, OtherPhase
  <1>4. Moved(d)
    BY <1>3, UnsignedPhase, Zenon DEF Moved, Rewritten
  <1>5. \A e \in Deposits : Moved(e)
    BY <1>1, <1>2, <1>4, Zenon DEF Moved
  <1>6. dep' = [e \in Deposits |-> dep'[e]]
    BY <1>1, Zenon
  <1> QED BY <1>5, <1>6, Zenon DEF DepMoved

LEMMA PromotedMoved ==
  ASSUME Facts, NEW d \in Deposits, dep' = Promoted(dep, d)
  PROVE  DepMoved
  <1>1. CASE dep[d].phase = "funding"
    <2>1. ~dep[d].signed
      BY <1>1, UnsignedPhase, Zenon DEF SignedPhases
    <2>2. dep' = [dep EXCEPT ![d].phase = "escrowed"]
      BY <1>1, Zenon DEF Promoted
    <2>3. "escrowed" \in Phases /\ "escrowed" # "available"
      BY Zenon DEF Phases
    <2> QED BY <2>1, <2>2, <2>3, PhaseMoved, Zenon
  <1>2. CASE dep[d].phase # "funding"
    BY <1>2, SameMoved, Zenon DEF Promoted
  <1> QED BY <1>1, <1>2, Zenon

\* A record after an observation of the block f was used.
Swept(f, e, x) ==
  \/ x = dep[e]
  \/ ~dep[e].signed /\ \E p \in {"refund", "escrowed"} : x = [dep[e] EXCEPT !.phase = p]
  \/ dep[e].phase = "available" /\ dep[e].deadline < blocks[f].time /\ x = [dep[e] EXCEPT !.phase = "refund"]

SweptTo(f, r) == r = [e \in Deposits |-> r[e]] /\ \A e \in Deposits : Swept(f, e, r[e])

LEMMA SweptMoved ==
  ASSUME Facts, NEW f \in Nat, f >= 1, progress' = f, blocks' = blocks,
         SweptTo(f, dep')
  PROVE  DepMoved
  <1>1. ASSUME NEW e \in Deposits PROVE Moved(e)
    <2>0. dep[e] \in Record /\ {"refund", "escrowed"} \in SUBSET Phases
      BY Zenon DEF Facts, Shape, Phases
    <2>1. CASE dep'[e] = dep[e]
      BY <2>0, <2>1, Zenon DEF Moved
    <2>2. ASSUME ~dep[e].signed, NEW p \in {"refund", "escrowed"}, dep'[e] = [dep[e] EXCEPT !.phase = p]
          PROVE  Moved(e)
      <3>1. /\ dep'[e] \in Record /\ dep'[e].phase = p /\ dep'[e].epoch = dep[e].epoch
            /\ dep'[e].fee = dep[e].fee /\ dep'[e].signed = dep[e].signed
        BY <2>0, <2>2, OtherPhase
      <3>2. p # "available"
        BY Zenon
      <3> QED BY <2>2, <3>1, <3>2, UnsignedPhase, Zenon DEF Moved, Rewritten
    <2>3. ASSUME dep[e].phase = "available", dep[e].deadline < blocks[f].time,
                 dep'[e] = [dep[e] EXCEPT !.phase = "refund"]
          PROVE  Moved(e)
      <3>1. /\ dep'[e] \in Record /\ dep'[e].phase = "refund" /\ dep'[e].epoch = dep[e].epoch
            /\ dep'[e].fee = dep[e].fee /\ dep'[e].signed = dep[e].signed
            /\ dep'[e].deadline = dep[e].deadline
        BY <2>0, <2>3, OtherPhase
      <3>2. dep[e].signed
        BY <2>3, UnsignedPhase, Zenon
      <3>3. Spent(e)'
        BY <2>3, <3>1, Zenon DEF Spent
      <3> QED BY <3>1, <3>2, <3>3, Zenon DEF Moved, Closed
    <2> QED BY <2>1, <2>2, <2>3, Zenon DEF SweptTo, Swept
  <1> QED BY <1>1, Zenon DEF DepMoved, SweptTo

\* The sweep of a snapshot of block f.
LEMMA RefundableSwept ==
  ASSUME Facts, NEW f, NEW r, r = Refundable(Sweep(blocks[f].time))
  PROVE  /\ r = [e \in Deposits |-> r[e]]
         /\ \A e \in Deposits : \/ r[e] = dep[e]
                                \/ r[e] = [dep[e] EXCEPT !.phase = "refund"]
         /\ \A e \in Deposits : Swept(f, e, r[e])
  <1>1. Sweep(blocks[f].time) \in SUBSET ExpiredAt(blocks[f].time)
    BY SweepTakesExpired, Zenon DEF Facts
  <1>2. ASSUME NEW e \in Deposits PROVE Swept(f, e, r[e])
    <2>1. CASE e \in Sweep(blocks[f].time)
      <3>1. ReservesMint(e) /\ dep[e].deadline < blocks[f].time /\ r[e] = [dep[e] EXCEPT !.phase = "refund"]
        BY <1>1, <2>1, Zenon DEF ExpiredAt, Refundable
      <3>2. dep[e].phase = "available" \/ ~dep[e].signed
        BY <3>1, UnsignedPhase, Zenon DEF ReservesMint, Unsigned, SignedPhases
      <3> QED BY <3>1, <3>2, Zenon DEF Swept
    <2>2. CASE e \notin Sweep(blocks[f].time)
      BY <2>2, Zenon DEF Refundable, Swept
    <2> QED BY <2>1, <2>2, Zenon
  <1> QED BY <1>2, Zenon DEF Refundable

LEMMA PromotedSwept ==
  ASSUME Facts, NEW f, NEW d \in Deposits, NEW r, r = Promoted(Refundable(Sweep(blocks[f].time)), d)
  PROVE  SweptTo(f, r)
  <1>1. PICK q : q = Refundable(Sweep(blocks[f].time))
    BY Zenon
  <1>2. /\ q = [e \in Deposits |-> q[e]] /\ \A e \in Deposits : Swept(f, e, q[e])
        /\ q[d] = dep[d] \/ q[d] = [dep[d] EXCEPT !.phase = "refund"]
    BY <1>1, RefundableSwept
  <1>3. CASE q[d].phase = "funding"
    <2>1. dep[d] \in Record
      BY Zenon DEF Facts, Shape
    <2>2. q[d] = dep[d] /\ dep[d].phase = "funding"
      BY <1>2, <1>3, <2>1, Zenon DEF Record
    <2>3. ~dep[d].signed
      BY <2>2, UnsignedPhase, Zenon DEF SignedPhases
    <2>4. r = [q EXCEPT ![d].phase = "escrowed"]
      BY <1>1, <1>3, Zenon DEF Promoted
    <2>5. /\ r = [e \in Deposits |-> r[e]] /\ r[d] = [dep[d] EXCEPT !.phase = "escrowed"]
          /\ \A e \in Deposits : e # d => r[e] = q[e]
      BY <1>2, <2>2, <2>4, Zenon
    <2>6. Swept(f, d, r[d])
      BY <2>3, <2>5, Zenon DEF Swept
    <2> QED BY <1>2, <2>5, <2>6, Zenon DEF SweptTo
  <1>4. CASE q[d].phase # "funding"
    <2>1. r = q
      BY <1>1, <1>4, Zenon DEF Promoted
    <2> QED BY <1>2, <2>1, Zenon DEF SweptTo
  <1> QED BY <1>3, <1>4, Zenon

LEMMA ClaimedSwept ==
  ASSUME Facts, NEW f, NEW d \in Deposits, NEW r, r = Claimed(d, blocks[f].time)
  PROVE  SweptTo(f, r)
  <1>1. PICK q : q = Refundable(Sweep(blocks[f].time))
    BY Zenon
  <1>2. /\ q = [e \in Deposits |-> q[e]] /\ \A e \in Deposits : Swept(f, e, q[e])
        /\ q[d] = dep[d] \/ q[d] = [dep[d] EXCEPT !.phase = "refund"]
    BY <1>1, RefundableSwept
  <1>3. r = q \/ (q[d].phase \in Unsigned /\ r = [q EXCEPT ![d].phase = "refund"])
    BY <1>1, Zenon DEF Claimed
  <1>4. CASE q[d].phase \in Unsigned /\ r = [q EXCEPT ![d].phase = "refund"]
    <2>1. dep[d] \in Record
      BY Zenon DEF Facts, Shape
    <2>2. q[d] = dep[d] /\ dep[d].phase \in Unsigned
      BY <1>2, <1>4, <2>1, Zenon DEF Record, Unsigned
    <2>3. ~dep[d].signed
      BY <2>2, UnsignedPhase, Zenon DEF SignedPhases, Unsigned
    <2>4. /\ r = [e \in Deposits |-> r[e]] /\ r[d] = [dep[d] EXCEPT !.phase = "refund"]
          /\ \A e \in Deposits : e # d => r[e] = q[e]
      BY <1>2, <1>4, <2>2, Zenon
    <2>5. Swept(f, d, r[d])
      BY <2>3, <2>4, Zenon DEF Swept
    <2> QED BY <1>2, <2>4, <2>5, Zenon DEF SweptTo
  <1> QED BY <1>2, <1>3, <1>4, Zenon DEF SweptTo

\* A step that observes nothing.
LEMMA QuietStep ==
  ASSUME Facts, UNCHANGED <<now, blocks, final, progress, cache, overlooked>>, DepMoved
  PROVE  CanisterStep
  <1>1. progress \in 0..final /\ final \in Heights /\ cache.block \in {None} \cup 1..progress /\ overlooked \in SUBSET Deposits
    BY Zenon DEF Facts, Shape
  <1>2. Observed
    BY <1>1 DEF Observed, Heights, None
  <1> QED BY <1>1, <1>2, Zenon DEF CanisterStep, StoreStep, DepMoved

LEMMA LocalStep ==
  ASSUME Facts, Evidenced, NEW d \in Deposits, Local(d)
  PROVE  CanisterStep
  <1>p. {"none", "funding", "held", "escrowed", "refunded"} \in SUBSET Phases
    BY Zenon DEF Phases
  <1>u. dep[d].phase \in {"none", "funding", "held"} \cup Unsigned => ~dep[d].signed
    BY UnsignedPhase, Zenon DEF SignedPhases, Unsigned
  <1>1. CASE Admit(d)
    <2>1. DepMoved
      BY <1>1, <1>p, <1>u, PhaseMoved, Zenon DEF Admit
    <2> QED BY <1>1, <2>1, QuietStep, Zenon DEF Admit
  <1>2. CASE PullSucceeds(d)
    <2>1. DepMoved
      BY <1>2, PromotedMoved, SameMoved, Zenon DEF PullSucceeds
    <2> QED BY <1>2, <2>1, QuietStep, Zenon DEF PullSucceeds
  <1>3. CASE PullFails(d)
    <2>1. DepMoved
      BY <1>3, <1>p, <1>u, PhaseMoved, Zenon DEF PullFails
    <2> QED BY <1>3, <2>1, QuietStep, Zenon DEF PullFails
  <1>4. CASE PullAmbiguous(d)
    <2>1. DepMoved
      BY <1>4, <1>p, <1>u, PhaseMoved, Zenon DEF PullAmbiguous
    <2> QED BY <1>4, <2>1, QuietStep, Zenon DEF PullAmbiguous
  <1>5. CASE HoldResolves(d)
    <2>1. DepMoved
      BY <1>5, <1>p, <1>u, PhaseMoved, Zenon DEF HoldResolves
    <2> QED BY <1>5, <2>1, QuietStep, Zenon DEF HoldResolves
  <1>6. CASE RecoverFunding(d)
    <2>1. DepMoved
      BY <1>6, PromotedMoved, Zenon DEF RecoverFunding
    <2> QED BY <1>6, <2>1, QuietStep, Zenon DEF RecoverFunding
  <1>7. CASE PreflightFails(d)
    <2>1. DepMoved
      BY <1>7, PromotedMoved, Zenon DEF PreflightFails
    <2> QED BY <1>7, <2>1, QuietStep, Zenon DEF PreflightFails
  <1>8. CASE ClaimUnsigned(d)
    <2>0. UNCHANGED <<now, blocks, final, progress, cache, overlooked>>
      BY <1>8, Zenon DEF ClaimUnsigned
    <2>1. CASE CachedSnapshotUsable /\ dep' = Claimed(d, Snapshot(cache.block).time)
      <3>1. progress \in Nat /\ cache.block \in {None} \cup 1..progress
        BY DEF Facts, Shape, Heights
      <3>2. cache.block = progress /\ progress >= 1
        BY <2>1, <3>1 DEF CachedSnapshotUsable, None
      <3>3. SweptTo(progress, dep')
        <4>1. dep' = Claimed(d, blocks[progress].time)
          BY <2>1, <3>2, Zenon DEF Snapshot
        <4> QED BY <4>1, ClaimedSwept, Zenon
      <3>4. DepMoved
        BY <2>0, <3>1, <3>2, <3>3, SweptMoved, Zenon
      <3> QED BY <2>0, <3>4, QuietStep, Zenon
    <2>2. CASE dep' = dep
      BY <2>0, <2>2, SameMoved, QuietStep, Zenon
    <2> QED BY <1>8, <2>1, <2>2, Zenon DEF ClaimUnsigned
  <1>9. CASE ClaimFails(d)
    BY <1>9, SameMoved, QuietStep, Zenon DEF ClaimFails
  <1>11. CASE MintEvidence(d)
    <2>0. UNCHANGED <<now, blocks, final, progress, cache, overlooked>>
      BY <1>11, Zenon DEF MintEvidence
    <2>1. CASE dep' = dep
      BY <2>0, <2>1, SameMoved, QuietStep, Zenon
    <2>2. CASE dep[d].signed /\ dep[d].phase = "refund" /\ dep' = [dep EXCEPT ![d].phase = "minted"]
      <3>1. dep \in [Deposits -> Record] /\ dep[d] \in Record /\ "minted" \in Phases
        BY Zenon DEF Facts, Shape, Phases
      <3>2. /\ dep' = [e \in Deposits |-> dep'[e]] /\ dep'[d] = [dep[d] EXCEPT !.phase = "minted"]
            /\ \A e \in Deposits : e # d => dep'[e] = dep[e]
        BY <2>2, <3>1, Zenon
      <3>3. /\ dep'[d] \in Record /\ dep'[d].phase = "minted" /\ dep'[d].epoch = dep[d].epoch
            /\ dep'[d].fee = dep[d].fee /\ dep'[d].signed = dep[d].signed
            /\ dep'[d].deadline = dep[d].deadline
        BY <3>1, <3>2, OtherPhase
      <3>4. d \in overlooked \/ Spent(d)
        BY <2>2, Zenon DEF Facts, Released
      <3>5. Spent(d) => Spent(d)'
        BY <2>0, <3>3, Zenon DEF Spent
      <3>6. Moved(d)
        BY <2>0, <2>2, <3>3, <3>4, <3>5, Zenon DEF Moved, Closed
      <3>7. DepMoved
        BY <3>1, <3>2, <3>6, Zenon DEF DepMoved, Moved
      <3> QED BY <2>0, <3>7, QuietStep, Zenon
    <2>3. dep[d].phase # "available"
      BY <1>11, Zenon DEF MintEvidence, Evidenced
    <2> QED BY <1>11, <2>1, <2>2, <2>3, Zenon DEF MintEvidence
  <1>10. CASE RefundUnsigned(d)
    <2>1. PICK x : x = [FreshDeposit EXCEPT !.phase = "refunded"]
      BY Zenon
    <2>2. x = [phase |-> "refunded", deadline |-> 0, epoch |-> 0, fee |-> 0, signed |-> FALSE]
      BY <2>1, Zenon DEF FreshDeposit
    <2>3. x \in Record /\ x.phase = "refunded" /\ ~x.signed /\ x.fee = 0 /\ x.epoch = 0
      BY <1>p, <2>2, Zenon DEF Record
    <2>4. dep \in [Deposits -> Record] /\ dep' = [dep EXCEPT ![d] = x] /\ ~dep[d].signed
      BY <1>10, <2>1, Zenon DEF RefundUnsigned, Facts, Shape
    <2>5. /\ dep' = [e \in Deposits |-> dep'[e]] /\ dep'[d] = x /\ \A e \in Deposits : e # d => dep'[e] = dep[e]
      BY <2>4, Zenon
    <2>6. 0 <= Gross[d] /\ 0 <= Latest.epoch
      BY RecordType, LatestType, BlockType DEF Facts
    <2>7. Moved(d)
      BY <2>3, <2>4, <2>5, <2>6, Zenon DEF Moved, Rewritten
    <2>8. DepMoved
      BY <2>4, <2>5, <2>7, Zenon DEF DepMoved, Moved
    <2> QED BY <1>10, <2>8, QuietStep, Zenon DEF RefundUnsigned
  <1> QED BY <1>1, <1>2, <1>3, <1>4, <1>5, <1>6, <1>7, <1>8, <1>9, <1>10, <1>11, Zenon DEF Local

\* A step that stores the observed block as progress, with or without the snapshot.
LEMMA ProgressStep ==
  ASSUME Facts, NEW f \in 1..final, Observes(f), UNCHANGED <<now, blocks, final, overlooked>>, DepMoved,
         progress' = f, cache' = cache \/ cache'.block = f
  PROVE  CanisterStep
  <1>1. progress \in 0..final /\ final \in Nat /\ cache.block \in {None} \cup 1..progress /\ overlooked \in SUBSET Deposits
    BY DEF Facts, Shape, Heights
  <1>2. f >= progress /\ f \in Nat /\ f >= 1
    BY <1>1 DEF Observes
  <1>3. Observed
    BY <1>1, <1>2 DEF Observed, None
  <1> QED BY <1>1, <1>3, Zenon DEF CanisterStep, StoreStep, DepMoved

\* The end of a refresh stores the snapshot with the progress, or neither.
LEMMA RefreshStep ==
  ASSUME Facts, NEW d \in Deposits, NEW f \in 1..final, NEW for, FinishRefresh(d, f, for),
         UNCHANGED <<now, blocks, final, overlooked>>,
         Finished(d, f) => SweptTo(f, dep'),
         ~Finished(d, f) => DepMoved
  PROVE  CanisterStep
  <1>1. final \in Nat
    BY DEF Facts, Shape, Heights
  <1>2. CASE Finished(d, f)
    <2>1. progress' = f /\ cache' = CacheOf(f, for) /\ Observes(f)
      BY <1>2, Zenon DEF Finished, FinishRefresh
    <2>2. cache'.block = f
      BY <2>1, Zenon DEF CacheOf
    <2>3. f \in Nat /\ f >= 1
      BY <1>1
    <2>4. DepMoved
      BY <1>2, <2>1, <2>3, SweptMoved, Zenon
    <2> QED BY <2>1, <2>2, <2>4, ProgressStep, Zenon
  <1>3. CASE ~Finished(d, f)
    <2>1. UNCHANGED <<cache, progress>>
      BY <1>3, Zenon DEF Finished, FinishRefresh
    <2> QED BY <1>3, <2>1, QuietStep, Zenon
  <1> QED BY <1>2, <1>3, Zenon

\* An observation other than the one that installs a signature.
LEMMA ObservingStep ==
  ASSUME Facts, NEW d \in Deposits, NEW f \in Nat, Observing(d, f),
         Install(d, f) => ~StillMatchesBase(d, Snapshot(f))
  PROVE  CanisterStep
  <1>p. {"refund", "pending", "dispatched", "minted", "refunded"} \in SUBSET Phases
    BY Zenon DEF Phases
  <1>u. dep[d].phase \in {"escrowed", "pending", "dispatched"} => ~dep[d].signed
    BY UnsignedPhase, Zenon DEF SignedPhases
  <1>t. /\ final \in Nat /\ progress \in 0..final /\ cache.block \in {None} \cup 1..progress
        /\ dep \in [Deposits -> Record] /\ dep[d] \in Record /\ overlooked \in SUBSET Deposits
    BY DEF Facts, Shape, Heights
  <1>b. f \in 1..final => f \in Heights
    BY LatestType, Zenon DEF Facts
  <1>1. CASE PreflightAnswers(d, f)
    <2>1. f \in 1..final /\ FinishRefresh(d, f, d) /\ UNCHANGED <<now, blocks, final, overlooked>>
      BY <1>1, Zenon DEF PreflightAnswers
    <2>2. ASSUME Finished(d, f) PROVE SweptTo(f, dep')
      <3>1. dep' = Promoted(Refundable(Sweep(blocks[f].time)), d)
        BY <1>1, <2>2, Zenon DEF PreflightAnswers, Snapshot
      <3> QED BY <3>1, PromotedSwept, Zenon
    <2>3. ASSUME ~Finished(d, f) PROVE DepMoved
      BY <1>1, <2>3, PromotedMoved, Zenon DEF PreflightAnswers
    <2> QED BY <2>1, <2>2, <2>3, RefreshStep, Zenon
  <1>2. CASE ClaimAnswers(d, f)
    <2>1. f \in 1..final /\ FinishRefresh(d, f, None) /\ UNCHANGED <<now, blocks, final, overlooked>>
      BY <1>2, Zenon DEF ClaimAnswers
    <2>2. ASSUME Finished(d, f) PROVE SweptTo(f, dep')
      <3>1. dep' = Claimed(d, blocks[f].time)
        BY <1>2, <2>2, Zenon DEF ClaimAnswers, Snapshot
      <3> QED BY <3>1, ClaimedSwept, Zenon
    <2>3. ASSUME ~Finished(d, f) PROVE DepMoved
      BY <1>2, <2>3, SameMoved, Zenon DEF ClaimAnswers
    <2> QED BY <2>1, <2>2, <2>3, RefreshStep, Zenon
  <1>3. CASE Prepare(d, f)
    <2>1. /\ dep[d].phase = "escrowed" /\ progress' = f
          /\ UNCHANGED <<now, blocks, final, cache, overlooked>>
          /\ \/ CachedFor(d) /\ f = cache.block
             \/ f \in 1..final /\ Observes(f)
      BY <1>3, Zenon DEF Prepare
    <2>2. f \in 1..final /\ Observes(f)
      <3>1. CASE CachedFor(d) /\ f = cache.block
        BY <1>t, <3>1 DEF CachedFor, Observes, None
      <3> QED BY <2>1, <3>1, Zenon
    <2>3. DepMoved
      <3>1. CASE dep' = [dep EXCEPT ![d].phase = "refund"]
        BY <1>p, <1>u, <2>1, <3>1, PhaseMoved, Zenon
      <3>2. CASE dep' = dep
        BY <3>2, SameMoved, Zenon
      <3>3. CASE ~FeeRejected(blocks[f], d) /\
                 dep' = [dep EXCEPT ![d] = [phase |-> "pending", deadline |-> now + AuthorizationTtl,
                                            epoch |-> blocks[f].epoch, fee |-> blocks[f].fee, signed |-> FALSE]]
        <4>1. /\ f \in Heights /\ blocks[f].epoch \in Nat /\ blocks[f].fee \in Nat /\ now \in Nat
              /\ AuthorizationTtl \in Nat /\ Gross[d] \in Nat
          BY <1>b, <2>2, BlockType, RecordType, AdmissionAssumption, Zenon DEF Facts, Shape
        <4>2. blocks[f].epoch <= Latest.epoch
          BY <4>1, LatestType, Zenon DEF Facts, Chain
        <4>3. blocks[f].fee <= Gross[d]
          <5>1. ~(blocks[f].fee >= Gross[d])
            BY <3>3, Zenon DEF FeeRejected
          <5> QED BY ONLY <4>1, <5>1
        <4>4. PICK x : x = [phase |-> "pending", deadline |-> now + AuthorizationTtl,
                            epoch |-> blocks[f].epoch, fee |-> blocks[f].fee, signed |-> FALSE]
          BY Zenon
        <4>5. /\ x \in Record /\ x.phase = "pending" /\ ~x.signed /\ x.fee = blocks[f].fee
              /\ x.epoch = blocks[f].epoch
          <5>1. now + AuthorizationTtl \in Nat /\ FALSE \in BOOLEAN /\ "pending" \in Phases
            BY ONLY <1>p, <4>1
          <5>2. PICK t : t = now + AuthorizationTtl
            BY Zenon
          <5> QED BY ONLY <4>1, <4>4, <5>1, <5>2, Zenon DEF Record
        <4>6. dep' = [e \in Deposits |-> dep'[e]] /\ dep'[d] = x /\ \A e \in Deposits : e # d => dep'[e] = dep[e]
          BY <1>t, <3>3, <4>4, Zenon
        <4>7. Moved(d)
          BY <1>u, <2>1, <4>2, <4>3, <4>5, <4>6, Zenon DEF Moved, Rewritten
        <4> QED BY <1>t, <4>6, <4>7, Zenon DEF DepMoved, Moved
      <3> QED BY <1>3, <3>1, <3>2, <3>3, Zenon DEF Prepare, Commit, Snapshot
    <2> QED BY <2>1, <2>2, <2>3, ProgressStep, Zenon
  <1>4. CASE Dispatch(d, f)
    <2>1. f \in 1..final /\ Observes(f) /\ progress' = f /\ UNCHANGED <<now, blocks, final, cache, overlooked>>
      BY <1>4, Zenon DEF Dispatch
    <2>2. DepMoved
      BY <1>4, <1>p, <1>u, PhaseMoved, SameMoved, Zenon DEF Dispatch
    <2> QED BY <2>1, <2>2, ProgressStep, Zenon
  <1>5. CASE Install(d, f)
    <2>1. f \in 1..final /\ Observes(f) /\ progress' = f /\ UNCHANGED <<now, blocks, final, cache, overlooked>>
      BY <1>5, Zenon DEF Install
    <2>2. DepMoved
      BY <1>5, SameMoved, Zenon DEF Install
    <2> QED BY <2>1, <2>2, ProgressStep, Zenon
  <1>6. CASE ClaimSigned(d, f)
    <2>1. /\ f \in 1..final /\ Observes(f) /\ progress' = f /\ cache' = CacheOf(f, d) /\ dep[d].signed
          /\ UNCHANGED <<now, blocks, final, overlooked>>
      BY <1>6, Zenon DEF ClaimSigned
    <2>2. cache'.block = f
      BY <2>1, Zenon DEF CacheOf
    <2>3. DepMoved
      <3>1. CASE dep' = dep
        BY <3>1, SameMoved, Zenon
      <3>2. ASSUME NEW p \in {"refund", "refunded"}, blocks[f].time > dep[d].deadline,
                   dep' = [dep EXCEPT ![d].phase = p]
            PROVE  DepMoved
        <4>1. /\ dep' = [e \in Deposits |-> dep'[e]] /\ dep'[d] = [dep[d] EXCEPT !.phase = p]
              /\ \A e \in Deposits : e # d => dep'[e] = dep[e]
          BY <1>t, <3>2, Zenon
        <4>2. /\ dep'[d] \in Record /\ dep'[d].phase = p /\ dep'[d].epoch = dep[d].epoch
              /\ dep'[d].fee = dep[d].fee /\ dep'[d].signed = dep[d].signed
              /\ dep'[d].deadline = dep[d].deadline
          BY <1>p, <1>t, <4>1, OtherPhase
        <4>3. dep[d].deadline < blocks[f].time
          <5>1. f \in Heights /\ blocks[f].time \in Nat /\ dep[d].deadline \in Nat
            BY <1>b, <2>1, BlockType, RecordType, Zenon DEF Facts
          <5> QED BY <3>2, <5>1
        <4>4. Spent(d)'
          <5>1. dep'[d].deadline < blocks'[progress'].time /\ progress' >= 1
            <6>1. dep'[d].deadline < blocks'[progress'].time /\ progress' = f /\ f \in 1..final
              BY ONLY <2>1, <4>2, <4>3, Zenon
            <6> QED BY ONLY <6>1
          <5> QED BY <5>1, Zenon DEF Spent
        <4>5. Moved(d)
          BY <2>1, <4>2, <4>4, Zenon DEF Moved, Closed
        <4> QED BY <1>t, <4>1, <4>5, Zenon DEF DepMoved, Moved
      <3> QED BY <1>6, <3>1, <3>2, Zenon DEF ClaimSigned, Snapshot
    <2> QED BY <2>1, <2>2, <2>3, ProgressStep, Zenon
  <1>7. CASE NotifyDepositMint(d, f)
    <2>1. /\ f \in 1..final /\ dep[d].signed /\ dep[d].phase \in {"available", "refund"} /\ d \in blocks[f].processed
          /\ overlooked' = (IF ReservesMint(d) /\ f > progress THEN overlooked \cup {d} ELSE overlooked)
          /\ dep' = [dep EXCEPT ![d].phase = "minted"]
          /\ UNCHANGED <<now, blocks, final, progress, cache>>
      BY <1>7, Zenon DEF NotifyDepositMint, Snapshot
    <2>2. /\ dep' = [e \in Deposits |-> dep'[e]] /\ dep'[d] = [dep[d] EXCEPT !.phase = "minted"]
          /\ \A e \in Deposits : e # d => dep'[e] = dep[e]
      BY <1>t, <2>1, Zenon
    <2>3. /\ dep'[d] \in Record /\ dep'[d].phase = "minted" /\ dep'[d].epoch = dep[d].epoch
          /\ dep'[d].fee = dep[d].fee /\ dep'[d].signed = dep[d].signed
          /\ dep'[d].deadline = dep[d].deadline
      BY <1>p, <1>t, <2>2, OtherPhase
    <2>4. d \in overlooked' \/ Spent(d)'
      <3>1. CASE ReservesMint(d) /\ f > progress
        BY <2>1, <3>1, Zenon
      <3>2. CASE dep[d].phase = "refund"
        <4>1. d \in overlooked \/ Spent(d)
          BY <2>1, <3>2, Zenon DEF Facts, Released
        <4>2. Spent(d) => Spent(d)'
          BY <2>1, <2>3, Zenon DEF Spent
        <4> QED BY <2>1, <4>1, <4>2, Zenon
      <3>3. CASE ~(f > progress)
        <4>1. f \in Heights /\ progress \in Heights /\ f <= progress /\ progress >= 1
          BY <1>t, <1>b, <2>1, <3>3, LatestType DEF Facts
        <4>2. d \in blocks[progress].processed
          BY <2>1, <4>1, Zenon DEF Facts, Chain
        <4> QED BY <2>1, <4>1, <4>2, Zenon DEF Spent
      <3> QED BY <2>1, <3>1, <3>2, <3>3, Zenon DEF ReservesMint
    <2>5. Moved(d)
      BY <2>1, <2>3, <2>4, Zenon DEF Moved, Closed
    <2>6. DepMoved
      BY <1>t, <2>2, <2>5, Zenon DEF DepMoved, Moved
    <2>7. Observed
      BY <1>t, <2>1 DEF Observed, None
    <2> QED BY <1>t, <2>1, <2>3, <2>6, <2>7, Zenon DEF CanisterStep, StoreStep, DepMoved
  <1> QED BY <1>1, <1>2, <1>3, <1>4, <1>5, <1>6, <1>7, Zenon DEF Observing

LEMMA InstallStoreStep ==
  ASSUME Facts, NEW d \in Deposits, NEW f \in Nat, Install(d, f), StillMatchesBase(d, Snapshot(f))
  PROVE  /\ StoreStep /\ NetOf' = NetOf /\ overlooked' = overlooked /\ f \in Heights /\ f >= progress
         /\ dep[d].phase = "dispatched" /\ \A e \in Deposits : e # d => dep'[e] = dep[e]
  <1>t. /\ final \in Nat /\ progress \in 0..final /\ cache.block \in {None} \cup 1..progress
        /\ dep \in [Deposits -> Record] /\ dep[d] \in Record /\ overlooked \in SUBSET Deposits
    BY DEF Facts, Shape, Heights
  <1>1. /\ dep[d].phase = "dispatched" /\ f \in 1..final /\ Observes(f) /\ progress' = f
        /\ dep' = [dep EXCEPT ![d].phase = "available", ![d].signed = TRUE]
        /\ UNCHANGED <<now, blocks, final, cache, overlooked>>
    BY Zenon DEF Install
  <1>2. PICK x, y : x = [dep[d] EXCEPT !.phase = "available"] /\ y = [x EXCEPT !.signed = TRUE]
    BY Zenon
  <1>3. dep' = [e \in Deposits |-> dep'[e]] /\ dep'[d] = y /\ \A e \in Deposits : e # d => dep'[e] = dep[e]
    BY <1>t, <1>1, <1>2, Zenon
  <1>4. "available" \in Phases
    BY Zenon DEF Phases
  <1>5. /\ x \in Record /\ x.phase = "available" /\ x.deadline = dep[d].deadline /\ x.epoch = dep[d].epoch
        /\ x.fee = dep[d].fee
    BY <1>t, <1>2, <1>4, OtherPhase
  <1>6. /\ y \in Record /\ y.phase = x.phase /\ y.deadline = x.deadline /\ y.epoch = x.epoch
        /\ y.fee = x.fee /\ y.signed
    BY ONLY <1>2, <1>5, Zenon DEF Record
  <1>7. ~dep[d].signed
    BY <1>1, UnsignedPhase, Zenon DEF SignedPhases
  <1>8. Installed(d)
    BY <1>3, <1>5, <1>6, <1>7, Zenon DEF Installed
  <1>9. \A e \in Deposits : Moved(e) \/ Installed(e)
    BY <1>t, <1>3, <1>8, Zenon DEF Moved
  <1>10. Observed
    BY <1>t, <1>1 DEF Observed, Observes, None
  <1>11. StoreStep
    BY <1>t, <1>1, <1>3, <1>9, <1>10, Zenon DEF StoreStep
  <1>12. NetOf' = NetOf
    <2>1. \A e \in Deposits : dep'[e].fee = dep[e].fee
      BY <1>3, <1>5, <1>6, Zenon
    <2> QED BY <2>1, Zenon DEF NetOf, Net
  <1>13. f \in Heights
    BY <1>1, LatestType, Zenon DEF Facts
  <1> QED BY <1>t, <1>1, <1>3, <1>11, <1>12, <1>13, Zenon DEF Observes

Reserving == {d \in Deposits : ReservesMint(d)}

\* The preflight leaves room for every reservation.
LEMMA PreflightRoom ==
  ASSUME Facts, NEW d \in Deposits, ReservesMint(d), NEW f \in Heights, StillMatchesBase(d, Snapshot(f))
  PROVE  EffectiveMinted(blocks[f]) + SumFunctionOnSet(NetOf, Reserving) <= MintWindowLimit
  <1>0. Shape /\ Records
    BY Zenon DEF Facts
  <1>1. /\ blocks[f].fee = dep[d].fee
        /\ EffectiveMinted(blocks[f]) + (ReservedTotal - ReservedMint[d] + FundingExcluding(d)) + Net(d, blocks[f].fee)
              <= MintWindowLimit
    BY Zenon DEF StillMatchesBase, Snapshot, ReservationPreflight, AdmissionDecision
  <1>2. ReservedMint[d] = NetOf[d] /\ Net(d, blocks[f].fee) = NetOf[d]
    BY <1>1, Zenon DEF ReservedMint, NetOf
  <1>3. ASSUME NEW e \in Deposits PROVE ReservedMint[e] \in Int /\ ReservedMint[e] >= 0
    <2>1. ReservedMint[e] = (IF ReservesMint(e) THEN NetOf[e] ELSE 0)
      BY Zenon DEF ReservedMint, NetOf
    <2> QED BY <1>0, <2>1, NetType
  <1>4. ASSUME NEW e \in Reserving PROVE NetOf[e] \in Int /\ NetOf[e] <= ReservedMint[e]
    <2>1. e \in Deposits /\ ReservedMint[e] = NetOf[e]
      BY Zenon DEF ReservedMint, NetOf, Reserving
    <2>2. NetOf[e] \in Int /\ NetOf[e] = ReservedMint[e]
      BY <1>0, <2>1, NetType, Zenon
    <2> QED BY ONLY <2>2
  <1>5. IsFiniteSet(Deposits) /\ Reserving \in SUBSET Deposits
    BY AdmissionAssumption, Zenon DEF Reserving
  <1>6. SumFunctionOnSet(NetOf, Reserving) <= SumFunctionOnSet(ReservedMint, Deposits)
    BY ONLY <1>3, <1>4, <1>5, SumLeq, Zenon
  <1>7. SumFunctionOnSet(ReservedMint, Deposits) \in Nat
    BY ONLY <1>3, <1>5, SumNat, Zenon
  <1>8. FundingExcluding(d) \in Nat
    <2>1. Funding \ {d} \in SUBSET Deposits /\ IsFiniteSet(Funding \ {d})
      BY <1>5, FS_Subset, Zenon DEF Funding
    <2>2. \A e \in Funding \ {d} : Gross[e] \in Int /\ Gross[e] >= 0
      <3>1. ASSUME NEW e \in Funding \ {d} PROVE Gross[e] \in Nat
        BY <2>1, AdmissionAssumption, Zenon
      <3> QED BY ONLY <3>1
    <2>3. SumFunctionOnSet(Gross, Funding \ {d}) \in Nat
      BY ONLY <2>1, <2>2, SumNat, Zenon
    <2> QED BY <2>3, Zenon DEF FundingExcluding
  <1>9. SumFunctionOnSet(NetOf, Reserving) \in Nat /\ NetOf[d] \in Int /\ MintWindowLimit \in Nat
    BY <1>0, <1>5, SumsTyped, NetType, AdmissionAssumption, Zenon
  <1>10. EffectiveMinted(blocks[f]) \in Nat
    BY <1>0, BlockType, Zenon DEF EffectiveMinted
  <1>11. EffectiveMinted(blocks[f]) + (ReservedTotal - NetOf[d] + FundingExcluding(d)) + NetOf[d] <= MintWindowLimit
    BY <1>1, <1>2, Zenon
  <1>12. ReservedTotal = SumFunctionOnSet(ReservedMint, Deposits)
    BY Zenon DEF ReservedTotal
  <1> QED BY ONLY <1>6, <1>7, <1>8, <1>9, <1>10, <1>11, <1>12

\* A signed authorization that an observation does not rule out still reserves.
LEMMA StillReserving ==
  ASSUME Facts, NEW e \in Deposits, dep[e].signed, NEW f \in Heights, f >= progress,
         e \notin blocks[f].processed, blocks[f].time <= dep[e].deadline
  PROVE  e \in Reserving \/ e \in overlooked
  <1>1. CASE dep[e].phase = "available"
    BY <1>1, Zenon DEF Reserving, ReservesMint
  <1>2. CASE dep[e].phase # "available" /\ e \notin overlooked
    <2>1. Spent(e)
      BY <1>2, Zenon DEF Facts, Released
    <2>2. progress \in Heights /\ progress <= f
      BY <2>1, LatestType DEF Facts, Spent, Heights
    <2>3. blocks[progress].time <= blocks[f].time /\ blocks[progress].processed \subseteq blocks[f].processed
      BY <2>2, Zenon DEF Facts, Chain
    <2>4. blocks[progress].time \in Nat /\ blocks[f].time \in Nat /\ dep[e].deadline \in Nat
      BY <2>2, BlockType, RecordType, Zenon DEF Facts
    <2> QED BY <2>1, <2>3, <2>4 DEF Spent
  <1> QED BY <1>1, <1>2, Zenon

\* What Base may still spend, and spent since the observed block, was reserved.
LEMMA InstallCapacity ==
  ASSUME Facts, NEW d \in Deposits, NEW f \in Nat, Install(d, f), StillMatchesBase(d, Snapshot(f))
  PROVE  CapacityHonoured'
  <1>0. Shape /\ Chain /\ Accounted /\ Records /\ Len(blocks) \in Heights /\ Latest = blocks[Len(blocks)]
    BY LatestType, Zenon DEF Facts
  <1>1. /\ StoreStep /\ NetOf' = NetOf /\ overlooked' = overlooked /\ f \in Heights /\ f >= progress
        /\ dep[d].phase = "dispatched" /\ \A e \in Deposits : e # d => dep'[e] = dep[e]
    BY InstallStoreStep, Zenon
  <1>2. now' = now /\ Latest' = Latest
    BY <1>1, Zenon DEF StoreStep, Observed, Latest
  <1>3. d \in Reserving /\ ReservesMint(d)
    BY <1>1, Zenon DEF Reserving, ReservesMint, Unsigned
  <1> DEFINE A == Since(f)
             M == MintSet'
  <1>4. EffectiveMinted(blocks[f]) + SumFunctionOnSet(NetOf, Reserving) <= MintWindowLimit
    BY <1>1, <1>3, PreflightRoom, Zenon
  <1>5. blocks[f].processed \subseteq Latest.processed /\ blocks[f].time <= now /\ f <= Len(blocks)
    BY <1>0, <1>1, LatestType, Zenon DEF Chain
  <1>6. /\ blocks[f].time \in Nat /\ blocks[f].start \in Nat /\ blocks[f].minted \in Nat /\ now \in Nat
        /\ Latest.minted \in Nat /\ Latest.start \in Nat /\ MintWindowDuration \in Nat
        /\ Latest.processed \in SUBSET Deposits
    BY <1>0, <1>1, BlockType, AdmissionAssumption, Zenon DEF Shape
  <1>7. Reserving \in SUBSET Deposits /\ overlooked \in SUBSET Deposits /\ A \in SUBSET Deposits /\ M \in SUBSET Deposits
    BY <1>0, <1>6, Zenon DEF Reserving, Shape, Since, MintSet
  <1>8. ASSUME NEW e \in A PROVE e \in Reserving \cup overlooked
    <2>1. e \in Deposits /\ e \in Latest.processed /\ e \notin blocks[f].processed /\ blocks[f].time <= dep[e].deadline
      BY <1>0, <1>1, <1>7, Zenon DEF Since, Accounted
    <2>2. dep[e].signed
      BY <1>0, <2>1, Zenon DEF Records
    <2> QED BY <1>1, <2>1, <2>2, StillReserving, Zenon
  <1>9. ASSUME NEW e \in M PROVE e \in Reserving \cup overlooked /\ e \notin A
    <2>1. e \in Deposits /\ dep'[e].signed /\ e \notin Latest.processed /\ now <= dep'[e].deadline
      BY <1>2, Zenon DEF MintSet, Mintable
    <2>2. CASE e = d
      BY <1>3, <2>1, <2>2, Zenon DEF Since
    <2>3. CASE e # d
      <3>1. dep[e].signed /\ now <= dep[e].deadline /\ dep[e].deadline \in Nat
        BY <1>0, <1>1, <2>1, <2>3, RecordType, Zenon
      <3>2. blocks[f].time <= dep[e].deadline /\ e \notin blocks[f].processed
        <4>1. blocks[f].time <= dep[e].deadline
          BY ONLY <1>5, <1>6, <3>1
        <4> QED BY ONLY <1>5, <2>1, <4>1, Zenon
      <3>3. e \in Reserving \/ e \in overlooked
        BY <1>1, <2>1, <3>1, <3>2, StillReserving, Zenon
      <3> QED BY <2>1, <3>3, Zenon DEF Since
    <2> QED BY <2>2, <2>3, Zenon
  <1>10. Consumed(now, Latest) <= EffectiveMinted(blocks[f]) + SumFunctionOnSet(NetOf, A)
    <2>1. Latest.minted <= SumFunctionOnSet(NetOf, A) + Carried(f)
      BY <1>0, <1>1, Zenon DEF Accounted
    <2>2. SumFunctionOnSet(NetOf, A) \in Nat
      BY <1>0, <1>7, SumsTyped, Zenon
    <2>3. CASE WindowExpired(now, Latest)
      <3>1. Consumed(now, Latest) = 0
        BY ONLY <2>3, Zenon DEF Consumed
      <3>2. EffectiveMinted(blocks[f]) \in Nat
        BY ONLY <1>6, Zenon DEF EffectiveMinted
      <3> QED BY ONLY <2>2, <3>1, <3>2
    <2>4. CASE ~WindowExpired(now, Latest)
      <3>1. Consumed(now, Latest) = Latest.minted
        BY <2>4, Zenon DEF Consumed
      <3>2. Carried(f) <= EffectiveMinted(blocks[f]) /\ Carried(f) \in Nat /\ EffectiveMinted(blocks[f]) \in Nat
        BY <1>5, <1>6, <2>4 DEF WindowExpired, Carried, EffectiveMinted
      <3> HIDE DEF A
      <3> QED BY ONLY <1>6, <2>1, <2>2, <3>1, <3>2
    <2> QED BY <2>3, <2>4, Zenon
  <1> HIDE DEF A, M
  <1>11. SumFunctionOnSet(NetOf, A) + SumFunctionOnSet(NetOf, M)
           <= SumFunctionOnSet(NetOf, Reserving) + SumFunctionOnSet(NetOf, overlooked)
    <2>1. IsFiniteSet(A) /\ IsFiniteSet(M) /\ IsFiniteSet(Reserving) /\ IsFiniteSet(overlooked)
      BY <1>0, <1>7, SumsTyped, Zenon
    <2>2. \A e \in Deposits : NetOf[e] \in Int /\ NetOf[e] >= 0
      BY <1>0, NetType, Zenon
    <2>3. A \cap M = {} /\ A \cup M \subseteq Reserving \cup overlooked
      BY <1>8, <1>9, Zenon
    <2>4. \A e \in A \cup M : NetOf[e] \in Int /\ NetOf[e] >= 0
      BY <1>7, <2>2, Zenon
    <2>5. \A e \in Reserving \cup overlooked : NetOf[e] \in Int /\ NetOf[e] >= 0
      BY <1>7, <2>2, Zenon
    <2>6. SumFunctionOnSet(NetOf, A \cup M) = SumFunctionOnSet(NetOf, A) + SumFunctionOnSet(NetOf, M)
      BY ONLY <2>1, <2>3, <2>4, SumCover, Zenon
    <2>7. SumFunctionOnSet(NetOf, Reserving \cup overlooked)
            <= SumFunctionOnSet(NetOf, Reserving) + SumFunctionOnSet(NetOf, overlooked)
      BY ONLY <2>1, <2>5, SumCover, Zenon
    <2>8. SumFunctionOnSet(NetOf, A \cup M) <= SumFunctionOnSet(NetOf, Reserving \cup overlooked)
      <3>1. PICK S, T : S = Reserving \cup overlooked /\ T = A \cup M
        BY Zenon
      <3>2. IsFiniteSet(S) /\ T \in SUBSET S
        BY <2>1, <2>3, <3>1, FS_Union, Zenon
      <3>3. \A e \in S : NetOf[e] \in Int /\ NetOf[e] >= 0
        BY <2>5, <3>1, Zenon
      <3>4. \A e \in T : NetOf[e] \in Int /\ NetOf[e] <= NetOf[e]
        BY <3>2, <3>3
      <3>5. SumFunctionOnSet(NetOf, T) <= SumFunctionOnSet(NetOf, S)
        BY ONLY <3>2, <3>3, <3>4, SumLeq, Zenon
      <3> QED BY <3>1, <3>5, Zenon
    <2>9. /\ SumFunctionOnSet(NetOf, A \cup M) \in Nat /\ SumFunctionOnSet(NetOf, Reserving \cup overlooked) \in Nat
          /\ SumFunctionOnSet(NetOf, Reserving) \in Nat /\ SumFunctionOnSet(NetOf, overlooked) \in Nat
      <3>1. A \cup M \in SUBSET Deposits /\ Reserving \cup overlooked \in SUBSET Deposits
        BY <1>7, Zenon
      <3> QED BY <1>0, <1>7, <3>1, SumsTyped, Zenon
    <2> QED BY ONLY <2>6, <2>7, <2>8, <2>9
  <1>12. /\ SumFunctionOnSet(NetOf, A) \in Nat /\ SumFunctionOnSet(NetOf, M) \in Nat
         /\ SumFunctionOnSet(NetOf, Reserving) \in Nat /\ SumFunctionOnSet(NetOf, overlooked) \in Nat
         /\ Consumed(now, Latest) \in Nat /\ EffectiveMinted(blocks[f]) \in Nat /\ MintWindowLimit \in Nat
    BY <1>0, <1>6, <1>7, SumsTyped, ConsumedType, AdmissionAssumption, Zenon DEF EffectiveMinted
  <1>13. Consumed(now, Latest) + SumFunctionOnSet(NetOf, M) <= MintWindowLimit + SumFunctionOnSet(NetOf, overlooked)
    BY ONLY <1>4, <1>10, <1>11, <1>12
  <1>14. SumFunctionOnSet(NetOf, MintSet)' = SumFunctionOnSet(NetOf, M)
    BY <1>1, Zenon DEF M
  <1> QED BY <1>1, <1>2, <1>13, <1>14, Zenon DEF CapacityHonoured, MintSet

----------------------------------------------------------------------------
(* The request quota                                                       *)

\* A step that requests nothing and returns nothing.
Requests(e) ==
  /\ dep'[e].phase = "none" => dep[e].phase = "none"
  /\ dep'[e].phase = "funding" => dep[e].phase = "funding" /\ reservations'[e] = reservations[e]

LEMMA CountersKept ==
  ASSUME Counters, now' = now \/ now' = now + 1, UNCHANGED <<quota, admittedIn>>,
         reservations' \in [Deposits -> Nat \cup {None}], \A e \in Deposits : Requests(e)
  PROVE  Counters'
  <1>1. now \in Nat /\ quota.window \in Nat /\ quota.window <= now \div QuotaWindow /\ QuotaWindow \in Nat \ {0}
    BY AdmissionAssumption, Zenon DEF Counters
  <1>2. now' \in Nat
    BY <1>1
  <1>3. quota.window <= now' \div QuotaWindow
    BY <1>1, WindowGrows
  <1>4. \A w : Counted(w)' = Counted(w) /\ \A o : CountedOf(w, o)' = CountedOf(w, o)
    BY Zenon DEF Counted, CountedOf
  <1>5. \A e \in Deposits :
          /\ admittedIn'[e] <= quota'.window
          /\ dep'[e].phase = "none" => admittedIn'[e] = None
          /\ dep'[e].phase = "funding" => admittedIn'[e] # None /\ reservations'[e] = admittedIn'[e]
    BY Zenon DEF Counters, Requests
  <1>6. /\ quota'.global = Cardinality(Counted(quota.window)')
        /\ quota'.callers = [o \in Owners |-> Cardinality(CountedOf(quota.window, o)')]
    BY <1>4, Zenon DEF Counters
  <1>7. \A w \in Nat :
          /\ Cardinality(Counted(w)') <= GlobalLimit
          /\ \A o \in Owners : Cardinality(CountedOf(w, o)') <= PerPrincipalLimit
    BY <1>4, Zenon DEF Counters
  <1> QED BY <1>1, <1>2, <1>3, <1>5, <1>6, <1>7, Zenon DEF Counters

\* The quota a request finds: that of the window it falls into.
LEMMA CurrentCounters ==
  ASSUME Counters, NEW q, q = CurrentQuota(quota)
  PROVE  /\ q = [window |-> q.window, global |-> q.global, callers |-> q.callers]
         /\ q.window \in Nat /\ quota.window <= q.window /\ q.window <= now \div QuotaWindow
         /\ q.global = Cardinality(Counted(q.window))
         /\ q.callers = [o \in Owners |-> Cardinality(CountedOf(q.window, o))]
  <1> DEFINE w == now \div QuotaWindow
  <1>1. /\ quota = [window |-> quota.window, global |-> quota.global, callers |-> quota.callers]
        /\ quota.window \in Nat /\ quota.window <= w /\ w \in Nat
    BY AdmissionAssumption, Division, Zenon DEF Counters
  <1>2. CASE quota.window = w
    <2>1. q = quota
      BY <1>2, Zenon DEF CurrentQuota
    <2> QED BY <1>1, <2>1 DEF Counters
  <1>3. CASE quota.window # w
    <2>1. q = [window |-> w, global |-> 0, callers |-> [o \in Owners |-> 0]]
      BY <1>3, Zenon DEF CurrentQuota
    <2> HIDE DEF w
    <2>2. q.window = w /\ q.global = 0 /\ q.callers = [o \in Owners |-> 0]
      BY <2>1
    <2>3. ASSUME NEW d \in Deposits, admittedIn[d] = w PROVE FALSE
      BY <1>1, <1>3, <2>3 DEF Counters
    <2>4. Counted(w) = {} /\ \A o : CountedOf(w, o) = {}
      BY <2>3, Zenon DEF Counted, CountedOf
    <2>5. Cardinality(Counted(w)) = 0 /\ \A o : Cardinality(CountedOf(w, o)) = 0
      BY <2>4, FS_EmptySet, Zenon
    <2> QED BY <1>1, <2>1, <2>2, <2>5 DEF w
  <1> QED BY <1>2, <1>3, Zenon

LEMMA CountedFinite ==
  ASSUME NEW w
  PROVE  /\ IsFiniteSet(Counted(w)) /\ Cardinality(Counted(w)) \in Nat
         /\ \A o : IsFiniteSet(CountedOf(w, o)) /\ Cardinality(CountedOf(w, o)) \in Nat
  <1>1. IsFiniteSet(Counted(w))
    BY AdmissionAssumption, FS_Subset, Zenon DEF Counted
  <1>2. \A o : IsFiniteSet(CountedOf(w, o))
    BY <1>1, FS_Subset, Zenon DEF CountedOf
  <1> QED BY <1>1, <1>2, FS_CardinalityType, Zenon

LEMMA AdmitCounters ==
  ASSUME Counters, NEW d \in Deposits, Admit(d), dep = [e \in Deposits |-> dep[e]],
         \A e \in Deposits : dep[e] \in Record
  PROVE  Counters'
  <1>1. PICK q : q = CurrentQuota(quota)
    BY Zenon
  <1>2. PICK w, o : w = q.window /\ o = Owner[d]
    BY Zenon
  <1>3. /\ q = [window |-> w, global |-> q.global, callers |-> q.callers]
        /\ w \in Nat /\ quota.window <= w /\ w <= now \div QuotaWindow
        /\ q.global = Cardinality(Counted(w))
        /\ q.callers = [p \in Owners |-> Cardinality(CountedOf(w, p))]
    BY <1>1, <1>2, CurrentCounters, Zenon
  <1>4. /\ dep[d].phase = "none" /\ q.global < GlobalLimit /\ q.callers[o] < PerPrincipalLimit
        /\ quota' = [q EXCEPT !.global = @ + 1, !.callers[o] = @ + 1]
        /\ reservations' = [reservations EXCEPT ![d] = w]
        /\ admittedIn' = [admittedIn EXCEPT ![d] = w]
        /\ dep' = [dep EXCEPT ![d].phase = "funding"] /\ now' = now
    BY <1>1, <1>2, Zenon DEF Admit, QuotaAvailable, Consume
  <1>5. o \in Owners /\ GlobalLimit \in Nat /\ PerPrincipalLimit \in Nat
    BY <1>2, AdmissionAssumption, Zenon
  <1>6. quota' = [window |-> w, global |-> q.global + 1, callers |-> [q.callers EXCEPT ![o] = @ + 1]]
    <2>1. PICK r : r = [q EXCEPT !.global = q.global + 1]
      BY Zenon
    <2>2. r = [window |-> w, global |-> q.global + 1, callers |-> q.callers]
      BY ONLY <1>3, <2>1
    <2>3. quota' = [r EXCEPT !.callers = [r.callers EXCEPT ![o] = r.callers[o] + 1]]
      BY <1>4, <2>1, Zenon
    <2> QED BY ONLY <2>2, <2>3, Zenon
  <1>7. /\ quota'.window = w /\ quota'.global = q.global + 1 /\ quota'.callers = [q.callers EXCEPT ![o] = @ + 1]
        /\ quota' = [window |-> quota'.window, global |-> quota'.global, callers |-> quota'.callers]
    BY ONLY <1>6, Zenon
  <1>8. /\ admittedIn \in [Deposits -> Nat \cup {None}] /\ reservations \in [Deposits -> Nat \cup {None}]
        /\ admittedIn[d] = None /\ quota.window \in Nat /\ now \in Nat
        /\ \A e \in Deposits : admittedIn[e] <= quota.window
    BY <1>4, Zenon DEF Counters
  <1>9. /\ admittedIn' \in [Deposits -> Nat \cup {None}] /\ reservations' \in [Deposits -> Nat \cup {None}]
        /\ admittedIn'[d] = w /\ reservations'[d] = w
        /\ \A e \in Deposits : e # d => admittedIn'[e] = admittedIn[e] /\ reservations'[e] = reservations[e]
    BY <1>3, <1>4, <1>8, Zenon
  <1>10. w # None
    BY <1>3 DEF None
  <1>11. Counted(w)' = Counted(w) \cup {d} /\ d \notin Counted(w)
    BY <1>8, <1>9, <1>10, Zenon DEF Counted
  <1>12. \A v \in Nat : v # w => Counted(v)' = Counted(v)
    BY <1>8, <1>9 DEF Counted, None
  <1>13. /\ CountedOf(w, o)' = CountedOf(w, o) \cup {d} /\ d \notin CountedOf(w, o)
         /\ \A p \in Owners : p # o => CountedOf(w, p)' = CountedOf(w, p)
         /\ \A v \in Nat : v # w => \A p \in Owners : CountedOf(v, p)' = CountedOf(v, p)
    BY <1>2, <1>11, <1>12, Zenon DEF CountedOf
  <1>14. Cardinality(Counted(w)') = Cardinality(Counted(w)) + 1 /\ Cardinality(Counted(w)) \in Nat
    BY <1>11, CountedFinite, FS_AddElement, Zenon
  <1>15. Cardinality(CountedOf(w, o)') = Cardinality(CountedOf(w, o)) + 1 /\ Cardinality(CountedOf(w, o)) \in Nat
    BY <1>13, CountedFinite, FS_AddElement, Zenon
  <1>16. quota'.callers = [p \in Owners |-> Cardinality(CountedOf(w, p)')]
    <2>1. ASSUME NEW p \in Owners PROVE quota'.callers[p] = Cardinality(CountedOf(w, p)')
      BY <1>3, <1>5, <1>7, <1>13, <1>15, Zenon
    <2> QED BY <1>3, <1>5, <1>7, <2>1, Zenon
  <1>17. quota'.global = Cardinality(Counted(w)')
    BY <1>3, <1>7, <1>14, Zenon
  <1>18. ASSUME NEW v \in Nat
         PROVE  /\ Cardinality(Counted(v)') <= GlobalLimit
                /\ \A p \in Owners : Cardinality(CountedOf(v, p)') <= PerPrincipalLimit
    <2>0. /\ Cardinality(Counted(v)) <= GlobalLimit
          /\ \A p \in Owners : Cardinality(CountedOf(v, p)) <= PerPrincipalLimit
      BY Zenon DEF Counters
    <2>1. CASE v # w
      BY <1>12, <1>13, <2>0, <2>1, Zenon
    <2>2. CASE v = w
      <3>1. Cardinality(Counted(w)') <= GlobalLimit
        BY <1>3, <1>4, <1>5, <1>14
      <3>2. Cardinality(CountedOf(w, o)') <= PerPrincipalLimit
        BY <1>3, <1>4, <1>5, <1>15
      <3>3. ASSUME NEW p \in Owners PROVE Cardinality(CountedOf(w, p)') <= PerPrincipalLimit
        BY <1>13, <2>0, <2>2, <3>2, Zenon
      <3> QED BY <2>2, <3>1, <3>3, Zenon
    <2> QED BY <2>1, <2>2, Zenon
  <1>19. ASSUME NEW e \in Deposits
         PROVE  /\ admittedIn'[e] <= w
                /\ dep'[e].phase = "none" => admittedIn'[e] = None
                /\ dep'[e].phase = "funding" => admittedIn'[e] # None /\ reservations'[e] = admittedIn'[e]
    <2>1. CASE e = d
      <3>1. dep'[d].phase = "funding"
        BY <1>4, Zenon DEF Record
      <3> QED BY <1>3, <1>9, <1>10, <2>1, <3>1
    <2>2. CASE e # d
      <3>1. dep'[e] = dep[e] /\ admittedIn'[e] = admittedIn[e] /\ reservations'[e] = reservations[e]
        BY <1>4, <1>9, <2>2, Zenon
      <3>2. admittedIn[e] <= w
        BY <1>3, <1>8 DEF None
      <3>3. /\ dep[e].phase = "none" => admittedIn[e] = None
            /\ dep[e].phase = "funding" => admittedIn[e] # None /\ reservations[e] = admittedIn[e]
        BY Zenon DEF Counters
      <3> QED BY ONLY <3>1, <3>2, <3>3, Zenon
    <2> QED BY <2>1, <2>2, Zenon
  <1> QED BY <1>3, <1>4, <1>7, <1>8, <1>9, <1>16, <1>17, <1>18, <1>19, Zenon DEF Counters

LEMMA PullFailsCounters ==
  ASSUME Counters, NEW d \in Deposits, PullFails(d), dep = [e \in Deposits |-> dep[e]],
         \A e \in Deposits : dep[e] \in Record
  PROVE  Counters'
  <1>1. PICK w, o, v : w = quota.window /\ o = Owner[d] /\ v = admittedIn[d]
    BY Zenon
  <1>2. /\ quota = [window |-> w, global |-> quota.global, callers |-> quota.callers]
        /\ w \in Nat /\ w <= now \div QuotaWindow /\ now \in Nat
        /\ quota.global = Cardinality(Counted(w))
        /\ quota.callers = [p \in Owners |-> Cardinality(CountedOf(w, p))]
        /\ admittedIn \in [Deposits -> Nat \cup {None}] /\ reservations \in [Deposits -> Nat \cup {None}]
    BY <1>1, Zenon DEF Counters
  <1>3. /\ dep[d].phase = "funding" /\ quota' = RollBack(quota, d) /\ now' = now
        /\ reservations' = [reservations EXCEPT ![d] = None]
        /\ admittedIn' = [admittedIn EXCEPT ![d] = None]
        /\ dep' = [dep EXCEPT ![d].phase = "none"]
    BY Zenon DEF PullFails, Release
  <1>4. v \in Nat /\ reservations[d] = v
    BY <1>1, <1>2, <1>3, Zenon DEF Counters
  <1>5. /\ admittedIn' \in [Deposits -> Nat \cup {None}] /\ reservations' \in [Deposits -> Nat \cup {None}]
        /\ admittedIn'[d] = None
        /\ \A e \in Deposits : e # d => admittedIn'[e] = admittedIn[e] /\ reservations'[e] = reservations[e]
    BY <1>2, <1>3, Zenon
  <1>6. o \in Owners
    BY <1>1, AdmissionAssumption, Zenon
  <1>7. /\ Counted(v)' = Counted(v) \ {d} /\ d \in Counted(v)
        /\ \A u \in Nat : u # v => Counted(u)' = Counted(u)
    BY <1>1, <1>4, <1>5 DEF Counted, None
  <1>8. /\ CountedOf(v, o)' = CountedOf(v, o) \ {d} /\ d \in CountedOf(v, o)
        /\ \A p \in Owners : p # o => CountedOf(v, p)' = CountedOf(v, p)
        /\ \A u \in Nat : u # v => \A p \in Owners : CountedOf(u, p)' = CountedOf(u, p)
    BY <1>1, <1>7, Zenon DEF CountedOf
  <1>9. Cardinality(Counted(v)') = Cardinality(Counted(v)) - 1 /\ Cardinality(Counted(v)) \in Nat
    BY <1>7, CountedFinite, FS_RemoveElement, Zenon
  <1>10. Cardinality(CountedOf(v, o)') = Cardinality(CountedOf(v, o)) - 1 /\ Cardinality(CountedOf(v, o)) \in Nat
    BY <1>8, CountedFinite, FS_RemoveElement, Zenon
  <1>11. /\ quota' = [window |-> quota'.window, global |-> quota'.global, callers |-> quota'.callers]
         /\ quota'.window = w /\ quota'.global = Cardinality(Counted(w)')
         /\ quota'.callers = [p \in Owners |-> Cardinality(CountedOf(w, p)')]
    <2>1. CASE v # w
      <3>1. quota' = quota
        BY <1>1, <1>3, <1>4, <2>1, Zenon DEF RollBack
      <3>2. Counted(w)' = Counted(w) /\ \A p \in Owners : CountedOf(w, p)' = CountedOf(w, p)
        BY <1>2, <1>7, <1>8, <2>1, Zenon
      <3> QED BY <1>1, <1>2, <3>1, <3>2, Zenon
    <2>2. CASE v = w
      <3>1. quota' = [quota EXCEPT !.global = @ - 1, !.callers[o] = @ - 1]
        BY <1>1, <1>3, <1>4, <2>2, Zenon DEF RollBack
      <3>2. PICK r : r = [quota EXCEPT !.global = quota.global - 1]
        BY Zenon
      <3>3. r = [window |-> w, global |-> quota.global - 1, callers |-> quota.callers]
        BY ONLY <1>2, <3>2
      <3>4. quota' = [r EXCEPT !.callers = [r.callers EXCEPT ![o] = r.callers[o] - 1]]
        BY <3>1, <3>2, Zenon
      <3>5. quota' = [window |-> w, global |-> quota.global - 1, callers |-> [quota.callers EXCEPT ![o] = quota.callers[o] - 1]]
        BY ONLY <3>3, <3>4, Zenon
      <3>6. /\ quota'.window = w /\ quota'.global = quota.global - 1
            /\ quota'.callers = [quota.callers EXCEPT ![o] = quota.callers[o] - 1]
            /\ quota' = [window |-> quota'.window, global |-> quota'.global, callers |-> quota'.callers]
        BY ONLY <3>5, Zenon
      <3>7. ASSUME NEW p \in Owners PROVE quota'.callers[p] = Cardinality(CountedOf(w, p)')
        BY <1>2, <1>6, <1>8, <1>10, <2>2, <3>6, Zenon
      <3>8. quota'.callers = [p \in Owners |-> Cardinality(CountedOf(w, p)')]
        BY <1>2, <1>6, <3>6, <3>7, Zenon
      <3> QED BY <1>2, <1>9, <2>2, <3>6, <3>8, Zenon
    <2> QED BY <2>1, <2>2, Zenon
  <1>12. ASSUME NEW u \in Nat
         PROVE  /\ Cardinality(Counted(u)') <= GlobalLimit
                /\ \A p \in Owners : Cardinality(CountedOf(u, p)') <= PerPrincipalLimit
    <2>0. /\ Cardinality(Counted(u)) <= GlobalLimit
          /\ \A p \in Owners : Cardinality(CountedOf(u, p)) <= PerPrincipalLimit
          /\ GlobalLimit \in Nat /\ PerPrincipalLimit \in Nat
      BY AdmissionAssumption, Zenon DEF Counters
    <2>1. CASE u # v
      BY <1>7, <1>8, <2>0, <2>1, Zenon
    <2>2. CASE u = v
      <3>1. Cardinality(Counted(v)') <= GlobalLimit
        BY <1>9, <2>0, <2>2
      <3>2. Cardinality(CountedOf(v, o)') <= PerPrincipalLimit
        BY <1>6, <1>10, <2>0, <2>2
      <3>3. ASSUME NEW p \in Owners PROVE Cardinality(CountedOf(v, p)') <= PerPrincipalLimit
        BY <1>8, <2>0, <2>2, <3>2, Zenon
      <3> QED BY <2>2, <3>1, <3>3, Zenon
    <2> QED BY <2>1, <2>2, Zenon
  <1>13. ASSUME NEW e \in Deposits
         PROVE  /\ admittedIn'[e] <= w
                /\ dep'[e].phase = "none" => admittedIn'[e] = None
                /\ dep'[e].phase = "funding" => admittedIn'[e] # None /\ reservations'[e] = admittedIn'[e]
    <2>1. CASE e = d
      <3>1. dep'[d].phase = "none"
        BY <1>3, Zenon DEF Record
      <3> QED BY <1>2, <1>5, <2>1, <3>1 DEF None
    <2>2. CASE e # d
      <3>1. dep'[e] = dep[e] /\ admittedIn'[e] = admittedIn[e] /\ reservations'[e] = reservations[e]
        BY <1>3, <1>5, <2>2, Zenon
      <3>2. /\ admittedIn[e] <= w /\ (dep[e].phase = "none" => admittedIn[e] = None)
            /\ dep[e].phase = "funding" => admittedIn[e] # None /\ reservations[e] = admittedIn[e]
        BY <1>1, Zenon DEF Counters
      <3> QED BY ONLY <3>1, <3>2, Zenon
    <2> QED BY <2>1, <2>2, Zenon
  <1> QED BY <1>2, <1>3, <1>5, <1>11, <1>12, <1>13 DEF Counters

Kept(e) == dep'[e] = dep[e] \/ dep'[e].phase \notin {"none", "funding"}

\* A step that counts no request: it may release a reservation that its own
\* deposit no longer needs.
LEMMA QuotaKept ==
  ASSUME Counters, NEW d \in Deposits, now' = now, UNCHANGED <<quota, admittedIn>>,
         \/ reservations' = reservations
         \/ reservations' = Release(d) /\ dep'[d].phase # "funding",
         \A e \in Deposits : Kept(e)
  PROVE  Counters'
  <1>1. reservations \in [Deposits -> Nat \cup {None}]
    BY Zenon DEF Counters
  <1>2. reservations' \in [Deposits -> Nat \cup {None}]
    BY <1>1, Zenon DEF Release
  <1>3. ASSUME NEW e \in Deposits PROVE Requests(e)
    <2>1. reservations'[e] = reservations[e] \/ (e = d /\ dep'[d].phase # "funding")
      BY <1>1, Zenon DEF Release
    <2>2. Kept(e)
      BY Zenon
    <2> QED BY <2>1, <2>2, Zenon DEF Kept, Requests
  <1> QED BY <1>2, <1>3, CountersKept, Zenon

LEMMA PhaseKept ==
  ASSUME Facts, NEW d \in Deposits, NEW p \in Phases, p \notin {"none", "funding"},
         dep' = [dep EXCEPT ![d].phase = p]
  PROVE  dep'[d].phase # "funding" /\ \A e \in Deposits : Kept(e)
  <1>1. dep \in [Deposits -> Record] /\ dep[d] \in Record
    BY Zenon DEF Facts, Shape
  <1>2. dep'[d] = [dep[d] EXCEPT !.phase = p] /\ \A e \in Deposits : e # d => dep'[e] = dep[e]
    BY <1>1, Zenon
  <1>3. dep'[d].phase = p
    BY <1>1, <1>2, OtherPhase
  <1> QED BY <1>2, <1>3, Zenon DEF Kept

LEMMA PromotedKept ==
  ASSUME Facts, NEW d \in Deposits, dep' = Promoted(dep, d)
  PROVE  dep'[d].phase # "funding" /\ \A e \in Deposits : Kept(e)
  <1>1. CASE dep[d].phase = "funding"
    <2>1. dep' = [dep EXCEPT ![d].phase = "escrowed"]
      BY <1>1, Zenon DEF Promoted
    <2>2. "escrowed" \in Phases /\ "escrowed" \notin {"none", "funding"}
      BY Zenon DEF Phases
    <2> QED BY <2>1, <2>2, PhaseKept, Zenon
  <1>2. CASE dep[d].phase # "funding"
    BY <1>2, Zenon DEF Promoted, Kept
  <1> QED BY <1>1, <1>2, Zenon

LEMMA SweptKept ==
  ASSUME Facts, NEW f, SweptTo(f, dep')
  PROVE  \A e \in Deposits : Kept(e)
  <1>1. ASSUME NEW e \in Deposits PROVE Kept(e)
    <2>1. dep[e] \in Record /\ {"refund", "escrowed"} \in SUBSET Phases
      BY Zenon DEF Facts, Shape, Phases
    <2>2. dep'[e] = dep[e] \/ \E p \in {"refund", "escrowed"} : dep'[e] = [dep[e] EXCEPT !.phase = p]
      BY Zenon DEF SweptTo, Swept
    <2>3. ASSUME NEW p \in {"refund", "escrowed"}, dep'[e] = [dep[e] EXCEPT !.phase = p] PROVE Kept(e)
      <3>1. dep'[e].phase = p
        BY <2>1, <2>3, OtherPhase
      <3> QED BY <3>1, Zenon DEF Kept
    <2> QED BY <2>2, <2>3, Zenon DEF Kept
  <1> QED BY <1>1, Zenon

LEMMA PromotedSweptKept ==
  ASSUME Facts, NEW f, NEW d \in Deposits, dep' = Promoted(Refundable(Sweep(blocks[f].time)), d)
  PROVE  dep'[d].phase # "funding" /\ \A e \in Deposits : Kept(e)
  <1>1. SweptTo(f, dep')
    BY PromotedSwept, Zenon
  <1>2. PICK q : q = Refundable(Sweep(blocks[f].time))
    BY Zenon
  <1>3. q = [e \in Deposits |-> q[e]] /\ (q[d] = dep[d] \/ q[d] = [dep[d] EXCEPT !.phase = "refund"])
    BY <1>2, RefundableSwept
  <1>4. CASE q[d].phase = "funding"
    <2>1. dep[d] \in Record /\ {"refund", "escrowed"} \in SUBSET Phases
      BY Zenon DEF Facts, Shape, Phases
    <2>2. q[d] \in Record
      BY <1>3, <2>1, OtherPhase, Zenon
    <2>3. dep'[d] = [q[d] EXCEPT !.phase = "escrowed"]
      BY <1>2, <1>3, <1>4, Zenon DEF Promoted
    <2>4. dep'[d].phase = "escrowed"
      BY <2>1, <2>2, <2>3, OtherPhase
    <2> QED BY <1>1, <2>4, SweptKept, Zenon
  <1>5. CASE q[d].phase # "funding"
    <2>1. dep' = q
      BY <1>2, <1>5, Zenon DEF Promoted
    <2> QED BY <1>1, <1>5, <2>1, SweptKept, Zenon
  <1> QED BY <1>4, <1>5, Zenon

LEMMA LocalCounters ==
  ASSUME Facts, Counters, NEW d \in Deposits, Local(d)
  PROVE  Counters'
  <1>t. dep = [e \in Deposits |-> dep[e]] /\ \A e \in Deposits : dep[e] \in Record
    BY Zenon DEF Facts, Shape
  <1>p. {"held", "escrowed", "refund", "refunded", "minted"} \in SUBSET Phases
    BY Zenon DEF Phases
  <1>s. dep' = dep => \A e \in Deposits : Kept(e)
    BY Zenon DEF Kept
  <1>1. CASE Admit(d)
    BY <1>1, <1>t, AdmitCounters, Zenon
  <1>2. CASE PullSucceeds(d)
    <2>1. /\ now' = now /\ UNCHANGED <<quota, admittedIn>>
          /\ \/ dep' = dep /\ reservations' = reservations
             \/ dep' = Promoted(dep, d) /\ reservations' = Release(d)
      BY <1>2, Zenon DEF PullSucceeds
    <2> QED BY <1>s, <2>1, PromotedKept, QuotaKept, Zenon
  <1>3. CASE PullFails(d)
    BY <1>3, <1>t, PullFailsCounters, Zenon
  <1>4. CASE PullAmbiguous(d)
    BY <1>4, <1>p, PhaseKept, QuotaKept, Zenon DEF PullAmbiguous
  <1>5. CASE HoldResolves(d)
    BY <1>5, <1>p, PhaseKept, QuotaKept, Zenon DEF HoldResolves
  <1>6. CASE RecoverFunding(d)
    BY <1>6, PromotedKept, QuotaKept, Zenon DEF RecoverFunding
  <1>7. CASE PreflightFails(d)
    BY <1>7, PromotedKept, QuotaKept, Zenon DEF PreflightFails
  <1>8. CASE ClaimUnsigned(d)
    <2>1. /\ now' = now /\ UNCHANGED <<quota, admittedIn, reservations>>
          /\ dep' = dep \/ dep' = Claimed(d, blocks[cache.block].time)
      BY <1>8, Zenon DEF ClaimUnsigned, Snapshot
    <2>2. CASE dep' = dep
      BY <1>s, <2>1, <2>2, QuotaKept, Zenon
    <2>3. CASE dep' = Claimed(d, blocks[cache.block].time)
      <3>1. SweptTo(cache.block, dep')
        BY <2>3, ClaimedSwept, Zenon
      <3> QED BY <2>1, <3>1, SweptKept, QuotaKept, Zenon
    <2> QED BY <2>1, <2>2, <2>3, Zenon
  <1>9. CASE ClaimFails(d)
    BY <1>9, <1>s, QuotaKept, Zenon DEF ClaimFails
  <1>11. CASE MintEvidence(d)
    <2>1. /\ now' = now /\ UNCHANGED <<quota, admittedIn, reservations>>
          /\ dep' = dep \/ dep' = [dep EXCEPT ![d].phase = "minted"]
      BY <1>11, Zenon DEF MintEvidence
    <2>2. \A e \in Deposits : Kept(e)
      BY <1>p, <1>s, <2>1, PhaseKept, Zenon
    <2> QED BY <2>1, <2>2, QuotaKept, Zenon
  <1>10. CASE RefundUnsigned(d)
    <2>1. PICK x : x = [FreshDeposit EXCEPT !.phase = "refunded"]
      BY Zenon
    <2>2. x.phase = "refunded"
      BY <2>1, Zenon DEF FreshDeposit
    <2>3. dep' = [dep EXCEPT ![d] = x] /\ now' = now /\ UNCHANGED <<quota, admittedIn, reservations>>
      BY <1>10, <2>1, Zenon DEF RefundUnsigned
    <2>4. \A e \in Deposits : Kept(e)
      BY <1>t, <2>2, <2>3, Zenon DEF Kept
    <2> QED BY <2>3, <2>4, QuotaKept, Zenon
  <1> QED BY <1>1, <1>2, <1>3, <1>4, <1>5, <1>6, <1>7, <1>8, <1>9, <1>10, <1>11, Zenon DEF Local

LEMMA ObservingCounters ==
  ASSUME Facts, Counters, NEW d \in Deposits, NEW f \in Nat, Observing(d, f)
  PROVE  Counters'
  <1>t. dep = [e \in Deposits |-> dep[e]] /\ \A e \in Deposits : dep[e] \in Record
    BY Zenon DEF Facts, Shape
  <1>p. {"refund", "dispatched", "minted", "refunded"} \in SUBSET Phases
    BY Zenon DEF Phases
  <1>q. now' = now /\ UNCHANGED <<quota, admittedIn>>
    BY Zenon DEF Observing, PreflightAnswers, ClaimAnswers, Prepare, Dispatch, Install, ClaimSigned, NotifyDepositMint
  <1>s. dep' = dep => \A e \in Deposits : Kept(e)
    BY Zenon DEF Kept
  <1>1. CASE PreflightAnswers(d, f)
    <2>1. reservations' = Release(d)
      BY <1>1, Zenon DEF PreflightAnswers
    <2>2. dep' = Promoted(dep, d) \/ dep' = Promoted(Refundable(Sweep(blocks[f].time)), d)
      BY <1>1, Zenon DEF PreflightAnswers, Snapshot
    <2>3. dep'[d].phase # "funding" /\ \A e \in Deposits : Kept(e)
      BY <2>2, PromotedKept, PromotedSweptKept, Zenon
    <2> QED BY <1>q, <2>1, <2>3, QuotaKept, Zenon
  <1>2. CASE ClaimAnswers(d, f)
    <2>1. reservations' = reservations /\ (dep' = dep \/ dep' = Claimed(d, blocks[f].time))
      BY <1>2, Zenon DEF ClaimAnswers, Snapshot
    <2>2. ASSUME dep' = Claimed(d, blocks[f].time) PROVE \A e \in Deposits : Kept(e)
      <3>1. SweptTo(f, dep')
        BY <2>2, ClaimedSwept, Zenon
      <3> QED BY <3>1, SweptKept, Zenon
    <2>3. \A e \in Deposits : Kept(e)
      BY <1>s, <2>1, <2>2, Zenon
    <2> QED BY <1>q, <2>1, <2>3, QuotaKept, Zenon
  <1>3. CASE Prepare(d, f)
    <2>1. reservations' = reservations
      BY <1>3, Zenon DEF Prepare
    <2>2. ASSUME NEW x, x.phase = "pending", dep' = [dep EXCEPT ![d] = x] PROVE \A e \in Deposits : Kept(e)
      BY <1>t, <2>2, Zenon DEF Kept
    <2>3. \/ dep' = [dep EXCEPT ![d].phase = "refund"] \/ dep' = dep
          \/ dep' = [dep EXCEPT ![d] = [phase |-> "pending", deadline |-> now + AuthorizationTtl,
                                        epoch |-> Snapshot(f).epoch, fee |-> Snapshot(f).fee, signed |-> FALSE]]
      BY <1>3, Zenon DEF Prepare, Commit
    <2>4. ASSUME dep' = [dep EXCEPT ![d].phase = "refund"] PROVE \A e \in Deposits : Kept(e)
      BY <1>p, <2>4, PhaseKept, Zenon
    <2>5. \A e \in Deposits : Kept(e)
      BY <1>s, <2>2, <2>3, <2>4, Zenon
    <2> QED BY <1>q, <2>1, <2>5, QuotaKept, Zenon
  <1>4. CASE Dispatch(d, f)
    <2>1. reservations' = reservations /\ (dep' = dep \/ dep' = [dep EXCEPT ![d].phase = "dispatched"])
      BY <1>4, Zenon DEF Dispatch
    <2>2. \A e \in Deposits : Kept(e)
      BY <1>p, <1>s, <2>1, PhaseKept, Zenon
    <2> QED BY <1>q, <2>1, <2>2, QuotaKept, Zenon
  <1>5. CASE Install(d, f)
    <2>1. reservations' = reservations
      BY <1>5, Zenon DEF Install
    <2>2. CASE StillMatchesBase(d, Snapshot(f))
      <3>1. dep' = [dep EXCEPT ![d].phase = "available", ![d].signed = TRUE]
        BY <1>5, <2>2, Zenon DEF Install
      <3>2. dep'[d].phase = "available" /\ \A e \in Deposits : e # d => dep'[e] = dep[e]
        BY <1>t, <3>1, Zenon DEF Record
      <3>3. \A e \in Deposits : Kept(e)
        BY <3>2, Zenon DEF Kept
      <3> QED BY <1>q, <2>1, <3>3, QuotaKept, Zenon
    <2>3. CASE ~StillMatchesBase(d, Snapshot(f))
      <3>1. dep' = dep
        BY <1>5, <2>3, Zenon DEF Install
      <3> QED BY <1>q, <1>s, <2>1, <3>1, QuotaKept, Zenon
    <2> QED BY <2>2, <2>3, Zenon
  <1>6. CASE ClaimSigned(d, f)
    <2>1. reservations' = reservations /\ (dep' = dep \/ \E p \in {"refund", "refunded"} : dep' = [dep EXCEPT ![d].phase = p])
      BY <1>6, Zenon DEF ClaimSigned
    <2>2. \A e \in Deposits : Kept(e)
      BY <1>p, <1>s, <2>1, PhaseKept, Zenon
    <2> QED BY <1>q, <2>1, <2>2, QuotaKept, Zenon
  <1>7. CASE NotifyDepositMint(d, f)
    <2>1. reservations' = reservations /\ dep' = [dep EXCEPT ![d].phase = "minted"]
      BY <1>7, Zenon DEF NotifyDepositMint
    <2>2. \A e \in Deposits : Kept(e)
      BY <1>p, <2>1, PhaseKept, Zenon
    <2> QED BY <1>q, <2>1, <2>2, QuotaKept, Zenon
  <1> QED BY <1>1, <1>2, <1>3, <1>4, <1>5, <1>6, <1>7, Zenon DEF Observing

----------------------------------------------------------------------------
(* The theorems                                                            *)

IndInv == Facts /\ CapacityHonoured /\ Counters /\ Evidenced

\* Only the installation of a signature makes a record available.
LEMMA NoneAvailable ==
  ASSUME CanisterStep, NEW e \in Deposits, dep'[e].phase = "available"
  PROVE  dep[e].phase = "available"
  <1>1. Moved(e)
    BY Zenon DEF CanisterStep
  <1> QED BY <1>1, Zenon DEF Moved, Rewritten, Closed

LEMMA EvidenceStep ==
  ASSUME Evidenced, NEW d \in Deposits, NEW w, w.kind # "evidence" \/ dep'[d].phase # "available",
         waiting' = waiting \/ waiting' = [waiting EXCEPT ![d] = w],
         \A e \in Deposits : dep'[e].phase = "available" =>
                              dep[e].phase = "available" \/ waiting'[e].kind # "evidence"
  PROVE  Evidenced'
  <1>1. waiting' = [e \in Deposits |-> waiting'[e]]
    BY Zenon DEF Evidenced
  <1>2. \A e \in Deposits : waiting'[e] = waiting[e] \/ (e = d /\ waiting'[e] = w)
    BY Zenon DEF Evidenced
  <1>3. ASSUME NEW e \in Deposits, waiting'[e].kind = "evidence", dep'[e].phase = "available" PROVE FALSE
    <2>1. dep[e].phase = "available"
      BY <1>3, Zenon
    <2> QED BY <1>2, <1>3, <2>1, Zenon DEF Evidenced
  <1> QED BY <1>1, <1>3, Zenon DEF Evidenced

LEMMA LocalEvidence ==
  ASSUME Facts, Evidenced, NEW d \in Deposits, Local(d)
  PROVE  Evidenced'
  <1>1. CanisterStep
    BY LocalStep, Zenon
  <1>2. ASSUME NEW w, w.kind # "evidence", waiting' = waiting \/ waiting' = [waiting EXCEPT ![d] = w]
        PROVE  Evidenced'
    BY <1>1, <1>2, NoneAvailable, EvidenceStep, Zenon
  <1>3. NoWait.kind # "evidence"
    BY Zenon DEF NoWait
  <1>4. CASE waiting' = waiting \/ waiting' = [waiting EXCEPT ![d] = NoWait]
    BY <1>2, <1>3, <1>4, Zenon
  <1>5. ASSUME NEW k \in {"preflight", "claim"},
               waiting' = [waiting EXCEPT ![d] = [kind |-> k, owner |-> refresh.gen + 1]]
        PROVE  Evidenced'
    <2>1. PICK w : w = [kind |-> k, owner |-> refresh.gen + 1]
      BY Zenon
    <2>2. w.kind # "evidence"
      BY <2>1
    <2> QED BY <1>2, <1>5, <2>1, <2>2, Zenon
  <1>6. \/ waiting' = waiting \/ waiting' = [waiting EXCEPT ![d] = NoWait]
        \/ \E k \in {"preflight", "claim"} :
             waiting' = [waiting EXCEPT ![d] = [kind |-> k, owner |-> refresh.gen + 1]]
    BY Zenon DEF Local, Admit, PullSucceeds, PullFails, PullAmbiguous, HoldResolves, RecoverFunding,
                 PreflightFails, ClaimUnsigned, ClaimFails, MintEvidence, RefundUnsigned
  <1> QED BY <1>4, <1>5, <1>6, Zenon

LEMMA ObservingEvidence ==
  ASSUME Facts, Evidenced, NEW d \in Deposits, NEW f \in Nat, Observing(d, f)
  PROVE  Evidenced'
  <1>0. NoWait.kind # "evidence"
    BY Zenon DEF NoWait
  <1>1. CASE Install(d, f)
    <2>1. waiting' = waiting /\ waiting[d].kind # "evidence"
      BY <1>0, <1>1, Zenon DEF Install
    <2>2. dep \in [Deposits -> Record]
      BY Zenon DEF Facts, Shape
    <2>3. \A e \in Deposits : e # d => dep'[e] = dep[e]
      BY <1>1, <2>2, Zenon DEF Install
    <2> QED BY <1>0, <2>1, <2>3, EvidenceStep, Zenon
  <1>2. CASE ~Install(d, f)
    <2>1. CanisterStep
      BY <1>2, ObservingStep, Zenon
    <2>2. ASSUME NEW w, w.kind # "evidence" \/ dep'[d].phase # "available",
                 waiting' = waiting \/ waiting' = [waiting EXCEPT ![d] = w]
          PROVE  Evidenced'
      BY <2>1, <2>2, NoneAvailable, EvidenceStep, Zenon
    <2>3. CASE waiting' = waiting \/ waiting' = [waiting EXCEPT ![d] = NoWait]
      BY <1>0, <2>2, <2>3, Zenon
    <2>4. CASE ClaimSigned(d, f) /\ waiting' = [waiting EXCEPT ![d] = EvidenceWait] /\ waiting' # waiting
      <3>1. blocks[f].time > dep[d].deadline /\ d \in blocks[f].processed
        BY <2>4, Zenon DEF ClaimSigned, Snapshot
      <3>2. ~(blocks[f].time <= dep[d].deadline)
        <4>1. f \in 1..final /\ final \in Heights
          BY <2>4, Zenon DEF ClaimSigned, Facts, Shape
        <4>2. f \in Heights
          BY ONLY <4>1 DEF Heights
        <4> QED BY <3>1, <4>2, BlockType, RecordType DEF Facts
      <3>3. dep' = [dep EXCEPT ![d].phase = "refund"]
        BY <2>4, <3>1, <3>2, Zenon DEF ClaimSigned, Snapshot
      <3>4. dep[d] \in Record /\ dep \in [Deposits -> Record] /\ "refund" \in Phases
        BY Zenon DEF Facts, Shape, Phases
      <3>5. dep'[d] = [dep[d] EXCEPT !.phase = "refund"]
        BY <3>3, <3>4, Zenon
      <3>6. dep'[d].phase = "refund"
        BY <3>4, <3>5, OtherPhase
      <3> QED BY <2>2, <2>4, <3>6, Zenon
    <2> QED BY <1>2, <2>3, <2>4, Zenon DEF Observing, PreflightAnswers, ClaimAnswers, Prepare, Dispatch,
                                          ClaimSigned, NotifyDepositMint
  <1> QED BY <1>1, <1>2, Zenon

LEMMA NextEvidence ==
  ASSUME Facts, Evidenced, [Next]_vars
  PROVE  Evidenced'
  <1>1. ASSUME dep' = dep, waiting' = waiting PROVE Evidenced'
    BY <1>1, Zenon DEF Evidenced
  <1>2. ASSUME NEW d \in Deposits, Local(d) PROVE Evidenced'
    BY <1>2, LocalEvidence, Zenon
  <1>3. ASSUME NEW d \in Deposits, NEW f \in 1..MaxBlocks, Observing(d, f) PROVE Evidenced'
    <2>1. f \in Nat
      BY AdmissionAssumption
    <2> QED BY <1>3, <2>1, ObservingEvidence, Zenon
  <1>4. ASSUME NEW d \in Deposits, MintDepositWithAuthorization(d) PROVE Evidenced'
    BY <1>1, <1>4, Zenon DEF MintDepositWithAuthorization
  <1>5. CASE Administer \/ OtherBlock \/ Finalize \/ Tick
    BY <1>1, <1>5, Zenon DEF Administer, OtherBlock, Finalize, Tick
  <1>6. CASE UNCHANGED vars
    BY <1>1, <1>6, Zenon DEF vars
  <1> QED BY <1>2, <1>3, <1>4, <1>5, <1>6, Zenon DEF Next

LEMMA InitFacts == ASSUME Init PROVE Facts /\ CapacityHonoured
  <1>1. PICK b : b = [time |-> 0, start |-> 0, minted |-> 0, epoch |-> 1, paused |-> FALSE,
                      fee |-> Min(Fees), processed |-> {}, changes |-> 0]
    BY Zenon
  <1>2. Min(Fees) \in Nat
    <2>1. \E x \in Fees : \A y \in Fees : x <= y
      BY AdmissionAssumption, Least, Zenon
    <2> QED BY <2>1, AdmissionAssumption, Zenon DEF Min
  <1>3. b \in Block
    BY ONLY <1>1, <1>2, Zenon DEF Block
  <1>4. /\ b.time = 0 /\ b.start = 0 /\ b.minted = 0 /\ b.epoch = 1 /\ b.processed = {}
    BY ONLY <1>1, Zenon
  <1>5. blocks = <<b>>
    BY <1>1, Zenon DEF Init
  <1>6. /\ Len(blocks) = 1 /\ Heights = {1} /\ blocks[1] = b /\ Latest = b /\ blocks \in Seq(Block)
    BY <1>3, <1>5 DEF Heights, Latest
  <1>7. /\ now = 0 /\ final = 1 /\ progress = 0 /\ overlooked = {} /\ cache.block = None
        /\ dep = [d \in Deposits |-> FreshDeposit]
    BY Zenon DEF Init
  <1>8. FreshDeposit \in Record /\ FreshDeposit.phase = "none" /\ ~FreshDeposit.signed
        /\ FreshDeposit.fee = 0 /\ FreshDeposit.epoch = 0
    BY Zenon DEF FreshDeposit, Record, Phases
  <1>9. Shape
    BY <1>6, <1>7, <1>8 DEF Shape, None
  <1>10. Chain
    BY <1>4, <1>6, <1>7 DEF Chain
  <1>11. \A i \in Heights : Since(i) = {} /\ Carried(i) = 0
    BY <1>4, <1>6, Zenon DEF Since, Carried
  <1>12. Accounted
    <2>1. \A i \in Heights : SumFunctionOnSet(NetOf, Since(i)) = 0
      BY <1>11, SumEmpty, Zenon
    <2>2. Latest.minted = 0
      BY <1>4, <1>6, Zenon
    <2>3. ASSUME NEW i \in Heights
          PROVE  /\ Latest.minted <= SumFunctionOnSet(NetOf, Since(i)) + Carried(i)
                 /\ \A d \in Since(i) : blocks[i].time <= dep[d].deadline
      BY <1>11, <2>1, <2>2
    <2> QED BY <2>3, Zenon DEF Accounted
  <1>13. ASSUME NEW d \in Deposits PROVE dep[d] = FreshDeposit /\ 0 <= Gross[d]
    <2>1. dep[d] = FreshDeposit /\ Gross[d] \in Nat
      BY <1>7, AdmissionAssumption, Zenon
    <2> QED BY ONLY <2>1
  <1>14. Records
    <2>1. ASSUME NEW d \in Deposits
          PROVE  /\ dep[d].fee <= Gross[d] /\ dep[d].epoch <= Latest.epoch
                 /\ dep[d].signed => dep[d].phase \in {"available", "refund", "minted", "refunded"}
                 /\ dep[d].phase = "available" \/ d \in Latest.processed \/ d \in overlooked => dep[d].signed
      <3>1. dep[d] = FreshDeposit /\ 0 <= Gross[d]
        BY <1>13, Zenon
      <3>2. dep[d].fee = 0 /\ dep[d].epoch = 0 /\ ~dep[d].signed /\ dep[d].phase = "none"
        BY ONLY <1>8, <3>1, Zenon
      <3>3. Latest.epoch = 1 /\ Latest.processed = {} /\ overlooked = {}
        BY ONLY <1>4, <1>6, <1>7, Zenon
      <3> QED BY ONLY <3>1, <3>2, <3>3
    <2> QED BY <2>1, Zenon DEF Records
  <1>15. Released
    BY <1>8, <1>13, Zenon DEF Released
  <1>16. CapacityHonoured
    <2>1. {d \in Deposits : Mintable(d)} = {}
      BY <1>8, <1>13, Zenon DEF Mintable
    <2>2. Consumed(now, Latest) = 0
      BY <1>4, <1>6, Zenon DEF Consumed
    <2>3. SumFunctionOnSet(NetOf, {d \in Deposits : Mintable(d)}) = 0 /\ SumFunctionOnSet(NetOf, overlooked) = 0
      BY <1>7, <2>1, SumEmpty, Zenon
    <2>4. MintWindowLimit \in Nat
      BY AdmissionAssumption, Zenon
    <2> QED BY <2>2, <2>3, <2>4 DEF CapacityHonoured
  <1> QED BY <1>9, <1>10, <1>12, <1>14, <1>15, <1>16, Zenon DEF Facts

LEMMA InitCounters == ASSUME Init PROVE Counters
  <1>1. /\ now = 0 /\ quota = [window |-> 0, global |-> 0, callers |-> [o \in Owners |-> 0]]
        /\ reservations = [d \in Deposits |-> None] /\ admittedIn = [d \in Deposits |-> None]
        /\ dep = [d \in Deposits |-> FreshDeposit]
    BY Zenon DEF Init
  <1>2. FreshDeposit.phase = "none"
    BY Zenon DEF FreshDeposit
  <1>3. QuotaWindow \in Nat \ {0} /\ GlobalLimit \in Nat /\ PerPrincipalLimit \in Nat
    BY AdmissionAssumption, Zenon
  <1>4. \A w \in Nat : Counted(w) = {}
    BY <1>1 DEF Counted, None
  <1>5. \A w \in Nat, o \in Owners : CountedOf(w, o) = {}
    BY <1>4, Zenon DEF CountedOf
  <1>6. Cardinality({}) = 0
    BY FS_EmptySet, Zenon
  <1>7. 0 \div QuotaWindow \in Nat
    BY <1>3, Division, Zenon
  <1>8. /\ quota.window = 0 /\ quota.global = 0 /\ quota.callers = [o \in Owners |-> 0]
        /\ quota = [window |-> quota.window, global |-> quota.global, callers |-> quota.callers]
    BY <1>1, Zenon
  <1>9. quota.global = Cardinality(Counted(quota.window))
    BY <1>4, <1>6, <1>8, Zenon
  <1>10. quota.callers = [o \in Owners |-> Cardinality(CountedOf(quota.window, o))]
    BY <1>5, <1>6, <1>8, Zenon
  <1>11. \A w \in Nat : /\ Cardinality(Counted(w)) <= GlobalLimit
                        /\ \A o \in Owners : Cardinality(CountedOf(w, o)) <= PerPrincipalLimit
    BY <1>3, <1>4, <1>5, <1>6
  <1>12. /\ admittedIn \in [Deposits -> Nat \cup {None}] /\ reservations \in [Deposits -> Nat \cup {None}]
         /\ \A d \in Deposits : admittedIn[d] = None /\ dep[d].phase = "none"
    BY <1>1, <1>2, Zenon
  <1>13. /\ now \in Nat /\ quota.window \in Nat /\ quota.window <= now \div QuotaWindow
    BY ONLY <1>1, <1>7, <1>8
  <1>14. ASSUME NEW d \in Deposits
         PROVE  /\ admittedIn[d] <= quota.window
                /\ dep[d].phase = "none" => admittedIn[d] = None
                /\ dep[d].phase = "funding" => admittedIn[d] # None /\ reservations[d] = admittedIn[d]
    <2>1. admittedIn[d] = None /\ dep[d].phase = "none"
      BY <1>12, Zenon
    <2> QED BY ONLY <1>8, <2>1 DEF None
  <1> QED BY <1>8, <1>9, <1>10, <1>11, <1>12, <1>13, <1>14, Zenon DEF Counters

\* A step leaves the counters or is a request, or a definitive failure of one.
LEMMA NextCounters ==
  ASSUME Facts, Counters, [Next]_vars
  PROVE  Counters'
  <1>1. ASSUME dep' = dep, now' = now \/ now' = now + 1, UNCHANGED <<quota, reservations, admittedIn>> PROVE Counters'
    <2>1. reservations' \in [Deposits -> Nat \cup {None}]
      BY <1>1, Zenon DEF Counters
    <2>2. \A e \in Deposits : Requests(e)
      BY <1>1, Zenon DEF Requests
    <2> QED BY <1>1, <2>1, <2>2, CountersKept, Zenon
  <1>2. ASSUME NEW d \in Deposits, Local(d) PROVE Counters'
    BY <1>2, LocalCounters, Zenon
  <1>3. ASSUME NEW d \in Deposits, NEW f \in 1..MaxBlocks, Observing(d, f) PROVE Counters'
    <2>1. f \in Nat
      BY AdmissionAssumption
    <2> QED BY <1>3, <2>1, ObservingCounters, Zenon
  <1>4. ASSUME NEW d \in Deposits, MintDepositWithAuthorization(d) PROVE Counters'
    BY <1>1, <1>4, Zenon DEF MintDepositWithAuthorization
  <1>5. CASE Administer \/ OtherBlock \/ Finalize \/ Tick
    BY <1>1, <1>5, Zenon DEF Administer, OtherBlock, Finalize, Tick
  <1>6. CASE UNCHANGED vars
    BY <1>1, <1>6, Zenon DEF vars
  <1> QED BY <1>2, <1>3, <1>4, <1>5, <1>6, Zenon DEF Next

LEMMA StutterFacts ==
  ASSUME Facts, CapacityHonoured, UNCHANGED vars
  PROVE  Facts' /\ CapacityHonoured'
  <1>1. DepMoved
    BY SameMoved, Zenon DEF vars
  <1>2. CanisterStep
    BY <1>1, QuietStep, Zenon DEF vars
  <1> QED BY <1>2, StoreFacts, CanisterCapacity, Zenon DEF CanisterStep

LEMMA NextFacts ==
  ASSUME Facts, Evidenced, CapacityHonoured, [Next]_vars
  PROVE  Facts' /\ CapacityHonoured'
  <1>1. ASSUME CanisterStep PROVE Facts' /\ CapacityHonoured'
    BY <1>1, StoreFacts, CanisterCapacity, Zenon DEF CanisterStep
  <1>2. ASSUME NEW d \in Deposits, Local(d) PROVE Facts' /\ CapacityHonoured'
    BY <1>1, <1>2, LocalStep, Zenon
  <1>3. ASSUME NEW d \in Deposits, NEW f \in 1..MaxBlocks, Observing(d, f) PROVE Facts' /\ CapacityHonoured'
    <2>1. f \in Nat
      BY AdmissionAssumption
    <2>2. CASE Install(d, f) /\ StillMatchesBase(d, Snapshot(f))
      BY <2>1, <2>2, InstallStoreStep, InstallCapacity, StoreFacts, Zenon
    <2>3. CASE ~(Install(d, f) /\ StillMatchesBase(d, Snapshot(f)))
      BY <1>1, <1>3, <2>1, <2>3, ObservingStep, Zenon
    <2> QED BY <2>2, <2>3, Zenon
  <1>4. CASE Administer \/ OtherBlock \/ \E d \in Deposits : MintDepositWithAuthorization(d)
    BY <1>4, BlockStep, Zenon
  <1>5. CASE Finalize
    BY <1>5, FinalizeStep, Zenon
  <1>6. CASE Tick
    BY <1>6, TickStep, Zenon
  <1>7. CASE UNCHANGED vars
    BY <1>7, StutterFacts, Zenon
  <1> QED BY <1>2, <1>3, <1>4, <1>5, <1>6, <1>7, Zenon DEF Next

LEMMA Inductive == Spec => []IndInv
  <1>1. Init => IndInv
    <2>1. ASSUME Init PROVE Evidenced
      <3>1. waiting = [d \in Deposits |-> NoWait] /\ NoWait.kind # "evidence"
        BY <2>1, Zenon DEF Init, NoWait
      <3> QED BY <3>1, Zenon DEF Evidenced
    <2> QED BY <2>1, InitFacts, InitCounters, Zenon DEF IndInv
  <1>2. IndInv /\ [Next]_vars => IndInv'
    BY NextFacts, NextCounters, NextEvidence, Zenon DEF IndInv
  <1> QED BY <1>1, <1>2, PTL DEF Spec

\* A published authorization is never refused for lack of mint capacity: what
\* Base has consumed in its window and every authorization it would accept fit
\* the limit together, overlooked mints aside.  It rests on
\* deposit_reservation_preflight counting every reservation, and on reservations
\* being released only for cause.
THEOREM CapacityAlwaysHonoured == Spec => []CapacityHonoured
  <1>1. IndInv => CapacityHonoured
    BY Zenon DEF IndInv
  <1> QED BY <1>1, Inductive, PTL

\* The requests counted in a quota window stay within both limits, and the
\* counter is their number, whatever requests fail and are rolled back later.
THEOREM QuotaAlwaysBounds == Spec => []QuotaBoundsFunding
  <1>1. ASSUME Counters PROVE QuotaBoundsFunding
    <2>1. ASSUME NEW w \in 0..MaxTime
          PROVE  LET counted == {d \in Deposits : admittedIn[d] = w} IN
                 /\ Cardinality(counted) <= GlobalLimit
                 /\ \A o \in Owners : Cardinality({d \in counted : Owner[d] = o}) <= PerPrincipalLimit
                 /\ w = quota.window => quota.global = Cardinality(counted)
      <3>1. w \in Nat
        BY AdmissionAssumption
      <3>2. /\ Cardinality(Counted(w)) <= GlobalLimit
            /\ \A o \in Owners : Cardinality(CountedOf(w, o)) <= PerPrincipalLimit
        BY <1>1, <3>1, Zenon DEF Counters
      <3>3. quota.global = Cardinality(Counted(quota.window))
        BY <1>1, Zenon DEF Counters
      <3> QED BY <3>2, <3>3, Zenon DEF Counted, CountedOf
    <2> QED BY <2>1, Zenon DEF QuotaBoundsFunding
  <1>2. IndInv => QuotaBoundsFunding
    BY <1>1, Zenon DEF IndInv
  <1> QED BY <1>2, Inductive, PTL

\* A step may not take the snapshot or the observed progress back, nor the
\* snapshot ahead of the progress: a refresh stores both together, and only for
\* a block that observe_finalized accepts.
THEOREM SnapshotMonotone == Spec => SnapshotNeverRegresses
  <1>1. ASSUME IndInv, [Next]_vars
        PROVE  [cache'.block >= cache.block /\ progress' >= progress /\ cache'.block <= progress']_vars
    <2>1. progress \in Nat /\ final \in Nat /\ progress \in 0..final /\ cache.block \in {None} \cup 1..progress
      BY <1>1 DEF IndInv, Facts, Shape, Heights
    <2> DEFINE Forward == cache'.block >= cache.block /\ progress' >= progress /\ cache'.block <= progress'
    <2>2. ASSUME Observed PROVE Forward
      BY <2>1, <2>2 DEF Observed, None
    <2>3. ASSUME UNCHANGED <<cache, progress>> PROVE Forward
      BY <2>1, <2>3 DEF None
    <2> HIDE DEF Forward
    <2>4. ASSUME NEW d \in Deposits, Local(d) PROVE Forward
      BY <1>1, <2>2, <2>4, LocalStep, Zenon DEF CanisterStep, StoreStep, IndInv
    <2>5. ASSUME NEW d \in Deposits, NEW f \in 1..MaxBlocks, Observing(d, f) PROVE Forward
      <3>1. f \in Nat
        BY AdmissionAssumption
      <3>2. CASE Install(d, f) /\ StillMatchesBase(d, Snapshot(f))
        BY <1>1, <2>2, <3>1, <3>2, InstallStoreStep, Zenon DEF StoreStep, IndInv
      <3>3. CASE ~(Install(d, f) /\ StillMatchesBase(d, Snapshot(f)))
        BY <1>1, <2>2, <2>5, <3>1, <3>3, ObservingStep, Zenon DEF CanisterStep, StoreStep, IndInv
      <3> QED BY <3>2, <3>3, Zenon
    <2>6. ASSUME NEW d \in Deposits, MintDepositWithAuthorization(d) PROVE Forward
      BY <2>3, <2>6, Zenon DEF MintDepositWithAuthorization
    <2>7. CASE Administer \/ OtherBlock \/ Finalize \/ Tick
      <3>1. UNCHANGED <<cache, progress>>
        BY <2>7, Zenon DEF Administer, OtherBlock, Finalize, Tick
      <3> QED BY <2>3, <3>1, Zenon DEF Forward
    <2>8. CASE UNCHANGED vars
      BY <2>8, Zenon
    <2> QED BY <1>1, <2>4, <2>5, <2>6, <2>7, <2>8, Zenon DEF Next, Forward
  <1>2. IndInv /\ [Next]_vars => [cache'.block >= cache.block /\ progress' >= progress /\ cache'.block <= progress']_vars
    BY <1>1, Zenon
  <1> QED BY <1>2, Inductive, PTL DEF Spec, SnapshotNeverRegresses
============================================================================
