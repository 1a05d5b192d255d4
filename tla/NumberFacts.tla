----------------------------- MODULE NumberFacts -----------------------------
(***************************************************************************)
(* Facts about numbers that the proofs of several components rest on: a    *)
(* set of naturals has a least element, hence Min is in its set, a set     *)
(* that contains 0 and every successor contains all naturals, a function   *)
(* that is defined by recursion over 0..n exists, and a finite set that is *)
(* ordered has ranks and a first element.                                  *)
(***************************************************************************)
EXTENDS Integers, FiniteSetsExt, FiniteSetTheorems, WellFoundedInduction, TLAPS

\* The least number principle, for sets.
LEMMA LeastNumber ==
  ASSUME NEW S \in SUBSET Nat, S # {}
  PROVE  \E n \in S : \A m \in S : n <= m
<1>1. PICK R : R = OpToRel(<, Nat)
  OBVIOUS
<1>2. IsWellFoundedOn(R, Nat)
  BY <1>1, NatLessThanWellFounded
<1>3. \A a, b \in Nat : a < b => <<a, b>> \in R
  BY <1>1 DEF OpToRel
<1>4. PICK n \in S : \A m \in S : ~(<<m, n>> \in R)
  BY <1>2, WFMin
<1>5. \A m \in S : ~(m < n)
  BY <1>3, <1>4
<1> QED BY <1>5

\* Min, as the expiries and the approval rules use it.
LEMMA MinOfNaturals ==
  ASSUME NEW S \in SUBSET Nat, S # {}
  PROVE  Min(S) \in S /\ \A m \in S : Min(S) <= m
  BY LeastNumber DEF Min

\* Induction over the naturals, for a set.
LEMMA AllNaturals ==
  ASSUME NEW S, 0 \in S, \A n \in Nat : n \in S => n + 1 \in S
  PROVE  Nat \subseteq S
<1> SUFFICES ASSUME Nat \ S # {} PROVE FALSE
  OBVIOUS
<1>1. PICK n \in Nat \ S : \A m \in Nat \ S : n <= m
  BY LeastNumber
<1>2. n # 0
  OBVIOUS
<1>3. n - 1 \in Nat /\ ~(n <= n - 1)
  BY <1>2
<1>4. n - 1 \in S
  BY <1>1, <1>3
<1> QED BY <1>3, <1>4

\* f goes on from b in n steps, which G says.
Iterates(f, b, n, G) == f[0] = b /\ \A k \in 1..n : f[k] = G[k][f[k - 1]]

\* A function that goes on in steps, as the loops over the grants of a region do,
\* exists.
LEMMA Recursion ==
  ASSUME NEW T, NEW b \in T, NEW n \in Nat, NEW G \in [1..n -> [T -> T]]
  PROVE  \E f \in [0..n -> T] : Iterates(f, b, n, G)
<1> DEFINE Until(m) == \E f \in [0..m -> T] : Iterates(f, b, m, G)
           S == {m \in Nat : m <= n => Until(m)}
<1>1. Until(0)
  <2>1. PICK f : f = [k \in 0..0 |-> b]
    OBVIOUS
  <2>2. f \in [0..0 -> T] /\ f[0] = b
    BY <2>1
  <2> QED BY <2>2 DEF Iterates
<1>2. ASSUME NEW m \in Nat, m + 1 <= n, Until(m)
      PROVE  Until(m + 1)
  <2>1. PICK f \in [0..m -> T] : f[0] = b /\ \A k \in 1..m : f[k] = G[k][f[k - 1]]
    BY <1>2 DEF Iterates
  <2>2. PICK t \in T : t = G[m + 1][f[m]]
    BY <1>2
  <2>3. PICK h : h = [k \in 0..(m + 1) |-> IF k = m + 1 THEN t ELSE f[k]]
    OBVIOUS
  <2>4. h \in [0..(m + 1) -> T] /\ h[m + 1] = t /\ \A k \in 0..m : h[k] = f[k]
    BY <2>3
  <2>5. ASSUME NEW k \in 1..(m + 1) PROVE h[k] = G[k][h[k - 1]]
    BY <2>1, <2>2, <2>4
  <2> QED BY <2>1, <2>4, <2>5 DEF Iterates
<1> HIDE DEF Until
<1>3. 0 \in S /\ \A m \in Nat : m \in S => m + 1 \in S
  BY <1>1, <1>2
<1>4. n \in S
  <2> HIDE DEF S
  <2> QED BY <1>3, AllNaturals
<1> QED BY <1>4 DEF Until

\* r says how many elements of S have smaller numbers.
Ranking(S, p, r) == r = [x \in S |-> Cardinality({y \in S : p[y] < p[x]})]

\* Ranks by distinct numbers: every rank below the size of the set is somebody's.
LEMMA Ranks ==
  ASSUME NEW S, IsFiniteSet(S), NEW p \in [S -> Nat], \A x, y \in S : p[x] = p[y] => x = y,
         NEW r, Ranking(S, p, r)
  PROVE  /\ \A x \in S : r[x] \in 0..(Cardinality(S) - 1)
         /\ \A x, y \in S : r[x] = r[y] => x = y
         /\ \A k \in 0..(Cardinality(S) - 1) : \E x \in S : r[x] = k
<1> DEFINE B(x) == {y \in S : p[y] < p[x]}
<1>0. PICK n : n = Cardinality(S)
  OBVIOUS
<1>1. n \in Nat
  BY <1>0, FS_CardinalityType
<1>2. ASSUME NEW x \in S
      PROVE  /\ IsFiniteSet(B(x)) /\ r[x] = Cardinality(B(x)) /\ r[x] \in Nat
             /\ IsFiniteSet(B(x) \cup {x}) /\ Cardinality(B(x) \cup {x}) = r[x] + 1
  <2>1. B(x) \in SUBSET S /\ x \notin B(x) /\ r[x] = Cardinality(B(x))
    BY DEF Ranking
  <2> HIDE DEF B
  <2>2. IsFiniteSet(B(x))
    BY <2>1, FS_Subset
  <2> QED BY <2>1, <2>2, FS_CardinalityType, FS_AddElement
<1>3. \A x \in S : r[x] \in 0..(n - 1)
  <2> TAKE x \in S
  <2>1. B(x) \cup {x} \in SUBSET S
    OBVIOUS
  <2> HIDE DEF B
  <2>2. Cardinality(B(x) \cup {x}) <= n
    BY <1>0, <2>1, FS_Subset
  <2>3. r[x] + 1 <= n /\ r[x] \in Nat
    BY <1>2, <2>2
  <2> QED BY <1>1, <2>3
<1>4. ASSUME NEW x \in S, NEW y \in S, p[x] < p[y]
      PROVE  r[x] < r[y]
  <2>1. B(x) \cup {x} \in SUBSET B(y)
    BY <1>4
  <2> HIDE DEF B
  <2>2. Cardinality(B(x) \cup {x}) <= Cardinality(B(y))
    BY <1>2, <2>1, FS_Subset
  <2>3. r[x] + 1 <= r[y] /\ r[x] \in Nat /\ r[y] \in Nat
    BY <1>2, <2>2
  <2> QED BY <2>3
<1>5. \A x, y \in S : r[x] = r[y] => x = y
  <2> TAKE x \in S, y \in S
  <2>1. p[x] \in Nat /\ p[y] \in Nat /\ r[x] \in Nat /\ r[y] \in Nat
    BY <1>2
  <2> QED BY <1>4, <2>1
<1>6. \A k \in 0..(n - 1) : \E x \in S : r[x] = k
  <2>1. r \in Injection(S, 0..(n - 1))
    BY <1>3, <1>5 DEF Injection, IsInjective, Ranking
  <2>2. IsFiniteSet(0..(n - 1)) /\ Cardinality(0..(n - 1)) = n
    <3>1. 0 \in Int /\ n - 1 \in Int
      BY <1>1
    <3>2. IsFiniteSet(0..(n - 1))
          /\ Cardinality(0..(n - 1)) = IF 0 > n - 1 THEN 0 ELSE (n - 1) - 0 + 1
      BY <3>1, FS_Interval
    <3> QED BY <1>1, <3>2
  <2>3. r \in Surjection(S, 0..(n - 1))
    BY <1>0, <2>1, <2>2, FS_Injection
  <2> QED BY <2>3 DEF Surjection
<1> QED BY <1>0, <1>3, <1>5, <1>6

\* A finite set that is strictly and totally ordered has a first element.
LEMMA FirstOfFinite ==
  ASSUME NEW S, IsFiniteSet(S), S # {}, NEW R,
         \A x \in S : <<x, x>> \notin R,
         \A x, y \in S : x # y => <<x, y>> \in R \/ <<y, x>> \in R,
         \A x, y, z \in S : <<x, y>> \in R /\ <<y, z>> \in R => <<x, z>> \in R
  PROVE  \E x \in S : \A y \in S \ {x} : <<x, y>> \in R
<1> DEFINE B(x) == {y \in S : <<y, x>> \in R}
<1>1. ASSUME NEW x \in S PROVE IsFiniteSet(B(x)) /\ Cardinality(B(x)) \in Nat
  <2>1. B(x) \in SUBSET S
    OBVIOUS
  <2> HIDE DEF B
  <2> QED BY <2>1, FS_Subset, FS_CardinalityType
<1>2. PICK N : N = {Cardinality(B(x)) : x \in S}
  OBVIOUS
<1>3. N \in SUBSET Nat /\ N # {}
  <2> HIDE DEF B
  <2> QED BY <1>1, <1>2
<1>4. PICK n \in N : \A m \in N : n <= m
  BY <1>3, LeastNumber
<1>5. PICK x \in S : n = Cardinality(B(x))
  BY <1>2, <1>4
<1>6. ASSUME NEW y \in S, y # x, <<x, y>> \notin R PROVE FALSE
  <2>1. <<y, x>> \in R
    BY <1>6
  <2>2. B(y) \in SUBSET B(x) /\ B(y) # B(x)
    <3>1. y \in B(x) /\ y \notin B(y)
      BY <2>1
    <3> QED BY <2>1, <3>1
  <2> HIDE DEF B
  <2>3. Cardinality(B(y)) <= n /\ Cardinality(B(y)) # n
    BY <1>1, <1>5, <2>2, FS_Subset
  <2>4. n <= Cardinality(B(y))
    BY <1>2, <1>4
  <2> QED BY <1>1, <1>3, <2>3, <2>4
<1> QED BY <1>6
===============================================================================
