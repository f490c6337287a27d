------------------------------ MODULE Ranking ------------------------------
(***************************************************************************)
(* Putting the elements of a finite set in a given order: what the         *)
(* definitions that place things by counting those before them rely on.    *)
(* The order is a set of pairs, so that the facts can be cited for any.    *)
(***************************************************************************)
EXTENDS Integers, FiniteSets, FiniteSetTheorems, TLAPS

(* R puts the elements of S in one order.                                  *)
Orders(R, S) ==
  /\ \A x \in S : <<x, x>> \notin R
  /\ \A x, y \in S : x # y => <<x, y>> \in R \/ <<y, x>> \in R
  /\ \A x, y, z \in S : <<x, y>> \in R /\ <<y, z>> \in R => <<x, z>> \in R

Earlier(R, S, x) == {y \in S : <<y, x>> \in R}
Rank(R, S, x)    == 1 + Cardinality(Earlier(R, S, x))

LEMMA IntervalIsFinite ==
  ASSUME NEW n \in Nat
  PROVE  IsFiniteSet(1..n) /\ Cardinality(1..n) = n
<1>1. n \in Int /\ 1 \in Int
  OBVIOUS
<1>2. IsFiniteSet(1..n) /\ Cardinality(1..n) = IF 1 > n THEN 0 ELSE n - 1 + 1
  BY <1>1, FS_Interval
<1> QED
  BY <1>2

LEMMA EarlierIsFinite ==
  ASSUME NEW S, IsFiniteSet(S), NEW R, NEW x
  PROVE  IsFiniteSet(Earlier(R, S, x)) /\ Cardinality(Earlier(R, S, x)) \in Nat
<1>1. Earlier(R, S, x) \in SUBSET S
  BY DEF Earlier
<1> QED
  BY <1>1, FS_Subset, FS_CardinalityType

(* The ranks follow the order.                                             *)
LEMMA RankGrows ==
  ASSUME NEW S, IsFiniteSet(S), NEW R, Orders(R, S), NEW x \in S, NEW y \in S,
         <<x, y>> \in R
  PROVE  Rank(R, S, x) < Rank(R, S, y)
<1> DEFINE A == Earlier(R, S, x)
           B == Earlier(R, S, y)
<1>1. A \in SUBSET B /\ x \in B /\ x \notin A
  BY DEF Earlier, Orders
<1>2. IsFiniteSet(B) /\ Cardinality(A) \in Nat /\ Cardinality(B) \in Nat
  BY EarlierIsFinite
<1>3. Rank(R, S, x) = 1 + Cardinality(A) /\ Rank(R, S, y) = 1 + Cardinality(B)
  BY DEF Rank
<1> HIDE DEF A, B
<1>4. Cardinality(A) <= Cardinality(B) /\ Cardinality(A) # Cardinality(B)
  BY <1>1, <1>2, FS_Subset
<1> QED
  BY <1>2, <1>3, <1>4

(* The ranks are 1 to the number of elements, each of them once.           *)
LEMMA RanksAreTaken ==
  ASSUME NEW S, IsFiniteSet(S), NEW R, Orders(R, S)
  PROVE  /\ \A x \in S : Rank(R, S, x) \in 1..Cardinality(S)
         /\ \A x, y \in S : Rank(R, S, x) = Rank(R, S, y) => x = y
         /\ \A x, y \in S : <<x, y>> \in R <=> Rank(R, S, x) < Rank(R, S, y)
         /\ \A k \in 1..Cardinality(S) : \E x \in S : Rank(R, S, x) = k
<1> DEFINE n == Cardinality(S)
           f == [x \in S |-> Rank(R, S, x)]
<1>1. n \in Nat /\ IsFiniteSet(1..n) /\ Cardinality(1..n) = n
  BY FS_CardinalityType, IntervalIsFinite
<1>2. ASSUME NEW x \in S PROVE Rank(R, S, x) \in 1..n
  <2> DEFINE A == Earlier(R, S, x)
  <2>1. A \in SUBSET (S \ {x})
    BY DEF Earlier, Orders
  <2>2. IsFiniteSet(S \ {x}) /\ Cardinality(S \ {x}) = n - 1
    BY FS_RemoveElement
  <2>3. Cardinality(A) \in Nat /\ Rank(R, S, x) = 1 + Cardinality(A)
    BY EarlierIsFinite DEF Rank
  <2> HIDE DEF A, n
  <2>4. Cardinality(A) <= n - 1
    BY <2>1, <2>2, FS_Subset
  <2> QED
    BY <1>1, <2>3, <2>4
<1>3. \A x, y \in S : <<x, y>> \in R => Rank(R, S, x) < Rank(R, S, y)
  BY RankGrows
<1>4. \A x, y \in S : Rank(R, S, x) = Rank(R, S, y) => x = y
  <2> SUFFICES ASSUME NEW x \in S, NEW y \in S, x # y
               PROVE  Rank(R, S, x) # Rank(R, S, y)
    OBVIOUS
  <2>1. <<x, y>> \in R \/ <<y, x>> \in R
    BY DEF Orders
  <2>2. Rank(R, S, x) \in Int /\ Rank(R, S, y) \in Int
    BY <1>2
  <2> QED
    BY <1>3, <2>1, <2>2
<1>5. \A x, y \in S : Rank(R, S, x) < Rank(R, S, y) => <<x, y>> \in R
  <2> SUFFICES ASSUME NEW x \in S, NEW y \in S, Rank(R, S, x) < Rank(R, S, y)
               PROVE  <<x, y>> \in R
    OBVIOUS
  <2>1. Rank(R, S, x) \in Int /\ Rank(R, S, y) \in Int
    BY <1>2
  <2>2. x # y /\ <<y, x>> \notin R
    BY <1>3, <2>1
  <2> QED
    BY <2>2 DEF Orders
<1>6. f \in [S -> 1..n] /\ \A x, y \in S : f[x] = f[y] => x = y
  BY <1>2, <1>4
<1>7. f \in Injection(S, 1..n)
  <2> HIDE DEF f, n
  <2> QED
    BY <1>6 DEF Injection, IsInjective
<1>8. f \in Surjection(S, 1..n)
  <2> HIDE DEF f
  <2> QED
    BY <1>1, <1>7, FS_Injection
<1>9. \A k \in 1..n : \E x \in S : f[x] = k
  <2> HIDE DEF f, n
  <2> QED
    BY <1>8 DEF Surjection
<1> QED
  BY <1>2, <1>3, <1>4, <1>5, <1>9

(* Ranks only depend on the order: they are kept where it is.              *)
KeepsOrder(f, S, R, T, Q) ==
  /\ f \in Bijection(S, T)
  /\ \A x, y \in S : <<x, y>> \in R <=> <<f[x], f[y]>> \in Q

LEMMA RankIsKept ==
  ASSUME NEW S, IsFiniteSet(S), NEW R, NEW T, NEW Q, NEW f,
         KeepsOrder(f, S, R, T, Q), NEW x \in S
  PROVE  Rank(Q, T, f[x]) = Rank(R, S, x)
<1> DEFINE A == Earlier(R, S, x)
           B == Earlier(Q, T, f[x])
           g == [y \in A |-> f[y]]
<1>1. /\ f \in [S -> T] /\ \A y, z \in S : f[y] = f[z] => y = z
      /\ \A t \in T : \E y \in S : f[y] = t
      /\ \A y, z \in S : <<y, z>> \in R <=> <<f[y], f[z]>> \in Q
  BY DEF KeepsOrder, Bijection, Injection, Surjection, IsInjective
<1>2. g \in [A -> B]
  BY <1>1 DEF Earlier
<1>3. \A y, z \in A : g[y] = g[z] => y = z
  BY <1>1 DEF Earlier
<1>4. \A t \in B : \E y \in A : g[y] = t
  BY <1>1 DEF Earlier
<1>5. ExistsBijection(A, B)
  <2> HIDE DEF A, B, g
  <2> QED
    BY <1>2, <1>3, <1>4 DEF ExistsBijection, Bijection, Injection, Surjection, IsInjective
<1>6. IsFiniteSet(A)
  BY EarlierIsFinite
<1> HIDE DEF A, B
<1>7. Cardinality(B) = Cardinality(A)
  BY <1>5, <1>6, FS_Bijection
<1> QED
  BY <1>7 DEF Rank, A, B

(* In an interval each number is preceded by those below it.               *)
LEMMA BeforeInInterval ==
  ASSUME NEW n \in Nat, NEW k \in 1..n
  PROVE  LET R == {q \in (1..n) \X (1..n) : q[1] < q[2]}
         IN Rank(R, 1..n, k) = k
<1> DEFINE R == {q \in (1..n) \X (1..n) : q[1] < q[2]}
<1>1. Earlier(R, 1..n, k) = 1..(k - 1)
  BY DEF Earlier
<1>2. k - 1 \in Nat /\ k \in Int
  OBVIOUS
<1>3. Cardinality(1..(k - 1)) = k - 1
  BY <1>2, IntervalIsFinite
<1> HIDE DEF R
<1>4. Rank(R, 1..n, k) = k
  BY <1>1, <1>2, <1>3 DEF Rank
<1> QED
  BY <1>4 DEF R
=============================================================================
