--------------------------- MODULE CommandsProofs ---------------------------
(***************************************************************************)
(* Proofs about Commands, for any number of commands, entries, directories *)
(* and command lines.                                                      *)
(*                                                                         *)
(* CommandInv is the inductive invariant: the types, and what a command    *)
(* may still have to do, has asked for and has told (WorkInv).  On it rest *)
(* invariants that are each inductive with it: Belongs (mounts are where   *)
(* their entries belong), Held (what the daemon's records are worth),      *)
(* SeenInv (a command knows only what it has seen; Held ties what it reads *)
(* of a daemon entry to the mount table), SystemInv and Prepared (mounts,  *)
(* directories and what mkdir says of them), Stacked (how many mounts a    *)
(* directory can get), and Allotted (reports and work left are what was    *)
(* asked for, in order).                                                   *)
(***************************************************************************)
EXTENDS Commands, Ranking, SequenceTheorems

-----------------------------------------------------------------------------
(* Picking from a sequence: the chosen places, in order.                   *)

Below(T)  == {q \in T \X T : q[1] < q[2]}
Counts(g, n, T) ==
  /\ n \in Nat /\ T \subseteq Int
  /\ g \in [1..n -> T]
  /\ \A i \in T : \E k \in 1..n : g[k] = i
  /\ \A k, l \in 1..n : k < l <=> g[k] < g[l]

LEMMA BelowOrders ==
  ASSUME NEW T, T \subseteq Int
  PROVE  /\ Orders(Below(T), T)
         /\ \A i \in T : Earlier(Below(T), T, i) = {j \in T : j < i}
<1>1. \A i \in T : i \in Int
  OBVIOUS
<1>2. \A i, j \in T : <<i, j>> \in Below(T) <=> i < j
  BY DEF Below
<1>3. Orders(Below(T), T)
  BY <1>1, <1>2 DEF Orders
<1>4. \A i \in T : Earlier(Below(T), T, i) = {j \in T : j < i}
  BY <1>2 DEF Earlier
<1> QED
  BY <1>3, <1>4

LEMMA CountsOnce ==
  ASSUME NEW n, NEW T, NEW g, Counts(g, n, T), NEW k \in 1..n, NEW l \in 1..n, g[k] = g[l]
  PROVE  k = l
<1>1. ~(k < l) /\ ~(l < k)
  <2>1. g[k] \in Int /\ g[l] \in Int
    BY DEF Counts
  <2>2. ~(g[k] < g[l]) /\ ~(g[l] < g[k])
    BY <2>1
  <2> QED
    BY <2>2 DEF Counts
<1> QED
  BY <1>1

(* Whatever counts the places in order, Picked goes through them so.       *)
LEMMA PickedIs ==
  ASSUME NEW s, NEW T, NEW n, NEW g, Counts(g, n, T)
  PROVE  /\ IsFiniteSet(T) /\ Cardinality(T) = n
         /\ Picked(s, T) = [k \in 1..n |-> s[g[k]]]
<1> DEFINE R == Below(1..n)
           P == Below(T)
           At1(i) == 1 + Cardinality({j \in T : j < i})
<1>1. n \in Nat /\ T \subseteq Int /\ g \in [1..n -> T]
  BY DEF Counts
<1>2. IsFiniteSet(1..n) /\ Cardinality(1..n) = n
  BY <1>1, IntervalIsFinite
<1>3. g \in Bijection(1..n, T)
  BY CountsOnce DEF Counts, Bijection, Injection, Surjection, IsInjective
<1>4. IsFiniteSet(T) /\ Cardinality(T) = n
  <2>1. ExistsBijection(1..n, T)
    BY <1>3 DEF ExistsBijection
  <2> QED
    BY <1>2, <2>1, FS_Bijection
<1>5. KeepsOrder(g, 1..n, R, T, P)
  <2>1. \A k, l \in 1..n : <<k, l>> \in R <=> k < l
    BY DEF Below
  <2>2. \A i, j \in T : <<i, j>> \in P <=> i < j
    BY DEF Below
  <2> HIDE DEF R, P
  <2>3. \A k, l \in 1..n : <<k, l>> \in R <=> <<g[k], g[l]>> \in P
    BY <1>1, <2>1, <2>2 DEF Counts
  <2> QED
    BY <1>3, <2>3 DEF KeepsOrder
<1>6. \A k \in 1..n : Rank(P, T, g[k]) = k
  <2> SUFFICES ASSUME NEW k \in 1..n PROVE Rank(P, T, g[k]) = k
    OBVIOUS
  <2>1. Rank(R, 1..n, k) = k
    BY <1>1, BeforeInInterval DEF Below
  <2> DEFINE S == 1..n
  <2>2. IsFiniteSet(S) /\ k \in S /\ KeepsOrder(g, S, R, T, P)
    BY <1>2, <1>5
  <2> HIDE DEF R, P, S
  <2>3. Rank(P, T, g[k]) = Rank(R, S, k)
    BY <2>2, RankIsKept
  <2> QED
    BY <2>1, <2>3 DEF S
<1>7. \A i \in T : At1(i) = Rank(P, T, i)
  BY <1>1, BelowOrders DEF Rank
<1>8. ASSUME NEW k \in 1..n PROVE (CHOOSE i \in T : At1(i) = k) = g[k]
  <2>1. Orders(P, T)
    BY <1>1, BelowOrders
  <2>2. \A i, j \in T : Rank(P, T, i) = Rank(P, T, j) => i = j
    <3> HIDE DEF P
    <3> QED
      BY <1>4, <2>1, RanksAreTaken
  <2>3. g[k] \in T /\ At1(g[k]) = k
    BY <1>1, <1>6, <1>7
  <2>4. \A i \in T : At1(i) = k => i = g[k]
    BY <1>6, <1>7, <2>2, <2>3
  <2> HIDE DEF At1
  <2> QED
    BY <2>3, <2>4
<1>9. Picked(s, T) = [k \in 1..n |-> s[CHOOSE i \in T : At1(i) = k]]
  BY <1>4 DEF Picked
<1>10. Picked(s, T) = [k \in 1..n |-> s[g[k]]]
  <2> HIDE DEF At1
  <2> QED
    BY <1>8, <1>9
<1> QED
  BY <1>4, <1>10

LEMMA RanksBelow ==
  ASSUME NEW T, IsFiniteSet(T), Orders(Below(T), T)
  PROVE  /\ \A x \in T : Rank(Below(T), T, x) \in 1..Cardinality(T)
         /\ \A x, y \in T : Rank(Below(T), T, x) = Rank(Below(T), T, y) => x = y
         /\ \A x, y \in T : <<x, y>> \in Below(T) <=> Rank(Below(T), T, x) < Rank(Below(T), T, y)
         /\ \A k \in 1..Cardinality(T) : \E x \in T : Rank(Below(T), T, x) = k
BY RanksAreTaken

(* The places of a sequence can be counted.                                *)
LEMMA PlacesCounted ==
  ASSUME NEW m \in Nat, NEW T, T \subseteq 1..m
  PROVE  \E n, g : n = Cardinality(T) /\ n <= m /\ Counts(g, n, T)
<1> DEFINE n == Cardinality(T)
           P == Below(T)
           g == [k \in 1..n |-> CHOOSE i \in T : Rank(P, T, i) = k]
<1>1. IsFiniteSet(T) /\ n \in Nat /\ n <= m
  <2>1. IsFiniteSet(1..m) /\ Cardinality(1..m) = m
    BY IntervalIsFinite
  <2> QED
    BY <2>1, FS_Subset, FS_CardinalityType
<1>2. T \subseteq Int
  OBVIOUS
<1>3. Orders(P, T)
  BY <1>2, BelowOrders
<1>4. /\ \A x \in T : Rank(P, T, x) \in 1..n
      /\ \A x, y \in T : Rank(P, T, x) = Rank(P, T, y) => x = y
      /\ \A x, y \in T : <<x, y>> \in P <=> Rank(P, T, x) < Rank(P, T, y)
      /\ \A k \in 1..n : \E x \in T : Rank(P, T, x) = k
  BY <1>1, <1>3, RanksBelow
<1>5. \A i, j \in T : <<i, j>> \in P <=> i < j
  BY DEF Below
<1> HIDE DEF P, n
<1>6. \A k \in 1..n : g[k] \in T /\ Rank(P, T, g[k]) = k
  BY <1>4
<1>7. g \in [1..n -> T]
  BY <1>6
<1>8. \A i \in T : \E k \in 1..n : g[k] = i
  <2> SUFFICES ASSUME NEW i \in T PROVE \E k \in 1..n : g[k] = i
    OBVIOUS
  <2> DEFINE k == Rank(P, T, i)
  <2>1. k \in 1..n
    BY <1>4
  <2>2. g[k] = i
    BY <1>4, <1>6, <2>1
  <2> QED
    BY <2>1, <2>2
<1> HIDE DEF g
<1>9. ASSUME NEW k \in 1..n, NEW l \in 1..n PROVE k < l <=> g[k] < g[l]
  <2>1. <<g[k], g[l]>> \in P <=> Rank(P, T, g[k]) < Rank(P, T, g[l])
    BY <1>4, <1>6
  <2>2. <<g[k], g[l]>> \in P <=> g[k] < g[l]
    BY <1>5, <1>6
  <2> QED
    BY <1>6, <2>1, <2>2
<1>10. Counts(g, n, T)
  BY <1>1, <1>2, <1>7, <1>8, <1>9 DEF Counts
<1> QED
  BY <1>1, <1>10 DEF n

-----------------------------------------------------------------------------
(* Lists, their members, and what a loop that passes over some places      *)
(* leaves of them.                                                         *)

LEMMA NothingListed ==
  ASSUME NEW S, NEW s, s = << >>
  PROVE  s \in Seq(S) /\ Len(s) = 0 /\ DOMAIN s = {} /\ Range(s) = {}
<1>1. << >> \in Seq(S) /\ Len(<< >>) = 0 /\ DOMAIN << >> = 1..0
  BY EmptySeq, LenProperties
<1>2. DOMAIN << >> = {}
  BY <1>1
<1>3. Range(<< >>) = {}
  BY <1>2 DEF Range
<1> QED
  BY <1>1, <1>2, <1>3

LEMMA NothingThere ==
  ASSUME NEW S, NEW s \in Seq(S)
  PROVE  /\ s = << >> <=> Len(s) = 0
         /\ s = << >> <=> Range(s) = {}
<1>1. Len(s) \in Nat /\ DOMAIN s = 1..Len(s)
  BY LenProperties
<1>2. s # << >> => Len(s) # 0
  BY EmptySeq
<1>3. Len(s) # 0 => 1 \in DOMAIN s
  BY <1>1
<1>4. Len(s) # 0 => Range(s) # {}
  BY <1>3 DEF Range
<1> QED
  BY <1>2, <1>4, NothingListed

LEMMA RangeIs ==
  ASSUME NEW S, NEW s \in Seq(S)
  PROVE  /\ Range(s) \subseteq S
         /\ s \in Seq(Range(s))
         /\ \A i \in 1..Len(s) : s[i] \in Range(s)
         /\ \A x \in Range(s) : \E i \in 1..Len(s) : s[i] = x
BY RangeOfSeq, SeqOfRange, LenProperties DEF Range

LEMMA RangeOfFunction ==
  ASSUME NEW n \in Nat, NEW S, NEW f \in [1..n -> S]
  PROVE  f \in Seq(S) /\ Len(f) = n /\ DOMAIN f = 1..n
BY IsASeq

LEMMA RangeOfTail ==
  ASSUME NEW S, NEW s \in Seq(S), s # << >>
  PROVE  /\ Tail(s) \in Seq(S) /\ s[1] \in S
         /\ Range(s) = {s[1]} \cup Range(Tail(s))
<1>1. /\ Tail(s) \in Seq(S) /\ Len(Tail(s)) = Len(s) - 1
      /\ \A i \in 1..Len(Tail(s)) : Tail(s)[i] = s[i + 1]
  BY HeadTailProperties
<1>2. /\ Len(s) \in Nat /\ Len(s) # 0
      /\ DOMAIN s = 1..Len(s) /\ DOMAIN Tail(s) = 1..Len(Tail(s))
  BY <1>1, NothingThere, LenProperties
<1>3. 1 \in 1..Len(s) /\ s[1] \in S
  BY <1>2, ElementOfSeq
<1>4. ASSUME NEW x \in Range(s) PROVE x = s[1] \/ x \in Range(Tail(s))
  <2>1. PICK i \in 1..Len(s) : x = s[i]
    BY <1>2 DEF Range
  <2>2. CASE i = 1
    BY <2>1, <2>2
  <2>3. CASE i # 1
    <3> DEFINE n == Len(s)
               t == Tail(s)
    <3>1. n \in Nat /\ Len(t) = n - 1 /\ i \in 1..n
      BY <1>1, <1>2
    <3> HIDE DEF n, t
    <3>2. i - 1 \in 1..Len(t) /\ (i - 1) + 1 = i
      BY <2>3, <3>1
    <3>3. t[i - 1] = s[i]
      BY <1>1, <3>2 DEF t
    <3> QED
      BY <1>2, <2>1, <3>2, <3>3 DEF t, Range
  <2> QED
    BY <2>2, <2>3
<1>5. s[1] \in Range(s)
  BY <1>2, <1>3 DEF Range
<1>6. ASSUME NEW x \in Range(Tail(s)) PROVE x \in Range(s)
  <2> DEFINE n == Len(s)
             t == Tail(s)
  <2>1. PICK i \in 1..Len(t) : x = t[i]
    BY <1>2 DEF Range
  <2>2. n \in Nat /\ Len(t) = n - 1 /\ x = s[i + 1]
    BY <1>1, <1>2, <2>1
  <2> HIDE DEF n, t
  <2>3. i + 1 \in 1..n
    BY <2>2
  <2> QED
    BY <1>2, <2>2, <2>3 DEF n, Range
<1> QED
  BY <1>1, <1>3, <1>4, <1>5, <1>6

LEMMA RangeOfConcat ==
  ASSUME NEW S, NEW s \in Seq(S), NEW t \in Seq(S)
  PROVE  s \o t \in Seq(S) /\ Range(s \o t) = Range(s) \cup Range(t)
BY RangeConcatenation, ConcatProperties

(* What concatenation does to lists of entries.                            *)
LEMMA EntriesJoined ==
  ASSUME NEW s \in Seq(Entries), NEW t \in Seq(Entries)
  PROVE  /\ s \o t \in Seq(Entries) /\ Len(s \o t) = Len(s) + Len(t)
         /\ \A i \in 1..(Len(s) + Len(t)) : (s \o t)[i] = IF i <= Len(s) THEN s[i] ELSE t[i - Len(s)]
<1>1. /\ s \o t \in Seq(Entries) /\ Len(s \o t) = Len(s) + Len(t)
      /\ \A i \in 1 .. Len(s) + Len(t) : (s \o t)[i] = IF i <= Len(s) THEN s[i] ELSE t[i - Len(s)]
  BY ConcatProperties, Zenon
<1> QED
  BY <1>1

LEMMA EntriesRegrouped ==
  ASSUME NEW s \in Seq(Entries), NEW t \in Seq(Entries), NEW u \in Seq(Entries)
  PROVE  (s \o t) \o u = s \o (t \o u)
BY ConcatAssociative

LEMMA RangeOfOne ==
  ASSUME NEW S, NEW x \in S
  PROVE  /\ <<x>> \in Seq(S) /\ Len(<<x>>) = 1 /\ <<x>> # << >> /\ <<x>>[1] = x
         /\ Range(<<x>>) = {x}
<1>1. <<x>> \in Seq(S) /\ Len(<<x>>) = 1 /\ <<x>>[1] = x
  OBVIOUS
<1>2. DOMAIN <<x>> = {1}
  OBVIOUS
<1>3. Range(<<x>>) = {x}
  BY <1>1, <1>2 DEF Range
<1> QED
  BY <1>1, <1>3, NothingThere

-----------------------------------------------------------------------------
LEMMA PickedFrom ==
  ASSUME NEW X, NEW s \in Seq(X), NEW T, T \subseteq DOMAIN s
  PROVE  /\ Picked(s, T) \in Seq(X)
         /\ Range(Picked(s, T)) = {s[i] : i \in T}
         /\ Len(Picked(s, T)) <= Len(s)
<1>1. /\ Len(s) \in Nat /\ DOMAIN s = 1..Len(s)
      /\ \A i \in DOMAIN s : s[i] \in X
  BY LenProperties
<1>2. PICK n, g : n <= Len(s) /\ Counts(g, n, T)
  BY <1>1, PlacesCounted
<1>3. /\ n \in Nat /\ g \in [1..n -> T]
      /\ \A i \in T : \E k \in 1..n : g[k] = i
  BY <1>2 DEF Counts
<1> DEFINE f == [k \in 1..n |-> s[g[k]]]
<1>4. Picked(s, T) = f
  BY <1>2, PickedIs
<1>5. f \in [1..n -> X]
  BY <1>1, <1>3
<1>6. \A k \in 1..n : f[k] = s[g[k]]
  OBVIOUS
<1>7. f \in Seq(X) /\ Len(f) = n /\ DOMAIN f = 1..n
  <2> HIDE DEF f
  <2> QED
    BY <1>3, <1>5, RangeOfFunction
<1>8. Range(f) = {s[i] : i \in T}
  <2> HIDE DEF f
  <2>1. Range(f) = {f[k] : k \in 1..n}
    BY <1>7 DEF Range
  <2>2. \A k \in 1..n : g[k] \in T /\ f[k] = s[g[k]]
    BY <1>3, <1>6
  <2>3. Range(f) \subseteq {s[i] : i \in T}
    BY <2>1, <2>2
  <2>4. \A i \in T : \E k \in 1..n : f[k] = s[i]
    BY <1>3, <2>2
  <2> QED
    BY <2>1, <2>3, <2>4
<1> QED
  BY <1>2, <1>4, <1>7, <1>8

Where(s, S) == {i \in DOMAIN s : s[i] \in S}

LEMMA OnlyThose ==
  ASSUME NEW X, NEW s \in Seq(X), NEW S
  PROVE  /\ Only(s, S) \in Seq(X) /\ Only(s, S) \in Seq(S)
         /\ Range(Only(s, S)) = Range(s) \cap S
         /\ Only(s, S) = << >> <=> Range(s) \cap S = {}
         /\ Len(Only(s, S)) <= Len(s)
<1> DEFINE o == Only(s, S)
           T == Where(s, S)
<1>1. o = Picked(s, T) /\ T \subseteq DOMAIN s
  BY DEF Only, Where
<1>2. o \in Seq(X) /\ Range(o) = {s[i] : i \in T} /\ Len(o) <= Len(s)
  BY <1>1, PickedFrom
<1>3. {s[i] : i \in T} = Range(s) \cap S
  BY DEF Where, Range
<1> HIDE DEF o, T
<1>4. o \in Seq(Range(o))
  BY <1>2, RangeIs
<1>5. o \in Seq(S)
  BY <1>2, <1>3, <1>4, SeqMonotonic
<1> QED
  BY <1>2, <1>3, <1>5, NothingThere DEF o

(* What counts the places decides the outcome.                             *)
LEMMA OnlyIs ==
  ASSUME NEW s, NEW S, NEW n, NEW g, Counts(g, n, Where(s, S))
  PROVE  Only(s, S) = [k \in 1..n |-> s[g[k]]]
<1> DEFINE T == Where(s, S)
<1>1. Only(s, S) = Picked(s, T)
  BY DEF Only, Where
<1> HIDE DEF T
<1>2. Picked(s, T) = [k \in 1..n |-> s[g[k]]]
  BY PickedIs DEF T
<1> QED
  BY <1>1, <1>2

LEMMA OnlyAll ==
  ASSUME NEW X, NEW s \in Seq(X), NEW S, Range(s) \subseteq S
  PROVE  Only(s, S) = s
<1> DEFINE n == Len(s)
           g == [k \in 1..n |-> k]
<1>1. n \in Nat /\ DOMAIN s = 1..n
  BY LenProperties
<1>2. Where(s, S) = 1..n
  BY <1>1 DEF Where, Range
<1> HIDE DEF n
<1>3. Counts(g, n, 1..n)
  BY <1>1 DEF Counts
<1>4. Only(s, S) = [k \in 1..n |-> s[g[k]]]
  <2> HIDE DEF g
  <2> QED
    BY <1>2, <1>3, OnlyIs
<1>5. [k \in 1..n |-> s[g[k]]] = [k \in 1..n |-> s[k]]
  OBVIOUS
<1>6. s = [k \in 1..n |-> s[k]]
  BY <1>1, LenProperties DEF n
<1> QED
  BY <1>4, <1>5, <1>6

LEMMA OnlyConcat ==
  ASSUME NEW X, NEW s \in Seq(X), NEW t \in Seq(X), NEW S
  PROVE  Only(s \o t, S) = Only(s, S) \o Only(t, S)
<1> DEFINE p == Len(s)
           q == Len(t)
           u == s \o t
<1>1. /\ p \in Nat /\ DOMAIN s = 1..p /\ q \in Nat /\ DOMAIN t = 1..q
      /\ u \in Seq(X) /\ Len(u) = p + q /\ DOMAIN u = 1..(p + q)
      /\ \A i \in 1..(p + q) : u[i] = IF i <= p THEN s[i] ELSE t[i - p]
  BY LenProperties, ConcatProperties
<1> HIDE DEF p, q, u
<1>2. Where(s, S) \subseteq 1..p /\ Where(t, S) \subseteq 1..q
  BY <1>1 DEF Where
<1>3. PICK m, g : Counts(g, m, Where(s, S))
  BY <1>1, <1>2, PlacesCounted
<1>4. PICK n, h : Counts(h, n, Where(t, S))
  BY <1>1, <1>2, PlacesCounted
<1> DEFINE f == [k \in 1..(m + n) |-> IF k <= m THEN g[k] ELSE h[k - m] + p]
<1>5. m \in Nat /\ n \in Nat
  BY <1>3, <1>4 DEF Counts
<1>6. /\ \A k \in 1..m : g[k] \in 1..p /\ s[g[k]] \in S
      /\ \A k \in 1..n : h[k] \in 1..q /\ t[h[k]] \in S
      /\ \A i \in 1..p : s[i] \in S => \E k \in 1..m : g[k] = i
      /\ \A i \in 1..q : t[i] \in S => \E k \in 1..n : h[k] = i
      /\ \A k, l \in 1..m : k < l <=> g[k] < g[l]
      /\ \A k, l \in 1..n : k < l <=> h[k] < h[l]
  BY <1>1, <1>3, <1>4 DEF Counts, Where
<1>7. \A k \in 1..(m + n) : /\ k <= m => k \in 1..m /\ f[k] = g[k]
                            /\ ~(k <= m) => k - m \in 1..n /\ f[k] = h[k - m] + p
  BY <1>5
<1> HIDE DEF f
<1>8. ASSUME NEW k \in 1..(m + n)
      PROVE  /\ f[k] \in 1..(p + q) /\ u[f[k]] \in S
             /\ k <= m => u[f[k]] = s[g[k]]
             /\ ~(k <= m) => u[f[k]] = t[h[k - m]]
  <2>1. CASE k <= m
    <3>1. k \in 1..m /\ f[k] = g[k] /\ g[k] \in 1..p /\ s[g[k]] \in S
      BY <1>6, <1>7, <2>1
    <3>2. g[k] \in 1..(p + q) /\ g[k] <= p
      BY <1>1, <3>1
    <3> QED
      BY <1>1, <2>1, <3>1, <3>2
  <2>2. CASE ~(k <= m)
    <3>1. k - m \in 1..n /\ f[k] = h[k - m] + p
      BY <1>7, <2>2
    <3>2. h[k - m] \in 1..q /\ t[h[k - m]] \in S
      BY <1>6, <3>1
    <3> DEFINE j == h[k - m]
    <3> HIDE DEF j
    <3>3. f[k] = j + p /\ j \in 1..q /\ t[j] \in S
      BY <3>1, <3>2 DEF j
    <3>4. f[k] \in 1..(p + q) /\ ~(f[k] <= p) /\ f[k] - p = j
      BY <1>1, <3>3
    <3>5. u[f[k]] = t[j]
      BY <1>1, <3>4
    <3> QED
      BY <2>2, <3>3, <3>4, <3>5 DEF j
  <2> QED
    BY <2>1, <2>2
<1>9. ASSUME NEW i \in 1..(p + q), u[i] \in S PROVE \E k \in 1..(m + n) : f[k] = i
  <2>1. CASE i <= p
    <3>1. i \in 1..p /\ s[i] \in S
      BY <1>1, <1>9, <2>1
    <3>2. PICK k \in 1..m : g[k] = i
      BY <1>6, <3>1
    <3>3. k \in 1..(m + n) /\ k <= m
      BY <1>5
    <3> QED
      BY <1>7, <3>2, <3>3
  <2>2. CASE ~(i <= p)
    <3>1. i - p \in 1..q /\ t[i - p] \in S
      BY <1>1, <1>9, <2>2
    <3>2. PICK k \in 1..n : h[k] = i - p
      BY <1>6, <3>1
    <3>3. k + m \in 1..(m + n) /\ ~(k + m <= m) /\ (k + m) - m = k
      BY <1>5
    <3>4. f[k + m] = (i - p) + p
      BY <1>7, <3>2, <3>3
    <3>5. (i - p) + p = i
      BY <1>1
    <3> QED
      BY <3>3, <3>4, <3>5
  <2> QED
    BY <2>1, <2>2
<1>10. ASSUME NEW k \in 1..(m + n), NEW l \in 1..(m + n) PROVE k < l <=> f[k] < f[l]
  <2>1. f[k] \in Int /\ f[l] \in Int
    BY <1>8
  <2>2. CASE k <= m /\ l <= m
    BY <1>6, <1>7, <2>2
  <2>3. CASE k <= m /\ ~(l <= m)
    <3>1. f[k] \in 1..p
      BY <1>6, <1>7, <2>3
    <3>2. l - m \in 1..n /\ f[l] = h[l - m] + p
      BY <1>7, <2>3
    <3>3. h[l - m] \in 1..q
      BY <1>6, <3>2
    <3>4. f[k] < f[l]
      BY <1>1, <3>1, <3>2, <3>3
    <3> QED
      BY <1>5, <2>3, <3>4
  <2>4. CASE ~(k <= m) /\ l <= m
    <3>1. f[l] \in 1..p
      BY <1>6, <1>7, <2>4
    <3>2. k - m \in 1..n /\ f[k] = h[k - m] + p
      BY <1>7, <2>4
    <3>3. h[k - m] \in 1..q
      BY <1>6, <3>2
    <3>4. f[l] < f[k]
      BY <1>1, <3>1, <3>2, <3>3
    <3> QED
      BY <1>5, <2>1, <2>4, <3>4
  <2>5. CASE ~(k <= m) /\ ~(l <= m)
    <3>1. k - m \in 1..n /\ f[k] = h[k - m] + p /\ l - m \in 1..n /\ f[l] = h[l - m] + p
      BY <1>7, <2>5
    <3>2. k - m < l - m <=> h[k - m] < h[l - m]
      BY <1>6, <3>1
    <3>3. h[k - m] \in 1..q /\ h[l - m] \in 1..q
      BY <1>6, <3>1
    <3> QED
      BY <1>1, <1>5, <3>1, <3>2, <3>3
  <2> QED
    BY <2>2, <2>3, <2>4, <2>5
<1>11. Counts(f, m + n, Where(u, S))
  <2>1. \A i \in Where(u, S) : i \in 1..(p + q) /\ u[i] \in S
    BY <1>1 DEF Where
  <2>2. \A k \in 1..(m + n) : f[k] \in Where(u, S)
    BY <1>1, <1>8 DEF Where
  <2>3. f \in [1..(m + n) -> Where(u, S)]
    BY <2>2 DEF f
  <2>4. m + n \in Nat /\ Where(u, S) \subseteq Int
    BY <1>5, <2>1
  <2> QED
    BY <1>9, <1>10, <2>1, <2>3, <2>4 DEF Counts
<1> DEFINE a == Only(s, S)
           b == Only(t, S)
           r == [k \in 1..(m + n) |-> u[f[k]]]
<1>12. Only(u, S) = r
  BY <1>11, OnlyIs
<1>13. /\ a \in [1..m -> X] /\ \A k \in 1..m : a[k] = s[g[k]]
       /\ b \in [1..n -> X] /\ \A k \in 1..n : b[k] = t[h[k]]
  <2>1. a = [k \in 1..m |-> s[g[k]]]
    BY <1>3, OnlyIs
  <2>2. b = [k \in 1..n |-> t[h[k]]]
    BY <1>4, OnlyIs
  <2>3. /\ \A i \in 1..p : s[i] \in X
        /\ \A i \in 1..q : t[i] \in X
    BY <1>1, LenProperties
  <2> QED
    BY <1>6, <2>1, <2>2, <2>3
<1>14. r \in [1..(m + n) -> X] /\ \A k \in 1..(m + n) : r[k] = u[f[k]]
  BY <1>1, <1>8, LenProperties
<1> HIDE DEF a, b, r
<1>15. /\ a \in Seq(X) /\ Len(a) = m /\ b \in Seq(X) /\ Len(b) = n
       /\ r \in Seq(X) /\ Len(r) = m + n
  BY <1>5, <1>13, <1>14, RangeOfFunction
<1>16. /\ a \o b \in Seq(X) /\ Len(a \o b) = m + n
       /\ \A k \in 1..(m + n) : (a \o b)[k] = IF k <= m THEN a[k] ELSE b[k - m]
  BY <1>15, ConcatProperties
<1>17. ASSUME NEW k \in 1..(m + n) PROVE r[k] = (a \o b)[k]
  <2>1. r[k] = u[f[k]]
    BY <1>14
  <2>2. CASE k <= m
    BY <1>7, <1>8, <1>13, <1>16, <2>1, <2>2
  <2>3. CASE ~(k <= m)
    BY <1>7, <1>8, <1>13, <1>16, <2>1, <2>3
  <2> QED
    BY <2>2, <2>3
<1>18. r = a \o b
  BY <1>15, <1>16, <1>17, SeqEqual
<1> QED
  BY <1>12, <1>18 DEF a, b, u

LEMMA OnlyNothing == ASSUME NEW S PROVE Only(<< >>, S) = << >>
<1>1. << >> \in Seq({}) /\ Range(<< >>) = {}
  BY NothingListed
<1> QED
  BY <1>1, OnlyAll

LEMMA OnlyOne ==
  ASSUME NEW X, NEW x \in X, NEW S
  PROVE  Only(<<x>>, S) = IF x \in S THEN <<x>> ELSE << >>
<1>1. <<x>> \in Seq(X) /\ Range(<<x>>) = {x}
  BY RangeOfOne
<1>2. CASE x \in S
  BY <1>1, <1>2, OnlyAll
<1>3. CASE x \notin S
  <2>1. Range(<<x>>) \cap S = {}
    BY <1>1, <1>3
  <2>2. Only(<<x>>, S) = << >>
    BY <1>1, <2>1, OnlyThose
  <2> QED
    BY <1>3, <2>2
<1> QED
  BY <1>2, <1>3

-----------------------------------------------------------------------------
(* The types the proofs use: as TypeOK, but a task fits what it is done    *)
(* on.                                                                     *)

Mount  == [of : Entries, live : BOOLEAN]
Places == {"idle", "run", "mid", "made", "sent", "choose", "confirm", "exit"}

(* What a task is done on: one entry of this process, some entries of the  *)
(* daemon's, or none.                                                      *)
OnLocal  == {"read", "mount", "unmount"}
OnEntry  == {"stat", "own"}
AtDaemonKinds == {"mount at daemon", "unmount at daemon"}
OnSome   == {"ask"} \cup AtDaemonKinds
Fits(t) == /\ t.do \in OnLocal => \E e \in Local : t.on = <<e>>
           /\ t.do \in OnEntry => \E e \in Entries : t.on = <<e>>
           /\ t.do \in OnSome  => t.on \in Seq(Managed) /\ t.on # << >>
Fitting == {t \in Tasks : Fits(t)}

LEMMA TasksJoined ==
  ASSUME NEW s \in Seq(Fitting), NEW t \in Seq(Fitting)
  PROVE  s \o t \in Seq(Fitting) /\ Range(s \o t) = Range(s) \cup Range(t)
BY RangeOfConcat

Sightings == Results \cup {"covered"}

Typed ==
  /\ mounts \in [Dirs -> Seq(Mount)]
  /\ dir \in [Dirs -> DirStates]
  /\ up \in BOOLEAN
  /\ rec \subseteq Managed /\ (rec # {} => up)
  /\ pc \in [Commands -> Places]
  /\ req \in [Commands -> Request \cup {None}]
  /\ todo \in [Commands -> Seq(Fitting)]
  /\ view \in [Commands -> SUBSET Entries]
  /\ reports \in [Commands -> Seq(Reports)]
  /\ batch \in [Commands -> [Results -> Batches \cup {None}]]
  /\ outside \in 0..MaxOutside
  /\ late \in [Managed -> Nat]
  /\ seen \in [Commands -> SUBSET (Entries \X Sightings)]
  /\ robbed \subseteq Managed /\ peak \in Nat

LEMMA EntriesKinds ==
  /\ Local \subseteq Entries /\ Managed \subseteq Entries
  /\ \A e \in Entries : e \in Local \/ e \in Managed
  /\ Local \cap Managed = {}
  /\ \A e \in Entries : DirOf[e] \in Dirs
  /\ Range(Order) = Entries
BY ManagedAreEntries, DirsAreGiven DEF Local, Entries, Range

-----------------------------------------------------------------------------
(* Lists of tasks.                                                         *)

LEMMA EachIs ==
  ASSUME NEW do \in OnLocal \cup OnEntry, NEW es \in Seq(Entries),
         do \in OnLocal => es \in Seq(Local)
  PROVE  /\ Each(do, es) \in Seq(Fitting) /\ Len(Each(do, es)) = Len(es)
         /\ DOMAIN Each(do, es) = 1..Len(es)
         /\ \A i \in 1..Len(es) : Each(do, es)[i] = Task(do, <<es[i]>>)
         /\ Range(Each(do, es)) = {Task(do, <<e>>) : e \in Range(es)}
<1> DEFINE n == Len(es)
           f == [i \in 1..n |-> Task(do, <<es[i]>>)]
<1>1. n \in Nat /\ DOMAIN es = 1..n
  BY LenProperties
<1>2. Each(do, es) = f
  BY <1>1 DEF Each
<1>3. ASSUME NEW e \in Entries, do \in OnLocal => e \in Local PROVE Task(do, <<e>>) \in Fitting
  <2>1. <<e>> \in Seq(Entries)
    BY <1>3, RangeOfOne
  <2>2. Task(do, <<e>>) \in Tasks
    BY <2>1 DEF Task, Tasks, OnLocal, OnEntry
  <2>3. Fits(Task(do, <<e>>))
    BY <1>3 DEF Task, Fits, OnLocal, OnEntry, OnSome, AtDaemonKinds
  <2> QED
    BY <2>2, <2>3 DEF Fitting
<1>4. \A i \in 1..n : es[i] \in Entries /\ (do \in OnLocal => es[i] \in Local)
  BY <1>1, ElementOfSeq
<1> HIDE DEF n
<1>5. f \in [1..n -> Fitting]
  BY <1>3, <1>4
<1>6. \A i \in 1..n : f[i] = Task(do, <<es[i]>>)
  OBVIOUS
<1> HIDE DEF f
<1>7. f \in Seq(Fitting) /\ Len(f) = n /\ DOMAIN f = 1..n
  BY <1>1, <1>5, RangeOfFunction
<1>8. Range(f) = {Task(do, <<e>>) : e \in Range(es)}
  BY <1>1, <1>6, <1>7 DEF Range
<1> QED
  BY <1>2, <1>6, <1>7, <1>8 DEF n

LEMMA BatchIs ==
  ASSUME NEW do \in OnSome, NEW es \in Seq(Managed)
  PROVE  /\ Batch(do, es) \in Seq(Fitting)
         /\ Range(Batch(do, es)) = IF es = << >> THEN {} ELSE {Task(do, es)}
<1>1. CASE es = << >>
  BY <1>1, NothingListed DEF Batch
<1>2. CASE es # << >>
  <2>1. es \in Seq(Entries)
    BY EntriesKinds, SeqMonotonic
  <2>2. Task(do, es) \in Fitting
    BY <1>2, <2>1 DEF Task, Tasks, Fits, Fitting, OnSome, OnLocal, OnEntry, AtDaemonKinds
  <2> QED
    BY <1>2, <2>2, RangeOfOne DEF Batch
<1> QED
  BY <1>1, <1>2

LEMMA OneTask ==
  ASSUME NEW do \in {"plan", "fix"}
  PROVE  <<Task(do, << >>)>> \in Seq(Fitting) /\ Range(<<Task(do, << >>)>>) = {Task(do, << >>)}
<1>1. << >> \in Seq(Entries)
  BY EmptySeq
<1>2. Task(do, << >>) \in Fitting
  BY <1>1 DEF Task, Tasks, Fits, Fitting, OnSome, OnLocal, OnEntry, AtDaemonKinds
<1> QED
  BY <1>2, RangeOfOne

LEMMA WorkIs ==
  ASSUME NEW do \in {"mount", "unmount"}, NEW on \in AtDaemonKinds, NEW es \in Seq(Entries)
  PROVE  /\ Work(do, on, es) \in Seq(Fitting)
         /\ \A t \in Range(Work(do, on, es)) : t.do \in {do, on} /\ Range(t.on) \subseteq Range(es)
         /\ es # << >> => Range(Work(do, on, es)) # {}
<1> DEFINE l == Only(es, Local)
           m == Only(es, Managed)
           p == Each(do, l)
           q == Batch(on, m)
<1>1. /\ l \in Seq(Entries) /\ l \in Seq(Local) /\ Range(l) = Range(es) \cap Local
      /\ m \in Seq(Managed) /\ Range(m) = Range(es) \cap Managed
  BY OnlyThose
<1>2. Range(es) \subseteq Entries
  BY RangeIs
<1> HIDE DEF l, m
<1>3. p \in Seq(Fitting) /\ Range(p) = {Task(do, <<e>>) : e \in Range(l)}
  <2>1. do \in OnLocal \cup OnEntry
    BY DEF OnLocal
  <2> QED
    BY <1>1, <2>1, EachIs
<1>4. q \in Seq(Fitting) /\ Range(q) = IF m = << >> THEN {} ELSE {Task(on, m)}
  <2>1. on \in OnSome
    BY DEF OnSome, AtDaemonKinds
  <2> QED
    BY <1>1, <2>1, BatchIs
<1>5. Work(do, on, es) = p \o q
  BY DEF Work, l, m
<1> HIDE DEF p, q
<1>6. p \o q \in Seq(Fitting) /\ Range(p \o q) = Range(p) \cup Range(q)
  <2>1. p \in Seq(Fitting) /\ q \in Seq(Fitting)
    BY <1>3, <1>4
  <2> QED
    BY <2>1, RangeOfConcat
<1>7. ASSUME NEW t \in Range(p \o q) PROVE t.do \in {do, on} /\ Range(t.on) \subseteq Range(es)
  <2>1. CASE t \in Range(p)
    <3>1. PICK e \in Range(l) : t = Task(do, <<e>>)
      BY <1>3, <2>1
    <3>2. e \in Range(es) /\ Range(<<e>>) = {e}
      BY <1>1, RangeOfOne
    <3> QED
      BY <3>1, <3>2 DEF Task
  <2>2. CASE t \in Range(q)
    <3>1. t = Task(on, m)
      BY <1>4, <2>2
    <3> QED
      BY <1>1, <3>1 DEF Task
  <2> QED
    BY <1>6, <2>1, <2>2
<1>8. ASSUME es # << >> PROVE Range(p \o q) # {}
  <2>1. PICK e : e \in Range(es)
    BY <1>8, NothingThere
  <2>2. CASE e \in Local
    <3>1. e \in Range(l)
      BY <1>1, <2>1, <2>2
    <3>2. Task(do, <<e>>) \in Range(p)
      BY <1>3, <3>1
    <3> QED
      BY <1>6, <3>2
  <2>3. CASE e \in Managed
    BY <1>1, <1>4, <1>6, <2>1, <2>3, NothingThere
  <2> QED
    BY <1>2, <2>1, <2>2, <2>3, EntriesKinds
<1> QED
  BY <1>5, <1>6, <1>7, <1>8

LEMMA RefreshIs ==
  /\ Refresh \o <<Task("plan", << >>)>> \in Seq(Fitting)
  /\ \A t \in Range(Refresh \o <<Task("plan", << >>)>>) : t.do \in {"read", "ask", "plan"}
  /\ \A e \in Local : Task("read", <<e>>) \in Range(Refresh \o <<Task("plan", << >>)>>)
  /\ Task("plan", << >>) \in Range(Refresh \o <<Task("plan", << >>)>>)
<1> DEFINE l == Only(Order, Local)
           m == Only(Order, Managed)
           p == Each("read", l)
           q == Batch("ask", m)
           z == <<Task("plan", << >>)>>
<1>1. /\ l \in Seq(Entries) /\ l \in Seq(Local) /\ Range(l) = Local
      /\ m \in Seq(Managed)
  <2>1. Range(Order) \cap Local = Local
    BY EntriesKinds
  <2> QED
    BY <2>1, OrderIsList, OnlyThose
<1> HIDE DEF l, m
<1>2. p \in Seq(Fitting) /\ Range(p) = {Task("read", <<e>>) : e \in Local}
  <2>1. "read" \in OnLocal \cup OnEntry
    BY DEF OnLocal
  <2> QED
    BY <1>1, <2>1, EachIs
<1>3. q \in Seq(Fitting) /\ Range(q) \subseteq {Task("ask", m)}
  <2>1. "ask" \in OnSome
    BY DEF OnSome
  <2> QED
    BY <1>1, <2>1, BatchIs
<1>4. z \in Seq(Fitting) /\ Range(z) = {Task("plan", << >>)}
  BY OneTask
<1>5. Refresh = p \o q
  BY DEF Refresh, l, m
<1> HIDE DEF p, q, z
<1>6. p \o q \in Seq(Fitting) /\ Range(p \o q) = Range(p) \cup Range(q)
  <2>1. p \in Seq(Fitting) /\ q \in Seq(Fitting)
    BY <1>2, <1>3
  <2> QED
    BY <2>1, RangeOfConcat
<1>7. (p \o q) \o z \in Seq(Fitting) /\ Range((p \o q) \o z) = Range(p \o q) \cup Range(z)
  <2>1. p \o q \in Seq(Fitting) /\ z \in Seq(Fitting)
    BY <1>4, <1>6
  <2> QED
    BY <2>1, TasksJoined, Zenon
<1>8. \A t \in Range((p \o q) \o z) : t.do \in {"read", "ask", "plan"}
  BY <1>2, <1>3, <1>4, <1>6, <1>7 DEF Task
<1> QED
  BY <1>2, <1>4, <1>5, <1>6, <1>7, <1>8 DEF z

Kinds(op) == CASE op = "mount"             -> {"mount", "mount at daemon"}
               [] op = "unmount"           -> {"unmount", "unmount at daemon"}
               [] op \in {"mkdir", "dryrun"} -> {"stat", "fix"}
               [] OTHER                    -> {}

LEMMA KnownArgs ==
  ASSUME NEW r \in Request, Known(r)
  PROVE  r.args \in Seq(Entries)
<1>1. r.args \in Seq(Entries \cup {Unknown})
  BY DEF Request
<1>2. Range(r.args) \subseteq Entries
  BY <1>1, RangeIs, LenProperties DEF Known
<1> QED
  BY <1>1, <1>2, RangeIs, SeqMonotonic

LEMMA WorkForIs ==
  ASSUME NEW r \in Request
  PROVE  /\ WorkFor(r) \in Seq(Fitting)
         /\ \A t \in Range(WorkFor(r)) : /\ Known(r) /\ t.do \in Kinds(r.op)
                                         /\ Range(t.on) \subseteq Range(r.args)
         /\ Known(r) /\ r.args # << >> /\ r.op \in {"mount", "unmount"} => Range(WorkFor(r)) # {}
<1>1. CASE ~Known(r)
  <2>1. WorkFor(r) = << >>
    BY <1>1 DEF WorkFor
  <2> QED
    BY <1>1, <2>1, NothingListed
<1>2. CASE Known(r) /\ r.op = "mount"
  <2>1. WorkFor(r) = Work("mount", "mount at daemon", r.args) /\ Kinds(r.op) = {"mount", "mount at daemon"}
    BY <1>2 DEF WorkFor, MountWork, Kinds
  <2>2. r.args \in Seq(Entries) /\ "mount at daemon" \in AtDaemonKinds
    BY <1>2, KnownArgs DEF AtDaemonKinds
  <2> DEFINE es == r.args
             w == Work("mount", "mount at daemon", es)
  <2>3. es \in Seq(Entries)
    BY <2>2
  <2> HIDE DEF es
  <2>4. /\ w \in Seq(Fitting)
        /\ \A t \in Range(w) : t.do \in {"mount", "mount at daemon"} /\ Range(t.on) \subseteq Range(es)
        /\ es # << >> => Range(w) # {}
    BY <2>2, <2>3, WorkIs
  <2>5. WorkFor(r) = w
    BY <2>1 DEF es
  <2> HIDE DEF w
  <2> QED
    BY <1>2, <2>1, <2>4, <2>5 DEF es
<1>3. CASE Known(r) /\ r.op = "unmount"
  <2>1. WorkFor(r) = Work("unmount", "unmount at daemon", r.args) /\ Kinds(r.op) = {"unmount", "unmount at daemon"}
    BY <1>3 DEF WorkFor, UnmountWork, Kinds
  <2>2. r.args \in Seq(Entries) /\ "unmount at daemon" \in AtDaemonKinds
    BY <1>3, KnownArgs DEF AtDaemonKinds
  <2> DEFINE es == r.args
             w == Work("unmount", "unmount at daemon", es)
  <2>3. es \in Seq(Entries)
    BY <2>2
  <2> HIDE DEF es
  <2>4. /\ w \in Seq(Fitting)
        /\ \A t \in Range(w) : t.do \in {"unmount", "unmount at daemon"} /\ Range(t.on) \subseteq Range(es)
        /\ es # << >> => Range(w) # {}
    BY <2>2, <2>3, WorkIs
  <2>5. WorkFor(r) = w
    BY <2>1 DEF es
  <2> HIDE DEF w
  <2> QED
    BY <1>3, <2>1, <2>4, <2>5 DEF es
<1>4. CASE Known(r) /\ r.op \in {"mkdir", "dryrun"}
  <2> DEFINE p == Each("stat", r.args)
             z == <<Task("fix", << >>)>>
  <2>1. WorkFor(r) = p \o z /\ Kinds(r.op) = {"stat", "fix"}
    BY <1>4 DEF WorkFor, Kinds
  <2>2. r.args \in Seq(Entries)
    BY <1>4, KnownArgs
  <2>3. p \in Seq(Fitting) /\ Range(p) = {Task("stat", <<e>>) : e \in Range(r.args)}
    <3>1. "stat" \in OnLocal \cup OnEntry /\ "stat" \notin OnLocal
      BY DEF OnLocal, OnEntry
    <3> QED
      BY <2>2, <3>1, EachIs
  <2>4. z \in Seq(Fitting) /\ Range(z) = {Task("fix", << >>)}
    BY OneTask
  <2> HIDE DEF p, z
  <2>5. p \o z \in Seq(Fitting) /\ Range(p \o z) = Range(p) \cup Range(z)
    BY <2>3, <2>4, RangeOfConcat
  <2>6. ASSUME NEW t \in Range(p \o z) PROVE t.do \in {"stat", "fix"} /\ Range(t.on) \subseteq Range(r.args)
    <3>1. CASE t \in Range(p)
      <4>1. PICK e \in Range(r.args) : t = Task("stat", <<e>>)
        BY <2>3, <3>1
      <4>2. Range(<<e>>) = {e}
        BY RangeOfOne
      <4> QED
        BY <4>1, <4>2 DEF Task
    <3>2. CASE t \in Range(z)
      <4>1. t.on = << >> /\ t.do = "fix"
        BY <2>4, <3>2 DEF Task
      <4> QED
        BY <4>1, NothingListed
    <3> QED
      BY <2>5, <3>1, <3>2
  <2> QED
    BY <1>4, <2>1, <2>5, <2>6
<1>5. CASE Known(r) /\ r.op \notin {"mount", "unmount", "mkdir", "dryrun"}
  <2>1. WorkFor(r) = << >>
    BY <1>5 DEF WorkFor
  <2> QED
    BY <1>5, <2>1, NothingListed
<1> QED
  BY <1>1, <1>2, <1>3, <1>4, <1>5

LEMMA HeadOfWork ==
  ASSUME Typed, NEW c \in Commands, todo[c] # << >>
  PROVE  /\ Do(c) \in Fitting /\ Tail(todo[c]) \in Seq(Fitting)
         /\ Range(todo[c]) = {Do(c)} \cup Range(Tail(todo[c]))
<1>1. todo[c] \in Seq(Fitting)
  BY DEF Typed
<1> QED
  BY <1>1, RangeOfTail DEF Do

LEMMA ItIs ==
  ASSUME Typed, NEW c \in Commands, todo[c] # << >>
  PROVE  /\ Do(c).do \in OnLocal => It(c) \in Local /\ Do(c).on = <<It(c)>>
         /\ Do(c).do \in OnEntry => It(c) \in Entries /\ Do(c).on = <<It(c)>>
         /\ Do(c).do \in OnSome  => /\ Do(c).on \in Seq(Managed) /\ Do(c).on # << >>
                                    /\ Range(Do(c).on) \subseteq Managed
<1>1. Fits(Do(c))
  BY HeadOfWork DEF Fitting
<1>2. \A e : <<e>>[1] = e
  OBVIOUS
<1>3. Do(c).on \in Seq(Managed) => Range(Do(c).on) \subseteq Managed
  BY RangeIs
<1> QED
  BY <1>1, <1>2, <1>3 DEF Fits, It

(* What a step does to the mount table.                                    *)
Fresh(e) == [of |-> e, live |-> TRUE]
LEMMA PutIs ==
  ASSUME Typed, NEW e \in Entries, NEW d \in Dirs, Put(e, d)
  PROVE  /\ mounts' \in [Dirs -> Seq(Mount)]
         /\ \A x \in Dirs : x # d => mounts'[x] = mounts[x]
         /\ mounts'[d] = Append(mounts[d], Fresh(e))
         /\ Len(mounts'[d]) = Len(mounts[d]) + 1
         /\ mounts'[d][Len(mounts'[d])] = Fresh(e)
         /\ Range(mounts'[d]) = Range(mounts[d]) \cup {Fresh(e)}
<1>1. mounts[d] \in Seq(Mount) /\ Fresh(e) \in Mount
  BY DEF Typed, Mount, Fresh
<1>2. mounts' = [mounts EXCEPT ![d] = Append(mounts[d], Fresh(e))]
  BY DEF Put, Fresh
<1>3. /\ Append(mounts[d], Fresh(e)) \in Seq(Mount)
      /\ Len(Append(mounts[d], Fresh(e))) = Len(mounts[d]) + 1
      /\ Append(mounts[d], Fresh(e))[Len(mounts[d]) + 1] = Fresh(e)
      /\ Append(mounts[d], Fresh(e)) = mounts[d] \o <<Fresh(e)>>
  BY <1>1, AppendProperties, AppendIsConcat
<1>4. Range(mounts[d] \o <<Fresh(e)>>) = Range(mounts[d]) \cup {Fresh(e)}
  <2>1. <<Fresh(e)>> \in Seq(Mount) /\ Range(<<Fresh(e)>>) = {Fresh(e)}
    BY <1>1, RangeOfOne
  <2> DEFINE s == mounts[d]
             t == <<Fresh(e)>>
  <2>2. s \in Seq(Mount) /\ t \in Seq(Mount) /\ Range(t) = {Fresh(e)}
    BY <1>1, <2>1
  <2> HIDE DEF s, t
  <2>3. Range(s \o t) = Range(s) \cup Range(t)
    BY <2>2, RangeOfConcat
  <2> QED
    BY <2>2, <2>3 DEF s, t
<1>5. mounts \in [Dirs -> Seq(Mount)]
  BY DEF Typed
<1>6. mounts'[d] = Append(mounts[d], Fresh(e))
  BY <1>2, <1>5
<1> QED
  BY <1>2, <1>3, <1>4, <1>5, <1>6

LEMMA FrontIs ==
  ASSUME NEW ms \in Seq(Mount), ms # << >>
  PROVE  /\ Front(ms) \in Seq(Mount) /\ Len(Front(ms)) = Len(ms) - 1
         /\ Range(Front(ms)) \subseteq Range(ms)
         /\ \A i \in 1..(Len(ms) - 1) : Front(ms)[i] = ms[i]
<1> DEFINE n == Len(ms)
           s == Front(ms)
<1>1. n \in Nat /\ n # 0 /\ DOMAIN ms = 1..n /\ \A i \in 1..n : ms[i] \in Mount
  BY LenProperties, NothingThere
<1> HIDE DEF n
<1>2. 1 \in Int /\ n - 1 \in Int /\ \A i \in 1..(n - 1) : ms[i] \in Mount
  BY <1>1
<1>3. /\ s \in Seq(Mount) /\ Len(s) = n - 1
      /\ \A i \in 1..(n - 1) : s[i] = ms[i]
  <2>1. /\ s \in Seq(Mount) /\ Len(s) = IF 1 <= n - 1 THEN (n - 1) - 1 + 1 ELSE 0
        /\ \A i \in 1..((n - 1) - 1 + 1) : s[i] = ms[1 + i - 1]
    BY <1>2, SubSeqProperties DEF Front, n
  <2>2. \A i \in 1..(n - 1) : 1 + i - 1 = i
    BY <1>1
  <2>3. (n - 1) - 1 + 1 = n - 1
    BY <1>1
  <2> HIDE DEF s
  <2> QED
    BY <1>1, <2>1, <2>2, <2>3
<1> HIDE DEF s
<1>4. Range(s) \subseteq Range(ms)
  <2> SUFFICES ASSUME NEW x \in Range(s) PROVE x \in Range(ms)
    OBVIOUS
  <2>1. PICK i \in 1..(n - 1) : s[i] = x
    BY <1>3, RangeIs
  <2>2. i \in DOMAIN ms /\ ms[i] = x
    BY <1>1, <1>3, <2>1
  <2> QED
    BY <2>2 DEF Range
<1> QED
  BY <1>3, <1>4 DEF n, s

LEMMA PopIs ==
  ASSUME Typed, NEW d \in Dirs, Mounted(d), Pop(d)
  PROVE  /\ mounts' \in [Dirs -> Seq(Mount)]
         /\ \A x \in Dirs : x # d => mounts'[x] = mounts[x]
         /\ Len(mounts'[d]) = Len(mounts[d]) - 1
         /\ Range(mounts'[d]) \subseteq Range(mounts[d])
         /\ \A i \in 1..(Len(mounts[d]) - 1) : mounts'[d][i] = mounts[d][i]
<1> DEFINE ms == mounts[d]
<1>1. ms \in Seq(Mount) /\ ms # << >> /\ mounts \in [Dirs -> Seq(Mount)]
  BY DEF Typed, Mounted
<1>2. /\ Front(ms) \in Seq(Mount) /\ Len(Front(ms)) = Len(ms) - 1
      /\ Range(Front(ms)) \subseteq Range(ms)
      /\ \A i \in 1..(Len(ms) - 1) : Front(ms)[i] = ms[i]
  <2> HIDE DEF ms
  <2> QED
    BY <1>1, FrontIs
<1>3. mounts' = [mounts EXCEPT ![d] = Front(ms)]
  BY DEF Pop
<1> QED
  BY <1>1, <1>2, <1>3

Struck(S, m) == IF m.of \in S THEN [m EXCEPT !.live = FALSE] ELSE m
LEMMA StrandedIs ==
  ASSUME NEW ms \in Seq(Mount), NEW S
  PROVE  /\ Stranded(ms, S) \in Seq(Mount) /\ Len(Stranded(ms, S)) = Len(ms)
         /\ DOMAIN Stranded(ms, S) = DOMAIN ms
         /\ Range(Stranded(ms, S)) = {Struck(S, m) : m \in Range(ms)}
         /\ \A i \in DOMAIN ms : Stranded(ms, S)[i] = Struck(S, ms[i])
<1> DEFINE n == Len(ms)
           g == Stranded(ms, S)
<1>1. n \in Nat /\ DOMAIN ms = 1..n /\ \A i \in 1..n : ms[i] \in Mount
  BY LenProperties
<1>2. \A m \in Mount : Struck(S, m) \in Mount
  BY DEF Struck, Mount
<1>3. g = [i \in 1..n |-> Struck(S, ms[i])]
  BY <1>1 DEF Stranded, Struck
<1> HIDE DEF n, g
<1>4. g \in [1..n -> Mount] /\ \A i \in 1..n : g[i] = Struck(S, ms[i])
  BY <1>1, <1>2, <1>3
<1>5. g \in Seq(Mount) /\ Len(g) = n /\ DOMAIN g = 1..n
  BY <1>1, <1>4, RangeOfFunction
<1>6. Range(g) = {Struck(S, m) : m \in Range(ms)}
  BY <1>1, <1>4, <1>5 DEF Range
<1> QED
  BY <1>1, <1>4, <1>5, <1>6 DEF n, g

LEMMA StrandIs ==
  ASSUME Typed, NEW S, Strand(S)
  PROVE  /\ mounts' \in [Dirs -> Seq(Mount)]
         /\ \A d \in Dirs : /\ Range(mounts'[d]) = {Struck(S, m) : m \in Range(mounts[d])}
                            /\ Len(mounts'[d]) = Len(mounts[d])
                            /\ DOMAIN mounts'[d] = DOMAIN mounts[d]
                            /\ \A i \in DOMAIN mounts[d] : mounts'[d][i] = Struck(S, mounts[d][i])
<1>1. mounts' = [d \in Dirs |-> Stranded(mounts[d], S)]
  BY DEF Strand
<1>2. \A d \in Dirs : mounts[d] \in Seq(Mount)
  BY DEF Typed
<1> QED
  BY <1>1, <1>2, StrandedIs

(* A shutdown: what is on top of the directories on record goes, and no    *)
(* mount of the daemon stays alive.                                        *)
LEMMA StopIs ==
  ASSUME Typed, DaemonStops
  PROVE  /\ mounts' \in [Dirs -> Seq(Mount)]
         /\ \A d \in Dirs :
              \E ms \in Seq(Mount) :
                /\ ms = mounts[d] \/ (Mounted(d) /\ ms = Front(mounts[d]))
                /\ mounts'[d] = Stranded(ms, Managed)
                /\ Range(ms) \subseteq Range(mounts[d]) /\ Len(ms) <= Len(mounts[d])
<1> DEFINE Kept(d) == IF \E e \in rec : DirOf[e] = d THEN Front(mounts[d]) ELSE mounts[d]
<1>1. mounts' = [d \in Dirs |-> Stranded(Kept(d), Managed)]
  BY DEF DaemonStops
<1>2. ASSUME NEW d \in Dirs
      PROVE  /\ Kept(d) \in Seq(Mount) /\ Range(Kept(d)) \subseteq Range(mounts[d])
             /\ Len(Kept(d)) <= Len(mounts[d])
             /\ Kept(d) = mounts[d] \/ (Mounted(d) /\ Kept(d) = Front(mounts[d]))
  <2>1. mounts[d] \in Seq(Mount)
    BY DEF Typed
  <2>2. CASE \E e \in rec : DirOf[e] = d
    <3>1. Mounted(d) /\ Kept(d) = Front(mounts[d])
      BY <2>2 DEF DaemonStops
    <3>2. Len(mounts[d]) \in Nat
      BY <2>1
    <3> QED
      BY <2>1, <3>1, <3>2, FrontIs DEF Mounted
  <2>3. CASE ~ \E e \in rec : DirOf[e] = d
    BY <2>1, <2>3
  <2> QED
    BY <2>2, <2>3
<1> HIDE DEF Kept
<1>3. ASSUME NEW d \in Dirs PROVE Stranded(Kept(d), Managed) \in Seq(Mount)
  BY <1>2, StrandedIs
<1>4. mounts' \in [Dirs -> Seq(Mount)]
  BY <1>1, <1>3
<1>5. \A d \in Dirs : mounts'[d] = Stranded(Kept(d), Managed)
  BY <1>1
<1> QED
  BY <1>2, <1>4, <1>5

-----------------------------------------------------------------------------
(* What a step does to a command's work and reports.                       *)

Words == Results \cup {"created", "existing", "mismatch", "fixed"}
Goes(c) == /\ todo' = [todo EXCEPT ![c] = Tail(todo[c])]
           /\ pc' = [pc EXCEPT ![c] = "run"]
Tells(c, rs) == Goes(c) /\ reports' = [reports EXCEPT ![c] = reports[c] \o rs]

LEMMA GoesOn ==
  ASSUME Typed, NEW c \in Commands, todo[c] # << >>, Goes(c)
  PROVE  /\ todo' \in [Commands -> Seq(Fitting)] /\ pc' \in [Commands -> Places]
         /\ todo'[c] = Tail(todo[c]) /\ pc'[c] = "run"
         /\ Range(todo[c]) = {Do(c)} \cup Range(todo'[c])
         /\ \A x \in Commands : x # c => todo'[x] = todo[x] /\ pc'[x] = pc[x]
<1>1. todo \in [Commands -> Seq(Fitting)] /\ pc \in [Commands -> Places]
  BY DEF Typed
<1>2. Tail(todo[c]) \in Seq(Fitting) /\ Range(todo[c]) = {Do(c)} \cup Range(Tail(todo[c]))
  BY HeadOfWork
<1> QED
  BY <1>1, <1>2 DEF Goes, Places

LEMMA TellsOf ==
  ASSUME Typed, NEW c \in Commands, NEW rs \in Seq(Reports), Tells(c, rs)
  PROVE  /\ reports' \in [Commands -> Seq(Reports)]
         /\ reports'[c] = reports[c] \o rs
         /\ Range(reports'[c]) = Range(reports[c]) \cup Range(rs)
         /\ \A x \in Commands : x # c => reports'[x] = reports[x]
<1>1. reports \in [Commands -> Seq(Reports)]
  BY DEF Typed
<1>2. reports[c] \o rs \in Seq(Reports) /\ Range(reports[c] \o rs) = Range(reports[c]) \cup Range(rs)
  <2>1. reports[c] \in Seq(Reports)
    BY <1>1
  <2> QED
    BY <2>1, RangeOfConcat
<1> QED
  BY <1>1, <1>2 DEF Tells

LEMMA OnwardGoes ==
  ASSUME NEW c \in Commands, Onward(c)
  PROVE  Goes(c)
BY DEF Onward, Then, At, Goes

LEMMA TellItTells ==
  ASSUME NEW c \in Commands, NEW as, NEW ok, TellIt(c, as, ok)
  PROVE  Tells(c, <<Report(It(c), as, ok)>>)
BY OnwardGoes DEF TellIt, Tell, Tells

LEMMA ReportIs ==
  ASSUME NEW e \in Entries, NEW as \in Words, NEW ok \in BOOLEAN
  PROVE  /\ <<Report(e, as, ok)>> \in Seq(Reports)
         /\ Range(<<Report(e, as, ok)>>) = {Report(e, as, ok)}
         /\ Report(e, as, ok) = [of |-> e, as |-> as, ok |-> ok]
<1>1. Report(e, as, ok) \in Reports
  BY DEF Report, Reports, Words
<1> QED
  BY <1>1, RangeOfOne DEF Report

(* One report for each entry of a request, from the same answer.           *)
Answer(c, f) == [i \in DOMAIN Do(c).on |-> Report(Do(c).on[i], As(c), f[Do(c).on[i]])]
LEMMA AnswerIs ==
  ASSUME Typed, NEW c \in Commands, AtDaemon(c), NEW f \in [Managed -> BOOLEAN]
  PROVE  /\ Answer(c, f) \in Seq(Reports) /\ Len(Answer(c, f)) = Len(Do(c).on)
         /\ DOMAIN Answer(c, f) = 1..Len(Do(c).on)
         /\ \A i \in 1..Len(Do(c).on) : Answer(c, f)[i] = Report(Do(c).on[i], As(c), f[Do(c).on[i]])
         /\ Range(Answer(c, f)) = {Report(e, As(c), f[e]) : e \in Range(Do(c).on)}
         /\ Answer(c, f) # << >>
         /\ As(c) \in Results
<1> DEFINE s == Do(c).on
           n == Len(s)
           g == Answer(c, f)
<1>1. todo[c] # << >> /\ Do(c).do \in OnSome
  BY DEF AtDaemon, Doing, OnSome, AtDaemonKinds
<1>2. s \in Seq(Managed) /\ s # << >>
  BY <1>1, ItIs
<1> HIDE DEF s
<1>3. n \in Nat /\ DOMAIN s = 1..n /\ n # 0 /\ \A i \in 1..n : s[i] \in Managed
  BY <1>2, LenProperties, NothingThere
<1>4. As(c) \in Results
  BY DEF As, Results
<1>5. g = [i \in 1..n |-> Report(s[i], As(c), f[s[i]])]
  BY <1>3 DEF Answer, s
<1>6. \A i \in 1..n : Report(s[i], As(c), f[s[i]]) \in Reports
  BY <1>3, <1>4, EntriesKinds DEF Report, Reports
<1> HIDE DEF g, n
<1>7. g \in [1..n -> Reports] /\ \A i \in 1..n : g[i] = Report(s[i], As(c), f[s[i]])
  BY <1>5, <1>6
<1>8. g \in Seq(Reports) /\ Len(g) = n /\ DOMAIN g = 1..n
  BY <1>3, <1>7, RangeOfFunction
<1>9. Range(g) = {Report(e, As(c), f[e]) : e \in Range(s)}
  BY <1>3, <1>7, <1>8 DEF Range
<1>10. g # << >>
  BY <1>3, <1>8, NothingThere
<1> QED
  BY <1>4, <1>7, <1>8, <1>9, <1>10 DEF g, n, s

LEMMA AllFailedTells ==
  ASSUME NEW c \in Commands, AllFailed(c)
  PROVE  Tells(c, [i \in DOMAIN Do(c).on |-> Report(Do(c).on[i], As(c), FALSE)])
BY OnwardGoes DEF AllFailed, TellAll, Tell, Tells

LEMMA FailedIsAnswer ==
  ASSUME Typed, NEW c \in Commands, AtDaemon(c)
  PROVE  [i \in DOMAIN Do(c).on |-> Report(Do(c).on[i], As(c), FALSE)] = Answer(c, [e \in Managed |-> FALSE])
<1>1. todo[c] # << >> /\ Do(c).do \in OnSome
  BY DEF AtDaemon, Doing, OnSome, AtDaemonKinds
<1>2. \A i \in DOMAIN Do(c).on : Do(c).on[i] \in Managed
  BY <1>1, ItIs, LenProperties
<1> QED
  BY <1>2 DEF Answer

Granted(c) == [e \in Managed |-> batch[c][As(c)].results[e] = "ok"]
LEMMA ReplyTells ==
  ASSUME Typed, NEW c \in Commands, AtDaemon(c), Reply(c)
  PROVE  Tells(c, Answer(c, Granted(c))) /\ Granted(c) \in [Managed -> BOOLEAN]
<1>1. todo[c] # << >> /\ Do(c).do \in OnSome
  BY DEF AtDaemon, Doing, OnSome, AtDaemonKinds
<1>2. \A i \in DOMAIN Do(c).on : Do(c).on[i] \in Managed
  BY <1>1, ItIs, LenProperties
<1>3. Tells(c, [i \in DOMAIN Do(c).on |-> Report(Do(c).on[i], As(c), batch[c][As(c)].results[Do(c).on[i]] = "ok")])
  BY OnwardGoes DEF Reply, TellAll, Tell, Tells
<1>4. Answer(c, Granted(c)) = [i \in DOMAIN Do(c).on |-> Report(Do(c).on[i], As(c), batch[c][As(c)].results[Do(c).on[i]] = "ok")]
  BY <1>2 DEF Answer, Granted
<1> QED
  BY <1>3, <1>4 DEF Granted

-----------------------------------------------------------------------------
(* The steps of a command, by what they do to its work and its reports.    *)

Reads == {"read", "ask", "plan"}
Works == {"mount", "mount at daemon", "unmount", "unmount at daemon"}
TasksFor(op) == CASE op = "list"        -> Reads
                  [] op = "mount"       -> Reads \cup {"mount", "mount at daemon"}
                  [] op = "unmount"     -> Reads \cup {"unmount", "unmount at daemon"}
                  [] op = "interactive" -> Reads \cup Works
                  [] op = "mkdir"       -> {"stat", "fix", "own"}
                  [] op = "dryrun"      -> {"stat", "fix"}
                  [] OTHER              -> {}
SaidOf(do) == CASE do \in {"mount", "mount at daemon"}     -> {"mounted"}
                [] do \in {"unmount", "unmount at daemon"} -> {"unmounted"}
                [] do = "stat"                             -> {"created", "existing", "mismatch"}
                [] do = "own"                              -> {"fixed"}
                [] OTHER                                   -> {}

NoRequest(c) == \A as \in Results : batch[c][as] = None

(* Where a command can be, and what it then has to do.                     *)
Placed(c) ==
  /\ pc[c] = "idle" <=> req[c] = None
  /\ pc[c] = "idle" => /\ todo[c] = << >> /\ reports[c] = << >> /\ view[c] = {}
                       /\ NoRequest(c)
  /\ pc[c] # "idle" => \A t \in Range(todo[c]) : t.do \in TasksFor(req[c].op)
  /\ pc[c] = "mid"  => Doing(c, "mount") \/ Doing(c, "stat") \/ AtDaemon(c)
  /\ pc[c] = "made" => Doing(c, "stat")
  /\ pc[c] = "sent" => AtDaemon(c)
  /\ pc[c] \in {"choose", "exit"} => todo[c] = << >>
  /\ pc[c] = "choose" => /\ req[c].op = "interactive"
                         /\ reports[c] = << >> /\ NoRequest(c)
  /\ pc[c] = "confirm" => /\ req[c].op \in {"mkdir", "dryrun"}
                          /\ reports[c] # << >> => req[c].op = "mkdir"

(* The steps of a command by what they do to its work and its reports.     *)
Walks(c) ==
  /\ UNCHANGED <<req, todo, view, reports>>
  /\ \E l \in Places :
       /\ pc' = [pc EXCEPT ![c] = l]
       /\ \/ pc[c] = "run" /\ l = "mid" /\ (Doing(c, "mount") \/ Doing(c, "stat") \/ AtDaemon(c))
          \/ pc[c] = "mid" /\ l = "made" /\ Doing(c, "stat")
          \/ pc[c] = "mid" /\ l = "sent" /\ AtDaemon(c)
          \/ pc[c] = "run" /\ l = "confirm" /\ Doing(c, "fix") /\ req[c].op # "dryrun"
          \/ pc[c] = "run" /\ l = "exit" /\ todo[c] = << >>
Speaks(c) ==
  /\ UNCHANGED <<req, view>>
  /\ pc[c] \in {"run", "mid", "made", "sent"} /\ todo[c] # << >>
  /\ \E rs \in Seq(Reports) :
       /\ Tells(c, rs) /\ rs # << >>
       /\ \A r \in Range(rs) : r.as \in SaidOf(Do(c).do) /\ r.of \in Range(Do(c).on)
       /\ Len(rs) = Len(Do(c).on) /\ \A i \in 1..Len(rs) : rs[i].of = Do(c).on[i]
Skips(c) ==
  /\ UNCHANGED <<req, view, reports>>
  /\ pc[c] = "run" /\ Doing(c, "fix") /\ Goes(c)
Looks(c) ==
  /\ UNCHANGED <<req, reports>>
  /\ pc[c] = "run" /\ (Doing(c, "read") \/ Doing(c, "ask")) /\ Goes(c)
  /\ \E V \in SUBSET Entries : view[c] \subseteq V /\ view' = [view EXCEPT ![c] = V]
Moves(c) == \/ Walks(c) \/ Speaks(c) \/ Skips(c) \/ Looks(c)
            \/ Plan(c) \/ ConfirmAll(c) \/ ConfirmFix(c)
            \/ \E S \in SUBSET Entries : Choose(c, S)
            \/ \E r \in Requests[c] : Run(c, r)

LEMMA TellItSpeaks ==
  ASSUME Typed, NEW c \in Commands, NEW as, NEW ok \in BOOLEAN, NEW do \in OnLocal \cup OnEntry,
         TellIt(c, as, ok), Doing(c, do), as \in SaidOf(do),
         pc[c] \in {"run", "mid", "made"}, UNCHANGED <<req, view>>
  PROVE  Speaks(c)
<1>1. todo[c] # << >> /\ Do(c).do = do
  BY DEF Doing
<1>2. It(c) \in Entries /\ Do(c).on = <<It(c)>>
  BY <1>1, ItIs, EntriesKinds DEF OnLocal, OnEntry
<1>3. as \in Words
  BY DEF SaidOf, Words, Results, OnLocal, OnEntry
<1> DEFINE rs == <<Report(It(c), as, ok)>>
<1>4. rs \in Seq(Reports) /\ Range(rs) = {Report(It(c), as, ok)}
  BY <1>2, <1>3, ReportIs
<1>5. rs # << >>
  BY <1>4, NothingThere
<1>6. Tells(c, rs)
  BY TellItTells
<1>7. Range(Do(c).on) = {It(c)}
  BY <1>2, RangeOfOne
<1>8. \A r \in Range(rs) : r.as \in SaidOf(Do(c).do) /\ r.of \in Range(Do(c).on)
  <2>1. Report(It(c), as, ok).as = as /\ Report(It(c), as, ok).of = It(c)
    BY DEF Report
  <2> HIDE DEF rs
  <2> QED
    BY <1>1, <1>4, <1>7, <2>1
<1>9. Len(rs) = Len(Do(c).on) /\ \A i \in 1..Len(rs) : rs[i].of = Do(c).on[i]
  BY <1>2 DEF Report
<1> HIDE DEF rs
<1> QED
  BY <1>1, <1>4, <1>5, <1>6, <1>8, <1>9 DEF Speaks

LEMMA AnswerSpeaks ==
  ASSUME Typed, NEW c \in Commands, AtDaemon(c), NEW f \in [Managed -> BOOLEAN],
         Tells(c, Answer(c, f)), pc[c] \in {"run", "mid", "sent"}, UNCHANGED <<req, view>>
  PROVE  Speaks(c)
<1> DEFINE rs == Answer(c, f)
<1>1. /\ rs \in Seq(Reports) /\ rs # << >> /\ Tells(c, rs)
      /\ Range(rs) = {Report(e, As(c), f[e]) : e \in Range(Do(c).on)}
      /\ Len(rs) = Len(Do(c).on)
      /\ \A i \in 1..Len(Do(c).on) : rs[i] = Report(Do(c).on[i], As(c), f[Do(c).on[i]])
  BY AnswerIs
<1> HIDE DEF rs
<1>2. todo[c] # << >>
  BY DEF AtDaemon, Doing
<1>3. As(c) \in SaidOf(Do(c).do)
  BY DEF AtDaemon, As, SaidOf, Doing
<1>4. \A r \in Range(rs) : r.as \in SaidOf(Do(c).do) /\ r.of \in Range(Do(c).on)
  BY <1>1, <1>3 DEF Report
<1>5. \A i \in 1..Len(rs) : rs[i].of = Do(c).on[i]
  <2>1. \A e, a, ok : Report(e, a, ok).of = e
    BY DEF Report
  <2> QED
    BY <1>1, <2>1
<1> QED
  BY <1>1, <1>2, <1>4, <1>5 DEF Speaks

LEMMA FailedSpeaks ==
  ASSUME Typed, NEW c \in Commands, AtDaemon(c), AllFailed(c), pc[c] \in {"run", "mid", "sent"},
         UNCHANGED <<req, view>>
  PROVE  Speaks(c)
<1> DEFINE f == [e \in Managed |-> FALSE]
<1>1. f \in [Managed -> BOOLEAN] /\ Tells(c, Answer(c, f))
  BY AllFailedTells, FailedIsAnswer
<1> HIDE DEF f
<1> QED
  BY <1>1, AnswerSpeaks

LEMMA LocalStepMoves ==
  ASSUME Typed, NEW c \in Commands, LocalStep(c)
  PROVE  Moves(c)
<1>1. CASE LocalSkipped(c)
  <2>1. CASE Doing(c, "mount") /\ TellIt(c, "mounted", TRUE)
    BY <1>1, <2>1, TellItSpeaks DEF LocalSkipped, Moves, OnLocal, SaidOf
  <2>2. CASE Doing(c, "unmount") /\ TellIt(c, "unmounted", TRUE)
    BY <1>1, <2>2, TellItSpeaks DEF LocalSkipped, Moves, OnLocal, SaidOf
  <2> QED
    BY <1>1, <2>1, <2>2 DEF LocalSkipped
<1>2. CASE LocalCheck(c)
  <2>1. CASE At(c, "mid") /\ UNCHANGED <<todo, reports>>
    BY <1>2, <2>1 DEF LocalCheck, At, Walks, Moves, Places
  <2>2. CASE TellIt(c, "mounted", FALSE)
    BY <1>2, <2>2, TellItSpeaks DEF LocalCheck, Moves, OnLocal, SaidOf
  <2> QED
    BY <1>2, <2>1, <2>2 DEF LocalCheck
<1>3. CASE LocalMount(c)
  <2>1. PICK ok \in BOOLEAN : TellIt(c, "mounted", ok)
    BY <1>3 DEF LocalMount
  <2> QED
    BY <1>3, <2>1, TellItSpeaks DEF LocalMount, Moves, OnLocal, SaidOf
<1>4. CASE LocalUnmount(c)
  <2>1. PICK ok \in BOOLEAN : TellIt(c, "unmounted", ok)
    BY <1>4 DEF LocalUnmount
  <2> QED
    BY <1>4, <2>1, TellItSpeaks DEF LocalUnmount, Moves, OnLocal, SaidOf
<1> QED
  BY <1>1, <1>2, <1>3, <1>4 DEF LocalStep

LEMMA ManagedStepMoves ==
  ASSUME Typed, NEW c \in Commands, Placed(c), ManagedStep(c)
  PROVE  Moves(c)
<1>1. CASE Ensure(c)
  <2>1. CASE At(c, "mid") /\ UNCHANGED <<todo, reports>>
    BY <1>1, <2>1 DEF Ensure, At, Walks, Moves, Places
  <2>2. CASE AllFailed(c)
    BY <1>1, <2>2, FailedSpeaks DEF Ensure, Moves
  <2> QED
    BY <1>1, <2>1, <2>2 DEF Ensure
<1>2. CASE Send(c)
  <2>1. CASE At(c, "sent") /\ UNCHANGED <<todo, reports>>
    BY <1>2, <2>1 DEF Send, At, Walks, Moves, Places
  <2>2. CASE AllFailed(c)
    BY <1>2, <2>2, FailedSpeaks DEF Send, Moves
  <2> QED
    BY <1>2, <2>1, <2>2 DEF Send
<1>3. CASE Reply(c)
  <2>1. AtDaemon(c) /\ pc[c] = "sent" /\ UNCHANGED <<req, view>>
    BY <1>3 DEF Reply, Placed
  <2>2. Tells(c, Answer(c, Granted(c))) /\ Granted(c) \in [Managed -> BOOLEAN]
    BY <1>3, <2>1, ReplyTells
  <2> QED
    BY <2>1, <2>2, AnswerSpeaks DEF Moves
<1>4. CASE ReplyLost(c)
  BY <1>4, FailedSpeaks DEF ReplyLost, Placed, Moves
<1> QED
  BY <1>1, <1>2, <1>3, <1>4 DEF ManagedStep

LEMMA MkdirStepMoves ==
  ASSUME Typed, NEW c \in Commands, Placed(c), MkdirStep(c)
  PROVE  Moves(c)
<1>1. CASE Stat(c)
  <2>1. CASE At(c, "mid") /\ UNCHANGED <<todo, reports>>
    BY <1>1, <2>1 DEF Stat, At, Walks, Moves, Places
  <2>2. CASE \E as \in {"created", "existing", "mismatch"}, ok \in BOOLEAN : TellIt(c, as, ok)
    BY <1>1, <2>2, TellItSpeaks DEF Stat, Moves, OnEntry, SaidOf
  <2> QED
    BY <1>1, <2>1, <2>2 DEF Stat
<1>2. CASE Make(c)
  <2>1. CASE At(c, "made") /\ UNCHANGED <<todo, reports>>
    BY <1>2, <2>1 DEF Make, At, Walks, Moves, Places
  <2>2. CASE TellIt(c, "existing", FALSE)
    BY <1>2, <2>2, TellItSpeaks DEF Make, Moves, OnEntry, SaidOf
  <2> QED
    BY <1>2, <2>1, <2>2 DEF Make
<1>3. CASE OwnMade(c)
  <2>1. PICK ok \in BOOLEAN : TellIt(c, "created", ok)
    BY <1>3 DEF OwnMade
  <2> QED
    BY <1>3, <2>1, TellItSpeaks DEF OwnMade, Placed, Moves, OnEntry, SaidOf
<1>4. CASE Fix(c)
  <2>1. CASE Onward(c)
    BY <1>4, <2>1, OnwardGoes DEF Fix, Skips, Moves
  <2>2. CASE ~Onward(c)
    BY <1>4, <2>2 DEF Fix, At, Walks, Moves, Places
  <2> QED
    BY <2>1, <2>2
<1>5. CASE Own(c)
  <2>1. PICK ok \in BOOLEAN : TellIt(c, "fixed", ok)
    BY <1>5 DEF Own
  <2> QED
    BY <1>5, <2>1, TellItSpeaks DEF Own, Moves, OnEntry, SaidOf
<1> QED
  BY <1>1, <1>2, <1>3, <1>4, <1>5 DEF MkdirStep

LEMMA StepMoves ==
  ASSUME Typed, NEW c \in Commands, Placed(c),
         (\E r \in Requests[c] : Run(c, r)) \/ CommandStep(c) \/ UserStep(c)
  PROVE  Moves(c)
<1>1. CASE Read(c)
  <2>1. todo[c] # << >> /\ Do(c).do = "read" /\ Goes(c)
    BY <1>1, OnwardGoes DEF Read, Doing
  <2>2. It(c) \in Entries /\ view[c] \subseteq Entries
    BY <2>1, ItIs, EntriesKinds DEF OnLocal, Typed
  <2>3. \E V \in SUBSET Entries : view[c] \subseteq V /\ view' = [view EXCEPT ![c] = V]
    <3>1. view' = [view EXCEPT ![c] = view[c]] \/ view' = [view EXCEPT ![c] = view[c] \cup {It(c)}]
      BY <1>1 DEF Read
    <3> QED
      BY <2>2, <3>1
  <2> QED
    BY <1>1, <2>1, <2>3 DEF Read, Looks, Moves
<1>2. CASE Ask(c)
  <2>1. Goes(c) /\ view[c] \subseteq Entries /\ rec \subseteq Entries
    BY <1>2, OnwardGoes, EntriesKinds DEF Ask, Typed
  <2>2. \E V \in SUBSET Entries : view[c] \subseteq V /\ view' = [view EXCEPT ![c] = V]
    <3>1. view' = [view EXCEPT ![c] = view[c]] \/ view' = [view EXCEPT ![c] = view[c] \cup rec]
      BY <1>2 DEF Ask, Typed
    <3> QED
      BY <2>1, <3>1
  <2> QED
    BY <1>2, <2>1, <2>2 DEF Ask, Looks, Moves
<1>3. CASE Exit(c)
  BY <1>3 DEF Exit, At, Walks, Moves, Places
<1> QED
  BY <1>1, <1>2, <1>3, LocalStepMoves, ManagedStepMoves, MkdirStepMoves
     DEF CommandStep, UserStep, Moves

LEMMA MismatchesAre ==
  ASSUME Typed, NEW c \in Commands
  PROVE  /\ Mismatches(c) \in Seq(Reports)
         /\ Range(Mismatches(c)) = {r \in Range(reports[c]) : r.as = "mismatch"}
<1> DEFINE s == reports[c]
           T == {i \in DOMAIN s : s[i].as = "mismatch"}
<1>1. s \in Seq(Reports) /\ T \subseteq DOMAIN s
  BY DEF Typed
<1>2. Mismatches(c) = Picked(s, T)
  BY DEF Mismatches
<1>3. {s[i] : i \in T} = {r \in Range(s) : r.as = "mismatch"}
  BY DEF Range
<1> HIDE DEF s, T
<1>4. Picked(s, T) \in Seq(Reports) /\ Range(Picked(s, T)) = {s[i] : i \in T}
  BY <1>1, PickedFrom
<1> QED
  BY <1>2, <1>3, <1>4 DEF s

OwnWork(c) == LET ms == Mismatches(c) IN [i \in DOMAIN ms |-> Task("own", <<ms[i].of>>)]
OffendersIn(c) == [i \in DOMAIN Mismatches(c) |-> Mismatches(c)[i].of]

LEMMA OwnWorkIs ==
  ASSUME Typed, NEW c \in Commands
  PROVE  /\ OwnWork(c) = Each("own", OffendersIn(c)) /\ OffendersIn(c) \in Seq(Entries)
         /\ OwnWork(c) \in Seq(Fitting)
         /\ \A t \in Range(OwnWork(c)) : \E r \in Range(reports[c]) : r.as = "mismatch" /\ t = Task("own", <<r.of>>)
<1> DEFINE ms == Mismatches(c)
           n == Len(ms)
           es == OffendersIn(c)
<1>1. ms \in Seq(Reports) /\ Range(ms) = {r \in Range(reports[c]) : r.as = "mismatch"}
  BY MismatchesAre
<1> HIDE DEF ms
<1>2. n \in Nat /\ DOMAIN ms = 1..n /\ \A i \in 1..n : ms[i] \in Reports
  BY <1>1, LenProperties
<1>3. es = [i \in 1..n |-> ms[i].of]
  BY <1>2 DEF OffendersIn, ms
<1> HIDE DEF n, es
<1>4. es \in [1..n -> Entries] /\ \A i \in 1..n : es[i] = ms[i].of
  BY <1>2, <1>3 DEF Reports
<1>5. es \in Seq(Entries) /\ Len(es) = n /\ DOMAIN es = 1..n
  BY <1>2, <1>4, RangeOfFunction
<1>6. /\ Each("own", es) \in Seq(Fitting)
      /\ Range(Each("own", es)) = {Task("own", <<e>>) : e \in Range(es)}
  <2>1. "own" \in OnLocal \cup OnEntry /\ "own" \notin OnLocal
    BY DEF OnLocal, OnEntry
  <2> QED
    BY <1>5, <2>1, EachIs
<1>7. OwnWork(c) = Each("own", es)
  BY <1>2, <1>4, <1>5 DEF OwnWork, Each, ms
<1>8. ASSUME NEW e \in Range(es)
      PROVE  \E r \in Range(reports[c]) : r.as = "mismatch" /\ e = r.of
  <2>1. PICK i \in 1..n : e = es[i]
    BY <1>5, RangeIs
  <2>2. ms[i] \in Range(ms) /\ e = ms[i].of
    BY <1>2, <1>4, <2>1 DEF Range
  <2> QED
    BY <1>1, <2>2
<1>9. \A t \in Range(Each("own", es)) : \E r \in Range(reports[c]) : r.as = "mismatch" /\ t = Task("own", <<r.of>>)
  <2>1. SUFFICES ASSUME NEW t \in Range(Each("own", es))
                 PROVE  \E r \in Range(reports[c]) : r.as = "mismatch" /\ t = Task("own", <<r.of>>)
    OBVIOUS
  <2>2. PICK e \in Range(es) : t = Task("own", <<e>>)
    BY <1>6
  <2>3. PICK r \in Range(reports[c]) : r.as = "mismatch" /\ e = r.of
    BY <1>8
  <2> QED
    BY <2>2, <2>3
<1> QED
  BY <1>5, <1>6, <1>7, <1>9 DEF es

(* What the selector's outcome makes a command do.                         *)
ChosenWork(c, S) == UnmountWork(Only(Order, S \cap view[c])) \o MountWork(Only(Order, S \ view[c]))
LEMMA ChosenWorkIs ==
  ASSUME NEW c \in Commands, NEW S
  PROVE  /\ ChosenWork(c, S) \in Seq(Fitting)
         /\ \A t \in Range(ChosenWork(c, S)) :
              \/ t.do \in {"unmount", "unmount at daemon"} /\ Range(t.on) \subseteq view[c]
              \/ t.do \in {"mount", "mount at daemon"} /\ \A e \in Range(t.on) : e \notin view[c]
<1> DEFINE us == Only(Order, S \cap view[c])
           ms == Only(Order, S \ view[c])
           p == Work("unmount", "unmount at daemon", us)
           q == Work("mount", "mount at daemon", ms)
<1>1. /\ us \in Seq(Entries) /\ Range(us) \subseteq view[c]
      /\ ms \in Seq(Entries) /\ \A e \in Range(ms) : e \notin view[c]
  BY OrderIsList, OnlyThose
<1> HIDE DEF us, ms
<1>2. "mount at daemon" \in AtDaemonKinds /\ "unmount at daemon" \in AtDaemonKinds
  BY DEF AtDaemonKinds
<1>3. /\ p \in Seq(Fitting)
      /\ \A t \in Range(p) : t.do \in {"unmount", "unmount at daemon"} /\ Range(t.on) \subseteq Range(us)
  BY <1>1, <1>2, WorkIs
<1>4. /\ q \in Seq(Fitting)
      /\ \A t \in Range(q) : t.do \in {"mount", "mount at daemon"} /\ Range(t.on) \subseteq Range(ms)
  BY <1>1, <1>2, WorkIs
<1>5. ChosenWork(c, S) = p \o q
  BY DEF ChosenWork, UnmountWork, MountWork, us, ms
<1> HIDE DEF p, q
<1>6. p \o q \in Seq(Fitting) /\ Range(p \o q) = Range(p) \cup Range(q)
  <2>1. p \in Seq(Fitting) /\ q \in Seq(Fitting)
    BY <1>3, <1>4
  <2> QED
    BY <2>1, RangeOfConcat
<1> QED
  BY <1>1, <1>3, <1>4, <1>5, <1>6

AllNames(c) == [req[c] EXCEPT !.args = Order]
LEMMA AllNamesIs ==
  ASSUME Typed, NEW c \in Commands, req[c] # None
  PROVE  /\ AllNames(c) \in Request /\ Known(AllNames(c))
         /\ AllNames(c).op = req[c].op /\ AllNames(c).args = Order
<1>1. req[c] \in Request
  BY DEF Typed
<1>2. Order \in Seq(Entries \cup {Unknown})
  BY OrderIsList, SeqMonotonic
<1>3. \A i \in DOMAIN Order : Order[i] # Unknown
  BY UnknownIsUnknown DEF Entries
<1> QED
  BY <1>1, <1>2, <1>3 DEF AllNames, Request, Known

-----------------------------------------------------------------------------
Same5(x) == /\ pc'[x] = pc[x] /\ req'[x] = req[x] /\ todo'[x] = todo[x]
            /\ view'[x] = view[x] /\ reports'[x] = reports[x]
WorkTyped == /\ pc \in [Commands -> Places]
             /\ req \in [Commands -> Request \cup {None}]
             /\ todo \in [Commands -> Seq(Fitting)]
             /\ view \in [Commands -> SUBSET Entries]
             /\ reports \in [Commands -> Seq(Reports)]

(* A step that gives a command new work.                                   *)
LEMMA WorkReplaced ==
  ASSUME WorkTyped, NEW c \in Commands, NEW ts \in Seq(Fitting), NEW l \in Places,
         Then(c, ts), At(c, l), UNCHANGED <<req, view, reports>>
  PROVE  /\ WorkTyped' /\ \A x \in Commands : x # c => Same5(x)
         /\ todo'[c] = ts /\ pc'[c] = l
         /\ req'[c] = req[c] /\ view'[c] = view[c] /\ reports'[c] = reports[c]
BY DEF WorkTyped, Then, At, Same5

LEMMA MovesTyped ==
  ASSUME Typed, NEW c \in Commands, Placed(c), Moves(c)
  PROVE  WorkTyped' /\ \A x \in Commands : x # c => Same5(x)
<1>0. WorkTyped
  BY DEF Typed, WorkTyped
<1>1. CASE Walks(c)
  BY <1>0, <1>1 DEF WorkTyped, Walks, Same5
<1>2. CASE Speaks(c)
  <2>1. PICK rs \in Seq(Reports) : Tells(c, rs)
    BY <1>2 DEF Speaks
  <2>2. Goes(c) /\ todo[c] # << >> /\ UNCHANGED <<req, view>>
    BY <1>2, <2>1 DEF Speaks, Tells
  <2> QED
    BY <1>0, <2>1, <2>2, GoesOn, TellsOf DEF WorkTyped, Same5
<1>3. CASE Skips(c)
  <2>1. Goes(c) /\ todo[c] # << >> /\ UNCHANGED <<req, view, reports>>
    BY <1>3 DEF Skips, Doing
  <2> QED
    BY <1>0, <2>1, GoesOn DEF WorkTyped, Same5
<1>4. CASE Looks(c)
  <2>1. Goes(c) /\ todo[c] # << >> /\ UNCHANGED <<req, reports>>
    BY <1>4 DEF Looks, Doing
  <2>2. PICK V \in SUBSET Entries : view' = [view EXCEPT ![c] = V]
    BY <1>4 DEF Looks
  <2> QED
    BY <1>0, <2>1, <2>2, GoesOn DEF WorkTyped, Same5
<1>5. CASE Plan(c)
  <2>1. req[c] \in Request
    BY <1>5 DEF Plan, Placed, Typed
  <2>2. WorkFor(req[c]) \in Seq(Fitting)
    BY <2>1, WorkForIs
  <2>3. \E l \in Places : At(c, l)
    BY <1>5 DEF Plan, Places
  <2> QED
    BY <1>0, <1>5, <2>2, <2>3, WorkReplaced DEF Plan
<1>6. CASE ConfirmAll(c)
  <2>1. req[c] # None
    BY <1>6 DEF ConfirmAll, Placed
  <2>2. WorkFor(AllNames(c)) \in Seq(Fitting)
    BY <2>1, AllNamesIs, WorkForIs
  <2>3. << >> \in Seq(Fitting) /\ "run" \in Places
    BY EmptySeq DEF Places
  <2> QED
    BY <1>0, <1>6, <2>2, <2>3, WorkReplaced DEF ConfirmAll, AllNames
<1>7. CASE ConfirmFix(c)
  <2>1. << >> \in Seq(Fitting) /\ "run" \in Places
    BY EmptySeq DEF Places
  <2>2. OwnWork(c) \in Seq(Fitting)
    BY OwnWorkIs
  <2> QED
    BY <1>0, <1>7, <2>1, <2>2, WorkReplaced DEF ConfirmFix, OwnWork
<1>8. CASE \E S \in SUBSET Entries : Choose(c, S)
  <2>1. PICK S \in SUBSET Entries : Choose(c, S)
    BY <1>8
  <2>2. ChosenWork(c, S) \in Seq(Fitting)
    BY ChosenWorkIs
  <2>3. "run" \in Places
    BY DEF Places
  <2> QED
    BY <1>0, <2>1, <2>2, <2>3, WorkReplaced DEF Choose, ChosenWork
<1>9. CASE \E r \in Requests[c] : Run(c, r)
  <2>1. PICK r \in Requests[c] : Run(c, r)
    BY <1>9
  <2>2. r \in Request
    BY RequestsAreLines
  <2>3. WorkFor(r) \in Seq(Fitting) /\ Refresh \o <<Task("plan", << >>)>> \in Seq(Fitting)
    BY <2>2, WorkForIs, RefreshIs
  <2>4. PICK l \in Places, ts \in Seq(Fitting) : Then(c, ts) /\ At(c, l)
    BY <2>1, <2>3 DEF Run, Places
  <2>5. req' = [req EXCEPT ![c] = r] /\ UNCHANGED <<view, reports>>
    BY <2>1 DEF Run
  <2> QED
    BY <1>0, <2>2, <2>4, <2>5 DEF WorkTyped, Then, At, Same5
<1> QED
  BY <1>1, <1>2, <1>3, <1>4, <1>5, <1>6, <1>7, <1>8, <1>9 DEF Moves

-----------------------------------------------------------------------------
(* The work of a command: what it may have to do where it is, what it has  *)
(* asked the daemon to do, and what it may have told.                      *)

(* While a command still reads states it does nothing else.                *)
Reading(c) ==
  (\E t \in Range(todo[c]) : t.do \in Reads) =>
     /\ pc[c] = "run" /\ reports[c] = << >> /\ NoRequest(c)
     /\ \A t \in Range(todo[c]) : t.do \in Reads

(* What a command does and what it has asked the daemon to do is what its  *)
(* user asked for.                                                         *)
AsOf(do)   == IF do \in {"mount", "mount at daemon"} THEN "mounted" ELSE "unmounted"
Verb(as)   == IF as = "mounted" THEN "mount" ELSE "unmount"
Asks(c, e, as) ==
  /\ pc[c] \notin {"idle", "choose"}
  /\ \/ req[c].op = Verb(as) /\ Known(req[c]) /\ e \in Range(req[c].args)
     \/ req[c].op = "interactive" /\ (e \in view[c] <=> as = "unmounted")
Asked(c) ==
  /\ \A t \in Range(todo[c]) : t.do \in Works => \A e \in Range(t.on) : Asks(c, e, AsOf(t.do))
  /\ \A as \in Results : batch[c][as] # None =>
       \A e \in Range(batch[c][as].left) : Asks(c, e, as)

Telling(c) ==
  pc[c] # "idle" /\ req[c].op \in {"mount", "unmount"} =>
    /\ \A r \in Range(reports[c]) : /\ r.as \in Results /\ req[c].op = Verb(r.as)
                                    /\ Known(req[c]) /\ r.of \in Range(req[c].args)
    /\ Known(req[c]) /\ req[c].args # << >> =>
         reports[c] # << >> \/ \E t \in Range(todo[c]) : t.do \in Works \cup {"plan"}

WorkInv(c) == Placed(c) /\ Reading(c) /\ Asked(c) /\ Telling(c)

BatchLess(x) ==
  \A as \in Results : batch'[x][as] # None =>
    batch[x][as] # None /\ Range(batch'[x][as].left) \subseteq Range(batch[x][as].left)

LEMMA OthersKeepWork ==
  ASSUME NEW x \in Commands, WorkInv(x), Same5(x), BatchLess(x)
  PROVE  WorkInv(x)'
<1>1. \A as \in Results : \A e : Asks(x, e, as) => Asks(x, e, as)'
  BY DEF Asks, Same5
<1>2. NoRequest(x) => NoRequest(x)'
  BY DEF NoRequest, BatchLess
<1>3. Placed(x)'
  BY <1>2 DEF WorkInv, Placed, Same5, Doing, Do, AtDaemon
<1>4. Reading(x)'
  BY <1>2 DEF WorkInv, Reading, Same5
<1>5. \A do : AsOf(do) \in Results
  BY DEF AsOf, Results
<1>6. Asked(x)'
  BY <1>1, <1>5 DEF WorkInv, Asked, Same5, BatchLess
<1>7. Telling(x)'
  BY DEF WorkInv, Telling, Same5
<1> QED
  BY <1>3, <1>4, <1>6, <1>7 DEF WorkInv
LEMMA ReadsAlone ==
  ASSUME Typed, NEW c \in Commands, Reading(c), todo[c] # << >>, Do(c).do \notin Reads
  PROVE  \A t \in Range(todo[c]) : t.do \notin Reads
BY HeadOfWork DEF Reading

LEMMA WalksKeepWork ==
  ASSUME Typed, NEW c \in Commands, WorkInv(c), Walks(c), BatchLess(c)
  PROVE  WorkInv(c)'
<1>1. pc \in [Commands -> Places]
  BY DEF Typed
<1>2. /\ pc[c] \in {"run", "mid"}
      /\ pc'[c] \notin {"idle", "choose"} /\ pc'[c] # "run"
      /\ req'[c] = req[c] /\ todo'[c] = todo[c] /\ view'[c] = view[c] /\ reports'[c] = reports[c]
  BY <1>1 DEF Walks
<1>3. \A as \in Results : \A e : Asks(c, e, as) => Asks(c, e, as)'
  BY <1>2 DEF Asks
<1>4. Placed(c)'
  <2>1. pc'[c] = "mid"  => Doing(c, "mount") \/ Doing(c, "stat") \/ AtDaemon(c)
    BY <1>1 DEF Walks
  <2>2. pc'[c] = "made" => Doing(c, "stat")
    BY <1>1 DEF Walks
  <2>3. pc'[c] = "sent" => AtDaemon(c)
    BY <1>1 DEF Walks
  <2>4. pc'[c] = "exit" => todo[c] = << >>
    BY <1>1 DEF Walks
  <2>5. pc'[c] = "confirm" => Doing(c, "fix") /\ req[c].op = "mkdir"
    <3> SUFFICES ASSUME pc'[c] = "confirm" PROVE Doing(c, "fix") /\ req[c].op = "mkdir"
      OBVIOUS
    <3>1. Doing(c, "fix") /\ req[c].op # "dryrun"
      BY <1>1 DEF Walks
    <3>2. Do(c) \in Range(todo[c]) /\ Do(c).do = "fix"
      BY <3>1, HeadOfWork DEF Doing
    <3>3. "fix" \in TasksFor(req[c].op)
      BY <1>2, <3>2 DEF WorkInv, Placed
    <3> QED
      BY <3>1, <3>3 DEF TasksFor, Reads, Works
  <2> QED
    BY <1>2, <2>1, <2>2, <2>3, <2>4, <2>5 DEF WorkInv, Placed, Doing, Do, AtDaemon
<1>5. Reading(c)'
  <2>1. \A t \in Range(todo[c]) : t.do \notin Reads
    <3>1. CASE todo[c] = << >>
      BY <3>1, NothingListed
    <3>2. CASE todo[c] # << >>
      <4>1. Do(c).do \notin Reads
        BY <3>2 DEF Walks, Doing, AtDaemon, Reads
      <4> QED
        BY <3>2, <4>1, ReadsAlone DEF WorkInv
    <3> QED
      BY <3>1, <3>2
  <2> QED
    BY <1>2, <2>1 DEF Reading
<1>6. \A do : AsOf(do) \in Results
  BY DEF AsOf, Results
<1>7. Asked(c)'
  BY <1>2, <1>3, <1>6 DEF WorkInv, Asked, BatchLess
<1>8. Telling(c)'
  BY <1>2 DEF WorkInv, Telling
<1> QED
  BY <1>4, <1>5, <1>7, <1>8 DEF WorkInv

LEMMA SpeaksKeepWork ==
  ASSUME Typed, NEW c \in Commands, WorkInv(c), Speaks(c), BatchLess(c)
  PROVE  WorkInv(c)'
<1>1. PICK rs \in Seq(Reports) :
        /\ Tells(c, rs) /\ rs # << >>
        /\ \A r \in Range(rs) : r.as \in SaidOf(Do(c).do) /\ r.of \in Range(Do(c).on)
  BY DEF Speaks
<1>2. /\ Goes(c) /\ todo[c] # << >> /\ pc[c] \in {"run", "mid", "made", "sent"}
      /\ req'[c] = req[c] /\ view'[c] = view[c]
  BY <1>1 DEF Speaks, Tells
<1>3. /\ pc'[c] = "run" /\ Range(todo[c]) = {Do(c)} \cup Range(todo'[c])
      /\ reports'[c] = reports[c] \o rs /\ Range(reports'[c]) = Range(reports[c]) \cup Range(rs)
  BY <1>1, <1>2, GoesOn, TellsOf
<1>4. reports'[c] # << >>
  <2>1. reports[c] \in Seq(Reports)
    BY DEF Typed
  <2> QED
    BY <1>1, <1>3, <2>1, ConcatEqualIffEmpty
<1>5. PICK r0 : r0 \in Range(rs)
  BY <1>1, NothingThere
<1>6. Do(c).do \notin Reads
  BY <1>1, <1>5 DEF SaidOf, Reads
<1>7. \A t \in Range(todo[c]) : t.do \notin Reads
  BY <1>2, <1>6, ReadsAlone DEF WorkInv
<1>8. \A as \in Results : \A e : Asks(c, e, as) => Asks(c, e, as)'
  BY <1>2, <1>3 DEF Asks
<1>9. Placed(c)'
  BY <1>2, <1>3 DEF WorkInv, Placed
<1>10. Reading(c)'
  BY <1>3, <1>7 DEF Reading
<1>11. \A do : AsOf(do) \in Results
  BY DEF AsOf, Results
<1>12. Asked(c)'
  BY <1>3, <1>8, <1>11 DEF WorkInv, Asked, BatchLess
<1>13. Telling(c)'
  <2> SUFFICES ASSUME req[c].op \in {"mount", "unmount"}, NEW r \in Range(rs)
               PROVE  /\ r.as \in Results /\ req[c].op = Verb(r.as)
                      /\ Known(req[c]) /\ r.of \in Range(req[c].args)
    BY <1>2, <1>3, <1>4 DEF WorkInv, Telling
  <2>1. Do(c).do \in TasksFor(req[c].op)
    BY <1>2, <1>3 DEF WorkInv, Placed
  <2>2. /\ Do(c).do \in Works /\ AsOf(Do(c).do) \in Results /\ req[c].op = Verb(AsOf(Do(c).do))
        /\ SaidOf(Do(c).do) = {AsOf(Do(c).do)}
    BY <1>6, <2>1 DEF TasksFor, Works, AsOf, Verb, SaidOf, Results
  <2>3. Asks(c, r.of, AsOf(Do(c).do))
    BY <1>1, <1>3, <2>2 DEF WorkInv, Asked
  <2> QED
    BY <1>1, <2>2, <2>3 DEF Asks
<1> QED
  BY <1>9, <1>10, <1>12, <1>13 DEF WorkInv

LEMMA SkipsKeepWork ==
  ASSUME Typed, NEW c \in Commands, WorkInv(c), Skips(c), BatchLess(c)
  PROVE  WorkInv(c)'
<1>1. /\ Goes(c) /\ todo[c] # << >> /\ Do(c).do = "fix" /\ pc[c] = "run"
      /\ req'[c] = req[c] /\ view'[c] = view[c] /\ reports'[c] = reports[c]
  BY DEF Skips, Doing
<1>2. pc'[c] = "run" /\ Range(todo[c]) = {Do(c)} \cup Range(todo'[c])
  BY <1>1, GoesOn
<1>3. "fix" \in TasksFor(req[c].op)
  BY <1>1, <1>2 DEF WorkInv, Placed
<1>4. \A t \in Range(todo[c]) : t.do \notin Reads
  BY <1>1, ReadsAlone DEF WorkInv, Reads
<1>5. \A as \in Results : \A e : Asks(c, e, as) => Asks(c, e, as)'
  BY <1>1, <1>2 DEF Asks
<1>6. Placed(c)'
  BY <1>1, <1>2 DEF WorkInv, Placed
<1>7. Reading(c)'
  BY <1>2, <1>4 DEF Reading
<1>8. \A do : AsOf(do) \in Results
  BY DEF AsOf, Results
<1>9. Asked(c)'
  BY <1>1, <1>2, <1>5, <1>8 DEF WorkInv, Asked, BatchLess
<1>10. Telling(c)'
  BY <1>1, <1>3 DEF Telling, TasksFor, Reads
<1> QED
  BY <1>6, <1>7, <1>9, <1>10 DEF WorkInv

LEMMA LooksKeepWork ==
  ASSUME Typed, NEW c \in Commands, WorkInv(c), Looks(c), BatchLess(c)
  PROVE  WorkInv(c)'
<1>1. /\ Goes(c) /\ todo[c] # << >> /\ Do(c).do \in {"read", "ask"} /\ pc[c] = "run"
      /\ req'[c] = req[c] /\ reports'[c] = reports[c]
  BY DEF Looks, Doing
<1>2. pc'[c] = "run" /\ Range(todo[c]) = {Do(c)} \cup Range(todo'[c])
  BY <1>1, GoesOn
<1>3. /\ reports[c] = << >> /\ NoRequest(c)
      /\ \A t \in Range(todo[c]) : t.do \in Reads
  BY <1>1, <1>2 DEF WorkInv, Reading, Reads
<1>4. NoRequest(c)'
  BY <1>3 DEF NoRequest, BatchLess
<1>5. Placed(c)'
  BY <1>1, <1>2 DEF WorkInv, Placed
<1>6. Reading(c)'
  BY <1>1, <1>2, <1>3, <1>4 DEF Reading
<1>7. Asked(c)'
  BY <1>2, <1>3, <1>4 DEF Asked, NoRequest, Reads, Works
<1>8. Telling(c)'
  BY <1>1, <1>2, <1>3, NothingListed DEF WorkInv, Telling, Works
<1> QED
  BY <1>5, <1>6, <1>7, <1>8 DEF WorkInv

LEMMA PlanKeepsWork ==
  ASSUME Typed, NEW c \in Commands, WorkInv(c), Plan(c), BatchLess(c)
  PROVE  WorkInv(c)'
<1>1. todo[c] # << >> /\ Do(c).do = "plan" /\ pc[c] = "run" /\ req[c] \in Request
  BY DEF Plan, Doing, WorkInv, Placed, Typed
<1> DEFINE ts == WorkFor(req[c])
<1>2. /\ ts \in Seq(Fitting)
      /\ \A t \in Range(ts) : /\ Known(req[c]) /\ t.do \in Kinds(req[c].op)
                              /\ Range(t.on) \subseteq Range(req[c].args)
      /\ Known(req[c]) /\ req[c].args # << >> /\ req[c].op \in {"mount", "unmount"} => Range(ts) # {}
  BY <1>1, WorkForIs
<1>3. /\ todo'[c] = ts /\ pc'[c] = IF req[c].op = "interactive" THEN "choose" ELSE "run"
      /\ req'[c] = req[c] /\ view'[c] = view[c] /\ reports'[c] = reports[c]
  BY DEF Plan, Then, At, Typed
<1> HIDE DEF ts
<1>4. reports[c] = << >> /\ NoRequest(c) /\ "plan" \in TasksFor(req[c].op)
  BY <1>1, HeadOfWork DEF WorkInv, Reading, Reads, Placed
<1>5. NoRequest(c)'
  BY <1>4 DEF NoRequest, BatchLess
<1>6. req[c].op \in {"list", "mount", "unmount", "interactive"}
  BY <1>4 DEF TasksFor
<1>7. req[c].op = "interactive" => ts = << >>
  <2>1. req[c].op = "interactive" => Range(ts) = {}
    BY <1>2 DEF Kinds
  <2> QED
    BY <1>2, <2>1, NothingThere
<1>8. \A t \in Range(ts) : t.do \in Works /\ t.do \in TasksFor(req[c].op) /\ t.do \notin Reads
                           /\ req[c].op = Verb(AsOf(t.do)) /\ req[c].op # "interactive"
  BY <1>2, <1>6 DEF Kinds, Works, TasksFor, Reads, Verb, AsOf
<1>9. Placed(c)'
  BY <1>1, <1>3, <1>4, <1>5, <1>7, <1>8 DEF WorkInv, Placed
<1>10. Reading(c)'
  BY <1>3, <1>8 DEF Reading
<1>11. Asked(c)'
  <2>1. \A t \in Range(ts) : \A e \in Range(t.on) : Asks(c, e, AsOf(t.do))'
    BY <1>2, <1>3, <1>8 DEF Asks
  <2> QED
    BY <1>3, <1>5, <2>1 DEF Asked, NoRequest
<1>12. Telling(c)'
  BY <1>2, <1>3, <1>4, <1>8, NothingListed DEF Telling
<1> QED
  BY <1>9, <1>10, <1>11, <1>12 DEF WorkInv

LEMMA ChooseKeepsWork ==
  ASSUME Typed, NEW c \in Commands, WorkInv(c), NEW S, Choose(c, S), BatchLess(c)
  PROVE  WorkInv(c)'
<1> DEFINE ts == ChosenWork(c, S)
<1>1. /\ pc[c] = "choose" /\ req[c].op = "interactive" /\ reports[c] = << >> /\ NoRequest(c)
  BY DEF Choose, WorkInv, Placed
<1>2. /\ ts \in Seq(Fitting)
      /\ \A t \in Range(ts) :
           \/ t.do \in {"unmount", "unmount at daemon"} /\ Range(t.on) \subseteq view[c]
           \/ t.do \in {"mount", "mount at daemon"} /\ \A e \in Range(t.on) : e \notin view[c]
  BY ChosenWorkIs
<1>3. /\ todo'[c] = ts /\ pc'[c] = "run"
      /\ req'[c] = req[c] /\ view'[c] = view[c] /\ reports'[c] = reports[c]
  BY DEF Choose, ChosenWork, Then, At, Typed
<1> HIDE DEF ts
<1>4. NoRequest(c)'
  BY <1>1 DEF NoRequest, BatchLess
<1>5. \A t \in Range(ts) : t.do \in TasksFor("interactive") /\ t.do \notin Reads
  BY <1>2 DEF TasksFor, Works, Reads
<1>6. Placed(c)'
  BY <1>1, <1>3, <1>5 DEF WorkInv, Placed
<1>7. Reading(c)'
  BY <1>3, <1>5 DEF Reading
<1>8. Asked(c)'
  <2>1. \A t \in Range(ts) : \A e \in Range(t.on) : Asks(c, e, AsOf(t.do))'
    BY <1>1, <1>2, <1>3 DEF Asks, AsOf
  <2> QED
    BY <1>3, <1>4, <2>1 DEF Asked, NoRequest
<1>9. Telling(c)'
  BY <1>1, <1>3 DEF Telling
<1> QED
  BY <1>6, <1>7, <1>8, <1>9 DEF WorkInv

(* Work for mkdir.                                                         *)
LEMMA MkdirKeepsWork ==
  ASSUME Typed, NEW c \in Commands, WorkInv(c), BatchLess(c),
         req[c].op \in {"mkdir", "dryrun"}, pc[c] = "confirm", pc'[c] = "run",
         req'[c] = req[c], view'[c] = view[c], reports'[c] = reports[c],
         \A t \in Range(todo'[c]) : t.do \in TasksFor(req[c].op)
  PROVE  WorkInv(c)'
<1>1. \A t \in Range(todo'[c]) : t.do \notin Reads /\ t.do \notin Works
  BY DEF TasksFor, Reads, Works
<1>2. \A as \in Results : \A e : Asks(c, e, as) => Asks(c, e, as)'
  BY DEF Asks
<1>3. Placed(c)'
  BY DEF WorkInv, Placed
<1>4. Reading(c)'
  BY <1>1 DEF Reading
<1>5. Asked(c)'
  BY <1>1, <1>2 DEF WorkInv, Asked, BatchLess
<1>6. Telling(c)'
  BY DEF Telling
<1> QED
  BY <1>3, <1>4, <1>5, <1>6 DEF WorkInv

LEMMA ConfirmsKeepWork ==
  ASSUME Typed, NEW c \in Commands, WorkInv(c), ConfirmAll(c) \/ ConfirmFix(c), BatchLess(c)
  PROVE  WorkInv(c)'
<1>1. /\ pc[c] = "confirm" /\ req[c].op \in {"mkdir", "dryrun"} /\ pc'[c] = "run"
      /\ req'[c] = req[c] /\ view'[c] = view[c] /\ reports'[c] = reports[c]
  BY DEF ConfirmAll, ConfirmFix, At, WorkInv, Placed, Typed
<1>2. CASE todo' = [todo EXCEPT ![c] = << >>]
  <2>1. Range(todo'[c]) = {}
    BY <1>2, NothingListed DEF Typed
  <2> QED
    BY <1>1, <2>1, MkdirKeepsWork
<1>3. CASE ConfirmAll(c) /\ todo' = [todo EXCEPT ![c] = WorkFor(AllNames(c))]
  <2>1. AllNames(c) \in Request /\ AllNames(c).op = req[c].op
    BY <1>1, AllNamesIs DEF WorkInv, Placed
  <2>2. \A t \in Range(WorkFor(AllNames(c))) : t.do \in Kinds(req[c].op)
    BY <2>1, WorkForIs
  <2>3. \A t \in Range(todo'[c]) : t.do \in TasksFor(req[c].op)
    BY <1>1, <1>3, <2>2 DEF Kinds, TasksFor, Typed
  <2> QED
    BY <1>1, <2>3, MkdirKeepsWork
<1>4. CASE ConfirmFix(c) /\ todo' = [todo EXCEPT ![c] = OwnWork(c)]
  <2>1. req[c].op = "mkdir"
    <3>1. PICK r : r \in Range(Mismatches(c))
      BY <1>4, MismatchesAre, NothingThere DEF ConfirmFix
    <3>2. Range(reports[c]) # {} /\ reports[c] \in Seq(Reports)
      BY <3>1, MismatchesAre DEF Typed
    <3>3. reports[c] # << >>
      BY <3>2, NothingThere
    <3> QED
      BY <1>1, <3>3 DEF WorkInv, Placed
  <2>2. \A t \in Range(todo'[c]) : t.do = "own"
    BY <1>4, OwnWorkIs DEF Typed, Task
  <2>3. \A t \in Range(todo'[c]) : t.do \in TasksFor(req[c].op)
    BY <2>1, <2>2 DEF TasksFor
  <2> QED
    BY <1>1, <2>3, MkdirKeepsWork
<1> QED
  BY <1>2, <1>3, <1>4 DEF ConfirmAll, ConfirmFix, Then, AllNames, OwnWork

LEMMA RunKeepsWork ==
  ASSUME Typed, NEW c \in Commands, WorkInv(c), NEW r \in Requests[c], Run(c, r), BatchLess(c)
  PROVE  WorkInv(c)'
<1>1. r \in Request /\ r # None
  BY RequestsAreLines
<1>2. /\ pc[c] = "idle" /\ reports[c] = << >> /\ NoRequest(c)
      /\ req'[c] = r /\ view'[c] = view[c] /\ reports'[c] = reports[c]
      /\ todo'[c] = IF r.op \in {"mkdir", "dryrun"} THEN WorkFor(r) ELSE Refresh \o <<Task("plan", << >>)>>
      /\ pc'[c] = IF r.op \in {"mkdir", "dryrun"} /\ r.args = << >> THEN "confirm" ELSE "run"
  BY DEF Run, Then, At, Typed, WorkInv, Placed
<1>3. NoRequest(c)'
  BY <1>2 DEF NoRequest, BatchLess
<1>4. CASE r.op \in {"mkdir", "dryrun"}
  <2>1. todo'[c] = WorkFor(r)
    BY <1>2, <1>4
  <2>2. \A t \in Range(todo'[c]) : t.do \in TasksFor(r.op) /\ t.do \notin Reads /\ t.do \notin Works
    BY <1>1, <1>4, <2>1, WorkForIs DEF Kinds, TasksFor, Reads, Works
  <2>3. Placed(c)'
    BY <1>1, <1>2, <1>4, <2>2 DEF Placed
  <2>4. Reading(c)'
    BY <2>2 DEF Reading
  <2>5. Asked(c)'
    BY <1>3, <2>2 DEF Asked, NoRequest
  <2>6. Telling(c)'
    BY <1>2, <1>4 DEF Telling
  <2> QED
    BY <2>3, <2>4, <2>5, <2>6 DEF WorkInv
<1>5. CASE r.op \notin {"mkdir", "dryrun"}
  <2>1. todo'[c] = Refresh \o <<Task("plan", << >>)>> /\ pc'[c] = "run"
    BY <1>2, <1>5
  <2>2. \A t \in Range(todo'[c]) : t.do \in Reads
    BY <2>1, RefreshIs DEF Reads
  <2>3. Task("plan", << >>) \in Range(todo'[c]) /\ Task("plan", << >>).do = "plan"
    BY <2>1, RefreshIs DEF Task
  <2>4. Reads \subseteq TasksFor(r.op) /\ Reads \cap Works = {}
    BY <1>1, <1>5 DEF TasksFor, Request, Ops, Reads, Works
  <2>5. Placed(c)'
    BY <1>1, <1>2, <2>1, <2>2, <2>4 DEF Placed
  <2>6. Reading(c)'
    BY <1>2, <1>3, <2>1, <2>2 DEF Reading
  <2>7. Asked(c)'
    BY <1>3, <2>2, <2>4 DEF Asked, NoRequest
  <2>8. Telling(c)'
    BY <1>2, <2>3, NothingListed DEF Telling
  <2> QED
    BY <2>5, <2>6, <2>7, <2>8 DEF WorkInv
<1> QED
  BY <1>4, <1>5

LEMMA MovesKeepWork ==
  ASSUME Typed, NEW c \in Commands, WorkInv(c), Moves(c), BatchLess(c)
  PROVE  WorkInv(c)'
BY WalksKeepWork, SpeaksKeepWork, SkipsKeepWork, LooksKeepWork, PlanKeepsWork,
   ChooseKeepsWork, ConfirmsKeepWork, RunKeepsWork DEF Moves

-----------------------------------------------------------------------------
(* Requests at the daemon: only sending gives it more to do, and what it   *)
(* treats only gets less.                                                  *)

BatchTyped  == batch \in [Commands -> [Results -> Batches \cup {None}]]
AllLess     == \A x \in Commands : BatchLess(x)
SystemTyped == /\ mounts \in [Dirs -> Seq(Mount)] /\ dir \in [Dirs -> DirStates]
               /\ up \in BOOLEAN /\ rec \subseteq Managed /\ (rec # {} => up)

LEMMA ForgetIs ==
  ASSUME Typed, NEW c \in Commands, NEW as \in Results, Forget(c, as)
  PROVE  /\ BatchTyped' /\ AllLess
         /\ batch'[c][as] = None
         /\ \A x \in Commands, a \in Results : <<x, a>> # <<c, as>> => batch'[x][a] = batch[x][a]
<1>1. BatchTyped
  BY DEF Typed, BatchTyped
<1> QED
  BY <1>1 DEF Forget, BatchTyped, AllLess, BatchLess

LEMMA SameBatch ==
  ASSUME Typed, UNCHANGED batch
  PROVE  BatchTyped' /\ AllLess
BY DEF Typed, BatchTyped, AllLess, BatchLess

LEMMA NoBatch ==
  ASSUME batch' = [c \in Commands |-> [as \in Results |-> None]]
  PROVE  BatchTyped' /\ AllLess
BY DEF BatchTyped, AllLess, BatchLess

Outcomes == {"ok", "failed"}
LEMMA ResultIs ==
  ASSUME Typed, NEW c \in Commands, NEW aim \in Results, Serving(c, aim),
         NEW res \in Outcomes, Result(c, aim, res)
  PROVE  /\ BatchTyped' /\ AllLess
         /\ Current(c, aim) \in Managed /\ Current(c, aim) \in Range(batch[c][aim].left)
         /\ batch'[c][aim] # None
         /\ \A f \in Managed : batch'[c][aim].results[f] = IF f = Current(c, aim) THEN res ELSE batch[c][aim].results[f]
         /\ \A x \in Commands, a \in Results : <<x, a>> # <<c, aim>> => batch'[x][a] = batch[x][a]
<1> DEFINE b == batch[c][aim]
           l == b.left
           e == Current(c, aim)
           b2 == [left |-> Tail(l), results |-> [b.results EXCEPT ![e] = res]]
<1>1. BatchTyped
  BY DEF Typed, BatchTyped
<1>2. b \in Batches /\ l \in Seq(Managed) /\ l # << >> /\ e = l[1]
  BY <1>1 DEF Serving, BatchTyped, Batches, Current
<1>3. /\ Tail(l) \in Seq(Managed) /\ e \in Managed
      /\ Range(l) = {e} \cup Range(Tail(l))
  <2> HIDE DEF l, e
  <2> QED
    BY <1>2, RangeOfTail
<1>4. b2 \in Batches /\ b2 # None
  <2>1. b.results \in [Managed -> {"none", "ok", "failed"}]
    BY <1>2 DEF Batches
  <2>2. [b.results EXCEPT ![e] = res] \in [Managed -> {"none", "ok", "failed"}]
    BY <2>1, <1>3 DEF Outcomes
  <2>3. b2 \in Batches
    BY <2>2, <1>3 DEF Batches
  <2> QED
    BY <2>3, RequestsAreLines
<1>5. batch' = [batch EXCEPT ![c][aim] = b2]
  BY DEF Result
<1>6. batch'[c][aim] = b2
  BY <1>1, <1>5 DEF BatchTyped
<1>7. \A x \in Commands, a \in Results : <<x, a>> # <<c, aim>> => batch'[x][a] = batch[x][a]
  BY <1>1, <1>5 DEF BatchTyped
<1>8. BatchTyped'
  BY <1>1, <1>4, <1>5 DEF BatchTyped
<1>9. b # None /\ b2.left = Tail(l) /\ b2.results = [b.results EXCEPT ![e] = res]
  BY DEF Serving
<1>11. \A f \in Managed : [b.results EXCEPT ![e] = res][f] = IF f = e THEN res ELSE b.results[f]
  <2>1. b.results \in [Managed -> {"none", "ok", "failed"}]
    BY <1>2 DEF Batches
  <2> QED
    BY <2>1
<1> HIDE DEF b2
<1>12. \A f \in Managed : batch'[c][aim].results[f] = IF f = e THEN res ELSE b.results[f]
  BY <1>6, <1>9, <1>11
<1>10. AllLess
  <2> SUFFICES ASSUME NEW x \in Commands, NEW a \in Results, batch'[x][a] # None
               PROVE  batch[x][a] # None /\ Range(batch'[x][a].left) \subseteq Range(batch[x][a].left)
    BY DEF AllLess, BatchLess
  <2>1. CASE x = c /\ a = aim
    BY <1>3, <1>6, <1>9, <2>1
  <2>2. CASE ~(x = c /\ a = aim)
    BY <1>7, <2>2
  <2> QED
    BY <2>1, <2>2
<1> QED
  BY <1>3, <1>4, <1>6, <1>7, <1>8, <1>9, <1>10, <1>12

(* Of what a command does only sending gives the daemon something to do.   *)
Sends(c) ==
  /\ pc[c] = "mid" /\ AtDaemon(c) /\ pc' = [pc EXCEPT ![c] = "sent"]
  /\ batch' = [batch EXCEPT ![c][As(c)] = [left |-> Do(c).on, results |-> NoResults]]
  /\ UNCHANGED <<req, todo, view, reports>>

LEMMA CommandBatch ==
  ASSUME Typed, NEW c \in Commands,
         (\E r \in Requests[c] : Run(c, r)) \/ CommandStep(c) \/ UserStep(c)
  PROVE  (BatchTyped' /\ AllLess) \/ Sends(c)
<1>1. CASE Reply(c)
  <2>1. As(c) \in Results
    BY DEF As, Results
  <2> QED
    BY <1>1, <2>1, ForgetIs DEF Reply
<1>2. CASE Send(c)
  BY <1>2, SameBatch DEF Send, Sends, At
<1>3. CASE ~Reply(c) /\ ~Send(c)
  <2>1. UNCHANGED batch
    <3>1. CASE CommandStep(c)
      BY <1>3, <3>1 DEF daemon, CommandStep, Read, Ask, Plan, Exit, LocalStep, ManagedStep, MkdirStep,
           LocalSkipped, LocalCheck, LocalMount, LocalUnmount, Ensure, ReplyLost, Stat, Make, OwnMade, Fix, Own
    <3>2. CASE UserStep(c) \/ \E r \in Requests[c] : Run(c, r)
      BY <3>2 DEF daemon, UserStep, ConfirmAll, ConfirmFix, Choose, Run
    <3> QED
      BY <3>1, <3>2
  <2> QED
    BY <2>1, SameBatch
<1> QED
  BY <1>1, <1>2, <1>3

LEMMA SendsBatch ==
  ASSUME Typed, NEW c \in Commands, Sends(c)
  PROVE  /\ BatchTyped'
         /\ As(c) \in Results /\ As(c) = AsOf(Do(c).do)
         /\ batch'[c][As(c)] # None /\ batch'[c][As(c)].left = Do(c).on
         /\ batch'[c][As(c)].results = NoResults
         /\ \A x \in Commands, a \in Results : <<x, a>> # <<c, As(c)>> => batch'[x][a] = batch[x][a]
<1> DEFINE b2 == [left |-> Do(c).on, results |-> NoResults]
<1>1. BatchTyped
  BY DEF Typed, BatchTyped
<1>2. todo[c] # << >> /\ Do(c).do \in OnSome
  BY DEF Sends, AtDaemon, Doing, OnSome, AtDaemonKinds
<1>3. Do(c).on \in Seq(Managed)
  BY <1>2, ItIs
<1>4. b2 \in Batches /\ b2 # None
  BY <1>3, RequestsAreLines DEF Batches, NoResults
<1>5. As(c) \in Results /\ As(c) = AsOf(Do(c).do)
  BY DEF Sends, As, AsOf, Results, AtDaemon, Doing
<1>6. batch' = [batch EXCEPT ![c][As(c)] = b2]
  BY DEF Sends
<1>7. BatchTyped' /\ batch'[c][As(c)] = b2
  BY <1>1, <1>4, <1>5, <1>6 DEF BatchTyped
<1>8. \A x \in Commands, a \in Results : <<x, a>> # <<c, As(c)>> => batch'[x][a] = batch[x][a]
  BY <1>1, <1>5, <1>6 DEF BatchTyped
<1> QED
  BY <1>4, <1>5, <1>7, <1>8

LEMMA SendsKeepWork ==
  ASSUME Typed, NEW c \in Commands, WorkInv(c), Sends(c)
  PROVE  WorkInv(c)'
<1>1. pc \in [Commands -> Places]
  BY DEF Typed
<1>2. /\ pc[c] = "mid" /\ pc'[c] = "sent" /\ AtDaemon(c) /\ todo[c] # << >>
      /\ req'[c] = req[c] /\ todo'[c] = todo[c] /\ view'[c] = view[c] /\ reports'[c] = reports[c]
  BY <1>1 DEF Sends, AtDaemon, Doing
<1>3. \A as \in Results : \A e : Asks(c, e, as) => Asks(c, e, as)'
  BY <1>2 DEF Asks
<1>4. Placed(c)'
  BY <1>2 DEF WorkInv, Placed, Doing, Do, AtDaemon
<1>5. Reading(c)'
  <2>1. Do(c).do \notin Reads
    BY <1>2 DEF AtDaemon, Doing, Reads
  <2> QED
    BY <1>2, <2>1, ReadsAlone DEF WorkInv, Reading
<1>6. \A do : AsOf(do) \in Results
  BY DEF AsOf, Results
<1>7. Asked(c)'
  <2>1. /\ Do(c) \in Range(todo[c]) /\ Do(c).do \in Works
    BY <1>2, HeadOfWork DEF AtDaemon, Doing, Works
  <2>2. \A as \in Results : as = As(c) => \A e \in Range(Do(c).on) : Asks(c, e, as)'
    <3>1. \A e \in Range(Do(c).on) : Asks(c, e, AsOf(Do(c).do))
      BY <2>1 DEF WorkInv, Asked
    <3> QED
      BY <1>3, <3>1, SendsBatch
  <2>3. ASSUME NEW as \in Results, batch'[c][as] # None, NEW e \in Range(batch'[c][as].left)
        PROVE  Asks(c, e, as)'
    <3>1. CASE as = As(c)
      BY <2>2, <2>3, <3>1, SendsBatch
    <3>2. CASE as # As(c)
      <4>1. batch'[c][as] = batch[c][as]
        BY <3>2, SendsBatch
      <4> QED
        BY <1>3, <2>3, <4>1 DEF WorkInv, Asked
    <3> QED
      BY <3>1, <3>2
  <2> QED
    BY <1>2, <1>3, <1>6, <2>3 DEF WorkInv, Asked
<1>8. Telling(c)'
  BY <1>2 DEF WorkInv, Telling
<1> QED
  BY <1>4, <1>5, <1>7, <1>8 DEF WorkInv

-----------------------------------------------------------------------------
AllWork == \A c \in Commands : WorkInv(c)
Acts(c) == (\E r \in Requests[c] : Run(c, r)) \/ CommandStep(c) \/ UserStep(c)

LEMMA ActsWork ==
  ASSUME Typed, AllWork, NEW c \in Commands, Acts(c)
  PROVE  WorkTyped' /\ AllWork' /\ BatchTyped'
<1>1. Placed(c) /\ WorkInv(c)
  BY DEF AllWork, WorkInv
<1>2. Moves(c)
  BY <1>1, StepMoves DEF Acts
<1>3. WorkTyped' /\ \A x \in Commands : x # c => Same5(x)
  BY <1>1, <1>2, MovesTyped
<1>4. CASE BatchTyped' /\ AllLess
  <2>1. WorkInv(c)'
    BY <1>1, <1>2, <1>4, MovesKeepWork DEF AllLess
  <2>2. \A x \in Commands : x # c => WorkInv(x)'
    BY <1>3, <1>4, OthersKeepWork DEF AllLess, AllWork
  <2> QED
    BY <1>3, <1>4, <2>1, <2>2 DEF AllWork
<1>5. CASE Sends(c)
  <2>1. WorkInv(c)' /\ BatchTyped'
    BY <1>1, <1>5, SendsKeepWork, SendsBatch
  <2>2. ASSUME NEW x \in Commands, x # c PROVE WorkInv(x)'
    <3>1. BatchLess(x)
      <4>1. \A a \in Results : batch'[x][a] = batch[x][a]
        BY <1>5, <2>2, SendsBatch
      <4> QED
        BY <4>1 DEF BatchLess
    <3> QED
      BY <1>3, <2>2, <3>1, OthersKeepWork DEF AllWork
  <2> QED
    BY <1>3, <2>1, <2>2 DEF AllWork
<1> QED
  BY <1>4, <1>5, CommandBatch DEF Acts

LEMMA QuietWork ==
  ASSUME Typed, AllWork, UNCHANGED commandVars, AllLess
  PROVE  WorkTyped' /\ AllWork'
<1>1. WorkTyped'
  BY DEF Typed, WorkTyped, commandVars
<1>2. \A x \in Commands : Same5(x)
  BY DEF Same5, commandVars
<1> QED
  BY <1>1, <1>2, OthersKeepWork DEF AllWork, AllLess

LEMMA DaemonWork ==
  ASSUME Typed, AllWork, NEW c \in Commands, DaemonStep(c)
  PROVE  WorkTyped' /\ AllWork' /\ BatchTyped'
<1>1. UNCHANGED commandVars
  BY DEF DaemonStep, ServeMount, ServeUnmount, Unheard, commandVars
<1>2. "mounted" \in Results /\ "unmounted" \in Results
  BY DEF Results
<1>3. CASE ServeMount(c)
  <2>1. Serving(c, "mounted") /\ \E res \in Outcomes : Result(c, "mounted", res)
    BY <1>3 DEF ServeMount, Outcomes
  <2> QED
    BY <1>1, <1>2, <2>1, ResultIs, QuietWork
<1>4. CASE ServeUnmount(c)
  <2>1. Serving(c, "unmounted") /\ \E res \in Outcomes : Result(c, "unmounted", res)
    BY <1>4 DEF ServeUnmount, Outcomes
  <2> QED
    BY <1>1, <1>2, <2>1, ResultIs, QuietWork
<1>5. CASE \E as \in Results : Unheard(c, as)
  BY <1>1, <1>5, ForgetIs, QuietWork DEF Unheard
<1> QED
  BY <1>3, <1>4, <1>5 DEF DaemonStep

LEMMA OutsideWork ==
  ASSUME Typed, AllWork, Outside \/ \E e \in Managed : Watch(e)
  PROVE  WorkTyped' /\ AllWork' /\ BatchTyped'
<1>1. UNCHANGED commandVars
  BY DEF Outside, Watch, ServerDies, DaemonStops, DaemonKilled, DaemonEnds, UnmountedOutside
<1>2. BatchTyped' /\ AllLess
  BY SameBatch, NoBatch
     DEF Outside, Watch, ServerDies, DaemonStops, DaemonKilled, DaemonEnds, UnmountedOutside, daemon
<1> QED
  BY <1>1, <1>2, QuietWork

-----------------------------------------------------------------------------
(* The system stays well formed.                                           *)

LEMMA LocalTasks ==
  ASSUME Typed, NEW c \in Commands
  PROVE  /\ \A do \in {"read", "mount", "unmount"} :
              Doing(c, do) => todo[c] # << >> /\ It(c) \in Local /\ It(c) \in Entries /\ DirOf[It(c)] \in Dirs
         /\ \A do \in {"stat", "own"} :
              Doing(c, do) => todo[c] # << >> /\ It(c) \in Entries /\ DirOf[It(c)] \in Dirs
<1>1. \A do \in {"read", "mount", "unmount"} : Doing(c, do) => todo[c] # << >> /\ Do(c).do \in OnLocal
  BY DEF Doing, OnLocal
<1>2. \A do \in {"stat", "own"} : Doing(c, do) => todo[c] # << >> /\ Do(c).do \in OnEntry
  BY DEF Doing, OnEntry
<1> QED
  BY <1>1, <1>2, ItIs, EntriesKinds

LEMMA CommandSystem ==
  ASSUME Typed, NEW c \in Commands, WorkInv(c), Acts(c)
  PROVE  SystemTyped'
<1>1. SystemTyped
  BY DEF Typed, SystemTyped
<1>2. CASE UNCHANGED <<mounts, dir, up, rec>>
  BY <1>1, <1>2 DEF SystemTyped
<1>3. CASE LocalCheck(c)
  BY <1>1, <1>3, LocalTasks DEF LocalCheck, SystemTyped, DirStates, daemon
<1>4. CASE LocalMount(c)
  <2>1. It(c) \in Entries /\ DirOf[It(c)] \in Dirs /\ UNCHANGED <<dir, up, rec>>
    BY <1>4, LocalTasks DEF LocalMount, daemon
  <2>2. mounts' \in [Dirs -> Seq(Mount)]
    BY <1>1, <1>4, <2>1, PutIs DEF LocalMount, SystemTyped
  <2> QED
    BY <1>1, <2>1, <2>2 DEF SystemTyped
<1>5. CASE LocalUnmount(c)
  <2>1. It(c) \in Entries /\ DirOf[It(c)] \in Dirs /\ UNCHANGED <<dir, up, rec>>
    BY <1>5, LocalTasks DEF LocalUnmount, daemon
  <2>2. mounts' \in [Dirs -> Seq(Mount)]
    BY <1>1, <1>5, <2>1, PopIs DEF LocalUnmount, SystemTyped
  <2> QED
    BY <1>1, <2>1, <2>2 DEF SystemTyped
<1>6. CASE Ensure(c)
  <2>1. /\ mounts' = mounts /\ dir' = dir /\ rec' = rec
        /\ up' = TRUE \/ up' = up
    BY <1>6 DEF Ensure, system
  <2>2. mounts' \in [Dirs -> Seq(Mount)] /\ dir' \in [Dirs -> DirStates] /\ rec' \subseteq Managed
    BY <1>1, <2>1 DEF SystemTyped
  <2>3. up' \in BOOLEAN /\ (rec' # {} => up')
    BY <1>1, <2>1 DEF SystemTyped
  <2> QED
    BY <2>2, <2>3 DEF SystemTyped
<1>7. CASE Make(c)
  BY <1>1, <1>7, LocalTasks DEF Make, SystemTyped, DirStates, daemon
<1>8. ASSUME NEW e \in Entries, Chown(DirOf[e]), UNCHANGED <<mounts, daemon>> PROVE SystemTyped'
  BY <1>1, <1>8, EntriesKinds DEF Chown, SystemTyped, DirStates, daemon
<1>9. CASE OwnMade(c)
  <2>1. It(c) \in Entries
    BY <1>9, LocalTasks DEF OwnMade, WorkInv, Placed
  <2> QED
    BY <1>1, <1>8, <1>9, <2>1 DEF OwnMade, SystemTyped, daemon
<1>10. CASE Own(c)
  <2>1. It(c) \in Entries
    BY <1>10, LocalTasks DEF Own
  <2> QED
    BY <1>1, <1>8, <1>10, <2>1 DEF Own, SystemTyped, daemon
<1> QED
  <2>1. CASE CommandStep(c)
    BY <1>2, <1>3, <1>4, <1>5, <1>6, <1>7, <1>9, <1>10, <2>1
       DEF CommandStep, LocalStep, ManagedStep, MkdirStep,
           Read, Ask, Plan, Exit, LocalSkipped, Send, Reply, ReplyLost, Stat, Fix, system, daemon
  <2>2. CASE UserStep(c) \/ \E r \in Requests[c] : Run(c, r)
    BY <1>2, <2>2 DEF UserStep, ConfirmAll, ConfirmFix, Choose, Run, system, daemon
  <2> QED
    BY <2>1, <2>2 DEF Acts

LEMMA DaemonSystem ==
  ASSUME Typed, NEW c \in Commands, DaemonStep(c)
  PROVE  SystemTyped'
<1>1. SystemTyped
  BY DEF Typed, SystemTyped
<1>2. CASE UNCHANGED <<mounts, dir, up, rec>>
  BY <1>1, <1>2 DEF SystemTyped
<1>3. CASE ServeMount(c)
  <2> DEFINE e == Current(c, "mounted")
  <2>1. e \in Managed /\ e \in Entries /\ DirOf[e] \in Dirs /\ up /\ UNCHANGED <<dir, up>>
    <3>1. \E res \in Outcomes : Result(c, "mounted", res)
      BY <1>3 DEF ServeMount, Outcomes
    <3>2. e \in Managed /\ up /\ UNCHANGED <<dir, up>>
      BY <1>3, <3>1, ResultIs DEF ServeMount, Results, Serving
    <3> QED
      BY <3>2, EntriesKinds
  <2>2. CASE Put(e, DirOf[e]) /\ rec' = rec \cup {e}
    <3>1. mounts' \in [Dirs -> Seq(Mount)]
      BY <2>1, <2>2, PutIs
    <3> QED
      BY <1>1, <2>1, <2>2, <3>1 DEF SystemTyped
  <2> QED
    BY <1>2, <1>3, <2>1, <2>2 DEF ServeMount
<1>4. CASE ServeUnmount(c)
  <2> DEFINE e == Current(c, "unmounted")
  <2>1. CASE e \in rec /\ Mounted(DirOf[e]) /\ Pop(DirOf[e]) /\ rec' = rec \ {e}
    <3>1. DirOf[e] \in Dirs
      BY <2>1, EntriesKinds, DirsAreGiven DEF Typed
    <3>2. mounts' \in [Dirs -> Seq(Mount)]
      BY <2>1, <3>1, PopIs
    <3> QED
      BY <1>1, <1>4, <2>1, <3>2 DEF SystemTyped, ServeUnmount
  <2> QED
    BY <1>2, <1>4, <2>1 DEF ServeUnmount
<1>5. CASE \E as \in Results : Unheard(c, as)
  BY <1>2, <1>5 DEF Unheard, system
<1> QED
  BY <1>3, <1>4, <1>5 DEF DaemonStep

LEMMA OutsideSystem ==
  ASSUME Typed, Outside \/ \E e \in Managed : Watch(e)
  PROVE  SystemTyped'
<1>1. SystemTyped
  BY DEF Typed, SystemTyped
<1>2. ASSUME NEW e \in Managed, Watch(e) PROVE SystemTyped'
  BY <1>1, <1>2 DEF Watch, SystemTyped, system
<1>3. CASE \E e \in Entries : ServerDies(e)
  <2>1. mounts' \in [Dirs -> Seq(Mount)] /\ UNCHANGED <<dir, up, rec>>
    BY <1>3, StrandIs DEF ServerDies, daemon
  <2> QED
    BY <1>1, <2>1 DEF SystemTyped
<1>4. CASE DaemonStops \/ DaemonKilled
  <2>1. mounts' \in [Dirs -> Seq(Mount)]
    BY <1>4, StopIs, StrandIs DEF DaemonKilled
  <2> QED
    BY <1>1, <1>4, <2>1 DEF SystemTyped, DaemonStops, DaemonKilled, DaemonEnds
<1>5. CASE \E d \in Dirs : UnmountedOutside(d)
  <2>1. mounts' \in [Dirs -> Seq(Mount)] /\ UNCHANGED <<dir, up, rec>>
    BY <1>5, PopIs DEF UnmountedOutside, daemon
  <2> QED
    BY <1>1, <2>1 DEF SystemTyped
<1> QED
  BY <1>2, <1>3, <1>4, <1>5 DEF Outside

LEMMA WantedIs ==
  ASSUME NEW r \in Request, NEW w \in Wanted(r)
  PROVE  /\ w = <<w[1], w[2]>> /\ w[2] \in Sightings
         /\ w[1] \in Entries \/ w[1] = Unknown
<1>1. r.args \in Seq(Entries \cup {Unknown}) /\ r.op \in Ops
  BY DEF Request
<1>2. \A i \in DOMAIN r.args : r.args[i] \in Entries \cup {Unknown}
  BY <1>1, LenProperties
<1>3. CASE r.op = "mount"
  BY <1>2, <1>3 DEF Wanted, Sightings, Results
<1>4. CASE r.op = "unmount"
  BY <1>2, <1>4 DEF Wanted, Sightings, Results
<1>5. CASE r.op = "interactive"
  BY <1>2, <1>5 DEF Wanted, Sightings, Results
<1>6. CASE r.op = "mkdir"
  BY <1>2, <1>6 DEF Wanted, Sightings, Results
<1>7. CASE r.op \in {"list", "dryrun"}
  BY <1>7 DEF Wanted
<1> QED
  BY <1>1, <1>3, <1>4, <1>5, <1>6, <1>7 DEF Ops

LEMMA ObserveTyped ==
  ASSUME Typed, WorkTyped', AllWork', Observe
  PROVE  /\ seen' \in [Commands -> SUBSET (Entries \X Sightings)]
         /\ robbed' \subseteq Managed /\ peak' \in Nat
<1>1. ASSUME NEW c \in Commands, pc'[c] # "idle" PROVE req'[c] \in Request
  BY <1>1 DEF WorkTyped, AllWork, WorkInv, Placed
<1>2. ASSUME NEW c \in Commands, pc'[c] # "idle", NEW w \in Wanted(req'[c]), w[1] \in Entries
      PROVE  w \in Entries \X Sightings
  BY <1>1, <1>2, WantedIs
<1>3. seen \in [Commands -> SUBSET (Entries \X Sightings)]
  BY DEF Typed
<1> DEFINE New(c) == {w \in Wanted(req'[c]) : w[1] \in Entries /\ w[2] \in Shows(w[1])'}
<1>4. \A c \in Commands : pc'[c] # "idle" => New(c) \subseteq Entries \X Sightings
  BY <1>2
<1>5. seen' = [c \in Commands |-> IF pc'[c] = "idle" THEN {} ELSE seen[c] \cup New(c)]
  BY DEF Observe
<1> HIDE DEF New
<1>6. seen' \in [Commands -> SUBSET (Entries \X Sightings)]
  BY <1>3, <1>4, <1>5
<1>7. robbed' \subseteq Managed
  BY DEF Observe
<1>8. Cardinality(Running') \in Nat
  <2> DEFINE R == Running'
  <2>1. R \subseteq Commands
    BY DEF Running
  <2> HIDE DEF R
  <2>2. IsFiniteSet(R)
    BY <2>1, CommandsAreSome, FS_Subset
  <2> QED
    BY <2>2, FS_CardinalityType DEF R
<1>9. peak \in Nat /\ (peak' = Cardinality(Running') \/ peak' = peak)
  BY DEF Typed, Observe
<1> QED
  BY <1>6, <1>7, <1>8, <1>9

LEMMA LateTyped ==
  ASSUME Typed, Step
  PROVE  late' \in [Managed -> Nat]
<1>1. late \in [Managed -> Nat]
  BY DEF Typed
<1>2. CASE Wake
  BY <1>1, <1>2 DEF Wake
<1>3. ASSUME NEW e \in Managed, Watch(e) PROVE late' \in [Managed -> Nat]
  BY <1>1, <1>3 DEF Watch
<1>4. CASE late' = late \/ late' = [e \in Managed |-> 0]
  BY <1>1, <1>4
<1> QED
  BY <1>2, <1>3, <1>4
     DEF Step, Outside, ServerDies, DaemonStops, DaemonKilled, DaemonEnds, UnmountedOutside

-----------------------------------------------------------------------------
(* The inductive invariant.                                                *)

CommandInv == Typed /\ AllWork

MountsOf(S, d) == LET here == Only(Order, {e \in S : DirOf[e] = d})
                  IN [i \in DOMAIN here |-> Fresh(here[i])]
LEMMA MountsOfIs ==
  ASSUME NEW S, S \subseteq Entries, NEW d \in Dirs
  PROVE  /\ MountsOf(S, d) \in Seq(Mount)
         /\ Range(MountsOf(S, d)) = {Fresh(e) : e \in {f \in S : DirOf[f] = d}}
<1> DEFINE T == {e \in S : DirOf[e] = d}
           h == Only(Order, T)
           n == Len(h)
           f == MountsOf(S, d)
<1>1. h \in Seq(Entries) /\ Range(h) = T
  <2>1. Range(Order) = Entries /\ T \subseteq Entries
    BY EntriesKinds
  <2> HIDE DEF T
  <2>2. h \in Seq(Entries) /\ Range(h) = Range(Order) \cap T
    BY OrderIsList, OnlyThose
  <2> QED
    BY <2>1, <2>2
<1> HIDE DEF h
<1>2. n \in Nat /\ DOMAIN h = 1..n /\ \A i \in 1..n : h[i] \in Entries
  BY <1>1, LenProperties
<1> HIDE DEF n
<1>3. f = [i \in 1..n |-> Fresh(h[i])]
  BY <1>2 DEF MountsOf, h
<1>4. \A e \in Entries : Fresh(e) \in Mount
  BY DEF Fresh, Mount
<1> HIDE DEF f
<1>5. f \in [1..n -> Mount] /\ \A i \in 1..n : f[i] = Fresh(h[i])
  BY <1>2, <1>3, <1>4
<1>6. f \in Seq(Mount) /\ DOMAIN f = 1..n
  BY <1>2, <1>5, RangeOfFunction
<1>7. Range(f) = {Fresh(e) : e \in Range(h)}
  BY <1>2, <1>5, <1>6 DEF Range
<1> QED
  BY <1>1, <1>6, <1>7 DEF f

LEMMA InitCommandInv == Init => CommandInv
<1> SUFFICES ASSUME Init PROVE CommandInv
  OBVIOUS
<1>1. PICK S \in MountedBefore :
        /\ mounts = [d \in Dirs |-> MountsOf(S, d)]
        /\ rec = S \cap Managed
  BY DEF Init, MountsOf, Fresh
<1>2. S \subseteq Entries
  BY OneOnEachDir
<1>3. mounts \in [Dirs -> Seq(Mount)]
  BY <1>1, <1>2, MountsOfIs
<1>4. << >> \in Seq(Fitting) /\ << >> \in Seq(Reports) /\ Range(<< >>) = {}
  BY NothingListed
<1>5. Typed
  <2>1. up \in BOOLEAN /\ (rec # {} => up)
    BY DEF Init
  <2>2. dir \in [Dirs -> DirStates]
    BY InitialDirsKnown DEF Init
  <2>3. /\ pc \in [Commands -> Places] /\ req \in [Commands -> Request \cup {None}]
        /\ todo \in [Commands -> Seq(Fitting)] /\ view \in [Commands -> SUBSET Entries]
        /\ reports \in [Commands -> Seq(Reports)]
    BY <1>4 DEF Init, Places
  <2>4. /\ batch \in [Commands -> [Results -> Batches \cup {None}]]
        /\ outside \in 0..MaxOutside /\ late \in [Managed -> Nat]
        /\ seen \in [Commands -> SUBSET (Entries \X Sightings)]
        /\ robbed \subseteq Managed /\ peak \in Nat
    BY MaxOutsideIsNat DEF Init
  <2> QED
    BY <1>1, <1>3, <2>1, <2>2, <2>3, <2>4 DEF Typed
<1>6. ASSUME NEW c \in Commands PROVE WorkInv(c)
  <2>1. /\ pc[c] = "idle" /\ req[c] = None /\ todo[c] = << >> /\ reports[c] = << >> /\ view[c] = {}
        /\ NoRequest(c)
    BY DEF Init, NoRequest
  <2>2. Range(todo[c]) = {}
    BY <1>4, <2>1
  <2> QED
    BY <2>1, <2>2 DEF WorkInv, Placed, Reading, Asked, Telling, NoRequest
<1> QED
  BY <1>5, <1>6 DEF CommandInv, AllWork

LEMMA StepCommandInv ==
  ASSUME CommandInv, Step, Observe
  PROVE  CommandInv'
<1>1. Typed /\ AllWork
  BY DEF CommandInv
<1>2. outside' \in 0..MaxOutside
  BY <1>1, MaxOutsideIsNat DEF Typed, Step
<1>3. /\ WorkTyped' /\ AllWork' /\ BatchTyped' /\ SystemTyped'
  <2>1. ASSUME NEW c \in Commands, Acts(c) PROVE WorkTyped' /\ AllWork' /\ BatchTyped' /\ SystemTyped'
    BY <1>1, <2>1, ActsWork, CommandSystem DEF AllWork
  <2>2. ASSUME NEW c \in Commands, DaemonStep(c) PROVE WorkTyped' /\ AllWork' /\ BatchTyped' /\ SystemTyped'
    BY <1>1, <2>2, DaemonWork, DaemonSystem
  <2>3. ASSUME Outside \/ \E e \in Managed : Watch(e)
        PROVE WorkTyped' /\ AllWork' /\ BatchTyped' /\ SystemTyped'
    BY <1>1, <2>3, OutsideWork, OutsideSystem
  <2> QED
    BY <2>1, <2>2, <2>3 DEF Step, Acts
<1>4. /\ seen' \in [Commands -> SUBSET (Entries \X Sightings)]
      /\ robbed' \subseteq Managed /\ peak' \in Nat
      /\ late' \in [Managed -> Nat]
  BY <1>1, <1>3, ObserveTyped, LateTyped
<1>5. Typed'
  BY <1>2, <1>3, <1>4 DEF Typed, WorkTyped, BatchTyped, SystemTyped
<1> QED
  BY <1>3, <1>5 DEF CommandInv

LEMMA StutterCommandInv ==
  ASSUME CommandInv, UNCHANGED vars
  PROVE  CommandInv'
<1>1. Typed'
  BY DEF CommandInv, Typed, vars
<1>2. AllLess /\ \A c \in Commands : Same5(c)
  BY SameBatch DEF CommandInv, Same5, vars
<1>3. AllWork'
  BY <1>2, OthersKeepWork DEF CommandInv, AllWork, AllLess
<1> QED
  BY <1>1, <1>3 DEF CommandInv

LEMMA TypedIsTypeOK == CommandInv => TypeOK
<1>1. Seq(Fitting) \subseteq Seq(Tasks)
  BY SeqMonotonic DEF Fitting
<1> QED
  BY <1>1 DEF CommandInv, Typed, TypeOK, Mount, Places, Sightings

(* What the other proofs rest on holds at first, and every step of a       *)
(* command, of the daemon and of the rest of the system preserves it.      *)
THEOREM CommandInvariant == Spec => []CommandInv
<1>1. CommandInv /\ [Next]_vars => CommandInv'
  BY StepCommandInv, StutterCommandInv DEF Next
<1> QED
  BY <1>1, InitCommandInv, PTL DEF Spec

(* The state stays well formed (main.go:217-316, 683-917, 939-1104).       *)
THEOREM TypeCorrect == Spec => []TypeOK
BY CommandInvariant, TypedIsTypeOK, PTL

-----------------------------------------------------------------------------
(* Which steps mount and unmount, and where.                               *)

(* Every mount is on the directory of its entry.                           *)
Belongs == \A d \in Dirs : \A m \in Range(mounts[d]) : m.of \in Entries /\ DirOf[m.of] = d

(* What a step may do to the mount table.                                  *)
Grows(c)   == \E e \in Entries : /\ Put(e, DirOf[e]) /\ Asks(c, e, "mounted")
                                 /\ IsDir(DirOf[e]) \/ (pc[c] = "mid" /\ Doing(c, "mount") /\ It(c) = e)
Shrinks(c) == \E e \in Entries : /\ Asks(c, e, "unmounted")
                                 /\ Mounted(DirOf[e]) /\ Pop(DirOf[e])

LEMMA AsksWhatItDoes ==
  ASSUME Typed, NEW c \in Commands, WorkInv(c)
  PROVE  /\ Doing(c, "mount") => Asks(c, It(c), "mounted")
         /\ Doing(c, "unmount") => Asks(c, It(c), "unmounted")
<1>1. \A do \in {"mount", "unmount"} :
        Doing(c, do) => /\ Do(c) \in Range(todo[c]) /\ Do(c).do = do /\ do \in Works
                        /\ It(c) \in Range(Do(c).on)
  <2> SUFFICES ASSUME NEW do \in {"mount", "unmount"}, Doing(c, do)
               PROVE  /\ Do(c) \in Range(todo[c]) /\ Do(c).do = do /\ do \in Works
                      /\ It(c) \in Range(Do(c).on)
    OBVIOUS
  <2>1. todo[c] # << >> /\ Do(c).do = do
    BY DEF Doing
  <2>2. Do(c).on = <<It(c)>> /\ It(c) \in Local
    BY <2>1, ItIs DEF OnLocal
  <2>3. Range(<<It(c)>>) = {It(c)}
    BY <2>2, RangeOfOne
  <2> QED
    BY <2>1, <2>2, <2>3, HeadOfWork DEF Works
<1>2. AsOf("mount") = "mounted" /\ AsOf("unmount") = "unmounted"
  BY DEF AsOf
<1> QED
  BY <1>1, <1>2 DEF WorkInv, Asked

LEMMA CommandMounts ==
  ASSUME Typed, NEW c \in Commands, WorkInv(c), Acts(c)
  PROVE  UNCHANGED mounts \/ Grows(c) \/ Shrinks(c)
<1>1. CASE LocalMount(c)
  BY <1>1, AsksWhatItDoes, LocalTasks DEF LocalMount, Grows
<1>2. CASE LocalUnmount(c)
  BY <1>2, AsksWhatItDoes, LocalTasks DEF LocalUnmount, Shrinks
<1>3. CASE CommandStep(c) /\ ~LocalMount(c) /\ ~LocalUnmount(c)
  BY <1>3 DEF CommandStep, LocalStep, ManagedStep, MkdirStep, Read, Ask, Plan, Exit,
              LocalSkipped, LocalCheck, Ensure, Send, Reply, ReplyLost, Stat, Make, OwnMade, Fix, Own, system
<1>4. CASE UserStep(c) \/ \E r \in Requests[c] : Run(c, r)
  BY <1>4 DEF UserStep, ConfirmAll, ConfirmFix, Choose, Run, system
<1> QED
  BY <1>1, <1>2, <1>3, <1>4 DEF Acts

LEMMA DaemonMounts ==
  ASSUME Typed, NEW c \in Commands, WorkInv(c), DaemonStep(c)
  PROVE  UNCHANGED mounts \/ Grows(c) \/ Shrinks(c)
<1>1. \A as \in Results : Serving(c, as) => \A res : Result(c, as, res) /\ res \in Outcomes =>
        Current(c, as) \in Entries /\ Asks(c, Current(c, as), as)
  <2> SUFFICES ASSUME NEW as \in Results, Serving(c, as), NEW res \in Outcomes, Result(c, as, res)
               PROVE  Current(c, as) \in Entries /\ Asks(c, Current(c, as), as)
    OBVIOUS
  <2>1. Current(c, as) \in Managed /\ Current(c, as) \in Range(batch[c][as].left) /\ batch[c][as] # None
    BY ResultIs DEF Serving
  <2> QED
    BY <2>1, EntriesKinds DEF WorkInv, Asked
<1>2. CASE ServeMount(c)
  BY <1>1, <1>2 DEF ServeMount, Grows, Results, Outcomes
<1>3. CASE ServeUnmount(c)
  BY <1>1, <1>3 DEF ServeUnmount, Shrinks, Results, Outcomes
<1> QED
  BY <1>2, <1>3 DEF DaemonStep, Unheard, system

LEMMA AsksAsked ==
  ASSUME NEW c \in Commands, NEW e \in Entries
  PROVE  /\ Asks(c, e, "mounted") => AskedToMount(DirOf[e])
         /\ Asks(c, e, "unmounted") => AskedToUnmount(DirOf[e])
<1>1. Asks(c, e, "mounted") => AskedToMount(DirOf[e])
  BY DEF Asks, AskedToMount, Verb, Range
<1>2. Asks(c, e, "unmounted") => AskedToUnmount(DirOf[e])
  BY DEF Asks, AskedToUnmount, Verb, Range
<1> QED
  BY <1>1, <1>2

LEMMA StepAsked ==
  ASSUME CommandInv, Step, outside' = outside, NEW d \in Dirs
  PROVE  /\ Len(mounts'[d]) > Len(mounts[d]) => AskedToMount(d)
         /\ Len(mounts'[d]) < Len(mounts[d]) => AskedToUnmount(d)
<1>1. Typed /\ \A c \in Commands : WorkInv(c)
  BY DEF CommandInv, AllWork
<1>2. Len(mounts[d]) \in Nat
  BY <1>1, LenProperties DEF Typed
<1>3. PICK c : (c \in Commands /\ (Acts(c) \/ DaemonStep(c))) \/ UNCHANGED mounts
  <2>1. ~(outside' = outside + 1)
    BY <1>1, MaxOutsideIsNat DEF Typed
  <2> QED
    BY <2>1 DEF Step, Acts, Watch, system
<1>4. CASE UNCHANGED mounts
  BY <1>2, <1>4
<1>5. CASE c \in Commands /\ Grows(c)
  <2>1. PICK e \in Entries : Put(e, DirOf[e]) /\ Asks(c, e, "mounted")
    BY <1>5 DEF Grows
  <2>2. CASE d = DirOf[e]
    <3>1. Len(mounts'[d]) = Len(mounts[d]) + 1
      BY <1>1, <2>1, <2>2, PutIs
    <3> QED
      BY <1>2, <1>5, <2>1, <2>2, <3>1, AsksAsked
  <2>3. CASE d # DirOf[e]
    <3>1. mounts'[d] = mounts[d]
      BY <1>1, <2>1, <2>3, PutIs, EntriesKinds
    <3> QED
      BY <1>2, <3>1
  <2> QED
    BY <2>2, <2>3
<1>6. CASE c \in Commands /\ Shrinks(c)
  <2>1. PICK e \in Entries : Asks(c, e, "unmounted") /\ Mounted(DirOf[e]) /\ Pop(DirOf[e])
    BY <1>6 DEF Shrinks
  <2>2. AskedToUnmount(DirOf[e]) /\ DirOf[e] \in Dirs
    BY <1>6, <2>1, AsksAsked, EntriesKinds
  <2>3. d # DirOf[e] => mounts'[d] = mounts[d]
    BY <1>1, <2>1, <2>2, PopIs
  <2>4. d = DirOf[e] => Len(mounts'[d]) = Len(mounts[d]) - 1
    BY <1>1, <2>1, <2>2, PopIs
  <2> QED
    BY <1>2, <2>2, <2>3, <2>4
<1> QED
  BY <1>1, <1>3, <1>4, <1>5, <1>6, CommandMounts, DaemonMounts

LEMMA BelongsInit == Init => Belongs
<1> SUFFICES ASSUME Init PROVE Belongs
  OBVIOUS
<1>1. PICK S \in MountedBefore : mounts = [d \in Dirs |-> MountsOf(S, d)]
  BY DEF Init, MountsOf, Fresh
<1>2. S \subseteq Entries
  BY OneOnEachDir
<1> QED
  BY <1>1, <1>2, MountsOfIs DEF Belongs, Fresh

LEMMA BelongsKept ==
  ASSUME CommandInv, Belongs, Step
  PROVE  Belongs'
<1>1. Typed /\ \A c \in Commands : WorkInv(c)
  BY DEF CommandInv, AllWork
<1>2. CASE UNCHANGED mounts
  BY <1>2 DEF Belongs
<1>3. ASSUME NEW e \in Entries, Put(e, DirOf[e]) PROVE Belongs'
  <2>1. DirOf[e] \in Dirs
    BY EntriesKinds
  <2>2. /\ \A x \in Dirs : x # DirOf[e] => mounts'[x] = mounts[x]
        /\ Range(mounts'[DirOf[e]]) = Range(mounts[DirOf[e]]) \cup {Fresh(e)}
    BY <1>1, <1>3, <2>1, PutIs
  <2>3. Fresh(e).of = e
    BY DEF Fresh
  <2> QED
    BY <2>1, <2>2, <2>3 DEF Belongs
<1>4. ASSUME NEW d \in Dirs, Mounted(d), Pop(d) PROVE Belongs'
  <2>1. \A x \in Dirs : Range(mounts'[x]) \subseteq Range(mounts[x])
    BY <1>1, <1>4, PopIs
  <2> QED
    BY <2>1 DEF Belongs
<1>5. \A m \in Mount : \A S : Struck(S, m).of = m.of
  BY DEF Struck, Mount
<1>6. ASSUME NEW S, Strand(S) PROVE Belongs'
  <2>1. \A d \in Dirs : Range(mounts[d]) \subseteq Mount
    BY <1>1, RangeIs DEF Typed
  <2>2. \A d \in Dirs : Range(mounts'[d]) = {Struck(S, m) : m \in Range(mounts[d])}
    BY <1>1, <1>6, StrandIs
  <2> QED
    BY <1>5, <2>1, <2>2 DEF Belongs
<1>9. ASSUME DaemonStops PROVE Belongs'
  <2> SUFFICES ASSUME NEW d \in Dirs, NEW m \in Range(mounts'[d]) PROVE m.of \in Entries /\ DirOf[m.of] = d
    BY DEF Belongs
  <2>1. PICK ms \in Seq(Mount) : mounts'[d] = Stranded(ms, Managed) /\ Range(ms) \subseteq Range(mounts[d])
    BY <1>1, <1>9, StopIs
  <2>2. PICK x \in Range(ms) : m = Struck(Managed, x)
    BY <2>1, StrandedIs
  <2>3. x \in Mount
    BY <2>1, <2>2, RangeIs
  <2> QED
    BY <1>5, <2>1, <2>2, <2>3 DEF Belongs
<1>7. ASSUME NEW c \in Commands, Acts(c) \/ DaemonStep(c) PROVE Belongs'
  <2>1. CASE Grows(c)
    BY <1>3, <2>1 DEF Grows
  <2>2. CASE Shrinks(c)
    BY <1>4, <2>2, EntriesKinds DEF Shrinks
  <2> QED
    BY <1>1, <1>2, <1>7, <2>1, <2>2, CommandMounts, DaemonMounts
<1>8. CASE Outside \/ \E e \in Managed : Watch(e)
  <2>1. \A e \in Entries : ServerDies(e) => Belongs'
    BY <1>6 DEF ServerDies
  <2>2. DaemonStops \/ DaemonKilled => Belongs'
    BY <1>6, <1>9 DEF DaemonKilled
  <2>3. \A d \in Dirs : UnmountedOutside(d) => Belongs'
    BY <1>4 DEF UnmountedOutside
  <2>4. \A e \in Managed : Watch(e) => Belongs'
    BY <1>2 DEF Watch, system
  <2> QED
    BY <1>8, <2>1, <2>2, <2>3, <2>4 DEF Outside
<1> QED
  BY <1>7, <1>8 DEF Step, Acts

(* Mounts are made only on the directory of their entry                    *)
(* (smb/driver.go:33-42, sshfs/driver.go:31-59, backend.go:86-124).        *)
THEOREM MountsBelong == Spec => []Belongs
<1>1. CommandInv /\ Belongs /\ [Next]_vars => Belongs'
  <2>1. UNCHANGED vars /\ Belongs => Belongs'
    BY DEF vars, Belongs
  <2> QED
    BY <2>1, BelongsKept DEF Next
<1> QED
  BY <1>1, BelongsInit, CommandInvariant, PTL DEF Spec

(* A step of a command mounts and unmounts only on directories of entries  *)
(* its user named, or the selector had shown in the other state, and only  *)
(* in the direction asked for (main.go:822-832, 861-871, 903-908).         *)
THEOREM OnlyAskedCorrect == Spec => OnlyAsked
<1>1. CommandInv /\ [Next]_vars =>
        [outside' = outside =>
           \A d \in Dirs :
             /\ Len(mounts'[d]) > Len(mounts[d]) => AskedToMount(d)
             /\ Len(mounts'[d]) < Len(mounts[d]) => AskedToUnmount(d)]_vars
  BY StepAsked DEF Next
<1> QED
  BY <1>1, CommandInvariant, PTL DEF Spec, OnlyAsked

-----------------------------------------------------------------------------
(* What the daemon's records are worth.                                    *)

(* A live mount of the daemon is on record or was robbed of its record,    *)
(* and a record is of a live mount or will be dropped by a late watcher.   *)
Held(e) == /\ Live(e) => e \in rec \/ e \in robbed
           /\ e \in rec => Live(e) \/ late[e] > 0
AllHeld == \A e \in Managed : Held(e)

LEMMA LiveIs ==
  ASSUME NEW e
  PROVE  /\ Live(e) <=> Fresh(e) \in Range(mounts[DirOf[e]])
         /\ Live(e)' <=> Fresh(e) \in Range(mounts'[DirOf[e]])
BY DEF Live, Fresh, Range

(* What the changes of the mount table do to the mount of an entry.        *)
LEMMA LiveAfterPut ==
  ASSUME Typed, NEW e \in Managed, NEW f \in Entries, Put(f, DirOf[f])
  PROVE  /\ (f = e => Live(e)')
         /\ (f # e => (Live(e)' => Live(e)) /\ (Live(e) => Live(e)'))
<1>1. DirOf[e] \in Dirs /\ DirOf[f] \in Dirs
  BY EntriesKinds
<1>2. /\ \A x \in Dirs : x # DirOf[f] => mounts'[x] = mounts[x]
      /\ Range(mounts'[DirOf[f]]) = Range(mounts[DirOf[f]]) \cup {Fresh(f)}
  BY <1>1, PutIs
<1>3. f # e => Fresh(f) # Fresh(e)
  BY DEF Fresh
<1>4. f = e => Live(e)'
  BY <1>2, LiveIs
<1>5. ASSUME f # e PROVE (Live(e)' => Live(e)) /\ (Live(e) => Live(e)')
  <2>1. CASE DirOf[e] = DirOf[f]
    BY <1>2, <1>3, <1>5, <2>1, LiveIs
  <2>2. CASE DirOf[e] # DirOf[f]
    BY <1>1, <1>2, <2>2, LiveIs
  <2> QED
    BY <2>1, <2>2
<1> QED
  BY <1>4, <1>5

LEMMA LiveAfterPop ==
  ASSUME Typed, NEW e \in Managed, NEW d \in Dirs, Mounted(d), Pop(d)
  PROVE  (Live(e)' => Live(e)) /\ mounts' # mounts
<1>1. \A x \in Dirs : Range(mounts'[x]) \subseteq Range(mounts[x])
  BY PopIs
<1>2. Len(mounts'[d]) = Len(mounts[d]) - 1 /\ Len(mounts[d]) \in Nat
  BY PopIs, LenProperties DEF Typed
<1>3. mounts' # mounts
  BY <1>2
<1> QED
  BY <1>1, <1>3, LiveIs, EntriesKinds

LEMMA LiveStranded ==
  ASSUME Typed, NEW e \in Managed, NEW ms \in Seq(Mount), NEW S
  PROVE  /\ e \in S => Fresh(e) \notin Range(Stranded(ms, S))
         /\ e \notin S => (Fresh(e) \in Range(ms) => Fresh(e) \in Range(Stranded(ms, S)))
         /\ e \notin S => (Fresh(e) \in Range(Stranded(ms, S)) => Fresh(e) \in Range(ms))
<1>1. Range(Stranded(ms, S)) = {Struck(S, m) : m \in Range(ms)} /\ Range(ms) \subseteq Mount
  BY StrandedIs, RangeIs
<1>2. \A m \in Mount : Struck(S, m).of = m.of /\ (m.of \in S => ~Struck(S, m).live) /\ (m.of \notin S => Struck(S, m) = m)
  BY DEF Struck, Mount
<1>3. Fresh(e).of = e /\ Fresh(e).live
  BY DEF Fresh
<1> HIDE DEF Fresh
<1> QED
  BY <1>1, <1>2, <1>3

LEMMA LiveAfterStrand ==
  ASSUME Typed, NEW e \in Managed, NEW S, Strand(S)
  PROVE  /\ e \in S => ~Live(e)'
         /\ e \notin S => (Live(e)' => Live(e)) /\ (Live(e) => Live(e)')
<1>1. DirOf[e] \in Dirs /\ mounts[DirOf[e]] \in Seq(Mount)
  BY EntriesKinds DEF Typed
<1>2. mounts'[DirOf[e]] = Stranded(mounts[DirOf[e]], S)
  BY <1>1 DEF Strand
<1> QED
  BY <1>1, <1>2, LiveIs, LiveStranded

LEMMA LiveAfterEnd ==
  ASSUME Typed, NEW e \in Managed, DaemonStops \/ DaemonKilled
  PROVE  ~Live(e)' /\ rec' = {}
<1>1. rec' = {}
  BY DEF DaemonStops, DaemonKilled, DaemonEnds
<1>2. CASE DaemonKilled
  BY <1>1, <1>2, LiveAfterStrand DEF DaemonKilled
<1>3. CASE DaemonStops
  <2>1. DirOf[e] \in Dirs
    BY EntriesKinds
  <2>2. PICK ms \in Seq(Mount) : mounts'[DirOf[e]] = Stranded(ms, Managed)
    BY <1>3, <2>1, StopIs
  <2> QED
    BY <1>1, <2>2, LiveIs, LiveStranded
<1> QED
  BY <1>1, <1>2, <1>3

LEMMA RobbedIs ==
  ASSUME Observe, NEW e \in Managed, Live(e)', e \in robbed \/ Robs(e)
  PROVE  e \in robbed'
BY DEF Observe

(* The steps that wake the watchers.                                       *)
LEMMA WakesHeld ==
  ASSUME Typed, Wake, Observe, NEW e \in Managed, Held(e),
         Live(e)' => Live(e) \/ e \in rec',
         Live(e) /\ e \in rec /\ e \notin rec' => mounts' # mounts,
         e \in rec' => e \in rec \/ Live(e)'
  PROVE  Held(e)'
<1>1. late'[e] = (IF Live(e) /\ ~Live(e)' THEN late[e] + 1 ELSE late[e]) /\ late[e] \in Nat
  BY DEF Wake, Typed
<1>2. ASSUME Live(e)', e \notin rec' PROVE e \in robbed'
  <2>1. CASE e \in robbed
    BY <1>2, <2>1, RobbedIs
  <2>2. CASE e \notin robbed
    <3>1. e \in rec /\ mounts' # mounts
      BY <1>2, <2>2 DEF Held
    <3>2. Robs(e)
      BY <1>2, <3>1 DEF Robs
    <3> QED
      BY <1>2, <3>2, RobbedIs
  <2> QED
    BY <2>1, <2>2
<1>3. ASSUME e \in rec', ~Live(e)' PROVE late'[e] > 0
  BY <1>1, <1>3 DEF Held
<1> QED
  BY <1>2, <1>3 DEF Held

LEMMA ActsMounts ==
  ASSUME Typed, NEW c \in Commands, WorkInv(c), Acts(c)
  PROVE  /\ rec' = rec
         /\ \/ UNCHANGED mounts
            \/ \E f \in Local : Put(f, DirOf[f])
            \/ \E d \in Dirs : Mounted(d) /\ Pop(d)
<1>1. CASE LocalMount(c)
  BY <1>1, LocalTasks DEF LocalMount, daemon
<1>2. CASE LocalUnmount(c)
  BY <1>2, LocalTasks DEF LocalUnmount, daemon
<1>3. CASE CommandStep(c) /\ ~LocalMount(c) /\ ~LocalUnmount(c)
  BY <1>3 DEF CommandStep, LocalStep, ManagedStep, MkdirStep, Read, Ask, Plan, Exit,
              LocalSkipped, LocalCheck, Ensure, Send, Reply, ReplyLost, Stat, Make, OwnMade, Fix, Own, system, daemon
<1>4. CASE UserStep(c) \/ \E r \in Requests[c] : Run(c, r)
  BY <1>4 DEF UserStep, ConfirmAll, ConfirmFix, Choose, Run, system, daemon
<1> QED
  BY <1>1, <1>2, <1>3, <1>4 DEF Acts

LEMMA ServesMounts ==
  ASSUME Typed, NEW c \in Commands, DaemonStep(c)
  PROVE  \/ UNCHANGED <<mounts, rec>>
         \/ \E f \in Managed : Put(f, DirOf[f]) /\ rec' = rec \cup {f}
         \/ \E f \in rec : Mounted(DirOf[f]) /\ Pop(DirOf[f]) /\ rec' = rec \ {f}
<1>1. CASE ServeMount(c)
  <2> DEFINE e == Current(c, "mounted")
  <2>1. e \in Managed
    <3>1. \E res \in Outcomes : Result(c, "mounted", res)
      BY <1>1 DEF ServeMount, Outcomes
    <3> QED
      BY <1>1, <3>1, ResultIs DEF ServeMount, Results, Serving
  <2> QED
    BY <1>1, <2>1 DEF ServeMount
<1>2. CASE ServeUnmount(c)
  BY <1>2 DEF ServeUnmount
<1>3. CASE \E as \in Results : Unheard(c, as)
  BY <1>3 DEF Unheard, system
<1> QED
  BY <1>1, <1>2, <1>3 DEF DaemonStep

LEMMA HeldInit == Init => AllHeld
<1> SUFFICES ASSUME Init, NEW e \in Managed PROVE Held(e)
  BY DEF AllHeld
<1>1. PICK S \in MountedBefore :
        /\ mounts = [d \in Dirs |-> MountsOf(S, d)]
        /\ rec = S \cap Managed
  BY DEF Init, MountsOf, Fresh
<1>2. S \subseteq Entries /\ DirOf[e] \in Dirs
  BY OneOnEachDir, EntriesKinds
<1>3. Range(mounts[DirOf[e]]) = {Fresh(f) : f \in {g \in S : DirOf[g] = DirOf[e]}}
  BY <1>1, <1>2, MountsOfIs
<1>4. \A f : Fresh(f) = Fresh(e) => f = e
  BY DEF Fresh
<1>5. Live(e) => e \in rec
  BY <1>1, <1>3, <1>4, LiveIs
<1>6. e \in rec => Live(e)
  BY <1>1, <1>3, LiveIs
<1> QED
  BY <1>5, <1>6 DEF Held

LEMMA HeldKept ==
  ASSUME CommandInv, AllHeld, Step, Observe
  PROVE  AllHeld'
<1> SUFFICES ASSUME NEW e \in Managed PROVE Held(e)'
  BY DEF AllHeld
<1>1. Typed /\ Held(e) /\ e \in Entries /\ DirOf[e] \in Dirs
  BY EntriesKinds DEF CommandInv, AllHeld
<1>2. UNCHANGED mounts => (Live(e)' => Live(e)) /\ (Live(e) => Live(e)')
  BY DEF Live
<1>3. ASSUME NEW c \in Commands, Acts(c), Wake PROVE Held(e)'
  <2>1. WorkInv(c)
    BY DEF CommandInv, AllWork
  <2>2. rec' = rec
    BY <1>1, <1>3, <2>1, ActsMounts
  <2>3. Live(e)' => Live(e)
    <3>1. \A f \in Local : Put(f, DirOf[f]) => (Live(e)' => Live(e))
      <4>1. \A f \in Local : f \in Entries /\ f # e
        BY DEF Local
      <4> QED
        BY <1>1, <4>1, LiveAfterPut
    <3> QED
      BY <1>1, <1>2, <1>3, <2>1, <3>1, ActsMounts, LiveAfterPop
  <2> QED
    BY <1>1, <1>3, <2>2, <2>3, WakesHeld
<1>4. ASSUME NEW c \in Commands, DaemonStep(c), Wake PROVE Held(e)'
  <2>1. CASE UNCHANGED <<mounts, rec>>
    BY <1>1, <1>2, <1>4, <2>1, WakesHeld
  <2>2. ASSUME NEW f \in Managed, Put(f, DirOf[f]), rec' = rec \cup {f} PROVE Held(e)'
    <3>1. f \in Entries
      BY EntriesKinds
    <3>2. CASE f = e
      <4>1. Live(e)' /\ e \in rec'
        BY <1>1, <2>2, <3>1, <3>2, LiveAfterPut
      <4> QED
        BY <4>1 DEF Held
    <3>3. CASE f # e
      <4>1. Live(e)' => Live(e)
        BY <1>1, <2>2, <3>1, <3>3, LiveAfterPut
      <4> QED
        BY <1>1, <1>4, <2>2, <3>3, <4>1, WakesHeld
    <3> QED
      BY <3>2, <3>3
  <2>3. ASSUME NEW f \in rec, Mounted(DirOf[f]), Pop(DirOf[f]), rec' = rec \ {f} PROVE Held(e)'
    <3>1. DirOf[f] \in Dirs
      BY <1>1, EntriesKinds DEF Typed
    <3>2. (Live(e)' => Live(e)) /\ mounts' # mounts
      BY <1>1, <2>3, <3>1, LiveAfterPop
    <3> QED
      BY <1>1, <1>4, <2>3, <3>2, WakesHeld
  <2> QED
    BY <1>1, <1>4, <2>1, <2>2, <2>3, ServesMounts
<1>5. ASSUME NEW f \in Managed, Watch(f) PROVE Held(e)'
  <2>1. /\ (Live(e)' => Live(e)) /\ (Live(e) => Live(e)')
        /\ late[f] \in Nat /\ late[e] \in Nat /\ late[f] > 0
        /\ late' = [late EXCEPT ![f] = late[f] - 1] /\ rec' = rec \ {f}
    BY <1>1, <1>2, <1>5 DEF Watch, system, Typed
  <2>2. CASE f = e
    <3>1. e \notin rec' /\ late'[e] < late[e]
      BY <1>1, <2>1, <2>2 DEF Typed
    <3>2. ASSUME Live(e)' PROVE e \in robbed'
      <4>1. e \in robbed \/ Robs(e)
        BY <1>1, <2>1, <3>1, <3>2 DEF Held, Robs
      <4> QED
        BY <3>2, <4>1, RobbedIs
    <3> QED
      BY <3>1, <3>2 DEF Held
  <2>3. CASE f # e
    <3>1. late'[e] = late[e] /\ (e \in rec' <=> e \in rec)
      BY <1>1, <2>1, <2>3 DEF Typed
    <3>2. Live(e)' /\ e \in robbed => e \in robbed'
      BY RobbedIs
    <3> QED
      BY <1>1, <2>1, <3>1, <3>2 DEF Held
  <2> QED
    BY <2>2, <2>3
<1>6. ASSUME NEW f \in Entries, ServerDies(f) PROVE Held(e)'
  <2>1. Strand({f}) /\ e \notin {f} /\ rec' = rec /\ late' = late
    BY <1>6 DEF ServerDies, Local, daemon
  <2>2. (Live(e)' => Live(e)) /\ (Live(e) => Live(e)')
    BY <1>1, <2>1, LiveAfterStrand
  <2>3. Live(e)' /\ e \in robbed => e \in robbed'
    BY RobbedIs
  <2> QED
    BY <1>1, <2>1, <2>2, <2>3 DEF Held
<1>7. CASE DaemonStops \/ DaemonKilled
  BY <1>1, <1>7, LiveAfterEnd DEF Held
<1>8. ASSUME NEW d \in Dirs, UnmountedOutside(d) PROVE Held(e)'
  <2>1. Mounted(d) /\ Pop(d) /\ Wake /\ rec' = rec
    BY <1>8 DEF UnmountedOutside, daemon
  <2>2. Live(e)' => Live(e)
    BY <1>1, <2>1, LiveAfterPop
  <2> QED
    BY <1>1, <2>1, <2>2, WakesHeld
<1> QED
  BY <1>3, <1>4, <1>5, <1>6, <1>7, <1>8 DEF Step, Acts, Outside

(* What the records are worth, whatever the order of mounts, unmounts,     *)
(* late watchers and ends of the daemon: a live mount of the daemon is on  *)
(* record unless it was robbed of it, and a record without a live mount    *)
(* has a watcher to come (backend.go:60-250).                              *)
THEOREM HeldInvariant == Spec => []AllHeld
<1>1. CommandInv /\ AllHeld /\ [Next]_vars => AllHeld'
  <2>1. UNCHANGED vars /\ AllHeld => AllHeld'
    BY DEF vars, AllHeld, Held, Live
  <2> QED
    BY <2>1, HeldKept DEF Next
<1> QED
  BY <1>1, HeldInit, CommandInvariant, PTL DEF Spec

-----------------------------------------------------------------------------
(* What a command has seen of the entries it may report on.                *)

(* A command stays with its line, and plans when it has read everything.   *)
GoesOnWith(c) == /\ pc'[c] # "idle"
                 /\ pc[c] # "idle" => req'[c] = req[c]
PlanLast(c) == \A i \in DOMAIN todo[c] : todo[c][i].do = "plan" => i = Len(todo[c])

LEMMA MovesGoOn ==
  ASSUME Typed, NEW c \in Commands, Moves(c)
  PROVE  GoesOnWith(c)
<1>1. pc \in [Commands -> Places]
  BY DEF Typed
<1>2. CASE Walks(c)
  BY <1>1, <1>2 DEF Walks, GoesOnWith
<1>3. CASE Speaks(c) \/ Skips(c) \/ Looks(c)
  BY <1>1, <1>3 DEF Speaks, Skips, Looks, Tells, Goes, GoesOnWith
<1>4. CASE Plan(c) \/ ConfirmAll(c) \/ ConfirmFix(c) \/ \E S \in SUBSET Entries : Choose(c, S)
  BY <1>1, <1>4 DEF Plan, ConfirmAll, ConfirmFix, Choose, At, GoesOnWith
<1>5. CASE \E r \in Requests[c] : Run(c, r)
  BY <1>1, <1>5 DEF Run, At, GoesOnWith
<1> QED
  BY <1>2, <1>3, <1>4, <1>5 DEF Moves

LEMMA NoPlanLast ==
  ASSUME NEW c \in Commands, todo[c] \in Seq(Fitting), \A t \in Range(todo[c]) : t.do # "plan"
  PROVE  PlanLast(c)
BY DEF PlanLast, Range

LEMMA NewWorkPlansLast ==
  ASSUME NEW ts \in Seq(Fitting), NEW f, NEW c \in Commands,
         f[c] = ts, \A t \in Range(ts) : t.do # "plan"
  PROVE  \A i \in DOMAIN f[c] : f[c][i].do = "plan" => i = Len(f[c])
BY DEF Range

LEMMA TailPlansLast ==
  ASSUME Typed, NEW c \in Commands, PlanLast(c), todo[c] # << >>, Goes(c)
  PROVE  PlanLast(c)'
<1> DEFINE s == todo[c]
           n == Len(s)
<1>1. s \in Seq(Fitting) /\ n \in Nat /\ DOMAIN s = 1..n /\ n # 0
  <2>1. s \in Seq(Fitting)
    BY DEF Typed
  <2> QED
    BY <2>1, LenProperties, NothingThere
<1>2. /\ Tail(s) \in Seq(Fitting) /\ Len(Tail(s)) = n - 1
      /\ \A i \in 1..(n - 1) : Tail(s)[i] = s[i + 1]
  <2>1. s \in Seq(Fitting) /\ s # << >>
    BY <1>1, NothingThere
  <2> HIDE DEF s
  <2>2. /\ Tail(s) \in Seq(Fitting) /\ Len(Tail(s)) = n - 1
        /\ \A i \in 1..Len(Tail(s)) : Tail(s)[i] = s[i + 1]
    BY <2>1, HeadTailProperties
  <2> QED
    BY <2>2
<1>3. DOMAIN Tail(s) = 1..(n - 1)
  BY <1>2, LenProperties
<1>4. todo'[c] = Tail(s)
  BY GoesOn
<1>5. \A i \in 1..n : s[i].do = "plan" => i = n
  BY <1>1 DEF PlanLast
<1> HIDE DEF s, n
<1>6. \A i \in DOMAIN Tail(s) : Tail(s)[i].do = "plan" => i = Len(Tail(s))
  <2> SUFFICES ASSUME NEW i \in 1..(n - 1), Tail(s)[i].do = "plan" PROVE i = n - 1
    BY <1>2, <1>3
  <2>1. i + 1 \in 1..n /\ s[i + 1].do = "plan"
    BY <1>1, <1>2
  <2> QED
    BY <1>5, <2>1, <1>1
<1> QED
  BY <1>4, <1>6 DEF PlanLast

LEMMA RefreshPlansLast ==
  LET s == Refresh \o <<Task("plan", << >>)>>
  IN \A i \in DOMAIN s : s[i].do = "plan" => i = Len(s)
<1> DEFINE l == Only(Order, Local)
           m == Only(Order, Managed)
           p == Each("read", l)
           q == Batch("ask", m)
           z == <<Task("plan", << >>)>>
           u == p \o q
           n == Len(u)
<1>1. l \in Seq(Local) /\ l \in Seq(Entries) /\ m \in Seq(Managed)
  BY OrderIsList, OnlyThose
<1> HIDE DEF l, m
<1>2. p \in Seq(Fitting) /\ Range(p) = {Task("read", <<e>>) : e \in Range(l)}
  <2>1. "read" \in OnLocal \cup OnEntry
    BY DEF OnLocal
  <2> QED
    BY <1>1, <2>1, EachIs
<1>3. q \in Seq(Fitting) /\ Range(q) \subseteq {Task("ask", m)}
  <2>1. "ask" \in OnSome
    BY DEF OnSome
  <2> QED
    BY <1>1, <2>1, BatchIs
<1>4. z \in Seq(Fitting) /\ Len(z) = 1
  BY OneTask
<1> HIDE DEF p, q, z
<1>5. u \in Seq(Fitting) /\ Range(u) = Range(p) \cup Range(q)
  <2>1. p \in Seq(Fitting) /\ q \in Seq(Fitting)
    BY <1>2, <1>3
  <2> QED
    BY <2>1, RangeOfConcat
<1>6. \A t \in Range(u) : t.do # "plan"
  BY <1>2, <1>3, <1>5 DEF Task
<1> HIDE DEF u
<1>7. n \in Nat /\ DOMAIN u = 1..n
  BY <1>5, LenProperties
<1>8. /\ u \o z \in Seq(Fitting) /\ Len(u \o z) = n + 1 /\ DOMAIN (u \o z) = 1..(n + 1)
      /\ \A i \in 1..(n + 1) : (u \o z)[i] = IF i <= n THEN u[i] ELSE z[i - n]
  <2>1. u \in Seq(Fitting) /\ z \in Seq(Fitting)
    BY <1>4, <1>5
  <2>2. /\ u \o z \in Seq(Fitting) /\ Len(u \o z) = Len(u) + Len(z)
        /\ \A i \in 1..(Len(u) + Len(z)) : (u \o z)[i] = IF i <= Len(u) THEN u[i] ELSE z[i - Len(u)]
    BY <2>1, ConcatProperties
  <2>3. DOMAIN (u \o z) = 1..Len(u \o z)
    BY <2>2, LenProperties
  <2> QED
    BY <1>4, <2>2, <2>3
<1>9. \A i \in 1..n : u[i].do # "plan"
  BY <1>6, <1>7 DEF Range
<1>10. \A i \in DOMAIN (u \o z) : (u \o z)[i].do = "plan" => i = Len(u \o z)
  <2> SUFFICES ASSUME NEW i \in 1..(n + 1), (u \o z)[i].do = "plan" PROVE i = n + 1
    BY <1>8
  <2>1. CASE i <= n
    BY <1>7, <1>8, <1>9, <2>1
  <2>2. CASE ~(i <= n)
    BY <1>7, <2>2
  <2> QED
    BY <2>1, <2>2
<1>11. Refresh \o <<Task("plan", << >>)>> = u \o z
  BY DEF Refresh, u, p, q, z, l, m
<1> QED
  BY <1>10, <1>11

LEMMA MovesPlanLast ==
  ASSUME Typed, NEW c \in Commands, WorkInv(c), Moves(c), PlanLast(c)
  PROVE  PlanLast(c)'
<1>1. CASE Walks(c)
  BY <1>1 DEF Walks, PlanLast
<1>2. CASE Speaks(c) \/ Skips(c) \/ Looks(c)
  <2>1. Goes(c) /\ todo[c] # << >>
    BY <1>2 DEF Speaks, Skips, Looks, Tells, Doing
  <2> QED
    BY <2>1, TailPlansLast
<1>3. CASE \E ts \in Seq(Fitting) : todo'[c] = ts /\ \A t \in Range(ts) : t.do # "plan"
  BY <1>3, NewWorkPlansLast DEF PlanLast
<1>4. CASE Plan(c)
  <2>1. req[c] \in Request
    BY <1>4 DEF Plan, WorkInv, Placed, Typed
  <2>2. WorkFor(req[c]) \in Seq(Fitting) /\ \A t \in Range(WorkFor(req[c])) : t.do # "plan"
    BY <2>1, WorkForIs DEF Kinds
  <2>3. todo'[c] = WorkFor(req[c])
    BY <1>4 DEF Plan, Then, Typed
  <2> QED
    BY <1>3, <2>2, <2>3
<1>5. CASE ConfirmAll(c)
  <2>1. req[c] # None
    BY <1>5 DEF ConfirmAll, WorkInv, Placed
  <2>2. WorkFor(AllNames(c)) \in Seq(Fitting) /\ \A t \in Range(WorkFor(AllNames(c))) : t.do # "plan"
    BY <2>1, AllNamesIs, WorkForIs DEF Kinds
  <2>3. << >> \in Seq(Fitting) /\ Range(<< >>) = {}
    BY NothingListed
  <2>4. todo'[c] = WorkFor(AllNames(c)) \/ todo'[c] = << >>
    BY <1>5 DEF ConfirmAll, Then, Typed, AllNames
  <2> QED
    BY <1>3, <2>2, <2>3, <2>4
<1>6. CASE ConfirmFix(c)
  <2>1. << >> \in Seq(Fitting) /\ Range(<< >>) = {}
    BY NothingListed
  <2>2. OwnWork(c) \in Seq(Fitting) /\ \A t \in Range(OwnWork(c)) : t.do # "plan"
    BY OwnWorkIs DEF Task
  <2>3. todo'[c] = OwnWork(c) \/ todo'[c] = << >>
    BY <1>6 DEF ConfirmFix, Then, Typed, OwnWork
  <2> QED
    BY <1>3, <2>1, <2>2, <2>3
<1>7. ASSUME NEW S, Choose(c, S) PROVE PlanLast(c)'
  <2>1. ChosenWork(c, S) \in Seq(Fitting) /\ \A t \in Range(ChosenWork(c, S)) : t.do # "plan"
    BY ChosenWorkIs
  <2>2. todo'[c] = ChosenWork(c, S)
    BY <1>7 DEF Choose, Then, Typed, ChosenWork
  <2> QED
    BY <1>3, <2>1, <2>2
<1>8. ASSUME NEW r \in Requests[c], Run(c, r) PROVE PlanLast(c)'
  <2>1. r \in Request
    BY RequestsAreLines
  <2>2. WorkFor(r) \in Seq(Fitting) /\ \A t \in Range(WorkFor(r)) : t.do # "plan"
    BY <2>1, WorkForIs DEF Kinds
  <2>3. todo'[c] = WorkFor(r) \/ todo'[c] = Refresh \o <<Task("plan", << >>)>>
    BY <1>8 DEF Run, Then, Typed
  <2>4. CASE todo'[c] = Refresh \o <<Task("plan", << >>)>>
    BY <2>4, RefreshPlansLast DEF PlanLast
  <2> QED
    BY <1>3, <2>2, <2>3, <2>4
<1> QED
  BY <1>1, <1>2, <1>4, <1>5, <1>6, <1>7, <1>8 DEF Moves

(* When it plans, everything has been read.                                *)
LEMMA PlanHasRead ==
  ASSUME Typed, NEW c \in Commands, PlanLast(c), Doing(c, "plan")
  PROVE  Range(todo[c]) = {Do(c)}
<1> DEFINE s == todo[c]
           n == Len(s)
<1>1. s \in Seq(Fitting) /\ s # << >>
  BY DEF Typed, Doing
<1>2. n \in Nat /\ DOMAIN s = 1..n /\ n # 0
  BY <1>1, LenProperties, NothingThere
<1>3. 1 \in DOMAIN s /\ s[1] = Do(c) /\ s[1].do = "plan"
  BY <1>2 DEF Do, Doing
<1>4. n = 1
  BY <1>3 DEF PlanLast
<1> QED
  BY <1>2, <1>3, <1>4 DEF Range

(* What a command knows it has seen.                                       *)
Notes(c, e, as) == <<e, as>> \in Wanted(req[c]) => <<e, as>> \in seen[c]
Observed(c) == \A e \in Entries : \A as \in Shows(e) : Notes(c, e, as)
Viewed(c) ==
  /\ \A e \in view[c] : Notes(c, e, "mounted")
  /\ \A e \in Local : e \in view[c] \/ Task("read", <<e>>) \in Range(todo[c]) \/ Notes(c, e, "unmounted")
Served(c) ==
  \A as \in Results : batch[c][as] # None =>
    \A e \in Managed : batch[c][as].results[e] = "ok" => Notes(c, e, as)
Printed(c) == \A r \in Range(reports[c]) : r.ok /\ r.as \in Results => <<r.of, r.as>> \in seen[c]
SeenInv(c) == /\ PlanLast(c) /\ Printed(c)
              /\ pc[c] # "idle" => Observed(c) /\ Viewed(c) /\ Served(c)

LEMMA ObserveIs ==
  ASSUME Typed, Observe, NEW c \in Commands, pc'[c] # "idle"
  PROVE  /\ seen[c] \subseteq seen'[c]
         /\ \A e \in Entries : \A as :
              <<e, as>> \in Wanted(req'[c]) /\ as \in Shows(e)' => <<e, as>> \in seen'[c]
<1> DEFINE New(x) == {w \in Wanted(req'[x]) : w[1] \in Entries /\ w[2] \in Shows(w[1])'}
<1>1. seen' = [x \in Commands |-> IF pc'[x] = "idle" THEN {} ELSE seen[x] \cup New(x)]
  BY DEF Observe
<1>2. seen'[c] = seen[c] \cup New(c)
  <2> HIDE DEF New
  <2> QED
    BY <1>1
<1>3. ASSUME NEW e \in Entries, NEW as, <<e, as>> \in Wanted(req'[c]), as \in Shows(e)'
      PROVE  <<e, as>> \in New(c)
  <2>1. <<e, as>>[1] = e /\ <<e, as>>[2] = as
    OBVIOUS
  <2> QED
    BY <1>3, <2>1
<1> QED
  BY <1>2, <1>3

LEMMA ObservedNow ==
  ASSUME Typed, Observe, NEW c \in Commands, pc'[c] # "idle"
  PROVE  Observed(c)'
BY ObserveIs DEF Observed, Notes

LEMMA NotesKept ==
  ASSUME Typed, Observe, NEW c \in Commands, GoesOnWith(c), pc[c] # "idle",
         NEW e, NEW as, Notes(c, e, as)
  PROVE  Notes(c, e, as)'
BY ObserveIs DEF Notes, GoesOnWith

LEMMA AsksNotes ==
  ASSUME NEW c \in Commands, NEW e \in Entries, NEW as \in Results, Asks(c, e, as), Notes(c, e, as)
  PROVE  <<e, as>> \in seen[c]
<1>1. CASE as = "mounted"
  BY <1>1 DEF Asks, Notes, Wanted, Verb, Range
<1>2. CASE as = "unmounted"
  BY <1>2 DEF Asks, Notes, Wanted, Verb, Range
<1> QED
  BY <1>1, <1>2 DEF Results

(* What the states of the system show.                                     *)
LEMMA ShowsOf ==
  ASSUME NEW e \in Entries
  PROVE  /\ e \in Managed => /\ Live(e) \/ late[e] > 0 => "mounted" \in Shows(e)
                             /\ ~Live(e) \/ e \in robbed => "unmounted" \in Shows(e)
         /\ e \in Local => /\ Mounted(DirOf[e]) /\ ~Dead(DirOf[e]) => "mounted" \in Shows(e)
                           /\ ~(Mounted(DirOf[e]) /\ ~Dead(DirOf[e])) => "unmounted" \in Shows(e)
                           /\ Len(mounts[DirOf[e]]) > 1 => "unmounted" \in Shows(e)
<1>1. e \in Managed => /\ Live(e) \/ late[e] > 0 => "mounted" \in Shows(e)
                       /\ ~Live(e) \/ e \in robbed => "unmounted" \in Shows(e)
  BY DEF Shows, ShowsManaged, Results
<1>2. ASSUME e \in Local
      PROVE  /\ Mounted(DirOf[e]) /\ ~Dead(DirOf[e]) => "mounted" \in Shows(e)
             /\ ~(Mounted(DirOf[e]) /\ ~Dead(DirOf[e])) => "unmounted" \in Shows(e)
             /\ Len(mounts[DirOf[e]]) > 1 => "unmounted" \in Shows(e)
  <2>1. ShowsLocal(e) \subseteq Shows(e)
    BY <1>2 DEF Local, Shows
  <2> DEFINE d == DirOf[e]
  <2>2. CASE ~Mounted(d) \/ Dead(d)
    <3>1. ShowsLocal(e) = {"unmounted"}
      BY <2>2 DEF ShowsLocal
    <3> QED
      BY <2>1, <2>2, <3>1
  <2>3. CASE Mounted(d) /\ ~Dead(d)
    BY <2>1, <2>3 DEF ShowsLocal, Results
  <2> QED
    BY <2>2, <2>3
<1> QED
  BY <1>1, <1>2

(* What the directory of a local entry shows after a step.                 *)
LEMMA ShowsLocalNext ==
  ASSUME NEW e \in Local
  PROVE  /\ (Mounted(DirOf[e]) /\ ~Dead(DirOf[e]))' => "mounted" \in Shows(e)'
         /\ ~Mounted(DirOf[e])' => "unmounted" \in Shows(e)'
<1>1. ShowsLocal(e)' \subseteq Shows(e)'
  BY DEF Local, Shows
<1>2. ~Mounted(DirOf[e])' => ShowsLocal(e)' = {"unmounted"}
  BY DEF ShowsLocal
<1>3. (Mounted(DirOf[e]) /\ ~Dead(DirOf[e]))' => "mounted" \in ShowsLocal(e)'
  BY DEF ShowsLocal, Results
<1> QED
  BY <1>1, <1>2, <1>3

LEMMA ShowsManagedNext ==
  ASSUME NEW e \in Managed
  PROVE  /\ Live(e)' => "mounted" \in Shows(e)'
         /\ ~Live(e)' \/ e \in robbed' => "unmounted" \in Shows(e)'
BY DEF Shows, ShowsManaged, Results

KeepsResults(x) ==
  \A as \in Results : batch'[x][as] # None =>
    \/ batch[x][as] # None /\ batch'[x][as].results = batch[x][as].results
    \/ batch'[x][as].results = NoResults

LEMMA CommandResults ==
  ASSUME Typed, NEW c \in Commands, Acts(c)
  PROVE  \A x \in Commands : KeepsResults(x)
<1>1. CASE UNCHANGED batch
  BY <1>1 DEF KeepsResults
<1>2. CASE Reply(c)
  <2>1. As(c) \in Results
    BY DEF As, Results
  <2>2. /\ batch'[c][As(c)] = None
        /\ \A x \in Commands, a \in Results : <<x, a>> # <<c, As(c)>> => batch'[x][a] = batch[x][a]
    BY <1>2, <2>1, ForgetIs DEF Reply
  <2> QED
    BY <2>2 DEF KeepsResults
<1>3. CASE Sends(c)
  <2>1. /\ batch'[c][As(c)].results = NoResults
        /\ \A x \in Commands, a \in Results : <<x, a>> # <<c, As(c)>> => batch'[x][a] = batch[x][a]
    BY <1>3, SendsBatch
  <2> QED
    BY <2>1 DEF KeepsResults
<1>4. CASE Send(c)
  BY <1>1, <1>3, <1>4 DEF Send, Sends, At
<1>5. CASE ~Reply(c) /\ ~Send(c)
  <2>1. CASE CommandStep(c)
    BY <1>1, <1>5, <2>1 DEF daemon, CommandStep, Read, Ask, Plan, Exit, LocalStep, ManagedStep, MkdirStep,
         LocalSkipped, LocalCheck, LocalMount, LocalUnmount, Ensure, ReplyLost, Stat, Make, OwnMade, Fix, Own
  <2>2. CASE UserStep(c) \/ \E r \in Requests[c] : Run(c, r)
    BY <1>1, <2>2 DEF daemon, UserStep, ConfirmAll, ConfirmFix, Choose, Run
  <2> QED
    BY <2>1, <2>2 DEF Acts
<1> QED
  BY <1>2, <1>4, <1>5

LEMMA ServedKept ==
  ASSUME Typed, Observe, NEW c \in Commands, GoesOnWith(c), pc[c] # "idle", Served(c), KeepsResults(c)
  PROVE  Served(c)'
<1> SUFFICES ASSUME NEW as \in Results, batch'[c][as] # None, NEW e \in Managed, batch'[c][as].results[e] = "ok"
             PROVE  Notes(c, e, as)'
  BY DEF Served
<1>1. NoResults[e] = "none"
  BY DEF NoResults
<1>2. batch[c][as] # None /\ batch[c][as].results[e] = "ok"
  BY <1>1 DEF KeepsResults
<1> QED
  BY <1>2, NotesKept DEF Served

LEMMA ViewedKept ==
  ASSUME Typed, Observe, NEW c \in Commands, GoesOnWith(c), pc[c] # "idle", Viewed(c),
         view'[c] = view[c],
         \A e \in Local : Task("read", <<e>>) \in Range(todo[c]) => Task("read", <<e>>) \in Range(todo'[c])
  PROVE  Viewed(c)'
<1>1. \A e \in view'[c] : Notes(c, e, "mounted")'
  BY NotesKept DEF Viewed
<1>2. \A e \in Local : e \in view'[c] \/ Task("read", <<e>>) \in Range(todo'[c]) \/ Notes(c, e, "unmounted")'
  BY NotesKept DEF Viewed
<1> QED
  BY <1>1, <1>2 DEF Viewed

LEMMA PrintedKept ==
  ASSUME Typed, Observe, NEW c \in Commands, WorkInv(c), pc'[c] # "idle", Printed(c), reports'[c] = reports[c]
  PROVE  Printed(c)'
BY ObserveIs DEF Printed

LEMMA OthersKeepSeen ==
  ASSUME Typed, Observe, NEW x \in Commands, WorkInv(x), SeenInv(x), Same5(x), KeepsResults(x)
  PROVE  SeenInv(x)'
<1>1. PlanLast(x)'
  BY DEF SeenInv, PlanLast, Same5
<1>2. CASE pc[x] = "idle"
  <2>1. reports'[x] = << >> /\ pc'[x] = "idle"
    BY <1>2 DEF WorkInv, Placed, Same5
  <2> QED
    BY <1>1, <2>1, NothingListed DEF SeenInv, Printed
<1>3. CASE pc[x] # "idle"
  <2>1. GoesOnWith(x) /\ pc'[x] # "idle"
    BY <1>3 DEF GoesOnWith, Same5
  <2>2. Printed(x)'
    BY <2>1, PrintedKept DEF SeenInv, Same5
  <2>3. Viewed(x)'
    BY <1>3, <2>1, ViewedKept DEF SeenInv, Same5
  <2>4. Served(x)'
    BY <1>3, <2>1, ServedKept DEF SeenInv
  <2> QED
    BY <1>1, <2>1, <2>2, <2>3, <2>4, ObservedNow DEF SeenInv
<1> QED
  BY <1>2, <1>3

-----------------------------------------------------------------------------
(* What a command says, it knows.                                          *)
Vouched(c, rs) == \A r \in Range(rs) : r.ok /\ r.as \in Results => <<r.of, r.as>> \in seen'[c]
TellsTruly(c)  == \E rs \in Seq(Reports) : Tells(c, rs) /\ Vouched(c, rs)

LEMMA TellItTruly ==
  ASSUME Typed, NEW c \in Commands, NEW as \in Words, NEW ok \in BOOLEAN, It(c) \in Entries,
         TellIt(c, as, ok), ok /\ as \in Results => <<It(c), as>> \in seen'[c]
  PROVE  TellsTruly(c)
<1> DEFINE rs == <<Report(It(c), as, ok)>>
<1>1. rs \in Seq(Reports) /\ Range(rs) = {Report(It(c), as, ok)}
  BY ReportIs
<1>2. Tells(c, rs)
  BY TellItTells
<1> HIDE DEF rs
<1>3. Vouched(c, rs)
  <2> SUFFICES ASSUME NEW r \in Range(rs), r.ok, r.as \in Results PROVE <<r.of, r.as>> \in seen'[c]
    BY DEF Vouched
  <2>0. r = Report(It(c), as, ok)
    BY <1>1
  <2>1. r.of = It(c) /\ r.as = as /\ r.ok = ok
    BY <2>0 DEF Report
  <2>2. <<It(c), as>> \in seen'[c]
    BY <2>1
  <2> QED
    BY <2>1, <2>2
<1> QED
  BY <1>1, <1>2, <1>3 DEF TellsTruly

LEMMA AnswerTruly ==
  ASSUME Typed, NEW c \in Commands, AtDaemon(c), NEW f \in [Managed -> BOOLEAN], Tells(c, Answer(c, f)),
         \A e \in Range(Do(c).on) : f[e] => <<e, As(c)>> \in seen'[c]
  PROVE  TellsTruly(c)
<1> DEFINE rs == Answer(c, f)
<1>1. rs \in Seq(Reports) /\ Range(rs) = {Report(e, As(c), f[e]) : e \in Range(Do(c).on)} /\ Tells(c, rs)
  BY AnswerIs
<1> HIDE DEF rs
<1>2. Vouched(c, rs)
  <2> SUFFICES ASSUME NEW r \in Range(rs), r.ok PROVE <<r.of, r.as>> \in seen'[c]
    BY DEF Vouched
  <2>1. PICK e \in Range(Do(c).on) : r = Report(e, As(c), f[e])
    BY <1>1
  <2>2. r.of = e /\ r.as = As(c) /\ r.ok = f[e]
    BY <2>1 DEF Report
  <2> QED
    BY <2>2
<1> QED
  BY <1>1, <1>2 DEF TellsTruly

LEMMA FailedTruly ==
  ASSUME Typed, NEW c \in Commands, AtDaemon(c), AllFailed(c)
  PROVE  TellsTruly(c)
<1> DEFINE f == [e \in Managed |-> FALSE]
<1>1. f \in [Managed -> BOOLEAN] /\ Tells(c, Answer(c, f))
  BY AllFailedTells, FailedIsAnswer
<1>2. Range(Do(c).on) \subseteq Managed
  BY ItIs DEF AtDaemon, Doing, OnSome, AtDaemonKinds
<1>3. \A e \in Range(Do(c).on) : ~f[e]
  BY <1>2
<1> HIDE DEF f
<1> QED
  BY <1>1, <1>3, AnswerTruly

LEMMA WordsAre == Results \subseteq Words /\ {"created", "existing", "mismatch", "fixed"} \subseteq Words
                  /\ {"created", "existing", "mismatch", "fixed"} \cap Results = {}
BY DEF Words, Results

LEMMA LocalTruly ==
  ASSUME Typed, Observe, NEW c \in Commands, WorkInv(c), SeenInv(c), pc[c] # "idle", LocalStep(c)
  PROVE  reports'[c] = reports[c] \/ TellsTruly(c)
<1>1. /\ "mounted" \in Results /\ "unmounted" \in Results /\ "mounted" \in Words /\ "unmounted" \in Words
  BY WordsAre DEF Results
<1>2. /\ Doing(c, "mount") \/ Doing(c, "unmount")
      /\ It(c) \in Entries /\ It(c) \in Local /\ DirOf[It(c)] \in Dirs /\ todo[c] # << >>
      /\ Moves(c) /\ GoesOnWith(c) /\ pc'[c] # "idle" /\ req'[c] = req[c]
  <2>1. Doing(c, "mount") \/ Doing(c, "unmount")
    BY DEF LocalStep, LocalSkipped, LocalCheck, LocalMount, LocalUnmount
  <2>2. Moves(c)
    BY LocalStepMoves
  <2> QED
    BY <2>1, <2>2, LocalTasks, MovesGoOn DEF GoesOnWith
<1>e. PICK e : e = It(c)
  OBVIOUS
<1>d. PICK d : d = DirOf[e]
  OBVIOUS
<1>3. CASE LocalCheck(c)
  BY <1>1, <1>2, <1>e, <1>d, <1>3, TellItTruly DEF LocalCheck
<1>4. CASE LocalSkipped(c)
  <2>1. CASE Doing(c, "mount") /\ e \in view[c] /\ TellIt(c, "mounted", TRUE)
    <3>1. <<e, "mounted">> \in seen[c]
      BY <1>1, <1>2, <1>e, <1>d, <2>1, AsksWhatItDoes, AsksNotes DEF SeenInv, Viewed
    <3> QED
      BY <1>1, <1>2, <1>e, <1>d, <2>1, <3>1, ObserveIs, TellItTruly
  <2>2. CASE Doing(c, "unmount") /\ e \notin view[c] /\ TellIt(c, "unmounted", TRUE)
    <3>1. Do(c).do \notin Reads /\ Task("read", <<e>>).do \in Reads
      BY <2>2 DEF Doing, Reads, Task
    <3>2. Task("read", <<e>>) \notin Range(todo[c])
      BY <1>2, <1>e, <1>d, <3>1, ReadsAlone DEF WorkInv
    <3>3. <<e, "unmounted">> \in seen[c]
      BY <1>1, <1>2, <1>e, <1>d, <2>2, <3>2, AsksWhatItDoes, AsksNotes DEF SeenInv, Viewed
    <3> QED
      BY <1>1, <1>2, <1>e, <1>d, <2>2, <3>3, ObserveIs, TellItTruly
  <2> QED
    BY <1>4, <1>e, <2>1, <2>2 DEF LocalSkipped
<1>5. CASE LocalMount(c)
  <2>1. CASE TellIt(c, "mounted", FALSE)
    BY <1>1, <1>2, <1>e, <1>d, <2>1, TellItTruly
  <2>2. CASE Put(e, d) /\ TellIt(c, "mounted", TRUE)
    <3>1. mounts'[d] # << >> /\ mounts'[d][Len(mounts'[d])].live
      <4>1. /\ mounts'[d] \in Seq(Mount) /\ Range(mounts'[d]) = Range(mounts[d]) \cup {Fresh(e)}
            /\ mounts'[d][Len(mounts'[d])] = Fresh(e)
        BY <1>2, <1>e, <1>d, <2>2, PutIs
      <4> QED
        BY <4>1, NothingThere DEF Fresh
    <3>2. (Mounted(d) /\ ~Dead(d))'
      BY <3>1, <1>d DEF Mounted, Dead
    <3>3. "mounted" \in Shows(e)'
      BY <1>2, <1>e, <1>d, <3>2, ShowsLocalNext
    <3>4. Asks(c, e, "mounted")
      BY <1>5, <1>e, AsksWhatItDoes DEF LocalMount
    <3>5. <<e, "mounted">> \in Wanted(req'[c])
      BY <1>2, <1>e, <1>d, <3>4 DEF Asks, Wanted, Verb, Range, Results
    <3>6. <<e, "mounted">> \in seen'[c]
      BY <1>1, <1>2, <1>e, <1>d, <3>3, <3>5, ObserveIs
    <3> QED
      BY <1>1, <1>2, <1>e, <1>d, <2>2, <3>6, TellItTruly
  <2> QED
    BY <1>5, <1>e, <1>d, <2>1, <2>2 DEF LocalMount
<1>6. CASE LocalUnmount(c)
  <2>1. CASE TellIt(c, "unmounted", FALSE)
    BY <1>1, <1>2, <1>e, <1>d, <2>1, TellItTruly
  <2>2. CASE Mounted(d) /\ Pop(d) /\ TellIt(c, "unmounted", TRUE)
    <3>1. Asks(c, e, "unmounted")
      BY <1>6, <1>e, AsksWhatItDoes DEF LocalUnmount
    <3>2. CASE Len(mounts[d]) > 1
      <4>1. "unmounted" \in Shows(e)
        BY <1>2, <1>e, <1>d, <3>2, ShowsOf
      <4>2. <<e, "unmounted">> \in seen[c]
        BY <1>1, <1>2, <1>e, <1>d, <3>1, <4>1, AsksNotes DEF SeenInv, Observed
      <4> QED
        BY <1>1, <1>2, <1>e, <1>d, <2>2, <4>2, ObserveIs, TellItTruly
    <3>3. CASE ~(Len(mounts[d]) > 1)
      <4>1. /\ Len(mounts[d]) \in Nat /\ mounts'[d] \in Seq(Mount) /\ Len(mounts'[d]) \in Nat
            /\ Len(mounts'[d]) = Len(mounts[d]) - 1
        <5>1. mounts[d] \in Seq(Mount) /\ mounts'[d] \in Seq(Mount) /\ Len(mounts'[d]) = Len(mounts[d]) - 1
          BY <1>2, <1>e, <1>d, <2>2, PopIs DEF Typed
        <5> QED
          BY <5>1, LenProperties
      <4>2. mounts'[d] = << >>
        <5>1. Len(mounts'[d]) = 0
          <6>1. \A n, k : n \in Nat /\ k \in Nat /\ k = n - 1 /\ ~(n > 1) => k = 0
            OBVIOUS
          <6> QED
            BY <3>3, <4>1, <6>1
        <5> QED
          BY <4>1, <5>1, NothingThere
      <4>3. "unmounted" \in Shows(e)'
        <5>1. ~Mounted(d)'
          BY <4>2 DEF Mounted
        <5> QED
          BY <1>2, <1>e, <1>d, <5>1, ShowsLocalNext
      <4>4. <<e, "unmounted">> \in Wanted(req'[c])
        BY <1>2, <1>e, <1>d, <3>1 DEF Asks, Wanted, Verb, Range, Results
      <4>5. <<e, "unmounted">> \in seen'[c]
        BY <1>1, <1>2, <1>e, <1>d, <4>3, <4>4, ObserveIs
      <4> QED
        BY <1>1, <1>2, <1>e, <1>d, <2>2, <4>5, TellItTruly
    <3> QED
      BY <3>2, <3>3
  <2> QED
    BY <1>6, <1>e, <1>d, <2>1, <2>2 DEF LocalUnmount
<1> QED
  BY <1>3, <1>4, <1>5, <1>6 DEF LocalStep

LEMMA ManagedTruly ==
  ASSUME Typed, Observe, NEW c \in Commands, WorkInv(c), SeenInv(c), pc[c] # "idle", ManagedStep(c)
  PROVE  reports'[c] = reports[c] \/ TellsTruly(c)
<1>1. CASE Ensure(c)
  BY <1>1, FailedTruly DEF Ensure
<1>2. CASE Send(c)
  BY <1>2, FailedTruly DEF Send
<1>3. CASE ReplyLost(c)
  BY <1>3, FailedTruly DEF ReplyLost, WorkInv, Placed
<1>4. CASE Reply(c)
  <2>1. /\ AtDaemon(c) /\ As(c) \in Results /\ batch[c][As(c)] # None
        /\ Do(c) \in Range(todo[c]) /\ Do(c).do \in Works /\ AsOf(Do(c).do) = As(c)
        /\ Range(Do(c).on) \subseteq Managed
    <3>1. AtDaemon(c) /\ batch[c][As(c)] # None
      BY <1>4 DEF Reply, WorkInv, Placed, Answered
    <3>2. todo[c] # << >> /\ Do(c).do \in AtDaemonKinds
      BY <3>1 DEF AtDaemon, Doing, AtDaemonKinds
    <3>3. As(c) \in Results /\ AsOf(Do(c).do) = As(c) /\ Do(c).do \in Works /\ Do(c).do \in OnSome
      BY <3>1, <3>2 DEF As, AsOf, Results, AtDaemon, Doing, Works, OnSome, AtDaemonKinds
    <3> QED
      BY <3>1, <3>2, <3>3, HeadOfWork, ItIs
  <2>2. Tells(c, Answer(c, Granted(c))) /\ Granted(c) \in [Managed -> BOOLEAN]
    BY <1>4, <2>1, ReplyTells
  <2>3. pc'[c] # "idle"
    <3>1. Moves(c)
      BY ManagedStepMoves DEF WorkInv
    <3> QED
      BY <3>1, MovesGoOn DEF GoesOnWith
  <2>4. ASSUME NEW e \in Range(Do(c).on), Granted(c)[e] PROVE <<e, As(c)>> \in seen'[c]
    <3>1. e \in Managed /\ e \in Entries
      BY <2>1, EntriesKinds
    <3>2. batch[c][As(c)].results[e] = "ok"
      BY <2>4, <3>1 DEF Granted
    <3>3. Notes(c, e, As(c))
      BY <2>1, <3>1, <3>2 DEF SeenInv, Served
    <3>4. Asks(c, e, As(c))
      BY <2>1 DEF WorkInv, Asked
    <3>5. <<e, As(c)>> \in seen[c]
      BY <2>1, <3>1, <3>3, <3>4, AsksNotes
    <3> QED
      BY <2>3, <3>5, ObserveIs
  <2> QED
    BY <2>1, <2>2, <2>4, AnswerTruly
<1> QED
  BY <1>1, <1>2, <1>3, <1>4 DEF ManagedStep

LEMMA MkdirTruly ==
  ASSUME Typed, NEW c \in Commands, WorkInv(c), MkdirStep(c)
  PROVE  reports'[c] = reports[c] \/ TellsTruly(c)
<1>1. ASSUME NEW as \in {"created", "existing", "mismatch", "fixed"}, NEW ok \in BOOLEAN,
             Doing(c, "stat") \/ Doing(c, "own"), TellIt(c, as, ok)
      PROVE  TellsTruly(c)
  BY <1>1, WordsAre, LocalTasks, TellItTruly
<1>2. CASE Stat(c)
  BY <1>1, <1>2 DEF Stat
<1>3. CASE Make(c)
  BY <1>1, <1>3 DEF Make
<1>4. CASE OwnMade(c)
  BY <1>1, <1>4 DEF OwnMade, WorkInv, Placed
<1>5. CASE Fix(c)
  BY <1>5 DEF Fix
<1>6. CASE Own(c)
  BY <1>1, <1>6 DEF Own
<1> QED
  BY <1>2, <1>3, <1>4, <1>5, <1>6 DEF MkdirStep

LEMMA ActsTruly ==
  ASSUME Typed, Observe, NEW c \in Commands, WorkInv(c), SeenInv(c), pc[c] # "idle", Acts(c)
  PROVE  reports'[c] = reports[c] \/ TellsTruly(c)
<1>1. CASE LocalStep(c) \/ ManagedStep(c) \/ MkdirStep(c)
  BY <1>1, LocalTruly, ManagedTruly, MkdirTruly
<1>2. CASE Read(c) \/ Ask(c) \/ Plan(c) \/ Exit(c) \/ UserStep(c) \/ \E r \in Requests[c] : Run(c, r)
  BY <1>2 DEF Read, Ask, Plan, Exit, UserStep, ConfirmAll, ConfirmFix, Choose, Run
<1> QED
  BY <1>1, <1>2 DEF Acts, CommandStep

LEMMA PrintedOn ==
  ASSUME Typed, Observe, NEW c \in Commands, pc'[c] # "idle", Printed(c),
         reports'[c] = reports[c] \/ TellsTruly(c)
  PROVE  Printed(c)'
<1>1. \A r \in Range(reports[c]) : r.ok /\ r.as \in Results => <<r.of, r.as>> \in seen'[c]
  BY ObserveIs DEF Printed
<1>2. CASE reports'[c] = reports[c]
  BY <1>1, <1>2 DEF Printed
<1>3. CASE TellsTruly(c)
  <2>1. PICK rs \in Seq(Reports) : Tells(c, rs) /\ Vouched(c, rs)
    BY <1>3 DEF TellsTruly
  <2>2. Range(reports'[c]) = Range(reports[c]) \cup Range(rs)
    BY <2>1, TellsOf
  <2> QED
    BY <1>1, <2>1, <2>2 DEF Printed, Vouched
<1> QED
  BY <1>2, <1>3

(* Reading and asking.                                                     *)
LEMMA ReadViews ==
  ASSUME Typed, Observe, NEW c \in Commands, WorkInv(c), SeenInv(c), pc[c] # "idle", GoesOnWith(c), Read(c)
  PROVE  Viewed(c)'
<1>1. /\ todo[c] # << >> /\ Do(c).do = "read" /\ Goes(c) /\ Doing(c, "read") /\ req'[c] = req[c]
  BY OnwardGoes DEF Read, Doing
<1>2. It(c) \in Local /\ It(c) \in Entries /\ Do(c).on = <<It(c)>>
  BY <1>1, ItIs, EntriesKinds DEF OnLocal
<1>3. Range(todo[c]) = {Do(c)} \cup Range(todo'[c])
  BY <1>1, GoesOn
<1>4. view'[c] = IF Mounted(DirOf[It(c)]) /\ ~Dead(DirOf[It(c)]) THEN view[c] \cup {It(c)} ELSE view[c]
  BY DEF Read, Typed
<1>5. ASSUME NEW e \in view'[c] PROVE Notes(c, e, "mounted")'
  <2>1. CASE e \in view[c]
    BY <2>1, NotesKept DEF SeenInv, Viewed
  <2>2. CASE e \notin view[c]
    <3>1. e = It(c) /\ Mounted(DirOf[e]) /\ ~Dead(DirOf[e])
      BY <1>4, <1>5, <2>2
    <3>2. "mounted" \in Shows(e) /\ "mounted" \in Results
      BY <1>2, <3>1, ShowsOf DEF Results
    <3>3. Notes(c, e, "mounted")
      BY <1>2, <3>1, <3>2 DEF SeenInv, Observed
    <3> QED
      BY <3>3, NotesKept
  <2> QED
    BY <2>1, <2>2
<1>6. ASSUME NEW e \in Local, e \notin view'[c], Task("read", <<e>>) \notin Range(todo'[c])
      PROVE  Notes(c, e, "unmounted")'
  <2>1. e \notin view[c]
    BY <1>4, <1>6
  <2>2. CASE Task("read", <<e>>) \in Range(todo[c])
    <3>1. Task("read", <<e>>) = Do(c)
      BY <1>3, <1>6, <2>2
    <3>2. e = It(c)
      BY <1>2, <3>1 DEF Task
    <3>3. ~(Mounted(DirOf[e]) /\ ~Dead(DirOf[e]))
      BY <1>4, <1>6, <3>2
    <3>4. "unmounted" \in Shows(e) /\ "unmounted" \in Results
      BY <1>2, <3>2, <3>3, ShowsOf DEF Results
    <3>5. Notes(c, e, "unmounted")
      BY <1>2, <3>2, <3>4 DEF SeenInv, Observed
    <3> QED
      BY <3>5, NotesKept
  <2>3. CASE Task("read", <<e>>) \notin Range(todo[c])
    BY <2>1, <2>3, NotesKept DEF SeenInv, Viewed
  <2> QED
    BY <2>2, <2>3
<1> QED
  BY <1>5, <1>6 DEF Viewed

LEMMA AskViews ==
  ASSUME Typed, AllHeld, Observe, NEW c \in Commands, WorkInv(c), SeenInv(c), pc[c] # "idle", GoesOnWith(c), Ask(c)
  PROVE  Viewed(c)'
<1>1. /\ todo[c] # << >> /\ Do(c).do = "ask" /\ Goes(c)
  BY OnwardGoes DEF Ask, Doing
<1>2. Range(todo[c]) = {Do(c)} \cup Range(todo'[c])
  BY <1>1, GoesOn
<1>3. view'[c] = view[c] \/ view'[c] = view[c] \cup rec
  BY DEF Ask, Typed
<1>4. ASSUME NEW e \in view'[c] PROVE Notes(c, e, "mounted")'
  <2>1. CASE e \in view[c]
    BY <2>1, NotesKept DEF SeenInv, Viewed
  <2>2. CASE e \in rec
    <3>1. e \in Managed /\ e \in Entries
      BY <2>2, EntriesKinds DEF Typed
    <3>2. "mounted" \in Shows(e) /\ "mounted" \in Results
      BY <2>2, <3>1, ShowsOf DEF AllHeld, Held, Results
    <3>3. Notes(c, e, "mounted")
      BY <3>1, <3>2 DEF SeenInv, Observed
    <3> QED
      BY <3>3, NotesKept
  <2> QED
    BY <1>3, <1>4, <2>1, <2>2
<1>5. ASSUME NEW e \in Local, e \notin view'[c], Task("read", <<e>>) \notin Range(todo'[c])
      PROVE  Notes(c, e, "unmounted")'
  <2>1. e \notin view[c]
    BY <1>3, <1>5
  <2>2. Task("read", <<e>>) \notin Range(todo[c])
    BY <1>1, <1>2, <1>5 DEF Task
  <2> QED
    BY <2>1, <2>2, NotesKept DEF SeenInv, Viewed
<1> QED
  BY <1>4, <1>5 DEF Viewed

LEMMA RunViews ==
  ASSUME Typed, Observe, NEW c \in Commands, WorkInv(c), NEW r \in Requests[c], Run(c, r)
  PROVE  Viewed(c)'
<1>1. /\ pc[c] = "idle" /\ req'[c] = r /\ view'[c] = {}
      /\ r.op \notin {"mkdir", "dryrun"} => todo'[c] = Refresh \o <<Task("plan", << >>)>>
  BY DEF Run, Then, Typed, WorkInv, Placed
<1>2. r.op \notin {"mkdir", "dryrun"} => \A e \in Local : Task("read", <<e>>) \in Range(todo'[c])
  BY <1>1, RefreshIs
<1>3. r.op \in {"mkdir", "dryrun"} => \A e : <<e, "unmounted">> \notin Wanted(r)
  BY DEF Wanted
<1>4. r.op \in {"mkdir", "dryrun"} => \A e : Notes(c, e, "unmounted")'
  BY <1>1, <1>3 DEF Notes
<1> QED
  BY <1>1, <1>2, <1>4 DEF Viewed

LEMMA ActsViewed ==
  ASSUME Typed, AllHeld, Observe, NEW c \in Commands, WorkInv(c), SeenInv(c), pc[c] # "idle", GoesOnWith(c),
         Moves(c), Acts(c)
  PROVE  Viewed(c)'
<1>1. CASE Read(c)
  BY <1>1, ReadViews
<1>2. CASE Ask(c)
  BY <1>2, AskViews
<1>3. ASSUME view'[c] = view[c],
             \A e \in Local : Task("read", <<e>>) \in Range(todo[c]) => Task("read", <<e>>) \in Range(todo'[c])
      PROVE  Viewed(c)'
  BY <1>3, ViewedKept DEF SeenInv
<1>4. \A e : Task("read", <<e>>).do = "read" /\ Task("read", <<e>>).do \in Reads
  BY DEF Task, Reads
<1>5. CASE Walks(c)
  BY <1>3, <1>5 DEF Walks
<1>6. CASE (Speaks(c) \/ Skips(c)) /\ Do(c).do # "read"
  <2>1. Goes(c) /\ todo[c] # << >> /\ view'[c] = view[c]
    BY <1>6 DEF Speaks, Skips, Tells, Doing
  <2>2. Range(todo[c]) = {Do(c)} \cup Range(todo'[c])
    BY <2>1, GoesOn
  <2> QED
    BY <1>3, <1>4, <1>6, <2>1, <2>2
<1>7. CASE Speaks(c) \/ Skips(c)
  <2>1. Do(c).do # "read"
    <3>1. CASE Speaks(c)
      <4>1. PICK rs \in Seq(Reports) : rs # << >> /\ \A r \in Range(rs) : r.as \in SaidOf(Do(c).do)
        BY <3>1 DEF Speaks
      <4>2. PICK r : r \in Range(rs)
        BY <4>1, NothingThere
      <4>3. SaidOf(Do(c).do) # {}
        BY <4>1, <4>2
      <4> QED
        BY <4>3 DEF SaidOf
    <3>2. CASE Skips(c)
      BY <3>2 DEF Skips, Doing
    <3> QED
      BY <1>7, <3>1, <3>2
  <2> QED
    BY <1>6, <1>7, <2>1
<1>8. CASE Plan(c)
  <2>1. Range(todo[c]) = {Do(c)} /\ Do(c).do = "plan" /\ view'[c] = view[c]
    BY <1>8, PlanHasRead DEF Plan, SeenInv, Doing
  <2> QED
    BY <1>3, <1>4, <2>1
<1>9. CASE ConfirmAll(c) \/ ConfirmFix(c) \/ \E S \in SUBSET Entries : Choose(c, S)
  <2>1. pc[c] \in {"confirm", "choose"} /\ view'[c] = view[c]
    BY <1>9 DEF ConfirmAll, ConfirmFix, Choose
  <2>2. \A e : Task("read", <<e>>) \notin Range(todo[c])
    BY <1>4, <2>1 DEF WorkInv, Reading
  <2> QED
    BY <1>3, <2>1, <2>2
<1>10. CASE \E r \in Requests[c] : Run(c, r)
  BY <1>10, RunViews
<1>11. ~Looks(c) \/ Read(c) \/ Ask(c)
  <2>1. CASE CommandStep(c)
    <3>1. Looks(c) => pc[c] = "run" /\ (Doing(c, "read") \/ Doing(c, "ask"))
      BY DEF Looks
    <3>2. Plan(c) \/ Exit(c) \/ LocalStep(c) \/ MkdirStep(c) \/ Ensure(c) => ~(pc[c] = "run" /\ (Doing(c, "read") \/ Doing(c, "ask")))
      BY DEF Plan, Exit, LocalStep, MkdirStep, LocalSkipped, LocalCheck, LocalMount, LocalUnmount, Ensure,
             Stat, Make, OwnMade, Fix, Own, Doing, AtDaemon
    <3>3. Send(c) \/ Reply(c) \/ ReplyLost(c) => pc[c] # "run"
      BY DEF Send, Reply, ReplyLost
    <3> QED
      BY <2>1, <3>1, <3>2, <3>3 DEF CommandStep, ManagedStep
  <2>2. CASE UserStep(c) \/ \E r \in Requests[c] : Run(c, r)
    BY <2>2 DEF UserStep, ConfirmAll, ConfirmFix, Choose, Run, Looks
  <2> QED
    BY <2>1, <2>2 DEF Acts
<1> QED
  BY <1>1, <1>2, <1>5, <1>7, <1>8, <1>9, <1>10, <1>11 DEF Moves

AllSeen == \A c \in Commands : SeenInv(c)

LEMMA ActsSeen ==
  ASSUME CommandInv, AllHeld, AllSeen, Observe, NEW c \in Commands, Acts(c)
  PROVE  AllSeen'
<1>1. Typed /\ WorkInv(c) /\ SeenInv(c)
  BY DEF CommandInv, AllWork, AllSeen
<1>2. Moves(c)
  BY <1>1, StepMoves DEF Acts, WorkInv
<1>3. GoesOnWith(c) /\ pc'[c] # "idle"
  BY <1>1, <1>2, MovesGoOn DEF GoesOnWith
<1>4. \A x \in Commands : x # c => Same5(x)
  BY <1>1, <1>2, MovesTyped DEF WorkInv
<1>5. \A x \in Commands : KeepsResults(x)
  BY <1>1, CommandResults
<1>6. \A x \in Commands : x # c => SeenInv(x)'
  BY <1>1, <1>4, <1>5, OthersKeepSeen DEF CommandInv, AllWork, AllSeen
<1>7. PlanLast(c)'
  BY <1>1, <1>2, MovesPlanLast DEF SeenInv
<1>8. Observed(c)'
  BY <1>1, <1>3, ObservedNow
<1>9. CASE pc[c] # "idle"
  <2>1. Printed(c)'
    BY <1>1, <1>3, <1>9, ActsTruly, PrintedOn DEF SeenInv
  <2>2. Viewed(c)'
    BY <1>1, <1>2, <1>3, <1>9, ActsViewed
  <2>3. Served(c)'
    BY <1>1, <1>3, <1>5, <1>9, ServedKept DEF SeenInv
  <2> QED
    BY <1>6, <1>7, <1>8, <2>1, <2>2, <2>3 DEF SeenInv, AllSeen
<1>10. CASE pc[c] = "idle"
  <2>1. PICK r \in Requests[c] : Run(c, r)
    <3>1. todo[c] = << >> /\ ~AtDaemon(c) /\ \A do : ~Doing(c, do)
      BY <1>1, <1>10 DEF WorkInv, Placed, Doing, AtDaemon
    <3> QED
      BY <1>10, <3>1 DEF Acts, CommandStep, UserStep, LocalStep, ManagedStep, MkdirStep,
         Read, Ask, Plan, Exit, LocalSkipped, LocalCheck, LocalMount, LocalUnmount, Ensure, Send, Reply, ReplyLost,
         Stat, Make, OwnMade, Fix, Own, ConfirmAll, ConfirmFix, Choose
  <2>2. reports'[c] = << >> /\ UNCHANGED batch
    BY <1>1, <1>10, <2>1 DEF Run, WorkInv, Placed, daemon
  <2>3. Printed(c)'
    BY <2>2, NothingListed DEF Printed
  <2>4. Viewed(c)'
    BY <1>1, <2>1, RunViews
  <2>5. Served(c)'
    BY <1>1, <1>10, <2>2 DEF WorkInv, Placed, NoRequest, Served
  <2> QED
    BY <1>6, <1>7, <1>8, <2>3, <2>4, <2>5 DEF SeenInv, AllSeen
<1> QED
  BY <1>9, <1>10

(* What the daemon says it has done it has found or brought about.         *)
TrulyDone(c, aim) == \A e : e = Current(c, aim) => aim \in Shows(e) \/ aim \in Shows(e)'
LEMMA ServesSeen ==
  ASSUME CommandInv, AllSeen, Observe, NEW c \in Commands, NEW aim \in Results, Serving(c, aim),
         UNCHANGED commandVars, NEW res \in Outcomes, Result(c, aim, res),
         res = "ok" => TrulyDone(c, aim)
  PROVE  AllSeen'
<1>1. Typed /\ WorkInv(c) /\ SeenInv(c)
  BY DEF CommandInv, AllWork, AllSeen
<1>2. \A x \in Commands : Same5(x)
  BY DEF Same5, commandVars
<1>3. PICK e : e = Current(c, aim)
  OBVIOUS
<1>4. /\ e \in Managed /\ e \in Entries
      /\ \A f \in Managed : batch'[c][aim].results[f] = IF f = e THEN res ELSE batch[c][aim].results[f]
      /\ \A x \in Commands, a \in Results : <<x, a>> # <<c, aim>> => batch'[x][a] = batch[x][a]
  <2>1. /\ Current(c, aim) \in Managed
        /\ \A f \in Managed : batch'[c][aim].results[f] = IF f = Current(c, aim) THEN res ELSE batch[c][aim].results[f]
        /\ \A x \in Commands, a \in Results : <<x, a>> # <<c, aim>> => batch'[x][a] = batch[x][a]
    BY <1>1, ResultIs
  <2> QED
    BY <1>3, <2>1, EntriesKinds
<1>5. \A x \in Commands : x # c => SeenInv(x)'
  <2>1. \A x \in Commands : x # c => KeepsResults(x)
    BY <1>4 DEF KeepsResults
  <2> QED
    BY <1>1, <1>2, <2>1, OthersKeepSeen DEF CommandInv, AllWork, AllSeen
<1>6. pc[c] # "idle" /\ pc'[c] # "idle" /\ GoesOnWith(c)
  BY <1>1, <1>2 DEF WorkInv, Placed, NoRequest, Serving, Same5, GoesOnWith
<1>7. PlanLast(c)' /\ Printed(c)' /\ Viewed(c)' /\ Observed(c)'
  BY <1>1, <1>2, <1>6, PrintedKept, ViewedKept, ObservedNow DEF SeenInv, PlanLast, Same5
<1>8. ASSUME NEW a \in Results, batch'[c][a] # None, NEW f \in Managed, batch'[c][a].results[f] = "ok"
      PROVE  Notes(c, f, a)'
  <2>1. f \in Entries
    BY EntriesKinds
  <2>2. CASE <<a, f>> # <<aim, e>>
    <3>1. batch[c][a] # None /\ batch[c][a].results[f] = "ok"
      <4>1. CASE a # aim
        BY <1>4, <1>8, <4>1
      <4>2. CASE a = aim /\ f # e
        <5>1. batch[c][aim] # None /\ batch[c][aim] \in Batches
          BY <1>1 DEF Serving, Typed
        <5>2. batch[c][aim].results \in [Managed -> {"none", "ok", "failed"}]
          BY <5>1 DEF Batches
        <5> QED
          BY <1>4, <1>8, <4>2, <5>1, <5>2
      <4> QED
        BY <2>2, <4>1, <4>2
    <3> QED
      BY <1>1, <1>6, <3>1, NotesKept DEF SeenInv, Served
  <2>3. CASE a = aim /\ f = e
    <3>1. res = "ok"
      <4>1. batch[c][aim] # None /\ batch[c][aim] \in Batches
        BY <1>1 DEF Serving, Typed
      <4>2. batch[c][aim].results \in [Managed -> {"none", "ok", "failed"}]
        BY <4>1 DEF Batches
      <4> QED
        BY <1>4, <1>8, <2>3, <4>2
    <3>2. CASE aim \in Shows(e)
      <4>1. Notes(c, e, aim)
        BY <1>1, <1>4, <1>6, <3>2 DEF SeenInv, Observed
      <4> QED
        BY <1>1, <1>6, <2>3, <4>1, NotesKept
    <3>3. CASE aim \in Shows(e)'
      BY <1>1, <1>4, <1>6, <2>3, <3>3, ObserveIs DEF Notes
    <3> QED
      BY <1>3, <3>1, <3>2, <3>3 DEF TrulyDone
  <2> QED
    BY <2>2, <2>3
<1>9. Served(c)'
  BY <1>8 DEF Served
<1> QED
  BY <1>5, <1>7, <1>9 DEF SeenInv, AllSeen

LEMMA DaemonSeen ==
  ASSUME CommandInv, AllHeld, AllSeen, Observe, NEW c \in Commands, DaemonStep(c)
  PROVE  AllSeen'
<1>1. Typed /\ UNCHANGED commandVars
  BY DEF CommandInv, DaemonStep, ServeMount, ServeUnmount, Unheard, commandVars
<1>2. "mounted" \in Results /\ "unmounted" \in Results /\ "ok" \in Outcomes /\ "failed" \in Outcomes
  BY DEF Results, Outcomes
<1>3. CASE ServeMount(c)
  <2>1. PICK e : e = Current(c, "mounted")
    OBVIOUS
  <2>2. Serving(c, "mounted")
    BY <1>3 DEF ServeMount
  <2>3. \A res \in Outcomes : Result(c, "mounted", res) => e \in Managed /\ e \in Entries
    BY <1>1, <1>2, <2>1, <2>2, ResultIs, EntriesKinds
  <2>4. CASE e \in rec /\ Result(c, "mounted", "ok")
    <3>1. "mounted" \in Shows(e)
      BY <1>2, <2>3, <2>4, ShowsOf DEF AllHeld, Held
    <3>2. TrulyDone(c, "mounted")
      BY <2>1, <3>1 DEF TrulyDone
    <3> QED
      BY <1>1, <1>2, <2>2, <2>4, <3>2, ServesSeen
  <2>5. CASE Put(e, DirOf[e]) /\ Result(c, "mounted", "ok")
    <3>1. "mounted" \in Shows(e)'
      <4>1. e \in Managed /\ e \in Entries
        BY <1>2, <2>3, <2>5
      <4> QED
        BY <1>1, <2>5, <4>1, LiveAfterPut, ShowsManagedNext
    <3>2. TrulyDone(c, "mounted")
      BY <2>1, <3>1 DEF TrulyDone
    <3> QED
      BY <1>1, <1>2, <2>2, <2>5, <3>2, ServesSeen
  <2>6. CASE Result(c, "mounted", "failed")
    BY <1>1, <1>2, <2>2, <2>6, ServesSeen
  <2> QED
    BY <1>3, <2>1, <2>4, <2>5, <2>6 DEF ServeMount
<1>4. CASE ServeUnmount(c)
  <2>1. PICK e : e = Current(c, "unmounted")
    OBVIOUS
  <2>2. Serving(c, "unmounted")
    BY <1>4 DEF ServeUnmount
  <2>3. \A res \in Outcomes : Result(c, "unmounted", res) => e \in Managed /\ e \in Entries
    BY <1>1, <1>2, <2>1, <2>2, ResultIs, EntriesKinds
  <2>4. CASE e \notin rec /\ Result(c, "unmounted", "ok")
    <3>1. "unmounted" \in Shows(e)
      BY <1>2, <2>3, <2>4, ShowsOf DEF AllHeld, Held
    <3>2. TrulyDone(c, "unmounted")
      BY <2>1, <3>1 DEF TrulyDone
    <3> QED
      BY <1>1, <1>2, <2>2, <2>4, <3>2, ServesSeen
  <2>5. CASE e \in rec /\ Mounted(DirOf[e]) /\ Pop(DirOf[e]) /\ rec' = rec \ {e} /\ Result(c, "unmounted", "ok")
    <3>1. "unmounted" \in Shows(e)'
      <4>1. e \in Managed /\ DirOf[e] \in Dirs
        BY <1>2, <2>3, <2>5, EntriesKinds
      <4>2. mounts' # mounts
        BY <1>1, <2>5, <4>1, LiveAfterPop
      <4>3. Robs(e)
        BY <2>5, <4>2 DEF Robs
      <4> QED
        BY <4>1, <4>3, RobbedIs, ShowsManagedNext
    <3>2. TrulyDone(c, "unmounted")
      BY <2>1, <3>1 DEF TrulyDone
    <3> QED
      BY <1>1, <1>2, <2>2, <2>5, <3>2, ServesSeen
  <2>6. CASE Result(c, "unmounted", "failed")
    BY <1>1, <1>2, <2>2, <2>6, ServesSeen
  <2> QED
    BY <1>4, <2>1, <2>4, <2>5, <2>6 DEF ServeUnmount
<1>5. CASE \E as \in Results : Unheard(c, as)
  <2>1. PICK as \in Results : Forget(c, as)
    BY <1>5 DEF Unheard
  <2>2. \A x \in Commands : KeepsResults(x) /\ Same5(x)
    <3>1. UNCHANGED commandVars
      BY <1>1
    <3>2. \A x \in Commands : Same5(x)
      BY <3>1 DEF Same5, commandVars
    <3>3. /\ batch'[c][as] = None
          /\ \A x \in Commands, a \in Results : <<x, a>> # <<c, as>> => batch'[x][a] = batch[x][a]
      BY <1>1, <2>1, ForgetIs
    <3>4. \A x \in Commands, a \in Results : batch'[x][a] # None => batch'[x][a] = batch[x][a]
      BY <3>3
    <3>5. \A x \in Commands : KeepsResults(x)
      BY <3>4 DEF KeepsResults
    <3> QED
      BY <3>2, <3>5
  <2> QED
    BY <1>1, <2>2, OthersKeepSeen DEF CommandInv, AllWork, AllSeen
<1> QED
  BY <1>3, <1>4, <1>5 DEF DaemonStep

LEMMA OutsideSeen ==
  ASSUME CommandInv, AllSeen, Observe, Outside \/ \E e \in Managed : Watch(e)
  PROVE  AllSeen'
<1>1. Typed /\ UNCHANGED commandVars
  BY DEF CommandInv, Outside, Watch, ServerDies, DaemonStops, DaemonKilled, DaemonEnds, UnmountedOutside
<1>2. UNCHANGED batch \/ batch' = [c \in Commands |-> [as \in Results |-> None]]
  BY DEF Outside, Watch, ServerDies, DaemonStops, DaemonKilled, DaemonEnds, UnmountedOutside, daemon
<1>3. \A x \in Commands : KeepsResults(x) /\ Same5(x)
  BY <1>1, <1>2 DEF KeepsResults, Same5, commandVars
<1> QED
  BY <1>1, <1>3, OthersKeepSeen DEF CommandInv, AllWork, AllSeen

LEMMA SeenInit == Init => AllSeen
<1> SUFFICES ASSUME Init, NEW c \in Commands PROVE SeenInv(c)
  BY DEF AllSeen
<1>1. todo[c] = << >> /\ reports[c] = << >> /\ pc[c] = "idle"
  BY DEF Init
<1> QED
  BY <1>1, NothingListed DEF SeenInv, PlanLast, Printed

LEMMA SeenStep ==
  ASSUME CommandInv, AllHeld, AllSeen, [Next]_vars
  PROVE  AllSeen'
<1>1. CASE UNCHANGED vars
  <2>1. \A e \in Entries : Shows(e)' = Shows(e)
    BY <1>1 DEF vars, Shows, ShowsManaged, ShowsLocal, Live, Mounted, Dead
  <2> QED
    BY <1>1, <2>1 DEF vars, AllSeen, SeenInv, PlanLast, Printed, Observed, Viewed, Served, Notes
<1>2. CASE Step /\ Observe
  BY <1>2, ActsSeen, DaemonSeen, OutsideSeen DEF Step, Acts
<1> QED
  BY <1>1, <1>2 DEF Next

LEMMA SeenIsTrue == CommandInv /\ AllSeen => ReportsTrue
<1> SUFFICES ASSUME CommandInv, AllSeen, NEW c \in Commands, NEW i \in DOMAIN reports[c],
                    reports[c][i].ok, reports[c][i].as \in Results
             PROVE  <<reports[c][i].of, reports[c][i].as>> \in seen[c]
  BY DEF ReportsTrue
<1>1. reports[c][i] \in Range(reports[c])
  BY DEF Range
<1> QED
  BY <1>1 DEF AllSeen, SeenInv, Printed

(* What a command has read, been answered and printed it has seen,         *)
(* whatever the other commands and the daemon do meanwhile                 *)
(* (main.go:217-288, 293-309, 697-714, 783-797).                           *)
THEOREM SeenInvariant == Spec => []AllSeen
BY SeenInit, SeenStep, CommandInvariant, HeldInvariant, PTL DEF Spec

(* What a command prints of an entry was so at some moment since it        *)
(* started (main.go:293-309, 697-714, 783-797): for a daemon entry so in   *)
(* the mount table, unless its mount has gone and no watcher has run yet,  *)
(* or it is there but has lost its record (backend.go:97-110, 155-168,     *)
(* 236-245).                                                               *)
THEOREM ReportsTrueCorrect == Spec => []ReportsTrue
BY CommandInvariant, SeenInvariant, SeenIsTrue, PTL

-----------------------------------------------------------------------------
(* Mounts and directories.                                                 *)

(* Mounts stand on directories.                                            *)
Standing == \A d \in Dirs : Mounted(d) => IsDir(d)
Entering(c) == pc[c] = "mid" /\ Doing(c, "mount") => IsDir(DirOf[It(c)])
SystemInv == Standing /\ \A c \in Commands : Entering(c)

DirsStay == \A d \in Dirs : /\ IsDir(d) => dir'[d] \in {"mine", "other"}
                            /\ dir[d] = "mine" => dir'[d] = "mine"

LEMMA ChownStays ==
  ASSUME Typed, NEW d \in Dirs, Chown(d)
  PROVE  DirsStay
BY DEF Typed, Chown, DirsStay, IsDir

LEMMA DirsKept ==
  ASSUME CommandInv, Step
  PROVE  DirsStay
<1>1. Typed /\ \A c \in Commands : WorkInv(c)
  BY DEF CommandInv, AllWork
<1>2. UNCHANGED dir => DirsStay
  BY DEF DirsStay, IsDir
<1>3. ASSUME NEW c \in Commands, CommandStep(c) PROVE DirsStay
  <2>1. CASE LocalCheck(c)
    BY <1>1, <2>1, LocalTasks DEF LocalCheck, DirsStay, IsDir, Typed
  <2>2. CASE Make(c)
    <3> DEFINE d == DirOf[It(c)]
    <3>1. d \in Dirs
      BY <1>1, <2>2, LocalTasks DEF Make
    <3>2. CASE UNCHANGED dir
      BY <1>2, <3>2
    <3>3. ASSUME NEW owner \in {"mine", "other"}, dir' = [dir EXCEPT ![d] = IF @ = "absent" THEN owner ELSE @]
          PROVE  DirsStay
      <4>1. dir \in [Dirs -> DirStates]
        BY <1>1 DEF Typed
      <4> HIDE DEF d
      <4> QED
        BY <3>1, <3>3, <4>1 DEF DirsStay, IsDir
    <3> QED
      BY <2>2, <3>2, <3>3 DEF Make
  <2>3. CASE OwnMade(c)
    <3>1. DirOf[It(c)] \in Dirs
      BY <1>1, <2>3, LocalTasks DEF OwnMade, WorkInv, Placed
    <3> QED
      BY <1>1, <1>2, <2>3, <3>1, ChownStays DEF OwnMade
  <2>4. CASE Own(c)
    <3>1. DirOf[It(c)] \in Dirs
      BY <1>1, <2>4, LocalTasks DEF Own
    <3> QED
      BY <1>1, <1>2, <2>4, <3>1, ChownStays DEF Own
  <2> QED
    BY <1>2, <1>3, <2>1, <2>2, <2>3, <2>4
       DEF CommandStep, LocalStep, ManagedStep, MkdirStep, Read, Ask, Plan, Exit, LocalSkipped, LocalMount, LocalUnmount,
           Ensure, Send, Reply, ReplyLost, Stat, Fix, system
<1>4. ASSUME NEW c \in Commands, UserStep(c) \/ DaemonStep(c) \/ \E r \in Requests[c] : Run(c, r) PROVE DirsStay
  BY <1>2, <1>4 DEF UserStep, ConfirmAll, ConfirmFix, Choose, Run, DaemonStep, ServeMount, ServeUnmount, Unheard, system
<1>5. CASE Outside \/ \E e \in Managed : Watch(e)
  BY <1>2, <1>5 DEF Outside, Watch, ServerDies, DaemonStops, DaemonKilled, DaemonEnds, UnmountedOutside, system
<1> QED
  BY <1>3, <1>4, <1>5 DEF Step

LEMMA StandingKept ==
  ASSUME CommandInv, SystemInv, Step
  PROVE  Standing'
<1>1. Typed /\ \A c \in Commands : WorkInv(c)
  BY DEF CommandInv, AllWork
<1>2. DirsStay
  BY DirsKept
<1>3. ASSUME \A d \in Dirs : mounts[d] = << >> => mounts'[d] = << >> PROVE Standing'
  BY <1>2, <1>3 DEF SystemInv, Standing, Mounted, IsDir, DirsStay
<1>4. ASSUME \A d \in Dirs : mounts'[d] \in Seq(Mount) /\ Range(mounts'[d]) \subseteq Range(mounts[d]) PROVE Standing'
  <2>1. ASSUME NEW d \in Dirs, mounts[d] = << >> PROVE mounts'[d] = << >>
    <3>1. Range(mounts[d]) = {}
      BY <2>1, NothingListed
    <3> QED
      BY <1>4, <3>1, NothingThere
  <2> QED
    BY <1>3, <2>1
<1>5. ASSUME NEW c \in Commands, Grows(c) PROVE Standing'
  <2>1. PICK e \in Entries : /\ Put(e, DirOf[e])
                             /\ IsDir(DirOf[e]) \/ (pc[c] = "mid" /\ Doing(c, "mount") /\ It(c) = e)
    BY <1>5 DEF Grows
  <2>2. DirOf[e] \in Dirs /\ IsDir(DirOf[e])
    BY <2>1, EntriesKinds DEF SystemInv, Entering
  <2>3. \A d \in Dirs : d # DirOf[e] => mounts'[d] = mounts[d]
    BY <1>1, <2>1, <2>2, PutIs
  <2> QED
    BY <1>2, <2>2, <2>3 DEF SystemInv, Standing, Mounted, IsDir, DirsStay
<1>6. ASSUME DaemonStops PROVE Standing'
  <2>1. ASSUME NEW d \in Dirs, mounts[d] = << >> PROVE mounts'[d] = << >>
    <3>1. PICK ms \in Seq(Mount) :
            /\ ms = mounts[d] \/ (Mounted(d) /\ ms = Front(mounts[d]))
            /\ mounts'[d] = Stranded(ms, Managed)
      BY <1>1, <1>6, StopIs
    <3>2. ms = << >>
      BY <2>1, <3>1 DEF Mounted
    <3>3. mounts'[d] \in Seq(Mount) /\ Len(mounts'[d]) = Len(ms)
      BY <3>1, StrandedIs
    <3> QED
      BY <3>2, <3>3, NothingThere
  <2> QED
    BY <1>3, <2>1
<1>7. ASSUME NEW d \in Dirs, Mounted(d), Pop(d) PROVE Standing'
  BY <1>1, <1>4, <1>7, PopIs
<1>8. ASSUME NEW S, Strand(S) PROVE Standing'
  <2>1. ASSUME NEW d \in Dirs, mounts[d] = << >> PROVE mounts'[d] = << >>
    <3>1. mounts[d] \in Seq(Mount) /\ mounts'[d] \in Seq(Mount) /\ Len(mounts'[d]) = Len(mounts[d])
      BY <1>1, <1>8, StrandIs DEF Typed
    <3> QED
      BY <2>1, <3>1, NothingThere
  <2> QED
    BY <1>3, <2>1
<1>9. ASSUME NEW c \in Commands, Shrinks(c) PROVE Standing'
  BY <1>7, <1>9, EntriesKinds DEF Shrinks
<1>10. CASE Outside \/ \E e \in Managed : Watch(e)
  <2>1. \A e \in Entries : ServerDies(e) => Standing'
    BY <1>8 DEF ServerDies
  <2>2. DaemonStops \/ DaemonKilled => Standing'
    BY <1>6, <1>8 DEF DaemonKilled
  <2>3. \A d \in Dirs : UnmountedOutside(d) => Standing'
    BY <1>7 DEF UnmountedOutside
  <2>4. \A e \in Managed : Watch(e) => Standing'
    BY <1>3 DEF Watch, system
  <2> QED
    BY <1>10, <2>1, <2>2, <2>3, <2>4 DEF Outside
<1>11. ASSUME NEW c \in Commands, Acts(c) \/ DaemonStep(c) PROVE Standing'
  BY <1>1, <1>3, <1>5, <1>9, <1>11, CommandMounts, DaemonMounts
<1> QED
  BY <1>10, <1>11 DEF Step, Acts

LEMMA EnteringStays ==
  ASSUME NEW x \in Commands, Entering(x), Typed, WorkInv(x), Same5(x), DirsStay
  PROVE  Entering(x)'
<1> SUFFICES ASSUME pc'[x] = "mid", Doing(x, "mount")' PROVE IsDir(DirOf[It(x)])'
  BY DEF Entering
<1>1. pc[x] = "mid" /\ Doing(x, "mount") /\ It(x)' = It(x)
  BY DEF Same5, Doing, Do, It
<1>2. DirOf[It(x)] \in Dirs
  BY <1>1, LocalTasks
<1>3. IsDir(DirOf[It(x)])
  BY <1>1 DEF Entering
<1>4. dir'[DirOf[It(x)]] \in {"mine", "other"}
  BY <1>2, <1>3 DEF DirsStay
<1> QED
  BY <1>1, <1>4 DEF IsDir

(* A command gets to the moment before the mount only from its check.      *)
LEMMA EntersByCheck ==
  ASSUME NEW c \in Commands, Typed, WorkInv(c), Acts(c), pc'[c] = "mid", Doing(c, "mount")'
  PROVE  LocalCheck(c) /\ Doing(c, "mount") /\ It(c)' = It(c) /\ ~Goes(c)
<1>1. Moves(c)
  BY StepMoves DEF Acts, WorkInv
<1>2. pc \in [Commands -> Places] /\ todo \in [Commands -> Seq(Fitting)]
  BY DEF Typed
<1>3. ~Goes(c)
  BY <1>2 DEF Goes
<1>4. Walks(c)
  <2>1. ~Speaks(c) /\ ~Skips(c) /\ ~Looks(c)
    BY <1>3 DEF Speaks, Tells, Skips, Looks
  <2>2. ~Plan(c) /\ ~ConfirmAll(c) /\ ~ConfirmFix(c)
    BY <1>2 DEF Plan, ConfirmAll, ConfirmFix, At
  <2>3. ~(\E S \in SUBSET Entries : Choose(c, S)) /\ ~(\E r \in Requests[c] : Run(c, r))
    BY <1>2 DEF Choose, Run, At
  <2> QED
    BY <1>1, <2>1, <2>2, <2>3 DEF Moves
<1>5. pc[c] = "run" /\ todo' = todo
  BY <1>2, <1>4 DEF Walks
<1>6. Doing(c, "mount") /\ Do(c).do = "mount" /\ It(c)' = It(c)
  BY <1>5 DEF Doing, Do, It
<1>7. LocalCheck(c)
  <2>1. ~LocalSkipped(c)
    BY <1>3, TellItTells DEF LocalSkipped, Tells
  <2> QED
    BY <1>5, <1>6, <2>1
       DEF Acts, Run, CommandStep, UserStep, LocalStep, ManagedStep, MkdirStep, Read, Ask, Plan, Exit, LocalMount, LocalUnmount,
           Ensure, Send, Reply, ReplyLost, AtDaemon, Doing, Stat, Make, OwnMade, Fix, Own, ConfirmAll, ConfirmFix, Choose
<1> QED
  BY <1>3, <1>6, <1>7

LEMMA EnteringMade ==
  ASSUME NEW c \in Commands, Typed, WorkInv(c), Acts(c)
  PROVE  Entering(c)'
<1> SUFFICES ASSUME pc'[c] = "mid", Doing(c, "mount")' PROVE IsDir(DirOf[It(c)])'
  BY DEF Entering
<1>1. LocalCheck(c) /\ Doing(c, "mount") /\ It(c)' = It(c) /\ ~Goes(c)
  BY EntersByCheck
<1>2. DirOf[It(c)] \in Dirs /\ dir \in [Dirs -> DirStates]
  BY <1>1, LocalTasks DEF Typed
<1>3. dir[DirOf[It(c)]] # "file" /\ dir' = [dir EXCEPT ![DirOf[It(c)]] = IF @ = "absent" THEN "mine" ELSE @]
  BY <1>1, TellItTells DEF LocalCheck, Tells
<1>4. dir'[DirOf[It(c)]] \in {"mine", "other"}
  BY <1>2, <1>3 DEF DirStates
<1> QED
  BY <1>1, <1>4 DEF IsDir

(* A step is one of a command itself, or leaves it alone.                  *)
LEMMA OthersSame ==
  ASSUME Typed, \A c \in Commands : WorkInv(c), Step, NEW x \in Commands
  PROVE  Acts(x) \/ Same5(x)
<1>1. CASE UNCHANGED commandVars
  BY <1>1 DEF commandVars, Same5
<1>2. ASSUME NEW c \in Commands, Acts(c) PROVE Acts(x) \/ Same5(x)
  <2>1. Moves(c)
    BY <1>2, StepMoves DEF Acts, WorkInv
  <2> QED
    BY <1>2, <2>1, MovesTyped DEF WorkInv
<1>3. ASSUME NEW c \in Commands, DaemonStep(c) PROVE UNCHANGED commandVars
  BY <1>3 DEF DaemonStep, ServeMount, ServeUnmount, Unheard, commandVars
<1>4. Outside \/ (\E e \in Managed : Watch(e)) => UNCHANGED commandVars
  BY DEF Outside, Watch, ServerDies, DaemonStops, DaemonKilled, DaemonEnds, UnmountedOutside, commandVars
<1> QED
  BY <1>1, <1>2, <1>3, <1>4 DEF Step, Acts

LEMMA SystemInvInit == Init => SystemInv
<1> SUFFICES ASSUME Init PROVE SystemInv
  OBVIOUS
<1>1. \A c \in Commands : Entering(c)
  BY DEF Init, Entering
<1>2. PICK S \in MountedBefore : mounts = [d \in Dirs |-> MountsOf(S, d)] /\ rec = S \cap Managed
  BY DEF Init, MountsOf, Fresh
<1>3. S \subseteq Entries /\ \A e \in S : dir[DirOf[e]] \in {"mine", "other"}
  BY <1>2, OneOnEachDir DEF Init
<1>4. ASSUME NEW d \in Dirs PROVE /\ mounts[d] = MountsOf(S, d)
                                  /\ MountsOf(S, d) \in Seq(Mount)
                                  /\ \A m \in Range(MountsOf(S, d)) : m.of \in S /\ DirOf[m.of] = d
  <2>1. mounts[d] = MountsOf(S, d)
    BY <1>2
  <2>2. /\ MountsOf(S, d) \in Seq(Mount)
        /\ Range(MountsOf(S, d)) = {Fresh(e) : e \in {f \in S : DirOf[f] = d}}
    BY <1>3, MountsOfIs
  <2>3. \A e : Fresh(e).of = e
    BY DEF Fresh
  <2> QED
    BY <2>1, <2>2, <2>3
<1>5. ASSUME NEW d \in Dirs, Mounted(d) PROVE IsDir(d)
  <2>1. PICK m : m \in Range(mounts[d])
    <3>1. mounts[d] \in Seq(Mount) /\ mounts[d] # << >>
      BY <1>4, <1>5 DEF Mounted
    <3> QED
      BY <3>1, NothingThere
  <2> QED
    BY <1>3, <1>4, <2>1 DEF IsDir
<1> QED
  BY <1>1, <1>5 DEF SystemInv, Standing

LEMMA SystemInvKept ==
  ASSUME CommandInv, SystemInv, [Next]_vars
  PROVE  SystemInv'
<1>1. CASE UNCHANGED vars
  BY <1>1 DEF vars, SystemInv, Standing, Entering, Mounted, IsDir, Doing, Do, It, Range
<1>2. CASE Step
  <2>1. Standing' /\ DirsStay
    BY <1>2, StandingKept, DirsKept
  <2>2. Typed /\ \A c \in Commands : WorkInv(c) /\ Entering(c)
    BY DEF CommandInv, AllWork, SystemInv
  <2>3. ASSUME NEW x \in Commands PROVE Entering(x)'
    <3>1. CASE Acts(x)
      BY <2>2, <3>1, EnteringMade
    <3>2. CASE Same5(x)
      BY <2>1, <2>2, <3>2, EnteringStays
    <3> QED
      BY <1>2, <2>2, <3>1, <3>2, OthersSame
  <2> QED
    BY <2>1, <2>3 DEF SystemInv
<1> QED
  BY <1>1, <1>2 DEF Next

(* Whatever is mounted stands on a directory, and so will what a command   *)
(* is about to mount (backend.go:86-124, smb/driver.go:33-42).             *)
THEOREM SystemInvariant == Spec => []SystemInv
BY SystemInvInit, SystemInvKept, CommandInvariant, PTL DEF Spec

-----------------------------------------------------------------------------
(* What a mkdir has prepared.                                              *)

(* A mkdir keeps what it has said: the directories stay, and of what was   *)
(* mounted on them meanwhile it has seen one entry at least.               *)
WasMounted(c, d) == \E e \in Entries : DirOf[e] = d /\ <<e, "covered">> \in seen[c]
Ready(c, e, aim) == /\ IsDir(DirOf[e])
                    /\ aim = "mismatch" \/ dir[DirOf[e]] = "mine" \/ WasMounted(c, DirOf[e])
Prepared(c)  == pc[c] # "idle" /\ req[c].op = "mkdir" => \A r \in Range(reports[c]) : r.ok => Ready(c, r.of, r.as)
AllPrepared  == \A c \in Commands : Prepared(c)

LEMMA MountedSeen ==
  ASSUME NEW c \in Commands, Observed(c), req[c].op = "mkdir", NEW e \in Entries, Mounted(DirOf[e])
  PROVE  WasMounted(c, DirOf[e])
<1>1. "covered" \in Shows(e) /\ <<e, "covered">> \in Wanted(req[c])
  BY DEF Shows, Wanted
<1> QED
  BY <1>1 DEF Observed, Notes, WasMounted

LEMMA ReadyKept ==
  ASSUME Typed, Observe, DirsStay, NEW c \in Commands, pc'[c] # "idle", NEW e \in Entries, NEW aim, Ready(c, e, aim)
  PROVE  Ready(c, e, aim)'
<1>1. DirOf[e] \in Dirs
  BY EntriesKinds
<1>2. seen[c] \subseteq seen'[c]
  BY ObserveIs
<1> QED
  BY <1>1, <1>2 DEF Ready, DirsStay, IsDir, WasMounted

LEMMA PreparedKept ==
  ASSUME Typed, Observe, DirsStay, NEW c \in Commands, Prepared(c), pc[c] # "idle", pc'[c] # "idle",
         req[c].op = "mkdir", NEW r \in Range(reports[c]), r.ok
  PROVE  Ready(c, r.of, r.as)'
<1>1. r \in Reports
  <2>1. reports[c] \in Seq(Reports)
    BY DEF Typed
  <2> QED
    BY <2>1, RangeIs
<1>2. r.of \in Entries
  BY <1>1 DEF Reports
<1>3. Ready(c, r.of, r.as)
  BY DEF Prepared
<1> QED
  BY <1>2, <1>3, ReadyKept

LEMMA SaysReady ==
  ASSUME Typed, NEW c \in Commands, NEW e \in Entries, e = It(c), NEW aim \in Words, NEW ok \in BOOLEAN,
         TellIt(c, aim, ok), ok => Ready(c, e, aim)',
         \A r \in Range(reports[c]) : r.ok => Ready(c, r.of, r.as)'
  PROVE  Prepared(c)'
<1> DEFINE rs == <<Report(e, aim, ok)>>
<1>1. rs \in Seq(Reports) /\ Range(rs) = {[of |-> e, as |-> aim, ok |-> ok]}
  BY ReportIs
<1>2. Tells(c, rs)
  BY TellItTells
<1> HIDE DEF rs
<1>3. Range(reports'[c]) = Range(reports[c]) \cup {[of |-> e, as |-> aim, ok |-> ok]}
  BY <1>1, <1>2, TellsOf
<1>4. \A r \in Range(reports'[c]) : r.ok => Ready(c, r.of, r.as)'
  BY <1>3
<1> QED
  BY <1>4 DEF Prepared

LEMMA ChownReady ==
  ASSUME Typed, Standing, Observe, NEW c \in Commands, Observed(c), pc[c] # "idle", pc'[c] # "idle",
         req[c].op = "mkdir", NEW e \in Entries, Chown(DirOf[e]), NEW aim
  PROVE  Ready(c, e, aim)'
<1>1. DirOf[e] \in Dirs /\ dir \in [Dirs -> DirStates]
  BY EntriesKinds DEF Typed
<1>2. CASE Mounted(DirOf[e])
  <2>1. WasMounted(c, DirOf[e])
    BY <1>2, MountedSeen
  <2>2. IsDir(DirOf[e]) /\ dir'[DirOf[e]] = dir[DirOf[e]]
    BY <1>1, <1>2 DEF Chown, Standing
  <2>3. seen[c] \subseteq seen'[c]
    BY ObserveIs
  <2> QED
    BY <2>1, <2>2, <2>3 DEF Ready, IsDir, WasMounted
<1>3. CASE ~Mounted(DirOf[e])
  <2>1. dir'[DirOf[e]] = "mine"
    BY <1>1, <1>3 DEF Chown
  <2> QED
    BY <2>1 DEF Ready, IsDir
<1> QED
  BY <1>2, <1>3

LEMMA ActsPrepared ==
  ASSUME CommandInv, AllSeen, SystemInv, Observe, DirsStay, NEW c \in Commands, Acts(c),
         pc[c] # "idle", pc'[c] # "idle", req[c].op = "mkdir", Prepared(c)
  PROVE  Prepared(c)'
<1>1. Typed /\ WorkInv(c) /\ Observed(c) /\ Standing
  BY DEF CommandInv, AllWork, AllSeen, SeenInv, SystemInv
<1>2. \A r \in Range(reports[c]) : r.ok => Ready(c, r.of, r.as)'
  BY <1>1, PreparedKept
<1>3. CASE reports'[c] = reports[c]
  BY <1>2, <1>3 DEF Prepared
<1>4. ASSUME reports'[c] # reports[c] PROVE Stat(c) \/ Make(c) \/ OwnMade(c) \/ Own(c)
  <2>1. todo[c] # << >> => Do(c).do \in {"stat", "fix", "own"}
    BY <1>1, HeadOfWork DEF WorkInv, Placed, TasksFor
  <2>2. ~AtDaemon(c) /\ ~Doing(c, "mount") /\ ~Doing(c, "unmount") /\ pc[c] # "sent"
    BY <1>1, <2>1 DEF AtDaemon, Doing, WorkInv, Placed
  <2> QED
    BY <1>4, <2>2 DEF Acts, CommandStep, LocalStep, ManagedStep, MkdirStep, Read, Ask, Plan, Exit, UserStep, ConfirmAll, ConfirmFix,
          Choose, Run, Fix, LocalSkipped, LocalCheck, LocalMount, LocalUnmount, Ensure, Send, Reply, ReplyLost
<1>5. ASSUME Doing(c, "stat") \/ Doing(c, "own")
      PROVE It(c) \in Entries /\ DirOf[It(c)] \in Dirs
  BY <1>1, <1>5, LocalTasks
<1>6. ASSUME Doing(c, "stat") \/ Doing(c, "own"),
             NEW aim \in {"created", "existing", "mismatch", "fixed"}, NEW ok \in BOOLEAN, TellIt(c, aim, ok),
             \A e \in Entries : e = It(c) /\ ok => Ready(c, e, aim)'
      PROVE  Prepared(c)'
  <2>1. PICK e \in Entries : e = It(c)
    BY <1>5, <1>6
  <2>2. aim \in Words
    BY WordsAre
  <2> QED
    BY <1>1, <1>2, <1>6, <2>1, <2>2, SaysReady
<1>7. CASE Stat(c) /\ reports'[c] # reports[c]
  <2>1. PICK e \in Entries : e = It(c) /\ DirOf[e] \in Dirs
    BY <1>5, <1>7 DEF Stat
  <2>2. UNCHANGED <<mounts, dir>> /\ Doing(c, "stat")
    BY <1>7 DEF Stat, system
  <2>3. seen[c] \subseteq seen'[c]
    BY <1>1, ObserveIs
  <2>4. CASE TellIt(c, "existing", FALSE)
    BY <1>6, <2>2, <2>4
  <2>5. CASE Mounted(DirOf[e]) /\ \E aim \in {"existing", "mismatch"} : TellIt(c, aim, TRUE)
    <3>1. PICK aim \in {"existing", "mismatch"} : TellIt(c, aim, TRUE)
      BY <2>5
    <3>2. WasMounted(c, DirOf[e]) /\ IsDir(DirOf[e])
      BY <1>1, <2>1, <2>5, MountedSeen DEF Standing
    <3>3. Ready(c, e, aim)'
      BY <2>2, <2>3, <3>2 DEF Ready, WasMounted, IsDir
    <3> QED
      BY <1>6, <2>1, <2>2, <3>1, <3>3
  <2>6. CASE \/ dir[DirOf[e]] = "mine" /\ TellIt(c, "existing", TRUE)
             \/ dir[DirOf[e]] = "other" /\ TellIt(c, "mismatch", TRUE)
    <3>1. dir[DirOf[e]] = "mine" => Ready(c, e, "existing")'
      BY <2>2 DEF Ready, IsDir
    <3>2. dir[DirOf[e]] = "other" => Ready(c, e, "mismatch")'
      BY <2>2 DEF Ready, IsDir
    <3> QED
      BY <1>6, <2>1, <2>2, <2>6, <3>1, <3>2
  <2> QED
    BY <1>7, <2>1, <2>4, <2>5, <2>6 DEF Stat
<1>8. CASE Make(c) /\ reports'[c] # reports[c]
  BY <1>6, <1>8 DEF Make
<1>9. CASE OwnMade(c)
  <2>1. Doing(c, "stat")
    BY <1>1, <1>9 DEF OwnMade, WorkInv, Placed
  <2>2. CASE TellIt(c, "created", FALSE)
    BY <1>6, <2>1, <2>2
  <2>3. CASE Chown(DirOf[It(c)]) /\ TellIt(c, "created", TRUE)
    <3>1. \A e \in Entries : e = It(c) => Ready(c, e, "created")'
      BY <1>1, <2>3, ChownReady
    <3> QED
      BY <1>6, <2>1, <2>3, <3>1
  <2> QED
    BY <1>9, <2>2, <2>3 DEF OwnMade
<1>10. CASE Own(c)
  <2>1. Doing(c, "own")
    BY <1>10 DEF Own
  <2>2. CASE TellIt(c, "fixed", FALSE)
    BY <1>6, <2>1, <2>2
  <2>3. CASE Chown(DirOf[It(c)]) /\ TellIt(c, "fixed", TRUE)
    <3>1. \A e \in Entries : e = It(c) => Ready(c, e, "fixed")'
      BY <1>1, <2>3, ChownReady
    <3> QED
      BY <1>6, <2>1, <2>3, <3>1
  <2> QED
    BY <1>10, <2>2, <2>3 DEF Own
<1> QED
  BY <1>3, <1>4, <1>7, <1>8, <1>9, <1>10

LEMMA PreparedInit == Init => AllPrepared
BY DEF Init, AllPrepared, Prepared

LEMMA PreparedStep ==
  ASSUME CommandInv, AllSeen, SystemInv, AllPrepared, [Next]_vars
  PROVE  AllPrepared'
<1>1. CASE UNCHANGED vars
  BY <1>1 DEF vars, AllPrepared, Prepared, Ready, WasMounted, IsDir
<1>2. CASE Step /\ Observe
  <2> SUFFICES ASSUME NEW c \in Commands, pc'[c] # "idle", req'[c].op = "mkdir" PROVE Prepared(c)'
    BY DEF AllPrepared, Prepared
  <2>1. Typed /\ WorkInv(c) /\ Prepared(c) /\ \A x \in Commands : WorkInv(x)
    BY DEF CommandInv, AllWork, AllPrepared
  <2>2. DirsStay
    BY <1>2, DirsKept
  <2>3. CASE Same5(c)
    <3>1. pc[c] # "idle" /\ req[c].op = "mkdir" /\ reports'[c] = reports[c]
      BY <2>3 DEF Same5
    <3>2. \A r \in Range(reports[c]) : r.ok => Ready(c, r.of, r.as)'
      BY <1>2, <2>1, <2>2, <3>1, PreparedKept
    <3> QED
      BY <3>1, <3>2 DEF Prepared
  <2>4. CASE Acts(c) /\ pc[c] # "idle"
    <3>1. GoesOnWith(c)
      BY <2>1, <2>4, StepMoves, MovesGoOn DEF Acts, WorkInv
    <3>2. req[c].op = "mkdir"
      BY <2>4, <3>1 DEF GoesOnWith
    <3> QED
      BY <1>2, <2>1, <2>2, <2>4, <3>2, ActsPrepared
  <2>5. CASE Acts(c) /\ pc[c] = "idle"
    <3>1. PICK r \in Requests[c] : Run(c, r)
      <4>1. todo[c] = << >> /\ ~AtDaemon(c) /\ \A do : ~Doing(c, do)
        BY <2>1, <2>5 DEF WorkInv, Placed, Doing, AtDaemon
      <4> QED
        BY <2>5, <4>1 DEF Acts, CommandStep, UserStep, LocalStep, ManagedStep, MkdirStep,
         Read, Ask, Plan, Exit, LocalSkipped, LocalCheck, LocalMount, LocalUnmount, Ensure, Send, Reply, ReplyLost,
         Stat, Make, OwnMade, Fix, Own, ConfirmAll, ConfirmFix, Choose
    <3>2. reports'[c] = << >>
      BY <2>1, <2>5, <3>1 DEF Run, WorkInv, Placed
    <3> QED
      BY <3>2, NothingListed DEF Prepared
  <2> QED
    BY <1>2, <2>1, <2>3, <2>4, <2>5, OthersSame
<1> QED
  BY <1>1, <1>2 DEF Next

LEMMA PreparedTells == CommandInv /\ AllPrepared => MkdirPrepares
<1> SUFFICES ASSUME AllPrepared, NEW c \in Commands, pc[c] = "exit", req[c].op = "mkdir",
                    NEW i \in DOMAIN reports[c], reports[c][i].ok
             PROVE  Ready(c, reports[c][i].of, reports[c][i].as)
  BY DEF MkdirPrepares, Ready, WasMounted
<1>1. reports[c][i] \in Range(reports[c])
  BY DEF Range
<1> QED
  BY <1>1 DEF AllPrepared, Prepared

(* What a mkdir has said without an error stays so while it runs           *)
(* (main.go:988-1031).                                                     *)
THEOREM PreparedInvariant == Spec => []AllPrepared
BY PreparedInit, PreparedStep, CommandInvariant, SeenInvariant, SystemInvariant, PTL DEF Spec

(* After a mkdir without an error message each directory is there, and the *)
(* user's unless it is listed for its owner or something was mounted on it *)
(* meanwhile (main.go:988-1031, 1073-1084).                                *)
THEOREM MkdirPreparesCorrect == Spec => []MkdirPrepares
BY CommandInvariant, PreparedInvariant, PreparedTells, PTL

-----------------------------------------------------------------------------
(* The exit code.                                                          *)

LEMMA ToldAtExit == CommandInv /\ AllSeen => ExitTells
<1> SUFFICES ASSUME CommandInv, AllSeen, NEW c \in Commands, pc[c] = "exit",
                    req[c].op \in {"mount", "unmount"}, req[c].args # << >>
             PROVE  IF ExitError(c)
                    THEN \A i \in DOMAIN reports[c] : ~reports[c][i].ok
                    ELSE \E i \in DOMAIN req[c].args :
                           <<req[c].args[i], IF req[c].op = "mount" THEN "mounted" ELSE "unmounted">> \in seen[c]
  BY DEF ExitTells
<1>1. Typed /\ Placed(c) /\ Telling(c) /\ Printed(c)
  BY DEF CommandInv, AllWork, WorkInv, AllSeen, SeenInv
<1>2. todo[c] = << >>
  BY <1>1 DEF Placed
<1>3. \A i \in DOMAIN reports[c] :
        /\ reports[c][i].as \in Results /\ req[c].op = Verb(reports[c][i].as) /\ Known(req[c])
        /\ \E k \in DOMAIN req[c].args : req[c].args[k] = reports[c][i].of
        /\ reports[c][i].ok => <<reports[c][i].of, reports[c][i].as>> \in seen[c]
  BY <1>1 DEF Telling, Printed, Range
<1>4. CASE ExitError(c)
  BY <1>3, <1>4 DEF ExitError
<1>5. CASE ~ExitError(c)
  <2>1. reports[c] # << >>
    <3>1. Known(req[c])
      BY <1>5 DEF ExitError
    <3>2. Range(todo[c]) = {}
      BY <1>2, NothingListed
    <3> QED
      BY <1>1, <3>1, <3>2 DEF Telling
  <2>2. PICK i \in DOMAIN reports[c] : reports[c][i].ok
    <3>1. PICK i : i \in DOMAIN reports[c]
      <4>1. reports[c] \in Seq(Reports)
        BY <1>1 DEF Typed
      <4> QED
        BY <2>1, <4>1, NothingThere DEF Range
    <3> QED
      BY <1>3, <1>5, <3>1 DEF ExitError
  <2>3. PICK k \in DOMAIN req[c].args : req[c].args[k] = reports[c][i].of
    BY <1>3, <2>2
  <2>4. reports[c][i].as = IF req[c].op = "mount" THEN "mounted" ELSE "unmounted"
    BY <1>3, <2>2 DEF Verb, Results
  <2> QED
    BY <1>3, <1>5, <2>2, <2>3, <2>4
<1> QED
  BY <1>4, <1>5

(* Without an error as exit code at least one entry named was in the asked *)
(* state meanwhile; with an error none is said to have been                *)
(* (main.go:835-837, 874-876).  The same two exceptions as for the reports *)
(* hold: a mount gone before its watcher ran, and one that has lost its    *)
(* record and is taken for unmounted (backend.go:155-168, 236-245).        *)
THEOREM ExitTellsCorrect == Spec => []ExitTells
BY CommandInvariant, SeenInvariant, ToldAtExit, PTL

-----------------------------------------------------------------------------
(* How high mounts are piled up.                                           *)

(* How many local mounts there are on a directory, and how many commands   *)
(* are about to add one.                                                   *)
LocalsIn(s)  == {i \in DOMAIN s : s[i].of \in Local}
MidMounts(d) == {c \in Commands : pc[c] = "mid" /\ Doing(c, "mount") /\ DirOf[It(c)] = d}
Most         == IF peak > 1 THEN peak ELSE 1
Stacked      == \A d \in Dirs : Cardinality(LocalsOn(d)) + Cardinality(MidMounts(d)) <= Most

LEMMA LocalsFinite ==
  ASSUME NEW s \in Seq(Mount)
  PROVE  /\ IsFiniteSet(LocalsIn(s)) /\ Cardinality(LocalsIn(s)) \in Nat
         /\ s = << >> => Cardinality(LocalsIn(s)) = 0
<1>1. Len(s) \in Nat /\ DOMAIN s = 1..Len(s)
  BY LenProperties
<1>2. IsFiniteSet(1..Len(s)) /\ LocalsIn(s) \subseteq 1..Len(s)
  BY <1>1, IntervalIsFinite DEF LocalsIn
<1>3. IsFiniteSet(LocalsIn(s)) /\ Cardinality(LocalsIn(s)) \in Nat
  BY <1>2, FS_Subset, FS_CardinalityType
<1>4. s = << >> => LocalsIn(s) = {}
  BY NothingListed DEF LocalsIn
<1> QED
  BY <1>3, <1>4, FS_EmptySet

(* What a step does to the number of local mounts.                         *)
LEMMA PutLocals ==
  ASSUME Typed, NEW e \in Entries, NEW d \in Dirs, Put(e, d)
  PROVE  /\ e \in Managed => LocalsIn(mounts'[d]) = LocalsIn(mounts[d])
         /\ Cardinality(LocalsIn(mounts'[d])) <= Cardinality(LocalsIn(mounts[d])) + 1
<1> DEFINE s == mounts[d]
           t == mounts'[d]
           n == Len(s)
<1>1. s \in Seq(Mount) /\ n \in Nat /\ DOMAIN s = 1..n
  BY LenProperties DEF Typed
<1>2. t = Append(s, Fresh(e)) /\ Fresh(e) \in Mount /\ Fresh(e).of = e
  BY PutIs DEF Fresh, Mount
<1> HIDE DEF s, t
<1>3. t \in Seq(Mount) /\ Len(t) = n + 1 /\ t[n + 1] = Fresh(e) /\ \A i \in 1..n : t[i] = s[i]
  BY <1>1, <1>2, AppendProperties DEF n
<1>4. DOMAIN t = 1..(n + 1)
  BY <1>3, LenProperties
<1> HIDE DEF n
<1>5. LocalsIn(t) \subseteq LocalsIn(s) \cup {n + 1}
  BY <1>1, <1>3, <1>4 DEF LocalsIn
<1>6. e \in Managed => LocalsIn(t) = LocalsIn(s)
  BY <1>1, <1>2, <1>3, <1>4, EntriesKinds DEF LocalsIn
<1>7. Cardinality(LocalsIn(t)) <= Cardinality(LocalsIn(s)) + 1
  <2>1. IsFiniteSet(LocalsIn(s)) /\ Cardinality(LocalsIn(s)) \in Nat
    BY <1>1, LocalsFinite
  <2> DEFINE A == LocalsIn(s)
             B == A \cup {n + 1}
  <2> HIDE DEF A
  <2>2. IsFiniteSet(A) /\ Cardinality(A) \in Nat
    BY <2>1 DEF A
  <2>3. IsFiniteSet(B) /\ Cardinality(B) <= Cardinality(A) + 1
    <3>1. /\ IsFiniteSet(B)
          /\ Cardinality(B) = IF n + 1 \in A THEN Cardinality(A) ELSE Cardinality(A) + 1
      BY <2>2, FS_AddElement, Zenon
    <3> HIDE DEF B
    <3>2. CASE n + 1 \in A
      BY <2>2, <3>1, <3>2
    <3>3. CASE n + 1 \notin A
      BY <2>2, <3>1, <3>3
    <3> QED
      BY <3>2, <3>3
  <2>4. Cardinality(B) \in Nat /\ Cardinality(LocalsIn(t)) <= Cardinality(B) /\ Cardinality(LocalsIn(t)) \in Nat
    <3>1. LocalsIn(t) \subseteq B
      BY <1>5 DEF A
    <3> HIDE DEF B
    <3> QED
      BY <2>3, <3>1, FS_Subset, FS_CardinalityType
  <2> HIDE DEF B
  <2> QED
    BY <2>2, <2>3, <2>4 DEF A
<1> QED
  BY <1>6, <1>7 DEF s, t

Fewer == \A d \in Dirs : Cardinality(LocalsIn(mounts'[d])) <= Cardinality(LocalsIn(mounts[d]))

LEMMA SameFewer ==
  ASSUME Typed, UNCHANGED mounts
  PROVE  Fewer
<1>1. \A d \in Dirs : Cardinality(LocalsIn(mounts[d])) \in Nat
  BY LocalsFinite DEF Typed
<1> QED
  BY <1>1 DEF Fewer

LEMMA StrandFewer ==
  ASSUME Typed, NEW S, Strand(S)
  PROVE  Fewer
<1>1. \A m : Struck(S, m).of = m.of \/ ~(m \in Mount)
  BY DEF Struck, Mount
<1>2. ASSUME NEW d \in Dirs PROVE LocalsIn(mounts'[d]) = LocalsIn(mounts[d])
  <2>1. DOMAIN mounts'[d] = DOMAIN mounts[d] /\ \A i \in DOMAIN mounts[d] : mounts'[d][i] = Struck(S, mounts[d][i])
    BY StrandIs
  <2>2. \A i \in DOMAIN mounts[d] : mounts[d][i] \in Mount
    BY LenProperties DEF Typed
  <2> QED
    BY <1>1, <2>1, <2>2 DEF LocalsIn
<1>3. \A d \in Dirs : Cardinality(LocalsIn(mounts[d])) \in Nat
  BY LocalsFinite DEF Typed
<1> QED
  BY <1>2, <1>3 DEF Fewer

LEMMA PopFewer ==
  ASSUME Typed, NEW d \in Dirs, Mounted(d), Pop(d)
  PROVE  Fewer
<1>1. \A x \in Dirs : mounts[x] \in Seq(Mount) /\ mounts'[x] \in Seq(Mount)
  BY PopIs DEF Typed
<1>2. \A x \in Dirs : IsFiniteSet(LocalsIn(mounts[x])) /\ Cardinality(LocalsIn(mounts[x])) \in Nat
  BY <1>1, LocalsFinite
<1>3. LocalsIn(mounts'[d]) \subseteq LocalsIn(mounts[d])
  <2>1. /\ Len(mounts'[d]) = Len(mounts[d]) - 1
        /\ \A i \in 1..(Len(mounts[d]) - 1) : mounts'[d][i] = mounts[d][i]
    BY PopIs
  <2>2. /\ Len(mounts[d]) \in Nat /\ DOMAIN mounts[d] = 1..Len(mounts[d])
        /\ DOMAIN mounts'[d] = 1..Len(mounts'[d])
    BY <1>1, LenProperties
  <2> QED
    BY <2>1, <2>2 DEF LocalsIn
<1>4. Cardinality(LocalsIn(mounts'[d])) <= Cardinality(LocalsIn(mounts[d]))
  BY <1>2, <1>3, FS_Subset
<1>5. \A x \in Dirs : x # d => mounts'[x] = mounts[x]
  BY PopIs
<1> QED
  BY <1>2, <1>4, <1>5 DEF Fewer

LEMMA StopFewer ==
  ASSUME Typed, DaemonStops
  PROVE  Fewer
<1> SUFFICES ASSUME NEW d \in Dirs
             PROVE  Cardinality(LocalsIn(mounts'[d])) <= Cardinality(LocalsIn(mounts[d]))
  BY DEF Fewer
<1>1. PICK ms \in Seq(Mount) : /\ ms = mounts[d] \/ (Mounted(d) /\ ms = Front(mounts[d]))
                               /\ mounts'[d] = Stranded(ms, Managed)
  BY StopIs
<1>2. mounts[d] \in Seq(Mount)
  BY DEF Typed
<1>3. LocalsIn(mounts'[d]) = LocalsIn(ms)
  <2>1. \A m \in Mount : Struck(Managed, m).of = m.of
    BY DEF Struck, Mount
  <2>2. /\ DOMAIN Stranded(ms, Managed) = DOMAIN ms
        /\ \A i \in DOMAIN ms : Stranded(ms, Managed)[i] = Struck(Managed, ms[i])
    BY StrandedIs
  <2>3. \A i \in DOMAIN ms : ms[i] \in Mount
    BY LenProperties
  <2> QED
    BY <1>1, <2>1, <2>2, <2>3 DEF LocalsIn
<1>4. LocalsIn(ms) \subseteq LocalsIn(mounts[d])
  <2>1. CASE Mounted(d) /\ ms = Front(mounts[d])
    <3>1. /\ Len(ms) = Len(mounts[d]) - 1
          /\ \A i \in 1..(Len(mounts[d]) - 1) : ms[i] = mounts[d][i]
      BY <1>2, <2>1, FrontIs DEF Mounted
    <3>2. /\ Len(mounts[d]) \in Nat /\ DOMAIN mounts[d] = 1..Len(mounts[d])
          /\ DOMAIN ms = 1..Len(ms)
      BY <1>2, LenProperties
    <3> QED
      BY <3>1, <3>2 DEF LocalsIn
  <2> QED
    BY <1>1, <2>1
<1> QED
  BY <1>2, <1>3, <1>4, LocalsFinite, FS_Subset

-----------------------------------------------------------------------------
(* The commands about to mount.                                            *)
LEMMA MidsFinite ==
  ASSUME NEW d
  PROVE  IsFiniteSet(MidMounts(d)) /\ Cardinality(MidMounts(d)) \in Nat
BY CommandsAreSome, FS_Subset, FS_CardinalityType DEF MidMounts

LEMMA MidsCount ==
  ASSUME NEW A, NEW B, IsFiniteSet(B), A \subseteq B
  PROVE  /\ Cardinality(A) <= Cardinality(B) /\ Cardinality(A) \in Nat /\ Cardinality(B) \in Nat
         /\ \A x \in B : x \notin A => Cardinality(A) + 1 <= Cardinality(B)
<1>1. /\ IsFiniteSet(A) /\ Cardinality(A) <= Cardinality(B)
      /\ Cardinality(A) \in Nat /\ Cardinality(B) \in Nat
  BY FS_Subset, FS_CardinalityType
<1>2. ASSUME NEW x \in B, x \notin A PROVE Cardinality(A) + 1 <= Cardinality(B)
  <2>1. Cardinality(A \cup {x}) = Cardinality(A) + 1
    BY <1>1, <1>2, FS_AddElement
  <2>2. A \cup {x} \subseteq B
    BY <1>2
  <2>3. Cardinality(A \cup {x}) <= Cardinality(B)
    BY <2>2, FS_Subset
  <2> QED
    BY <2>1, <2>3
<1> QED
  BY <1>1, <1>2

(* The bound never falls, and covers the commands that run.                *)
LEMMA MostGrows ==
  ASSUME Typed, Observe
  PROVE  /\ Most \in Nat /\ Most' \in Nat /\ Most <= Most' /\ 1 <= Most'
         /\ Cardinality(Running') \in Nat /\ Cardinality(Running') <= Most'
<1>1. IsFiniteSet(Running') /\ Cardinality(Running') \in Nat
  <2>1. Running' \subseteq Commands
    BY DEF Running
  <2> QED
    BY <2>1, CommandsAreSome, FS_Subset, FS_CardinalityType
<1>2. peak \in Nat /\ peak' = IF Cardinality(Running') > peak THEN Cardinality(Running') ELSE peak
  BY DEF Typed, Observe
<1> DEFINE N == Cardinality(Running')
<1> HIDE DEF N
<1>3. N \in Nat /\ peak' = IF N > peak THEN N ELSE peak
  BY <1>1, <1>2 DEF N
<1> QED
  BY <1>2, <1>3 DEF Most, N

(* What a command's own step does to both numbers: the check makes it one  *)
(* of those about to mount where nothing is mounted, the mount makes it a  *)
(* mount instead, and nothing else adds to either.                         *)
LEMMA ActsStacked ==
  ASSUME Typed, Stacked, NEW c \in Commands, WorkInv(c), Acts(c), NEW d \in Dirs,
         \A x \in Commands : x # c => Same5(x), Observe
  PROVE  Cardinality(LocalsIn(mounts'[d])) + Cardinality(MidMounts(d)') <= Most'
<1> DEFINE L == Cardinality(LocalsIn(mounts[d]))
           K == Cardinality(LocalsIn(mounts'[d]))
           A == MidMounts(d)
           B == MidMounts(d)'
           N == Most
           M == Most'
<1>1. L \in Nat /\ (mounts[d] = << >> => L = 0)
  BY LocalsFinite DEF Typed
<1>2. K \in Nat
  <2>1. mounts'[d] \in Seq(Mount)
    BY CommandSystem DEF SystemTyped
  <2> QED
    BY <2>1, LocalsFinite
<1>3. IsFiniteSet(A) /\ B \subseteq Commands /\ N \in Nat /\ M \in Nat /\ N <= M
  BY MidsFinite, MostGrows DEF MidMounts
<1>4. L + Cardinality(A) <= N
  BY DEF Stacked, LocalsOn, LocalsIn
<1>5. \A x \in Commands : x # c => (x \in B <=> x \in A)
  BY DEF Same5, MidMounts, Doing, Do, It
<1>6. c \in A => DirOf[It(c)] = d /\ pc[c] = "mid" /\ Doing(c, "mount")
  BY DEF MidMounts
<1>7. c \in B => pc'[c] = "mid" /\ Doing(c, "mount")' /\ DirOf[It(c)'] = d
  BY DEF MidMounts
<1> HIDE DEF L, K, A, B, N, M
<1>8. CASE c \in B
  <2>1. LocalCheck(c) /\ DirOf[It(c)] = d /\ ~Goes(c)
    BY <1>7, <1>8, EntersByCheck
  <2>2. ~Mounted(d) /\ UNCHANGED mounts
    BY <2>1, TellItTells DEF LocalCheck, Tells
  <2>3. K = 0
    BY <1>1, <2>2 DEF K, L, Mounted
  <2>4. B \subseteq Running' /\ IsFiniteSet(Running')
    <3>1. Running' \subseteq Commands
      BY DEF Running
    <3> QED
      BY <3>1, CommandsAreSome, FS_Subset DEF B, MidMounts, Running
  <2>5. Cardinality(B) <= M /\ Cardinality(B) \in Nat
    <3>1. /\ Cardinality(B) <= Cardinality(Running') /\ Cardinality(B) \in Nat
          /\ Cardinality(Running') \in Nat
      BY <2>4, MidsCount
    <3>2. Cardinality(Running') <= M
      BY MostGrows DEF M
    <3> QED
      BY <1>3, <3>1, <3>2
  <2> QED
    BY <2>3, <2>5 DEF K, B, M
<1>9. CASE c \notin B
  <2>1. B \subseteq A
    BY <1>3, <1>5, <1>9
  <2>2. /\ Cardinality(B) <= Cardinality(A) /\ Cardinality(B) \in Nat /\ Cardinality(A) \in Nat
        /\ c \in A => Cardinality(B) + 1 <= Cardinality(A)
    BY <1>3, <1>9, <2>1, MidsCount
  <2>3. K <= L \/ (c \in A /\ K <= L + 1)
    <3>1. UNCHANGED mounts => K <= L
      BY <1>1 DEF K, L
    <3>2. CASE LocalMount(c)
      <4>1. PICK e \in Entries : e = It(c) /\ DirOf[e] \in Dirs
        BY <3>2, LocalTasks DEF LocalMount
      <4>2. CASE Put(e, DirOf[e])
        <5>1. DirOf[e] = d => c \in A
          BY <3>2, <4>1 DEF LocalMount, A, MidMounts
        <5>2. DirOf[e] = d => K <= L + 1
          BY <4>2, PutLocals DEF K, L
        <5>3. DirOf[e] # d => mounts'[d] = mounts[d]
          BY <4>1, <4>2, PutIs
        <5>4. DirOf[e] # d => K <= L
          BY <1>1, <5>3 DEF K, L
        <5> QED
          BY <5>1, <5>2, <5>4
      <4> QED
        BY <3>1, <3>2, <4>1, <4>2 DEF LocalMount
    <3>3. CASE LocalUnmount(c)
      <4>1. DirOf[It(c)] \in Dirs
        BY <3>3, LocalTasks DEF LocalUnmount
      <4>2. CASE Mounted(DirOf[It(c)]) /\ Pop(DirOf[It(c)])
        <5>1. Fewer
          BY <4>1, <4>2, PopFewer
        <5> QED
          BY <5>1 DEF Fewer, K, L
      <4> QED
        BY <3>1, <3>3, <4>2 DEF LocalUnmount
    <3>4. CASE CommandStep(c) /\ ~LocalMount(c) /\ ~LocalUnmount(c)
      BY <3>1, <3>4 DEF CommandStep, LocalStep, ManagedStep, MkdirStep, Read, Ask, Plan, Exit,
         LocalSkipped, LocalCheck, Ensure, Send, Reply, ReplyLost, Stat, Make, OwnMade, Fix, Own, system
    <3>5. CASE UserStep(c) \/ \E r \in Requests[c] : Run(c, r)
      BY <3>1, <3>5 DEF UserStep, ConfirmAll, ConfirmFix, Choose, Run, system
    <3> QED
      BY <3>2, <3>3, <3>4, <3>5 DEF Acts
  <2>4. K + Cardinality(B) <= M
    BY <1>1, <1>2, <1>3, <1>4, <2>2, <2>3
  <2> QED
    BY <2>4 DEF K, B, M
<1> QED
  BY <1>8, <1>9

LEMMA QuietStacked ==
  ASSUME Typed, Typed', Stacked, UNCHANGED commandVars, Fewer, Observe
  PROVE  Stacked'
<1> SUFFICES ASSUME NEW d \in Dirs
             PROVE  Cardinality(LocalsIn(mounts'[d])) + Cardinality(MidMounts(d)') <= Most'
  BY DEF Stacked, LocalsOn, LocalsIn
<1>1. MidMounts(d)' = MidMounts(d)
  BY DEF MidMounts, commandVars, Doing, Do, It
<1>2. Cardinality(LocalsIn(mounts'[d])) <= Cardinality(LocalsIn(mounts[d]))
  BY DEF Fewer
<1>3. Cardinality(LocalsIn(mounts[d])) \in Nat /\ Cardinality(LocalsIn(mounts'[d])) \in Nat
  BY LocalsFinite DEF Typed
<1>4. Cardinality(LocalsIn(mounts[d])) + Cardinality(MidMounts(d)) <= Most
  BY DEF Stacked, LocalsOn, LocalsIn
<1>5. Most \in Nat /\ Most' \in Nat /\ Most <= Most'
  BY MostGrows
<1> QED
  BY <1>1, <1>2, <1>3, <1>4, <1>5, MidsFinite

(* The daemon's mounts are not local.                                      *)
LEMMA DaemonFewer ==
  ASSUME Typed, NEW c \in Commands, WorkInv(c), DaemonStep(c)
  PROVE  Fewer
<1>1. CASE ServeMount(c)
  <2>1. "mounted" \in Results /\ Serving(c, "mounted") /\ \E res \in Outcomes : Result(c, "mounted", res)
    BY <1>1 DEF ServeMount, Results, Outcomes
  <2>2. PICK e \in Managed : e = Current(c, "mounted") /\ e \in Entries /\ DirOf[e] \in Dirs
    BY <2>1, ResultIs, EntriesKinds
  <2>3. CASE Put(e, DirOf[e])
    <3>1. LocalsIn(mounts'[DirOf[e]]) = LocalsIn(mounts[DirOf[e]])
      BY <2>2, <2>3, PutLocals
    <3>2. \A d \in Dirs : d # DirOf[e] => mounts'[d] = mounts[d]
      BY <2>2, <2>3, PutIs
    <3>3. \A d \in Dirs : Cardinality(LocalsIn(mounts[d])) \in Nat
      BY LocalsFinite DEF Typed
    <3> QED
      BY <3>1, <3>2, <3>3 DEF Fewer
  <2> QED
    BY <1>1, <2>2, <2>3, SameFewer DEF ServeMount
<1>2. CASE ServeUnmount(c)
  <2>1. "unmounted" \in Results /\ Serving(c, "unmounted") /\ \E res \in Outcomes : Result(c, "unmounted", res)
    BY <1>2 DEF ServeUnmount, Results, Outcomes
  <2>2. PICK e \in Managed : e = Current(c, "unmounted") /\ e \in Entries /\ DirOf[e] \in Dirs
    BY <2>1, ResultIs, EntriesKinds
  <2>3. CASE Mounted(DirOf[e]) /\ Pop(DirOf[e])
    BY <2>2, <2>3, PopFewer
  <2> QED
    BY <1>2, <2>2, <2>3, SameFewer DEF ServeUnmount
<1>3. CASE \E aim \in Results : Unheard(c, aim)
  BY <1>3, SameFewer DEF Unheard, system
<1> QED
  BY <1>1, <1>2, <1>3 DEF DaemonStep

LEMMA OutsideFewer ==
  ASSUME Typed, Outside \/ \E e \in Managed : Watch(e)
  PROVE  Fewer
<1>1. ASSUME NEW e \in Entries, ServerDies(e) PROVE Fewer
  BY <1>1, StrandFewer DEF ServerDies
<1>2. CASE DaemonStops \/ DaemonKilled
  BY <1>2, StrandFewer, StopFewer DEF DaemonKilled
<1>3. ASSUME NEW d \in Dirs, UnmountedOutside(d) PROVE Fewer
  BY <1>3, PopFewer DEF UnmountedOutside
<1>4. ASSUME NEW e \in Managed, Watch(e) PROVE Fewer
  BY <1>4, SameFewer DEF Watch, system
<1> QED
  BY <1>1, <1>2, <1>3, <1>4 DEF Outside

LEMMA StackedStep ==
  ASSUME CommandInv, Stacked, [Next]_vars
  PROVE  Stacked'
<1>1. CASE UNCHANGED vars
  BY <1>1 DEF vars, Stacked, Most, LocalsOn, MidMounts, Doing, Do, It
<1>2. CASE Step /\ Observe
  <2>1. Typed /\ Typed' /\ \A x \in Commands : WorkInv(x)
    BY <1>2, StepCommandInv DEF CommandInv, AllWork
  <2>2. ASSUME NEW c \in Commands, Acts(c) PROVE Stacked'
    <3>1. \A x \in Commands : x # c => Same5(x)
      BY <2>1, <2>2, StepMoves, MovesTyped DEF Acts, WorkInv
    <3> QED
      BY <1>2, <2>1, <2>2, <3>1, ActsStacked DEF Stacked, LocalsOn, LocalsIn
  <2>3. ASSUME NEW c \in Commands, DaemonStep(c) PROVE Stacked'
    <3>1. UNCHANGED commandVars
      BY <2>3 DEF DaemonStep, ServeMount, ServeUnmount, Unheard, commandVars
    <3> QED
      BY <1>2, <2>1, <2>3, <3>1, DaemonFewer, QuietStacked
  <2>4. CASE Outside \/ \E e \in Managed : Watch(e)
    <3>1. UNCHANGED commandVars
      BY <2>4 DEF Outside, Watch, ServerDies, DaemonStops, DaemonKilled, DaemonEnds, UnmountedOutside, commandVars
    <3> QED
      BY <1>2, <2>1, <2>4, <3>1, OutsideFewer, QuietStacked
  <2> QED
    BY <1>2, <2>2, <2>3, <2>4 DEF Step, Acts
<1> QED
  BY <1>1, <1>2 DEF Next

LEMMA StackedInit == Init => Stacked
<1> SUFFICES ASSUME Init, NEW d \in Dirs
             PROVE  Cardinality(LocalsIn(mounts[d])) + Cardinality(MidMounts(d)) <= Most
  BY DEF Stacked, LocalsOn, LocalsIn
<1>1. MidMounts(d) = {} /\ Cardinality(MidMounts(d)) = 0
  BY FS_EmptySet DEF Init, MidMounts
<1>2. Most = 1
  BY DEF Init, Most
<1>3. PICK S \in MountedBefore : mounts = [x \in Dirs |-> MountsOf(S, x)]
  BY DEF Init, MountsOf, Fresh
<1>4. S \subseteq Entries /\ \A e, f \in S : DirOf[e] = DirOf[f] => e = f
  BY OneOnEachDir
<1> DEFINE T == {e \in S : DirOf[e] = d}
           W == Where(Order, T)
           s == MountsOf(S, d)
<1>5. W \subseteq DOMAIN Order /\ \A i, j \in W : i = j
  BY <1>4, NamesDiffer DEF Where
<1>6. Len(s) <= 1 /\ Len(s) \in Nat
  <2>1. Len(Order) \in Nat /\ DOMAIN Order = 1..Len(Order)
    BY OrderIsList, LenProperties
  <2> HIDE DEF T, W
  <2>2. PICK n, g : n = Cardinality(W) /\ Counts(g, n, W)
    <3> DEFINE m == Len(Order)
    <3>1. m \in Nat /\ W \subseteq 1..m
      BY <1>5, <2>1
    <3> HIDE DEF m
    <3> QED
      BY <3>1, PlacesCounted
  <2>3. n \in Nat /\ n <= 1
    <3>1. n \in Nat /\ g \in [1..n -> W]
      BY <2>2 DEF Counts
    <3>2. ASSUME n > 1 PROVE FALSE
      <4>1. 1 \in 1..n /\ 2 \in 1..n
        BY <3>1, <3>2
      <4>2. g[1] = g[2]
        BY <1>5, <3>1, <4>1
      <4> QED
        BY <2>2, <4>1, <4>2, CountsOnce
    <3> QED
      BY <3>1, <3>2
  <2>4. Only(Order, T) = [k \in 1..n |-> Order[g[k]]]
    <3>1. Picked(Order, W) = [k \in 1..n |-> Order[g[k]]]
      BY <2>2, PickedIs
    <3> QED
      BY <3>1 DEF Only, W, Where
  <2>5. s = [k \in 1..n |-> Fresh(Order[g[k]])]
    BY <2>4 DEF MountsOf, T
  <2>6. \A k \in 1..n : Fresh(Order[g[k]]) \in Mount
    <3>1. g \in [1..n -> W]
      BY <2>2 DEF Counts
    <3>2. \A k \in 1..n : Order[g[k]] \in Entries
      BY <1>5, <3>1 DEF Entries
    <3> QED
      BY <3>2 DEF Fresh, Mount
  <2> HIDE DEF s
  <2>7. s \in [1..n -> Mount]
    BY <2>5, <2>6
  <2> QED
    BY <2>3, <2>7, RangeOfFunction
<1>7. mounts[d] = s /\ s \in Seq(Mount)
  BY <1>3, <1>4, MountsOfIs
<1> HIDE DEF s
<1>8. Cardinality(LocalsIn(s)) <= 1 /\ Cardinality(LocalsIn(s)) \in Nat
  <2>1. LocalsIn(s) \subseteq 1..Len(s)
    BY <1>7, LenProperties DEF LocalsIn
  <2>2. IsFiniteSet(1..Len(s)) /\ Cardinality(1..Len(s)) = Len(s)
    BY <1>6, IntervalIsFinite
  <2>3. Cardinality(LocalsIn(s)) <= Cardinality(1..Len(s)) /\ Cardinality(LocalsIn(s)) \in Nat
    BY <2>1, <2>2, MidsCount
  <2> QED
    BY <1>6, <2>2, <2>3
<1> QED
  BY <1>1, <1>2, <1>7, <1>8

LEMMA StackedBounds == CommandInv /\ Stacked => StacksBounded
<1> SUFFICES ASSUME CommandInv, Stacked, NEW d \in Dirs PROVE Cardinality(LocalsIn(mounts[d])) <= Most
  BY DEF StacksBounded, LocalsOn, LocalsIn, Most
<1>1. Cardinality(LocalsIn(mounts[d])) \in Nat
  BY LocalsFinite DEF CommandInv, Typed
<1>2. Cardinality(LocalsIn(mounts[d])) + Cardinality(MidMounts(d)) <= Most
  BY DEF Stacked, LocalsOn, LocalsIn
<1>3. Most \in Nat
  BY DEF CommandInv, Typed, Most
<1> QED
  BY <1>1, <1>2, <1>3, MidsFinite

(* The local mounts on a directory and the commands between their check    *)
(* and their mount there are together never more than commands have run at *)
(* the same time (smb/driver.go:26-42, sshfs/driver.go:31-59).             *)
THEOREM StackedInvariant == Spec => []Stacked
BY StackedInit, StackedStep, CommandInvariant, PTL DEF Spec

(* Never more local mounts are piled up on a directory than commands have  *)
(* run at the same time, and no two if they only ran one at a time         *)
(* (smb/driver.go:26-42, sshfs/driver.go:31-59).                           *)
THEOREM StacksBoundedCorrect == Spec => []StacksBounded
BY CommandInvariant, StackedInvariant, StackedBounds, PTL

-----------------------------------------------------------------------------
(* The names in the reports of some kinds, in order.                       *)
Of(s)       == [i \in DOMAIN s |-> s[i].of]
AsIn(A)     == {r \in Reports : r.as \in A}
Named(s, A) == Of(Only(s, AsIn(A)))

LEMMA OfIs ==
  ASSUME NEW s \in Seq(Reports)
  PROVE  /\ Of(s) \in Seq(Entries) /\ Len(Of(s)) = Len(s)
         /\ \A i \in 1..Len(s) : Of(s)[i] = s[i].of
         /\ Range(Of(s)) = {r.of : r \in Range(s)}
<1> DEFINE n == Len(s)
           f == Of(s)
<1>1. n \in Nat /\ DOMAIN s = 1..n /\ \A i \in 1..n : s[i] \in Reports
  BY LenProperties, ElementOfSeq
<1> HIDE DEF n
<1>2. f = [i \in 1..n |-> s[i].of]
  BY <1>1 DEF Of
<1> HIDE DEF f
<1>3. f \in [1..n -> Entries] /\ \A i \in 1..n : f[i] = s[i].of
  BY <1>1, <1>2 DEF Reports
<1>4. f \in Seq(Entries) /\ Len(f) = n /\ DOMAIN f = 1..n
  BY <1>1, <1>3, RangeOfFunction
<1>5. Range(f) = {r.of : r \in Range(s)}
  BY <1>1, <1>3, <1>4 DEF Range
<1> QED
  BY <1>3, <1>4, <1>5 DEF f, n

LEMMA OfConcat ==
  ASSUME NEW s \in Seq(Reports), NEW t \in Seq(Reports)
  PROVE  Of(s \o t) = Of(s) \o Of(t)
<1> DEFINE u == s \o t
           p == Len(s)
           q == Len(t)
           a == Of(s)
           b == Of(t)
<1>1. /\ p \in Nat /\ q \in Nat /\ u \in Seq(Reports) /\ Len(u) = p + q
      /\ \A i \in 1..(p + q) : u[i] = IF i <= p THEN s[i] ELSE t[i - p]
  BY LenProperties, ConcatProperties
<1>2. /\ a \in Seq(Entries) /\ Len(a) = p /\ \A i \in 1..p : a[i] = s[i].of
      /\ b \in Seq(Entries) /\ Len(b) = q /\ \A i \in 1..q : b[i] = t[i].of
  BY OfIs
<1> HIDE DEF u, p, q, a, b
<1>3. Of(u) \in Seq(Entries) /\ Len(Of(u)) = p + q /\ \A i \in 1..(p + q) : Of(u)[i] = u[i].of
  BY <1>1, OfIs
<1>4. /\ a \o b \in Seq(Entries) /\ Len(a \o b) = p + q
      /\ \A i \in 1..(p + q) : (a \o b)[i] = IF i <= p THEN a[i] ELSE b[i - p]
  <2>1. /\ a \o b \in Seq(Entries) /\ Len(a \o b) = Len(a) + Len(b)
        /\ \A i \in 1..(Len(a) + Len(b)) : (a \o b)[i] = IF i <= Len(a) THEN a[i] ELSE b[i - Len(a)]
    BY <1>2, EntriesJoined, Zenon
  <2>2. Len(a) = p /\ Len(b) = q
    BY <1>2
  <2> QED
    BY <2>1, <2>2, ZenonT(40)
<1>5. ASSUME NEW i \in 1..(p + q) PROVE Of(u)[i] = (a \o b)[i]
  <2>1. /\ Of(u)[i] = u[i].of
        /\ u[i] = IF i <= p THEN s[i] ELSE t[i - p]
        /\ (a \o b)[i] = IF i <= p THEN a[i] ELSE b[i - p]
    BY <1>1, <1>3, <1>4, Zenon
  <2>2. CASE i <= p
    <3>1. i \in 1..p
      BY <1>1, <2>2
    <3>2. a[i] = s[i].of
      BY <1>2, <3>1, Zenon
    <3> QED
      BY <2>1, <2>2, <3>2, Zenon
  <2>3. CASE ~(i <= p)
    <3>1. i - p \in 1..q
      BY <1>1, <2>3
    <3>2. b[i - p] = t[i - p].of
      BY <1>2, <3>1, Zenon
    <3> QED
      BY <2>1, <2>3, <3>2, Zenon
  <2> QED
    BY <2>2, <2>3
<1>6. Of(u) = a \o b
  BY <1>3, <1>4, <1>5, SeqEqual
<1> QED
  BY <1>6 DEF u, a, b

LEMMA NamedIs ==
  ASSUME NEW s \in Seq(Reports), NEW A
  PROVE  /\ Named(s, A) \in Seq(Entries)
         /\ Range(Named(s, A)) = {r.of : r \in {x \in Range(s) : x.as \in A}}
         /\ (\A r \in Range(s) : r.as \in A) => Named(s, A) = Of(s)
         /\ (\A r \in Range(s) : r.as \notin A) => Named(s, A) = << >>
<1> DEFINE o == Only(s, AsIn(A))
<1>1. Range(s) \subseteq Reports
  BY RangeIs
<1>2. /\ o \in Seq(Reports) /\ Range(o) = Range(s) \cap AsIn(A)
      /\ o = << >> <=> Range(s) \cap AsIn(A) = {}
  BY OnlyThose
<1>3. Range(s) \cap AsIn(A) = {x \in Range(s) : x.as \in A}
  BY <1>1 DEF AsIn
<1>4. (\A r \in Range(s) : r.as \in A) => o = s
  <2> SUFFICES ASSUME \A r \in Range(s) : r.as \in A PROVE o = s
    OBVIOUS
  <2>1. Range(s) \subseteq AsIn(A)
    BY <1>1 DEF AsIn
  <2> QED
    BY <2>1, OnlyAll
<1> HIDE DEF o
<1>5. Of(o) \in Seq(Entries) /\ Range(Of(o)) = {r.of : r \in Range(o)}
  BY <1>2, OfIs
<1>6. o = << >> => Of(o) = << >>
  <2> SUFFICES ASSUME o = << >> PROVE Of(o) = << >>
    OBVIOUS
  <2>1. DOMAIN o = {}
    BY NothingListed
  <2>2. Len(Of(o)) = 0
    BY <1>2, OfIs, NothingListed
  <2> QED
    BY <1>5, <2>2, NothingThere
<1>7. Named(s, A) = Of(o)
  BY DEF Named, o
<1>8. (\A r \in Range(s) : r.as \notin A) => o = << >>
  BY <1>2, <1>3
<1> QED
  BY <1>2, <1>3, <1>4, <1>5, <1>6, <1>7, <1>8

LEMMA NamedConcat ==
  ASSUME NEW s \in Seq(Reports), NEW t \in Seq(Reports), NEW A
  PROVE  Named(s \o t, A) = Named(s, A) \o Named(t, A)
<1> DEFINE a == Only(s, AsIn(A))
           b == Only(t, AsIn(A))
<1>1. Only(s \o t, AsIn(A)) = a \o b
  BY OnlyConcat
<1>2. a \in Seq(Reports) /\ b \in Seq(Reports)
  BY OnlyThose
<1> HIDE DEF a, b
<1>3. Of(a \o b) = Of(a) \o Of(b)
  BY <1>2, OfConcat
<1> QED
  BY <1>1, <1>3 DEF Named, a, b

LEMMA NamesInIs ==
  ASSUME Typed, NEW c \in Commands, NEW A
  PROVE  NamesIn(c, A) = Named(reports[c], A)
<1> DEFINE s == reports[c]
<1>1. s \in Seq(Reports)
  BY DEF Typed
<1>2. \A i \in DOMAIN s : s[i] \in Reports
  BY <1>1, LenProperties
<1>3. {i \in DOMAIN s : s[i].as \in A} = {i \in DOMAIN s : s[i] \in AsIn(A)}
  BY <1>2 DEF AsIn
<1>4. Only(s, AsIn(A)) = Picked(s, {i \in DOMAIN s : s[i].as \in A})
  BY <1>3 DEF Only
<1> HIDE DEF s
<1> QED
  BY <1>4 DEF NamesIn, Named, Of, s

-----------------------------------------------------------------------------
(* The first of a list.                                                    *)
LEMMA HeadAndTail ==
  ASSUME NEW X, NEW s \in Seq(X), s # << >>
  PROVE  s[1] \in X /\ Tail(s) \in Seq(X) /\ s = <<s[1]>> \o Tail(s)
<1> DEFINE h == <<s[1]>>
           t == Tail(s)
           n == Len(s)
<1>1. n \in Nat /\ n # 0
  BY NothingThere, LenProperties
<1>2. /\ s[1] \in X /\ t \in Seq(X) /\ Len(t) = n - 1
      /\ \A i \in 1..(n - 1) : t[i] = s[i + 1]
  BY RangeOfTail, HeadTailProperties
<1>3. h \in Seq(X) /\ Len(h) = 1 /\ h[1] = s[1]
  BY <1>2, RangeOfOne
<1> HIDE DEF h, t, n
<1>4. /\ h \o t \in Seq(X) /\ Len(h \o t) = n
      /\ \A i \in 1..n : (h \o t)[i] = IF i <= 1 THEN h[i] ELSE t[i - 1]
  <2>1. /\ h \o t \in Seq(X) /\ Len(h \o t) = Len(h) + Len(t)
        /\ \A i \in 1..(Len(h) + Len(t)) : (h \o t)[i] = IF i <= Len(h) THEN h[i] ELSE t[i - Len(h)]
    <3>1. h \in Seq(X) /\ t \in Seq(X)
      BY <1>2, <1>3
    <3> QED
      BY <3>1, ConcatProperties
  <2>2. Len(h) = 1 /\ Len(t) = n - 1 /\ Len(h) + Len(t) = n
    BY <1>1, <1>2, <1>3
  <2> QED
    BY <2>1, <2>2
<1>5. ASSUME NEW i \in 1..n PROVE s[i] = (h \o t)[i]
  <2>1. CASE i = 1
    BY <1>3, <1>4, <2>1
  <2>2. CASE i # 1
    <3>1. i - 1 \in 1..(n - 1) /\ ~(i <= 1) /\ (i - 1) + 1 = i
      BY <1>1, <2>2
    <3> QED
      BY <1>2, <1>4, <3>1
  <2> QED
    BY <2>1, <2>2
<1>6. s = h \o t
  BY <1>4, <1>5, SeqEqual DEF n
<1> QED
  BY <1>2, <1>6 DEF h, t

LEMMA HeadOfConcat ==
  ASSUME NEW X, NEW s \in Seq(X), NEW t \in Seq(X), s # << >>
  PROVE  s \o t # << >> /\ (s \o t)[1] = s[1] /\ Tail(s \o t) = Tail(s) \o t
<1> DEFINE u == s \o t
           v == Tail(s)
           w == Tail(u)
           p == Len(s)
           q == Len(t)
<1>1. p \in Nat /\ p # 0 /\ q \in Nat
  BY NothingThere, LenProperties
<1>2. /\ u \in Seq(X) /\ Len(u) = p + q
      /\ \A i \in 1..(p + q) : u[i] = IF i <= p THEN s[i] ELSE t[i - p]
  BY ConcatProperties
<1>3. v \in Seq(X) /\ Len(v) = p - 1 /\ \A i \in 1..(p - 1) : v[i] = s[i + 1]
  BY HeadTailProperties
<1> HIDE DEF u, v, p, q
<1>4. u # << >> /\ u[1] = s[1]
  BY <1>1, <1>2, NothingThere
<1>5. w \in Seq(X) /\ Len(w) = p + q - 1 /\ \A i \in 1..(p + q - 1) : w[i] = u[i + 1]
  <2>1. w \in Seq(X) /\ Len(w) = Len(u) - 1 /\ \A i \in 1..Len(w) : w[i] = u[i + 1]
    <3>1. u \in Seq(X) /\ u # << >>
      BY <1>2, <1>4
    <3> QED
      BY <3>1, HeadTailProperties
  <2> HIDE DEF w
  <2> QED
    BY <1>1, <1>2, <2>1
<1>6. /\ v \o t \in Seq(X) /\ Len(v \o t) = p + q - 1
      /\ \A i \in 1..(p + q - 1) : (v \o t)[i] = IF i <= p - 1 THEN v[i] ELSE t[i - (p - 1)]
  <2>1. /\ v \o t \in Seq(X) /\ Len(v \o t) = Len(v) + Len(t)
        /\ \A i \in 1..(Len(v) + Len(t)) : (v \o t)[i] = IF i <= Len(v) THEN v[i] ELSE t[i - Len(v)]
    <3>1. v \in Seq(X) /\ t \in Seq(X)
      BY <1>3
    <3> QED
      BY <3>1, ConcatProperties
  <2>2. Len(v) = p - 1 /\ Len(v) + Len(t) = p + q - 1
    BY <1>1, <1>3 DEF q
  <2> QED
    BY <2>1, <2>2
<1> HIDE DEF w
<1>7. ASSUME NEW i \in 1..(p + q - 1) PROVE w[i] = (v \o t)[i]
  <2>1. i + 1 \in 1..(p + q) /\ (i + 1) - p = i - (p - 1)
    BY <1>1
  <2>2. CASE i <= p - 1
    <3>1. i \in 1..(p - 1) /\ i + 1 <= p
      BY <1>1, <2>2
    <3> QED
      BY <1>2, <1>3, <1>5, <1>6, <2>1, <2>2, <3>1
  <2>3. CASE ~(i <= p - 1)
    <3>1. ~(i + 1 <= p)
      BY <1>1, <2>3
    <3> QED
      BY <1>2, <1>5, <1>6, <2>1, <2>3, <3>1
  <2> QED
    BY <2>2, <2>3
<1>8. w = v \o t
  BY <1>5, <1>6, <1>7, SeqEqual
<1> QED
  BY <1>4, <1>8 DEF u, v, w

LEMMA EachHead ==
  ASSUME NEW do \in OnLocal \cup OnEntry, NEW es \in Seq(Entries),
         do \in OnLocal => es \in Seq(Local)
  PROVE  /\ es = << >> <=> Each(do, es) = << >>
         /\ es # << >> => /\ Each(do, es)[1] = Task(do, <<es[1]>>)
                          /\ Tail(Each(do, es)) = Each(do, Tail(es))
<1> DEFINE a == Each(do, es)
           n == Len(es)
<1>1. n \in Nat /\ a \in Seq(Fitting) /\ Len(a) = n /\ \A i \in 1..n : a[i] = Task(do, <<es[i]>>)
  BY EachIs, LenProperties
<1>2. es = << >> <=> a = << >>
  <2>1. es = << >> <=> n = 0
    BY NothingThere
  <2> HIDE DEF a, n
  <2> QED
    BY <1>1, <2>1, NothingThere
<1>3. ASSUME es # << >> PROVE a[1] = Task(do, <<es[1]>>) /\ Tail(a) = Each(do, Tail(es))
  <2> DEFINE r == Tail(es)
             b == Each(do, r)
             w == Tail(a)
  <2>1. r \in Seq(Entries) /\ Len(r) = n - 1 /\ \A i \in 1..(n - 1) : r[i] = es[i + 1]
    BY <1>3, HeadTailProperties
  <2>2. do \in OnLocal => r \in Seq(Local)
    BY <1>3, HeadTailProperties
  <2>3. a # << >> /\ n # 0
    BY <1>2, <1>3, NothingThere
  <2> HIDE DEF r, a, n
  <2>4. b \in Seq(Fitting) /\ Len(b) = n - 1 /\ \A i \in 1..(n - 1) : b[i] = Task(do, <<r[i]>>)
    BY <2>1, <2>2, EachIs
  <2>5. w \in Seq(Fitting) /\ Len(w) = n - 1 /\ \A i \in 1..(n - 1) : w[i] = a[i + 1]
    BY <1>1, <2>3, HeadTailProperties
  <2> HIDE DEF b, w
  <2>6. ASSUME NEW i \in 1..(n - 1) PROVE w[i] = b[i]
    <3>1. i + 1 \in 1..n
      BY <1>1
    <3> QED
      BY <1>1, <2>1, <2>4, <2>5, <3>1
  <2>7. w = b
    BY <2>4, <2>5, <2>6, SeqEqual
  <2>8. a[1] = Task(do, <<es[1]>>)
    BY <1>1, <2>3
  <2> QED
    BY <2>7, <2>8 DEF w, b, r
<1> QED
  BY <1>2, <1>3 DEF a

-----------------------------------------------------------------------------
(* Work that brings some entries, in this order, into one state; and work  *)
(* that unmounts some and then mounts others.                              *)
DaemonVerb(aim)     == IF aim = "mounted" THEN "mount at daemon" ELSE "unmount at daemon"
Half(aim, l, m)     == Each(Verb(aim), l) \o Batch(DaemonVerb(aim), m)
Covers(ts, aim, ns) == \E l \in Seq(Local), m \in Seq(Managed) : ts = Half(aim, l, m) /\ ns = l \o m
Rest(ts, us, ms)    == \E a, b \in Seq(Fitting) : /\ ts = a \o b
                                                  /\ Covers(a, "unmounted", us) /\ Covers(b, "mounted", ms)

LEMMA VerbsAre ==
  ASSUME NEW aim \in Results
  PROVE  /\ Verb(aim) \in OnLocal /\ Verb(aim) \in Works /\ AsOf(Verb(aim)) = aim
         /\ DaemonVerb(aim) \in OnSome /\ DaemonVerb(aim) \in Works /\ AsOf(DaemonVerb(aim)) = aim
BY DEF Results, Verb, DaemonVerb, OnLocal, OnSome, AtDaemonKinds, Works, AsOf

LEMMA HalfIs ==
  ASSUME NEW aim \in Results, NEW l \in Seq(Local), NEW m \in Seq(Managed)
  PROVE  /\ Each(Verb(aim), l) \in Seq(Fitting) /\ Batch(DaemonVerb(aim), m) \in Seq(Fitting)
         /\ Half(aim, l, m) \in Seq(Fitting)
         /\ l \in Seq(Entries) /\ m \in Seq(Entries) /\ l \o m \in Seq(Entries)
<1>1. l \in Seq(Entries) /\ m \in Seq(Entries)
  BY EntriesKinds, SeqMonotonic
<1>2. l \o m \in Seq(Entries)
  BY <1>1, ConcatProperties
<1> DEFINE p == Each(Verb(aim), l)
           q == Batch(DaemonVerb(aim), m)
<1>3. p \in Seq(Fitting) /\ q \in Seq(Fitting)
  BY <1>1, VerbsAre, EachIs, BatchIs
<1> HIDE DEF p, q
<1>4. p \o q \in Seq(Fitting)
  BY <1>3, ConcatProperties
<1> QED
  BY <1>1, <1>2, <1>3, <1>4 DEF p, q, Half

LEMMA NothingCovers ==
  ASSUME NEW aim \in Results
  PROVE  Covers(<< >>, aim, << >>) /\ \A ns : Covers(<< >>, aim, ns) => ns = << >>
<1>1. << >> \in Seq(Local) /\ << >> \in Seq(Managed) /\ << >> \in Seq(Fitting) /\ << >> \in Seq(Entries)
  BY EmptySeq
<1>2. << >> \o << >> = << >>
  BY <1>1, ConcatEmptySeq
<1>3. Each(Verb(aim), << >>) = << >>
  BY <1>1, VerbsAre, EachHead
<1>4. Covers(<< >>, aim, << >>)
  BY <1>1, <1>2, <1>3 DEF Covers, Half, Batch
<1>5. ASSUME NEW ns, Covers(<< >>, aim, ns) PROVE ns = << >>
  <2>1. PICK l \in Seq(Local), m \in Seq(Managed) : << >> = Half(aim, l, m) /\ ns = l \o m
    BY <1>5 DEF Covers
  <2> DEFINE p == Each(Verb(aim), l)
             q == Batch(DaemonVerb(aim), m)
  <2>2. p \in Seq(Fitting) /\ q \in Seq(Fitting) /\ p \o q = << >>
    BY <2>1, HalfIs DEF Half
  <2>3. p = << >> /\ q = << >>
    <3> HIDE DEF p, q
    <3> QED
      BY <2>2, ConcatEqualIffEmpty
  <2>4. l = << >>
    BY <2>3, HalfIs, VerbsAre, EachHead
  <2>5. m = << >>
    <3> SUFFICES ASSUME m # << >> PROVE FALSE
      OBVIOUS
    <3>1. <<Task(DaemonVerb(aim), m)>> = << >>
      BY <2>3 DEF Batch
    <3> QED
      BY <3>1
  <2> QED
    BY <1>2, <2>1, <2>4, <2>5
<1> QED
  BY <1>4, <1>5

LEMMA CoversHead ==
  ASSUME NEW aim \in Results, NEW ts, ts # << >>, NEW ns, Covers(ts, aim, ns)
  PROVE  /\ ts[1].do \in Works /\ AsOf(ts[1].do) = aim /\ ts[1].on \in Seq(Entries)
         /\ \E xs \in Seq(Entries) : ns = ts[1].on \o xs /\ Covers(Tail(ts), aim, xs)
<1>1. PICK l \in Seq(Local), m \in Seq(Managed) : ts = Half(aim, l, m) /\ ns = l \o m
  BY DEF Covers
<1> DEFINE do == Verb(aim)
           p == Each(do, l)
           q == Batch(DaemonVerb(aim), m)
<1>2. /\ p \in Seq(Fitting) /\ q \in Seq(Fitting) /\ ts = p \o q
      /\ l \in Seq(Entries) /\ m \in Seq(Entries)
  BY <1>1, HalfIs DEF Half
<1>3. CASE l # << >>
  <2>1. p # << >> /\ p[1] = Task(do, <<l[1]>>) /\ Tail(p) = Each(do, Tail(l))
    BY <1>2, <1>3, VerbsAre, EachHead
  <2>2. l[1] \in Local /\ Tail(l) \in Seq(Local) /\ l = <<l[1]>> \o Tail(l)
    BY <1>3, HeadAndTail
  <2>3. ts[1] = p[1] /\ Tail(ts) = Tail(p) \o q
    <3> HIDE DEF p, q
    <3> QED
      BY <1>2, <2>1, HeadOfConcat
  <2> DEFINE xs == Tail(l) \o m
  <2>4. Covers(Tail(ts), aim, xs)
    BY <2>1, <2>2, <2>3 DEF Covers, Half
  <2>5. /\ l[1] \in Entries /\ <<l[1]>> \in Seq(Entries) /\ Tail(l) \in Seq(Entries) /\ xs \in Seq(Entries)
        /\ ts[1].do = do /\ ts[1].on = <<l[1]>>
    BY <2>1, <2>2, <2>3, EntriesKinds, RangeOfOne, HalfIs DEF Task
  <2>6. ns = <<l[1]>> \o xs
    <3> DEFINE h == <<l[1]>>
               t == Tail(l)
    <3>1. h \in Seq(Entries) /\ t \in Seq(Entries)
      BY <2>5
    <3>2. l = h \o t
      BY <2>2
    <3> HIDE DEF h, t
    <3>3. (h \o t) \o m = h \o (t \o m)
      BY <1>2, <3>1, EntriesRegrouped
    <3> QED
      BY <1>1, <3>2, <3>3 DEF h, t
  <2> HIDE DEF xs
  <2> QED
    BY <2>4, <2>5, <2>6, VerbsAre
<1>4. CASE l = << >>
  <2>1. p = << >>
    BY <1>2, <1>4, VerbsAre, EachHead
  <2>2. ts = q
    <3> HIDE DEF q
    <3> QED
      BY <1>2, <2>1, ConcatEmptySeq
  <2>3. ns = m
    BY <1>1, <1>2, <1>4, ConcatEmptySeq
  <2>4. m # << >> /\ ts = <<Task(DaemonVerb(aim), m)>>
    BY <2>2 DEF Batch
  <2>5. ts[1] = Task(DaemonVerb(aim), m) /\ Tail(ts) = << >>
    <3> DEFINE t == Task(DaemonVerb(aim), m)
    <3> HIDE DEF t
    <3>1. <<t>>[1] = t /\ Tail(<<t>>) = << >>
      OBVIOUS
    <3> QED
      BY <2>4, <3>1 DEF t
  <2>6. << >> \in Seq(Entries) /\ m \o << >> = m
    BY <1>2, EmptySeq, ConcatEmptySeq
  <2>7. ts[1].do = DaemonVerb(aim) /\ ts[1].on = m
    BY <2>5 DEF Task
  <2> QED
    BY <1>2, <2>3, <2>5, <2>6, <2>7, VerbsAre, NothingCovers
<1> QED
  BY <1>3, <1>4

LEMMA CoversTyped ==
  ASSUME NEW aim \in Results, NEW ts, NEW ns, Covers(ts, aim, ns)
  PROVE  ts \in Seq(Fitting) /\ ns \in Seq(Entries)
BY HalfIs DEF Covers

LEMMA RestNothing == Rest(<< >>, << >>, << >>) /\ \A us, ms : Rest(<< >>, us, ms) => us = << >> /\ ms = << >>
<1>1. << >> \in Seq(Fitting) /\ "mounted" \in Results /\ "unmounted" \in Results
  BY EmptySeq DEF Results
<1>2. << >> \o << >> = << >>
  BY <1>1, ConcatEmptySeq
<1>3. Rest(<< >>, << >>, << >>)
  BY <1>1, <1>2, NothingCovers DEF Rest
<1>4. ASSUME NEW us, NEW ms, Rest(<< >>, us, ms) PROVE us = << >> /\ ms = << >>
  <2>1. PICK a \in Seq(Fitting), b \in Seq(Fitting) :
           << >> = a \o b /\ Covers(a, "unmounted", us) /\ Covers(b, "mounted", ms)
    BY <1>4 DEF Rest
  <2>2. a = << >> /\ b = << >>
    BY <2>1, ConcatEqualIffEmpty
  <2> QED
    BY <1>1, <2>1, <2>2, NothingCovers
<1> QED
  BY <1>3, <1>4

LEMMA RestHead ==
  ASSUME NEW ts, ts # << >>, NEW us, NEW ms, Rest(ts, us, ms)
  PROVE  /\ ts[1].do \in Works /\ ts[1].on \in Seq(Entries)
         /\ us \in Seq(Entries) /\ ms \in Seq(Entries)
         /\ \E xs \in Seq(Entries) :
              \/ AsOf(ts[1].do) = "unmounted" /\ us = ts[1].on \o xs /\ Rest(Tail(ts), xs, ms)
              \/ AsOf(ts[1].do) = "mounted" /\ us = << >> /\ ms = ts[1].on \o xs /\ Rest(Tail(ts), << >>, xs)
<1>1. PICK a \in Seq(Fitting), b \in Seq(Fitting) :
         ts = a \o b /\ Covers(a, "unmounted", us) /\ Covers(b, "mounted", ms)
  BY DEF Rest
<1>2. "mounted" \in Results /\ "unmounted" \in Results /\ << >> \in Seq(Fitting)
  BY EmptySeq DEF Results
<1>3. us \in Seq(Entries) /\ ms \in Seq(Entries)
  BY <1>1, <1>2, CoversTyped
<1>4. CASE a # << >>
  <2>1. ts[1] = a[1] /\ Tail(ts) = Tail(a) \o b /\ Tail(a) \in Seq(Fitting)
    BY <1>1, <1>4, HeadOfConcat, HeadAndTail
  <2>2. a[1].do \in Works /\ AsOf(a[1].do) = "unmounted" /\ a[1].on \in Seq(Entries)
    BY <1>1, <1>2, <1>4, CoversHead
  <2>3. PICK xs \in Seq(Entries) : us = a[1].on \o xs /\ Covers(Tail(a), "unmounted", xs)
    BY <1>1, <1>2, <1>4, CoversHead
  <2>4. Rest(Tail(ts), xs, ms)
    BY <1>1, <2>1, <2>3 DEF Rest
  <2> QED
    BY <1>3, <2>1, <2>2, <2>3, <2>4
<1>5. CASE a = << >>
  <2>1. ts = b
    BY <1>1, <1>5, ConcatEmptySeq
  <2>2. us = << >>
    BY <1>1, <1>2, <1>5, NothingCovers
  <2>3. b[1].do \in Works /\ AsOf(b[1].do) = "mounted" /\ b[1].on \in Seq(Entries)
    BY <1>1, <1>2, <2>1, CoversHead
  <2>4. PICK xs \in Seq(Entries) : ms = b[1].on \o xs /\ Covers(Tail(b), "mounted", xs)
    BY <1>1, <1>2, <2>1, CoversHead
  <2>5. Tail(b) \in Seq(Fitting) /\ << >> \o Tail(b) = Tail(b)
    BY <2>1, HeadAndTail, ConcatEmptySeq
  <2>6. Rest(Tail(ts), << >>, xs)
    BY <1>1, <1>2, <2>1, <2>4, <2>5, NothingCovers DEF Rest
  <2> QED
    BY <1>3, <2>1, <2>2, <2>3, <2>4, <2>6
<1> QED
  BY <1>4, <1>5

LEMMA SplitIs ==
  ASSUME NEW es \in Seq(Entries)
  PROVE  /\ Split(es) \in Seq(Entries) /\ Range(Split(es)) = Range(es)
         /\ Only(es, Local) \in Seq(Local) /\ Only(es, Managed) \in Seq(Managed)
<1> DEFINE a == Only(es, Local)
           b == Only(es, Managed)
<1>1. /\ a \in Seq(Entries) /\ a \in Seq(Local) /\ Range(a) = Range(es) \cap Local
      /\ b \in Seq(Entries) /\ b \in Seq(Managed) /\ Range(b) = Range(es) \cap Managed
  BY OnlyThose
<1>2. Range(es) \subseteq Entries
  BY RangeIs
<1> HIDE DEF a, b
<1>3. a \o b \in Seq(Entries) /\ Range(a \o b) = Range(a) \cup Range(b)
  BY <1>1, RangeOfConcat
<1>4. Range(a) \cup Range(b) = Range(es)
  BY <1>1, <1>2, EntriesKinds
<1> QED
  BY <1>1, <1>3, <1>4 DEF Split, a, b

LEMMA WorkCovers ==
  ASSUME NEW es \in Seq(Entries)
  PROVE  /\ Covers(MountWork(es), "mounted", Split(es)) /\ MountWork(es) \in Seq(Fitting)
         /\ Covers(UnmountWork(es), "unmounted", Split(es)) /\ UnmountWork(es) \in Seq(Fitting)
<1>1. Only(es, Local) \in Seq(Local) /\ Only(es, Managed) \in Seq(Managed)
  BY SplitIs
<1>2. MountWork(es) = Half("mounted", Only(es, Local), Only(es, Managed))
  BY DEF MountWork, Work, Half, Verb, DaemonVerb
<1>3. UnmountWork(es) = Half("unmounted", Only(es, Local), Only(es, Managed))
  BY DEF UnmountWork, Work, Half, Verb, DaemonVerb
<1>4. Split(es) = Only(es, Local) \o Only(es, Managed)
  BY DEF Split
<1>5. Covers(MountWork(es), "mounted", Split(es)) /\ Covers(UnmountWork(es), "unmounted", Split(es))
  BY <1>1, <1>2, <1>3, <1>4 DEF Covers
<1> QED
  BY <1>5, CoversTyped DEF Results

(* What a mount, an unmount or the selector's choice has still to do and   *)
(* what it has reported make up, together and in order, what it was given. *)
WorkLeft(ts, rs, U, M) ==
  \E us, ms :
    /\ Rest(ts, us, ms)
    /\ Named(rs, {"unmounted"}) \o us = Split(U)
    /\ Named(rs, {"mounted"}) \o ms = Split(M)
    /\ \A r \in Range(rs) : r.as \in Results

LEMMA NamedNothing == ASSUME NEW A PROVE Named(<< >>, A) = << >>
<1>1. << >> \in Seq(Reports) /\ Range(<< >>) = {}
  BY NothingListed
<1> QED
  BY <1>1, NamedIs

LEMMA WorkLeftStart ==
  ASSUME NEW ts, NEW U \in Seq(Entries), NEW M \in Seq(Entries), Rest(ts, Split(U), Split(M)),
         NEW rs, rs = << >>
  PROVE  WorkLeft(ts, rs, U, M)
<1>1. << >> \o Split(U) = Split(U) /\ << >> \o Split(M) = Split(M)
  BY SplitIs, ConcatEmptySeq
<1>2. Range(rs) = {}
  BY NothingListed
<1>3. Named(rs, {"unmounted"}) = << >> /\ Named(rs, {"mounted"}) = << >>
  BY NamedNothing
<1> DEFINE u == Split(U)
           m == Split(M)
           n == Named(rs, {"unmounted"})
           k == Named(rs, {"mounted"})
<1>4. Rest(ts, u, m) /\ n \o u = Split(U) /\ k \o m = Split(M) /\ \A r \in Range(rs) : r.as \in Results
  BY <1>1, <1>2, <1>3
<1> HIDE DEF u, m
<1> QED
  BY <1>4 DEF WorkLeft

LEMMA WorkLeftDone ==
  ASSUME NEW ts, ts = << >>, NEW rs \in Seq(Reports), NEW U, NEW M, WorkLeft(ts, rs, U, M)
  PROVE  /\ Named(rs, {"unmounted"}) = Split(U) /\ Named(rs, {"mounted"}) = Split(M)
         /\ \A r \in Range(rs) : r.as \in Results
<1>1. PICK us, ms : /\ Rest(ts, us, ms)
                    /\ Named(rs, {"unmounted"}) \o us = Split(U)
                    /\ Named(rs, {"mounted"}) \o ms = Split(M)
                    /\ \A r \in Range(rs) : r.as \in Results
  BY DEF WorkLeft
<1>2. us = << >> /\ ms = << >>
  BY <1>1, RestNothing
<1>3. Named(rs, {"unmounted"}) \in Seq(Entries) /\ Named(rs, {"mounted"}) \in Seq(Entries)
  BY NamedIs
<1> QED
  BY <1>1, <1>2, <1>3, ConcatEmptySeq

(* One report for each entry of a task.                                    *)
Tellings(ns, t) == /\ ns \in Seq(Reports) /\ Len(ns) = Len(t.on)
                   /\ \A i \in 1..Len(ns) : ns[i].of = t.on[i]
                   /\ \A r \in Range(ns) : r.as \in SaidOf(t.do)

LEMMA TellingsOf ==
  ASSUME NEW t, t.on \in Seq(Entries), NEW ns, Tellings(ns, t)
  PROVE  Of(ns) = t.on
<1> DEFINE on == t.on
           a == Of(ns)
<1>1. a \in Seq(Entries) /\ Len(a) = Len(ns) /\ \A i \in 1..Len(ns) : a[i] = ns[i].of
  BY OfIs DEF Tellings
<1>2. on \in Seq(Entries) /\ Len(ns) = Len(on) /\ \A i \in 1..Len(ns) : ns[i].of = on[i]
  BY DEF Tellings
<1> HIDE DEF a, on
<1>3. a = on
  BY <1>1, <1>2, SeqEqual
<1> QED
  BY <1>3 DEF a, on

LEMMA SaidOfWorks ==
  ASSUME NEW do \in Works
  PROVE  SaidOf(do) = {AsOf(do)} /\ AsOf(do) \in Results
BY DEF Works, SaidOf, AsOf, Results

LEMMA WorkLeftSpoken ==
  ASSUME NEW ts, ts # << >>, NEW rs \in Seq(Reports), NEW U, NEW M, WorkLeft(ts, rs, U, M),
         NEW ns, Tellings(ns, ts[1])
  PROVE  WorkLeft(Tail(ts), rs \o ns, U, M)
<1>1. PICK us, ms : /\ Rest(ts, us, ms)
                    /\ Named(rs, {"unmounted"}) \o us = Split(U)
                    /\ Named(rs, {"mounted"}) \o ms = Split(M)
                    /\ \A r \in Range(rs) : r.as \in Results
  BY DEF WorkLeft
<1> DEFINE t == ts[1]
           on == t.on
           au == Named(rs, {"unmounted"})
           am == Named(rs, {"mounted"})
<1>2. t.do \in Works /\ on \in Seq(Entries) /\ us \in Seq(Entries) /\ ms \in Seq(Entries)
  BY <1>1, RestHead
<1>3. PICK xs \in Seq(Entries) :
         \/ AsOf(t.do) = "unmounted" /\ us = on \o xs /\ Rest(Tail(ts), xs, ms)
         \/ AsOf(t.do) = "mounted" /\ us = << >> /\ ms = on \o xs /\ Rest(Tail(ts), << >>, xs)
  BY <1>1, RestHead
<1>4. Tellings(ns, t) /\ ns \in Seq(Reports)
  BY DEF Tellings
<1> HIDE DEF t
<1>5. Of(ns) = on /\ \A r \in Range(ns) : r.as = AsOf(t.do)
  <2>1. SaidOf(t.do) = {AsOf(t.do)}
    BY <1>2, SaidOfWorks
  <2>2. \A r \in Range(ns) : r.as \in SaidOf(t.do)
    BY <1>4 DEF Tellings
  <2> QED
    BY <1>2, <1>4, <2>1, <2>2, TellingsOf
<1>6. \A A : /\ AsOf(t.do) \in A => Named(ns, A) = on
             /\ AsOf(t.do) \notin A => Named(ns, A) = << >>
             /\ Named(rs \o ns, A) = Named(rs, A) \o Named(ns, A)
  BY <1>4, <1>5, NamedIs, NamedConcat
<1>7. AsOf(t.do) \in Results /\ \A r \in Range(rs \o ns) : r.as \in Results
  BY <1>1, <1>2, <1>4, <1>5, SaidOfWorks, RangeOfConcat
<1>8. au \in Seq(Entries) /\ am \in Seq(Entries)
  BY NamedIs
<1> HIDE DEF on
<1>9. CASE AsOf(t.do) = "unmounted" /\ us = on \o xs /\ Rest(Tail(ts), xs, ms)
  <2>1. Named(rs \o ns, {"unmounted"}) = au \o on /\ Named(rs \o ns, {"mounted"}) = am
    <3>1. Named(ns, {"unmounted"}) = on /\ Named(ns, {"mounted"}) = << >>
      BY <1>6, <1>9
    <3>2. am \o << >> = am
      BY <1>8, ConcatEmptySeq
    <3> QED
      BY <1>6, <3>1, <3>2
  <2> HIDE DEF au, am
  <2>2. (au \o on) \o xs = au \o (on \o xs)
    <3>1. au \in Seq(Entries) /\ on \in Seq(Entries) /\ xs \in Seq(Entries)
      BY <1>2, <1>8
    <3> QED
      BY <3>1, EntriesRegrouped
  <2> QED
    BY <1>1, <1>7, <1>9, <2>1, <2>2 DEF WorkLeft, au, am
<1>10. CASE AsOf(t.do) = "mounted" /\ us = << >> /\ ms = on \o xs /\ Rest(Tail(ts), << >>, xs)
  <2>1. Named(rs \o ns, {"unmounted"}) = au /\ Named(rs \o ns, {"mounted"}) = am \o on
    <3>1. Named(ns, {"unmounted"}) = << >> /\ Named(ns, {"mounted"}) = on
      BY <1>6, <1>10
    <3>2. au \o << >> = au
      BY <1>8, ConcatEmptySeq
    <3> QED
      BY <1>6, <3>1, <3>2
  <2> HIDE DEF au, am
  <2>2. (am \o on) \o xs = am \o (on \o xs)
    <3>1. am \in Seq(Entries) /\ on \in Seq(Entries) /\ xs \in Seq(Entries)
      BY <1>2, <1>8
    <3> QED
      BY <3>1, EntriesRegrouped
  <2> QED
    BY <1>1, <1>7, <1>10, <2>1, <2>2 DEF WorkLeft, au, am
<1> QED
  BY <1>3, <1>9, <1>10

LEMMA WorkLeftOf ==
  ASSUME NEW es \in Seq(Entries), NEW fs \in Seq(Entries)
  PROVE  /\ Rest(MountWork(es), Split(<< >>), Split(es))
         /\ Rest(UnmountWork(es), Split(es), Split(<< >>))
         /\ Rest(UnmountWork(es) \o MountWork(fs), Split(es), Split(fs))
<1>1. << >> \in Seq(Entries) /\ << >> \in Seq(Fitting) /\ << >> \in Seq({})
  BY EmptySeq
<1>2. Split(<< >>) = << >>
  <2>1. Only(<< >>, Local) = << >> /\ Only(<< >>, Managed) = << >>
    BY OnlyNothing
  <2> QED
    BY <1>1, <2>1, ConcatEmptySeq DEF Split
<1>3. /\ MountWork(es) \in Seq(Fitting) /\ UnmountWork(es) \in Seq(Fitting) /\ MountWork(fs) \in Seq(Fitting)
      /\ Covers(MountWork(es), "mounted", Split(es)) /\ Covers(UnmountWork(es), "unmounted", Split(es))
      /\ Covers(MountWork(fs), "mounted", Split(fs))
  BY WorkCovers
<1>4. << >> \o MountWork(es) = MountWork(es) /\ UnmountWork(es) \o << >> = UnmountWork(es)
  BY <1>3, ConcatEmptySeq
<1>5. Covers(<< >>, "mounted", << >>) /\ Covers(<< >>, "unmounted", << >>)
  BY NothingCovers DEF Results
<1> QED
  BY <1>1, <1>2, <1>3, <1>4, <1>5 DEF Rest

-----------------------------------------------------------------------------
(* What a mkdir has still to do and what it has reported: the directories  *)
(* of ns one after the other, and then the owners.                         *)
MadeKinds == {"created", "existing", "mismatch"}
FixTask   == Task("fix", << >>)
Stats(ts, rs, ns) ==
  \E l \in Seq(Entries) :
    /\ ts = Each("stat", l) \o <<FixTask>>
    /\ Named(rs, MadeKinds) \o l = ns
    /\ \A r \in Range(rs) : r.as \in MadeKinds
Owns(ts, rs, ns, op) ==
  \E l \in Seq(Entries) :
    /\ ts = Each("own", l)
    /\ Named(rs, MadeKinds) = ns
    /\ \A r \in Range(rs) : r.as \in MadeKinds \cup {"fixed"}
    /\ \/ op = "mkdir" /\ Named(rs, {"fixed"}) \o l = Named(rs, {"mismatch"})
       \/ l = << >> /\ Named(rs, {"fixed"}) = << >>
PrepLeft(ts, rs, args, op) ==
  \E ns \in Seq(Entries) :
    /\ ns = args \/ (args = << >> /\ ns = Order)
    /\ Stats(ts, rs, ns) \/ Owns(ts, rs, ns, op)

LEMMA StatAndOwn ==
  ASSUME NEW l \in Seq(Entries)
  PROVE  /\ Each("stat", l) \in Seq(Fitting) /\ Each("own", l) \in Seq(Fitting)
         /\ l = << >> <=> Each("stat", l) = << >>
         /\ l = << >> <=> Each("own", l) = << >>
         /\ l # << >> => /\ Each("stat", l)[1] = Task("stat", <<l[1]>>)
                         /\ Tail(Each("stat", l)) = Each("stat", Tail(l))
                         /\ Each("own", l)[1] = Task("own", <<l[1]>>)
                         /\ Tail(Each("own", l)) = Each("own", Tail(l))
<1>1. "stat" \in OnLocal \cup OnEntry /\ "stat" \notin OnLocal
  BY DEF OnLocal, OnEntry
<1>2. "own" \in OnLocal \cup OnEntry /\ "own" \notin OnLocal
  BY DEF OnLocal, OnEntry
<1>3. /\ Each("stat", l) \in Seq(Fitting)
      /\ l = << >> <=> Each("stat", l) = << >>
      /\ l # << >> => /\ Each("stat", l)[1] = Task("stat", <<l[1]>>)
                      /\ Tail(Each("stat", l)) = Each("stat", Tail(l))
  BY <1>1, EachIs, EachHead
<1>4. /\ Each("own", l) \in Seq(Fitting)
      /\ l = << >> <=> Each("own", l) = << >>
      /\ l # << >> => /\ Each("own", l)[1] = Task("own", <<l[1]>>)
                      /\ Tail(Each("own", l)) = Each("own", Tail(l))
  BY <1>2, EachIs, EachHead
<1> QED
  BY <1>3, <1>4

LEMMA StatsStart ==
  ASSUME NEW ns \in Seq(Entries)
  PROVE  Stats(Each("stat", ns) \o <<FixTask>>, << >>, ns)
<1>1. Named(<< >>, MadeKinds) = << >> /\ << >> \o ns = ns /\ Range(<< >>) = {}
  BY NamedNothing, ConcatEmptySeq, NothingListed
<1> DEFINE ts == Each("stat", ns) \o <<FixTask>>
           a == Named(<< >>, MadeKinds)
<1>2. a \o ns = ns
  BY <1>1
<1> HIDE DEF ts, a
<1>3. ts = Each("stat", ns) \o <<FixTask>>
  BY DEF ts
<1> QED
  BY <1>1, <1>2, <1>3 DEF Stats, a

StatsAt(l, ts, rs, ns) == /\ l # << >> /\ ts[1] = Task("stat", <<l[1]>>)
                          /\ Tail(ts) = Each("stat", Tail(l)) \o <<FixTask>>
                          /\ Named(rs, MadeKinds) \o l = ns
LEMMA StatsHead ==
  ASSUME NEW ts, NEW rs, NEW ns, Stats(ts, rs, ns)
  PROVE  /\ ts # << >>
         /\ \/ /\ ts[1] = FixTask /\ Tail(ts) = << >>
               /\ Named(rs, MadeKinds) \o << >> = ns
            \/ \E l \in Seq(Entries) : StatsAt(l, ts, rs, ns)
<1>1. PICK l \in Seq(Entries) :
        /\ ts = Each("stat", l) \o <<FixTask>>
        /\ Named(rs, MadeKinds) \o l = ns
  BY DEF Stats
<1> DEFINE a == Each("stat", l)
           z == <<FixTask>>
<1>2. a \in Seq(Fitting) /\ z \in Seq(Fitting)
  BY StatAndOwn, OneTask DEF FixTask
<1>3. z # << >> /\ z[1] = FixTask /\ Tail(z) = << >>
  <2> DEFINE t == FixTask
  <2> HIDE DEF t
  <2>1. <<t>> # << >> /\ <<t>>[1] = t /\ Tail(<<t>>) = << >>
    OBVIOUS
  <2> QED
    BY <2>1 DEF t
<1>4. CASE l = << >>
  <2>1. a = << >>
    BY <1>4, StatAndOwn
  <2>2. ts = z
    <3> HIDE DEF z
    <3> QED
      BY <1>1, <1>2, <2>1, ConcatEmptySeq DEF z
  <2> HIDE DEF z
  <2> QED
    BY <1>1, <1>3, <1>4, <2>2
<1>5. CASE l # << >>
  <2>1. a # << >> /\ a[1] = Task("stat", <<l[1]>>) /\ Tail(a) = Each("stat", Tail(l))
    BY <1>5, StatAndOwn
  <2>2. ts # << >> /\ ts[1] = a[1] /\ Tail(ts) = Tail(a) \o z
    <3>1. ts = a \o z
      BY <1>1
    <3> HIDE DEF a, z
    <3> QED
      BY <1>2, <2>1, <3>1, HeadOfConcat
  <2>3. StatsAt(l, ts, rs, ns)
    BY <1>1, <1>5, <2>1, <2>2 DEF StatsAt
  <2> QED
    BY <2>2, <2>3
<1> QED
  BY <1>4, <1>5

LEMMA SaidOfPrep == SaidOf("stat") = MadeKinds /\ SaidOf("own") = {"fixed"} /\ SaidOf("fix") = {}
BY DEF SaidOf, MadeKinds

LEMMA StatsSpoken ==
  ASSUME NEW ts, NEW rs \in Seq(Reports), NEW ns, Stats(ts, rs, ns),
         NEW ms, ms # << >>, Tellings(ms, ts[1])
  PROVE  Stats(Tail(ts), rs \o ms, ns)
<1>1. ms \in Seq(Reports) /\ Range(ms) # {}
  BY NothingThere DEF Tellings
<1>2. ts[1] # FixTask
  <2> SUFFICES ASSUME ts[1] = FixTask PROVE FALSE
    OBVIOUS
  <2>1. SaidOf(ts[1].do) = {}
    BY SaidOfPrep DEF FixTask, Task
  <2> QED
    BY <1>1, <2>1 DEF Tellings
<1>3. PICK l \in Seq(Entries) :
        /\ l # << >> /\ ts[1] = Task("stat", <<l[1]>>)
        /\ Tail(ts) = Each("stat", Tail(l)) \o <<FixTask>>
        /\ Named(rs, MadeKinds) \o l = ns
  <2>1. \E l \in Seq(Entries) : StatsAt(l, ts, rs, ns)
    BY <1>2, StatsHead
  <2> QED
    BY <2>1 DEF StatsAt
<1> DEFINE h == <<l[1]>>
           k == Tail(l)
           a == Named(rs, MadeKinds)
<1>4. l[1] \in Entries /\ k \in Seq(Entries) /\ l = h \o k
  BY <1>3, HeadAndTail
<1>5. h \in Seq(Entries) /\ a \in Seq(Entries)
  BY <1>4, RangeOfOne, NamedIs
<1>6. ts[1].do = "stat" /\ ts[1].on = h
  BY <1>3 DEF Task
<1>7. Of(ms) = h /\ \A r \in Range(ms) : r.as \in MadeKinds
  BY <1>5, <1>6, TellingsOf, SaidOfPrep DEF Tellings
<1>8. Named(rs \o ms, MadeKinds) = a \o h
  <2>1. Named(ms, MadeKinds) = h
    BY <1>1, <1>7, NamedIs
  <2>2. Named(rs \o ms, MadeKinds) = Named(rs, MadeKinds) \o Named(ms, MadeKinds)
    BY <1>1, NamedConcat
  <2> QED
    BY <2>1, <2>2
<1>9. \A r \in Range(rs \o ms) : r.as \in MadeKinds
  BY <1>1, <1>7, RangeOfConcat DEF Stats
<1> HIDE DEF h, k, a
<1>10. (a \o h) \o k = a \o (h \o k)
  <2>1. a \in Seq(Entries) /\ h \in Seq(Entries) /\ k \in Seq(Entries)
    BY <1>4, <1>5
  <2>2. \A q, t, u \in Seq(Entries) : (q \o t) \o u = q \o (t \o u)
    BY EntriesRegrouped
  <2> QED
    BY <2>1, <2>2, ZenonT(40)
<1>11. Named(rs \o ms, MadeKinds) \o k = ns
  BY <1>3, <1>4, <1>8, <1>10 DEF a
<1>12. Tail(ts) = Each("stat", k) \o <<FixTask>>
  BY <1>3 DEF k
<1> QED
  BY <1>4, <1>9, <1>11, <1>12 DEF Stats

LEMMA OnlyMade ==
  ASSUME NEW rs \in Seq(Reports), \A r \in Range(rs) : r.as \in MadeKinds
  PROVE  Named(rs, {"fixed"}) = << >>
<1>1. \A r \in Range(rs) : r.as \notin {"fixed"}
  BY DEF MadeKinds
<1> QED
  BY <1>1, NamedIs

(* Once all directories are there.                                         *)
LEMMA StatsFixed ==
  ASSUME NEW ts, NEW rs \in Seq(Reports), NEW ns \in Seq(Entries), Stats(ts, rs, ns), ts[1].do = "fix"
  PROVE  /\ Tail(ts) = << >>
         /\ \A op : Owns(<< >>, rs, ns, op)
         /\ Owns(Each("own", Named(rs, {"mismatch"})), rs, ns, "mkdir")
<1>1. ts[1] = FixTask /\ Tail(ts) = << >> /\ Named(rs, MadeKinds) \o << >> = ns
  <2>1. \/ ts[1] = FixTask /\ Tail(ts) = << >> /\ Named(rs, MadeKinds) \o << >> = ns
        \/ \E l : ts[1] = Task("stat", <<l[1]>>)
    BY StatsHead DEF StatsAt
  <2>2. \A on : Task("stat", on).do # "fix"
    BY DEF Task
  <2> QED
    BY <2>1, <2>2
<1>2. \A r \in Range(rs) : r.as \in MadeKinds
  BY DEF Stats
<1> DEFINE a == Named(rs, MadeKinds)
           f == Named(rs, {"fixed"})
           m == Named(rs, {"mismatch"})
<1>3. a \in Seq(Entries) /\ m \in Seq(Entries) /\ f = << >>
  BY <1>2, NamedIs, OnlyMade
<1>4. a = ns
  <2> HIDE DEF a
  <2> QED
    BY <1>1, <1>3, ConcatEmptySeq DEF a
<1>5. << >> \in Seq(Entries) /\ Each("own", << >>) = << >>
  BY EmptySeq, StatAndOwn
<1>6. f \o m = m
  <2> HIDE DEF m, f
  <2> QED
    BY <1>3, ConcatEmptySeq
<1>7. \A r \in Range(rs) : r.as \in MadeKinds \cup {"fixed"}
  BY <1>2
<1>8. ASSUME NEW op PROVE Owns(<< >>, rs, ns, op)
  BY <1>3, <1>4, <1>5, <1>7 DEF Owns
<1>9. Owns(Each("own", m), rs, ns, "mkdir")
  <2> DEFINE ts2 == Each("own", m)
  <2>1. ts2 = Each("own", m) /\ a = ns /\ f \o m = m /\ m \in Seq(Entries)
    BY <1>3, <1>4, <1>6
  <2> HIDE DEF ts2
  <2>2. Owns(ts2, rs, ns, "mkdir")
    BY <1>7, <2>1 DEF Owns
  <2> QED
    BY <2>2 DEF ts2
<1> QED
  BY <1>1, <1>8, <1>9

LEMMA OwnsSpoken ==
  ASSUME NEW ts, ts # << >>, NEW rs \in Seq(Reports), NEW ns, NEW op, Owns(ts, rs, ns, op),
         NEW ms, Tellings(ms, ts[1])
  PROVE  /\ ts[1].do = "own"
         /\ Owns(Tail(ts), rs \o ms, ns, op)
<1>1. PICK l \in Seq(Entries) :
    /\ ts = Each("own", l)
    /\ Named(rs, MadeKinds) = ns
    /\ \A r \in Range(rs) : r.as \in MadeKinds \cup {"fixed"}
    /\ \/ op = "mkdir" /\ Named(rs, {"fixed"}) \o l = Named(rs, {"mismatch"})
       \/ l = << >> /\ Named(rs, {"fixed"}) = << >>
  BY DEF Owns
<1>2. l # << >> /\ ts[1] = Task("own", <<l[1]>>) /\ Tail(ts) = Each("own", Tail(l))
  BY <1>1, StatAndOwn
<1> DEFINE h == <<l[1]>>
           k == Tail(l)
           f == Named(rs, {"fixed"})
           a == Named(rs, MadeKinds)
           m == Named(rs, {"mismatch"})
<1>3. l[1] \in Entries /\ k \in Seq(Entries) /\ l = h \o k
  BY <1>2, HeadAndTail
<1>4. h \in Seq(Entries) /\ f \in Seq(Entries) /\ a \in Seq(Entries) /\ m \in Seq(Entries)
  BY <1>3, RangeOfOne, NamedIs
<1>5. ts[1].do = "own" /\ ts[1].on = h /\ ms \in Seq(Reports)
  BY <1>2 DEF Task, Tellings
<1>6. Of(ms) = h /\ \A r \in Range(ms) : r.as = "fixed"
  BY <1>4, <1>5, TellingsOf, SaidOfPrep DEF Tellings
<1>7. Named(ms, {"fixed"}) = h /\ Named(ms, MadeKinds) = << >> /\ Named(ms, {"mismatch"}) = << >>
  <2>1. \A r \in Range(ms) : r.as \in {"fixed"} /\ r.as \notin MadeKinds /\ r.as \notin {"mismatch"}
    BY <1>6 DEF MadeKinds
  <2> QED
    BY <1>5, <1>6, <2>1, NamedIs
<1>8. /\ Named(rs \o ms, {"fixed"}) = f \o h
      /\ Named(rs \o ms, MadeKinds) = a \o << >>
      /\ Named(rs \o ms, {"mismatch"}) = m \o << >>
  <2>1. \A A : Named(rs \o ms, A) = Named(rs, A) \o Named(ms, A)
    BY <1>5, NamedConcat
  <2> QED
    BY <1>7, <2>1
<1>9. a \o << >> = a /\ m \o << >> = m
  <2> HIDE DEF a, m
  <2> QED
    BY <1>4, ConcatEmptySeq
<1>10. \A r \in Range(rs \o ms) : r.as \in MadeKinds \cup {"fixed"}
  BY <1>1, <1>5, <1>6, RangeOfConcat
<1>11. op = "mkdir" /\ f \o l = m
  BY <1>1, <1>2
<1> HIDE DEF h, k, f, m, a
<1>12. (f \o h) \o k = f \o (h \o k)
  <2>1. f \in Seq(Entries) /\ h \in Seq(Entries) /\ k \in Seq(Entries)
    BY <1>3, <1>4
  <2>2. \A q, t, u \in Seq(Entries) : (q \o t) \o u = q \o (t \o u)
    BY EntriesRegrouped
  <2> QED
    BY <2>1, <2>2, ZenonT(40)
<1>13. /\ Named(rs \o ms, {"fixed"}) \o k = Named(rs \o ms, {"mismatch"})
       /\ Named(rs \o ms, MadeKinds) = ns
  BY <1>1, <1>3, <1>8, <1>9, <1>11, <1>12 DEF a
<1>14. Tail(ts) = Each("own", k)
  BY <1>2 DEF k
<1> QED
  BY <1>3, <1>5, <1>10, <1>11, <1>13, <1>14 DEF Owns

LEMMA PrepSpoken ==
  ASSUME NEW ts, ts # << >>, NEW rs \in Seq(Reports), NEW args, NEW op, PrepLeft(ts, rs, args, op),
         NEW ms, ms # << >>, Tellings(ms, ts[1])
  PROVE  PrepLeft(Tail(ts), rs \o ms, args, op)
BY StatsSpoken, OwnsSpoken DEF PrepLeft

LEMMA PrepFixed ==
  ASSUME NEW ts, NEW rs \in Seq(Reports), NEW args, NEW op, PrepLeft(ts, rs, args, op), ts # << >>, ts[1].do = "fix"
  PROVE  /\ PrepLeft(Tail(ts), rs, args, op) /\ PrepLeft(<< >>, rs, args, op)
         /\ op = "mkdir" => PrepLeft(Each("own", Named(rs, {"mismatch"})), rs, args, op)
<1>1. PICK ns \in Seq(Entries) :
    /\ ns = args \/ (args = << >> /\ ns = Order)
    /\ Stats(ts, rs, ns) \/ Owns(ts, rs, ns, op)
  BY DEF PrepLeft
<1>2. ~Owns(ts, rs, ns, op)
  <2> SUFFICES ASSUME NEW l \in Seq(Entries), ts = Each("own", l) PROVE FALSE
    BY DEF Owns
  <2>1. ts[1] = Task("own", <<l[1]>>)
    BY StatAndOwn
  <2> QED
    BY <2>1 DEF Task
<1>3. Stats(ts, rs, ns)
  BY <1>1, <1>2
<1>4. Tail(ts) = << >> /\ (\A o : Owns(<< >>, rs, ns, o)) /\ Owns(Each("own", Named(rs, {"mismatch"})), rs, ns, "mkdir")
  BY <1>3, StatsFixed
<1>5. PrepLeft(<< >>, rs, args, op)
  BY <1>1, <1>4 DEF PrepLeft
<1>6. op = "mkdir" => PrepLeft(Each("own", Named(rs, {"mismatch"})), rs, args, op)
  <2> DEFINE ts2 == Each("own", Named(rs, {"mismatch"}))
  <2> HIDE DEF ts2
  <2>1. op = "mkdir" => Owns(ts2, rs, ns, op)
    BY <1>4 DEF ts2
  <2>2. op = "mkdir" => PrepLeft(ts2, rs, args, op)
    BY <1>1, <2>1 DEF PrepLeft
  <2> QED
    BY <2>2 DEF ts2
<1> QED
  BY <1>4, <1>5, <1>6

LEMMA PrepDone ==
  ASSUME NEW ts, ts = << >>, NEW rs \in Seq(Reports), NEW args, NEW op, PrepLeft(ts, rs, args, op)
  PROVE  /\ Named(rs, MadeKinds) = args \/ (args = << >> /\ Named(rs, MadeKinds) = Order)
         /\ \A x \in Range(rs) : x.as \in MadeKinds \cup {"fixed"}
         /\ \/ Named(rs, {"fixed"}) = << >>
            \/ Named(rs, {"fixed"}) = Named(rs, {"mismatch"}) /\ op = "mkdir"
<1>1. PICK ns \in Seq(Entries) :
    /\ ns = args \/ (args = << >> /\ ns = Order)
    /\ Stats(ts, rs, ns) \/ Owns(ts, rs, ns, op)
  BY DEF PrepLeft
<1>2. Owns(ts, rs, ns, op)
  BY <1>1, StatsHead
<1>3. PICK l \in Seq(Entries) :
    /\ ts = Each("own", l)
    /\ Named(rs, MadeKinds) = ns
    /\ \A x \in Range(rs) : x.as \in MadeKinds \cup {"fixed"}
    /\ \/ op = "mkdir" /\ Named(rs, {"fixed"}) \o l = Named(rs, {"mismatch"})
       \/ l = << >> /\ Named(rs, {"fixed"}) = << >>
  BY <1>2 DEF Owns
<1>4. l = << >>
  BY <1>3, StatAndOwn
<1> DEFINE f == Named(rs, {"fixed"})
<1>5. f \o << >> = f
  <2>1. f \in Seq(Entries)
    BY NamedIs
  <2> HIDE DEF f
  <2> QED
    BY <2>1, ConcatEmptySeq
<1> QED
  BY <1>1, <1>3, <1>4, <1>5

-----------------------------------------------------------------------------
(* What a command was given, what it has told, and what it has still to    *)
(* do.                                                                     *)

(* Once a command knows what it has to do, that and its reports are what   *)
(* its line, or its user's choice, asks for; before, it is going to plan.  *)
Chosen(c, S, ts, rs) == WorkLeft(ts, rs, Only(Order, S \cap view[c]), Only(Order, S \ view[c]))
Settled(c) ==
  /\ req[c].op = "list" \/ (req[c].op # "interactive" /\ ~Known(req[c])) =>
       todo[c] = << >> /\ reports[c] = << >>
  /\ req[c].op = "mount" /\ Known(req[c])   => WorkLeft(todo[c], reports[c], << >>, req[c].args)
  /\ req[c].op = "unmount" /\ Known(req[c]) => WorkLeft(todo[c], reports[c], req[c].args, << >>)
  /\ req[c].op = "interactive" /\ pc[c] # "choose" =>
       \E S \in SUBSET Entries : Chosen(c, S, todo[c], reports[c])
  /\ req[c].op \in {"mkdir", "dryrun"} /\ Known(req[c]) => PrepLeft(todo[c], reports[c], req[c].args, req[c].op)
Allotted(c) ==
  pc[c] # "idle" =>
    IF \E t \in Range(todo[c]) : t.do \in Reads
      THEN \E t \in Range(todo[c]) : t.do = "plan"
      ELSE Settled(c)
AllAllotted == \A c \in Commands : Allotted(c)

LEMMA SameAllotted ==
  ASSUME NEW c \in Commands, Same5(c), Allotted(c)
  PROVE  Allotted(c)'
BY DEF Same5, Allotted, Settled, Chosen

LEMMA ReadsIs == Reads = {"read", "ask", "plan"} /\ Reads \cap Works = {}
BY DEF Reads, Works

LEMMA WalksAllotted ==
  ASSUME Typed, NEW c \in Commands, Walks(c), Allotted(c), WorkInv(c)
  PROVE  Allotted(c)'
<1>1. pc[c] \in {"run", "mid"} /\ pc[c] # "choose" /\ pc[c] # "idle"
  BY DEF Walks
<1>2. /\ req'[c] = req[c] /\ todo'[c] = todo[c] /\ view'[c] = view[c] /\ reports'[c] = reports[c]
  BY DEF Walks
<1> QED
  BY <1>1, <1>2 DEF Allotted, Settled, Chosen

LEMMA SpeaksAllotted ==
  ASSUME Typed, NEW c \in Commands, Speaks(c), Allotted(c), WorkInv(c)
  PROVE  Allotted(c)'
<1> DEFINE ts == todo[c]
           rs == reports[c]
<1>1. PICK ns \in Seq(Reports) :
        /\ Tells(c, ns) /\ ns # << >>
        /\ \A r \in Range(ns) : r.as \in SaidOf(Do(c).do)
        /\ Len(ns) = Len(Do(c).on) /\ \A i \in 1..Len(ns) : ns[i].of = Do(c).on[i]
  BY DEF Speaks
<1>2. pc[c] # "idle" /\ pc[c] # "choose" /\ ts # << >> /\ req'[c] = req[c] /\ view'[c] = view[c]
  BY DEF Speaks
<1>3. todo'[c] = Tail(ts) /\ reports'[c] = rs \o ns /\ pc'[c] = "run" /\ Range(ts) = {Do(c)} \cup Range(todo'[c])
  BY <1>1, <1>2, GoesOn, TellsOf DEF Tells
<1>4. Tellings(ns, ts[1])
  BY <1>1 DEF Tellings, Do
<1>5. Do(c).do \notin Reads
  <2>1. SaidOf(Do(c).do) # {}
    <3>1. Range(ns) # {}
      BY <1>1, NothingThere
    <3> QED
      BY <1>1, <3>1
  <2> QED
    BY <2>1 DEF SaidOf, Reads
<1>6. \A t \in Range(ts) : t.do \notin Reads
  BY <1>2, <1>5, ReadsAlone DEF WorkInv
<1>7. Settled(c)
  BY <1>2, <1>6 DEF Allotted
<1>8. rs \in Seq(Reports)
  BY DEF Typed
<1>9. \A U, M : WorkLeft(ts, rs, U, M) => WorkLeft(todo'[c], reports'[c], U, M)
  <2> HIDE DEF ts, rs
  <2> QED
    BY <1>2, <1>3, <1>4, <1>8, WorkLeftSpoken
<1>10. \A args, op : PrepLeft(ts, rs, args, op) => PrepLeft(todo'[c], reports'[c], args, op)
  <2> HIDE DEF ts, rs
  <2> QED
    BY <1>1, <1>2, <1>3, <1>4, <1>8, PrepSpoken
<1>11. Settled(c)'
  BY <1>2, <1>3, <1>7, <1>9, <1>10 DEF Settled, Chosen
<1> QED
  BY <1>3, <1>6, <1>11 DEF Allotted

LEMMA SkipsAllotted ==
  ASSUME Typed, NEW c \in Commands, Skips(c), Allotted(c), WorkInv(c)
  PROVE  Allotted(c)'
<1> DEFINE ts == todo[c]
           rs == reports[c]
<1>1. pc[c] = "run" /\ ts # << >> /\ Do(c).do = "fix" /\ ts[1].do = "fix" /\ Goes(c)
      /\ req'[c] = req[c] /\ view'[c] = view[c] /\ reports'[c] = rs
  BY DEF Skips, Doing, Do
<1>2. todo'[c] = Tail(ts) /\ pc'[c] = "run" /\ Range(ts) = {Do(c)} \cup Range(todo'[c])
  BY <1>1, GoesOn
<1>3. \A t \in Range(ts) : t.do \notin Reads
  BY <1>1, ReadsAlone DEF WorkInv, Reads
<1>4. Settled(c)
  BY <1>1, <1>3 DEF Allotted
<1>5. req[c].op \in {"mkdir", "dryrun"} /\ Known(req[c])
  <2>1. "fix" \in TasksFor(req[c].op)
    BY <1>1, <1>2 DEF WorkInv, Placed
  <2>2. req[c].op \in {"mkdir", "dryrun"}
    BY <2>1 DEF TasksFor, Reads, Works
  <2> QED
    BY <1>1, <1>4, <2>2 DEF Settled
<1>6. rs \in Seq(Reports)
  BY DEF Typed
<1>7. PrepLeft(Tail(ts), rs, req[c].args, req[c].op)
  <2>1. PrepLeft(ts, rs, req[c].args, req[c].op)
    BY <1>4, <1>5 DEF Settled
  <2> HIDE DEF ts, rs
  <2> QED
    BY <1>1, <1>6, <2>1, PrepFixed
<1>8. Settled(c)'
  BY <1>1, <1>2, <1>5, <1>7 DEF Settled
<1> QED
  BY <1>2, <1>3, <1>8 DEF Allotted

LEMMA LooksAllotted ==
  ASSUME Typed, NEW c \in Commands, Looks(c), Allotted(c), WorkInv(c)
  PROVE  Allotted(c)'
<1>1. pc[c] = "run" /\ todo[c] # << >> /\ Do(c).do \in {"read", "ask"} /\ Goes(c)
  BY DEF Looks, Doing
<1>2. todo'[c] = Tail(todo[c]) /\ Range(todo[c]) = {Do(c)} \cup Range(todo'[c])
  BY <1>1, GoesOn
<1>3. \E t \in Range(todo'[c]) : t.do = "plan"
  BY <1>1, <1>2 DEF Allotted, Reads
<1> QED
  BY <1>3 DEF Allotted, Reads

LEMMA WorkForSettles ==
  ASSUME NEW r \in Request
  PROVE  /\ ~Known(r) \/ r.op = "list" => WorkFor(r) = << >>
         /\ r.op = "mount" /\ Known(r)   => WorkLeft(WorkFor(r), << >>, << >>, r.args)
         /\ r.op = "unmount" /\ Known(r) => WorkLeft(WorkFor(r), << >>, r.args, << >>)
         /\ r.op \in {"mkdir", "dryrun"} /\ Known(r) => Stats(WorkFor(r), << >>, r.args)
<1>1. << >> \in Seq(Entries)
  BY EmptySeq
<1>2. CASE ~Known(r) \/ r.op = "list"
  BY <1>2 DEF WorkFor
<1>3. CASE r.op = "mount" /\ Known(r)
  <2>1. r.args \in Seq(Entries) /\ WorkFor(r) = MountWork(r.args)
    BY <1>3, KnownArgs DEF WorkFor
  <2>2. Rest(MountWork(r.args), Split(<< >>), Split(r.args))
    BY <2>1, WorkLeftOf
  <2> QED
    BY <1>1, <1>3, <2>1, <2>2, WorkLeftStart
<1>4. CASE r.op = "unmount" /\ Known(r)
  <2>1. r.args \in Seq(Entries) /\ WorkFor(r) = UnmountWork(r.args)
    BY <1>4, KnownArgs DEF WorkFor
  <2>2. Rest(UnmountWork(r.args), Split(r.args), Split(<< >>))
    BY <2>1, WorkLeftOf
  <2> QED
    BY <1>1, <1>4, <2>1, <2>2, WorkLeftStart
<1>5. CASE r.op \in {"mkdir", "dryrun"} /\ Known(r)
  <2>1. r.args \in Seq(Entries) /\ WorkFor(r) = Each("stat", r.args) \o <<FixTask>>
    BY <1>5, KnownArgs DEF WorkFor, FixTask
  <2> QED
    BY <1>5, <2>1, StatsStart
<1>6. r.op \in {"list", "mount", "unmount", "interactive", "mkdir", "dryrun"}
  BY DEF Request, Ops
<1> QED
  BY <1>2, <1>3, <1>4, <1>5, <1>6

LEMMA PrepIs ==
  ASSUME NEW ts, NEW rs, NEW args, NEW op, NEW ns \in Seq(Entries), ns = args \/ (args = << >> /\ ns = Order),
         Stats(ts, rs, ns) \/ Owns(ts, rs, ns, op)
  PROVE  PrepLeft(ts, rs, args, op)
BY DEF PrepLeft

LEMMA NewSettled ==
  ASSUME NEW c \in Commands, NEW r \in Request, req'[c] = r,
         r.op = "interactive" => pc'[c] = "choose",
         todo'[c] = WorkFor(r), reports'[c] = << >>
  PROVE  Settled(c)'
<1>1. r.op \in {"mkdir", "dryrun"} /\ Known(r) => PrepLeft(WorkFor(r), << >>, r.args, r.op)
  <2>1. Known(r) => r.args \in Seq(Entries)
    BY KnownArgs
  <2> QED
    BY <2>1, WorkForSettles, PrepIs
<1> QED
  BY <1>1, WorkForSettles DEF Settled

LEMMA PlanAllotted ==
  ASSUME Typed, NEW c \in Commands, Plan(c), Allotted(c), WorkInv(c)
  PROVE  Allotted(c)'
<1>1. todo[c] # << >> /\ Do(c).do = "plan" /\ pc[c] = "run" /\ req[c] \in Request
  BY DEF Plan, Doing, WorkInv, Placed, Typed
<1>2. /\ todo'[c] = WorkFor(req[c]) /\ pc'[c] = IF req[c].op = "interactive" THEN "choose" ELSE "run"
      /\ req'[c] = req[c] /\ view'[c] = view[c] /\ reports'[c] = reports[c]
  BY DEF Plan, Then, At, Typed
<1>3. reports[c] = << >>
  BY <1>1, HeadOfWork DEF WorkInv, Reading, Reads
<1>4. Settled(c)'
  BY <1>1, <1>2, <1>3, NewSettled
<1>5. \A t \in Range(todo'[c]) : t.do \notin Reads
  BY <1>1, <1>2, WorkForIs DEF Kinds, Reads
<1> QED
  BY <1>2, <1>4, <1>5 DEF Allotted

LEMMA ChooseAllotted ==
  ASSUME Typed, NEW c \in Commands, NEW S \in SUBSET Entries, Choose(c, S), Allotted(c), WorkInv(c)
  PROVE  Allotted(c)'
<1>1. /\ pc[c] = "choose" /\ req[c].op = "interactive" /\ reports[c] = << >>
  BY DEF Choose, WorkInv, Placed
<1>2. /\ todo'[c] = ChosenWork(c, S) /\ pc'[c] = "run"
      /\ req'[c] = req[c] /\ view'[c] = view[c] /\ reports'[c] = << >>
  BY <1>1 DEF Choose, ChosenWork, Then, At, Typed
<1> DEFINE us == Only(Order, S \cap view[c])
           ms == Only(Order, S \ view[c])
<1>3. us \in Seq(Entries) /\ ms \in Seq(Entries)
  BY OrderIsList, OnlyThose
<1>4. ChosenWork(c, S) = UnmountWork(us) \o MountWork(ms)
  BY DEF ChosenWork
<1> HIDE DEF us, ms
<1>5. WorkLeft(ChosenWork(c, S), << >>, us, ms)
  <2>1. Rest(ChosenWork(c, S), Split(us), Split(ms))
    BY <1>3, <1>4, WorkLeftOf
  <2> QED
    BY <1>3, <2>1, WorkLeftStart
<1>6. Settled(c)'
  <2>1. Chosen(c, S, todo[c], reports[c])'
    BY <1>2, <1>5 DEF Chosen, us, ms
  <2> QED
    BY <1>1, <1>2, <2>1 DEF Settled
<1>7. \A t \in Range(todo'[c]) : t.do \notin Reads
  BY <1>2, ChosenWorkIs DEF Reads
<1> QED
  BY <1>2, <1>6, <1>7 DEF Allotted

LEMMA ConfirmsAllotted ==
  ASSUME Typed, NEW c \in Commands, ConfirmAll(c) \/ ConfirmFix(c), Allotted(c), WorkInv(c)
  PROVE  Allotted(c)'
<1>1. /\ pc[c] = "confirm" /\ req[c].op \in {"mkdir", "dryrun"} /\ pc'[c] = "run"
      /\ req'[c] = req[c] /\ view'[c] = view[c] /\ reports'[c] = reports[c]
      /\ req[c] # None /\ req[c] \in Request
  BY DEF ConfirmAll, ConfirmFix, At, WorkInv, Placed, Typed
<1>2. reports[c] \in Seq(Reports) /\ todo \in [Commands -> Seq(Fitting)]
  BY DEF Typed
<1>3. ASSUME NEW ts \in Seq(Fitting), todo' = [todo EXCEPT ![c] = ts],
             \A t \in Range(ts) : t.do \notin Reads, Known(req[c]), PrepLeft(ts, reports[c], req[c].args, req[c].op)
      PROVE  Allotted(c)'
  <2>1. todo'[c] = ts
    BY <1>2, <1>3
  <2>2. Settled(c)'
    BY <1>1, <1>3, <2>1 DEF Settled
  <2> QED
    BY <1>1, <1>3, <2>1, <2>2 DEF Allotted
<1>4. << >> \in Seq(Fitting) /\ << >> \in Seq(Entries) /\ Range(<< >>) = {}
  BY EmptySeq, NothingListed
<1>5. CASE ConfirmAll(c)
  <2>1. req[c].args = << >> /\ reports[c] = << >> /\ Known(req[c])
    BY <1>5, NothingListed DEF ConfirmAll, Known
  <2>2. CASE todo' = [todo EXCEPT ![c] = << >>]
    <3>1. Owns(<< >>, << >>, << >>, req[c].op)
      <4>1. Each("own", << >>) = << >> /\ Named(<< >>, MadeKinds) = << >> /\ Named(<< >>, {"fixed"}) = << >>
        BY <1>4, StatAndOwn, NamedNothing
      <4> QED
        BY <1>4, <4>1 DEF Owns
    <3>2. PrepLeft(<< >>, reports[c], req[c].args, req[c].op)
      BY <1>4, <2>1, <3>1, PrepIs
    <3> QED
      BY <1>3, <1>4, <2>1, <2>2, <3>2
  <2>3. CASE todo' = [todo EXCEPT ![c] = WorkFor(AllNames(c))]
    <3>1. /\ AllNames(c) \in Request /\ Known(AllNames(c))
          /\ AllNames(c).op = req[c].op /\ AllNames(c).args = Order
      BY <1>1, AllNamesIs
    <3>2. /\ WorkFor(AllNames(c)) \in Seq(Fitting)
          /\ \A t \in Range(WorkFor(AllNames(c))) : t.do \notin Reads
      BY <1>1, <3>1, WorkForIs DEF Kinds, Reads
    <3>3. Stats(WorkFor(AllNames(c)), << >>, Order)
      BY <1>1, <3>1, WorkForSettles
    <3>4. PrepLeft(WorkFor(AllNames(c)), reports[c], req[c].args, req[c].op)
      BY <2>1, <3>3, OrderIsList DEF PrepLeft
    <3> QED
      BY <1>3, <2>1, <2>3, <3>2, <3>4
  <2> QED
    BY <1>5, <2>2, <2>3 DEF ConfirmAll, Then, AllNames
<1>6. CASE ConfirmFix(c)
  <2>1. todo[c] # << >> /\ Do(c).do = "fix" /\ todo[c][1].do = "fix"
    BY <1>6 DEF ConfirmFix, Doing, Do
  <2>2. \A t \in Range(todo[c]) : t.do \notin Reads
    BY <2>1, ReadsAlone DEF WorkInv, Reads
  <2>3. Settled(c)
    BY <1>1, <2>2 DEF Allotted
  <2>4. Known(req[c])
    BY <1>1, <2>1, <2>3 DEF Settled
  <2>5. PrepLeft(todo[c], reports[c], req[c].args, req[c].op)
    BY <1>1, <2>3, <2>4 DEF Settled
  <2>6. /\ PrepLeft(<< >>, reports[c], req[c].args, req[c].op)
        /\ req[c].op = "mkdir" => PrepLeft(Each("own", Named(reports[c], {"mismatch"})), reports[c], req[c].args, req[c].op)
    BY <1>2, <2>1, <2>5, PrepFixed
  <2>7. CASE todo' = [todo EXCEPT ![c] = << >>]
    BY <1>3, <1>4, <2>4, <2>6, <2>7
  <2>8. CASE todo' = [todo EXCEPT ![c] = OwnWork(c)]
    <3>1. req[c].op = "mkdir"
      <4>1. PICK r : r \in Range(Mismatches(c))
        BY <1>6, MismatchesAre, NothingThere DEF ConfirmFix
      <4>2. Range(reports[c]) # {}
        BY <4>1, MismatchesAre
      <4>3. reports[c] # << >>
        BY <1>2, <4>2, NothingThere
      <4> QED
        BY <1>1, <4>3 DEF WorkInv, Placed
    <3>2. OffendersIn(c) = Named(reports[c], {"mismatch"})
      <4>1. Mismatches(c) = Only(reports[c], AsIn({"mismatch"}))
        <5>1. \A i \in DOMAIN reports[c] : reports[c][i] \in Reports
          BY <1>2, LenProperties
        <5>2. {i \in DOMAIN reports[c] : reports[c][i].as = "mismatch"}
                = {i \in DOMAIN reports[c] : reports[c][i] \in AsIn({"mismatch"})}
          BY <5>1 DEF AsIn
        <5> QED
          BY <5>2 DEF Mismatches, Only
      <4> QED
        BY <4>1 DEF OffendersIn, Named, Of
    <3>3. OwnWork(c) = Each("own", Named(reports[c], {"mismatch"})) /\ OwnWork(c) \in Seq(Fitting)
      BY <3>2, OwnWorkIs
    <3>4. \A t \in Range(OwnWork(c)) : t.do \notin Reads
      BY OwnWorkIs DEF Task, Reads
    <3>5. PrepLeft(OwnWork(c), reports[c], req[c].args, req[c].op)
      BY <2>6, <3>1, <3>3
    <3> QED
      BY <1>3, <2>4, <2>8, <3>3, <3>4, <3>5
  <2> QED
    BY <1>6, <2>7, <2>8 DEF ConfirmFix, Then, OwnWork
<1> QED
  BY <1>5, <1>6

LEMMA RunAllotted ==
  ASSUME Typed, NEW c \in Commands, WorkInv(c), NEW r \in Requests[c], Run(c, r)
  PROVE  Allotted(c)'
<1>1. r \in Request /\ r # None
  BY RequestsAreLines
<1>2. /\ reports'[c] = << >> /\ req'[c] = r
      /\ todo'[c] = IF r.op \in {"mkdir", "dryrun"} THEN WorkFor(r) ELSE Refresh \o <<Task("plan", << >>)>>
      /\ pc'[c] \in {"confirm", "run"}
  BY DEF Run, Then, At, Typed, WorkInv, Placed
<1>3. CASE r.op \in {"mkdir", "dryrun"}
  <2>1. Settled(c)'
    BY <1>1, <1>2, <1>3, NewSettled
  <2>2. \A t \in Range(todo'[c]) : t.do \notin Reads
    BY <1>1, <1>2, <1>3, WorkForIs DEF Kinds, Reads
  <2> QED
    BY <2>1, <2>2 DEF Allotted
<1>4. CASE r.op \notin {"mkdir", "dryrun"}
  <2>1. todo'[c] = Refresh \o <<Task("plan", << >>)>>
    BY <1>2, <1>4
  <2>2. \E t \in Range(todo'[c]) : t.do = "plan"
    BY <2>1, RefreshIs DEF Task
  <2> QED
    BY <2>2 DEF Allotted, Reads
<1> QED
  BY <1>3, <1>4

LEMMA MovesAllotted ==
  ASSUME Typed, NEW c \in Commands, WorkInv(c), Allotted(c), Moves(c)
  PROVE  Allotted(c)'
BY WalksAllotted, SpeaksAllotted, SkipsAllotted, LooksAllotted, PlanAllotted,
   ChooseAllotted, ConfirmsAllotted, RunAllotted DEF Moves

LEMMA AllottedInit == Init => AllAllotted
BY DEF Init, AllAllotted, Allotted

LEMMA AllottedStep ==
  ASSUME CommandInv, AllAllotted, [Next]_vars
  PROVE  AllAllotted'
<1>1. Typed /\ \A x \in Commands : WorkInv(x)
  BY DEF CommandInv, AllWork
<1>2. CASE UNCHANGED commandVars
  <2>1. \A x \in Commands : Same5(x)
    BY <1>2 DEF commandVars, Same5
  <2> QED
    BY <2>1, SameAllotted DEF AllAllotted
<1>3. ASSUME NEW c \in Commands, Acts(c) PROVE AllAllotted'
  <2>1. Moves(c) /\ \A x \in Commands : x # c => Same5(x)
    BY <1>1, <1>3, StepMoves, MovesTyped DEF Acts, WorkInv
  <2> QED
    BY <1>1, <2>1, MovesAllotted, SameAllotted DEF AllAllotted
<1>4. ASSUME NEW c \in Commands, DaemonStep(c) PROVE UNCHANGED commandVars
  BY <1>4 DEF DaemonStep, ServeMount, ServeUnmount, Unheard, commandVars
<1>5. ASSUME Outside \/ \E e \in Managed : Watch(e) PROVE UNCHANGED commandVars
  BY <1>5 DEF Outside, Watch, ServerDies, DaemonStops, DaemonKilled, DaemonEnds, UnmountedOutside, commandVars
<1>6. CASE UNCHANGED vars
  BY <1>2, <1>6 DEF vars, commandVars
<1> QED
  BY <1>2, <1>3, <1>4, <1>5, <1>6 DEF Next, Step, Acts

(* Work left and reports made are together, and in order, what the line or *)
(* the choice asks for, whatever fails (main.go:290-311, 683-715, 822-836, *)
(* 903-908, 1056-1084).                                                    *)
THEOREM AllottedInvariant == Spec => []AllAllotted
BY AllottedInit, AllottedStep, CommandInvariant, PTL DEF Spec

LEMMA OneKind ==
  ASSUME NEW rs \in Seq(Reports), NEW aim \in Results, \A r \in Range(rs) : r.as = aim
  PROVE  /\ Named(rs, Results) = Named(rs, {aim})
         /\ Len(rs) = Len(Named(rs, Results))
<1>1. \A r \in Range(rs) : r.as \in Results /\ r.as \in {aim}
  OBVIOUS
<1>2. Named(rs, Results) = Of(rs) /\ Named(rs, {aim}) = Of(rs)
  BY <1>1, NamedIs
<1> QED
  BY <1>2, OfIs

LEMMA ChosenTold ==
  ASSUME NEW V, V \subseteq Entries, NEW ns, ns = Split(Only(Order, V))
  PROVE  LET S == {ns[i] : i \in DOMAIN ns}
         IN S = V /\ ns = Split(Only(Order, S))
<1> DEFINE o == Only(Order, V)
           S == {ns[i] : i \in DOMAIN ns}
<1>1. o \in Seq(Entries) /\ Range(o) = V
  <2>1. Order \in Seq(Entries) /\ Range(Order) = Entries
    BY OrderIsList, EntriesKinds
  <2>2. o \in Seq(Entries) /\ Range(o) = Range(Order) \cap V
    BY <2>1, OnlyThose
  <2> QED
    BY <2>1, <2>2
<1>2. ns = Split(o)
  OBVIOUS
<1> HIDE DEF o
<1>3. Range(ns) = V
  BY <1>1, <1>2, SplitIs
<1>4. S = V
  BY <1>3 DEF Range
<1> HIDE DEF S
<1> QED
  BY <1>2, <1>4 DEF o, S

LEMMA ToldAll ==
  ASSUME CommandInv, AllAllotted
  PROVE  AllReported
<1> SUFFICES ASSUME NEW c \in Commands, pc[c] = "exit"
             PROVE
    LET r  == req[c]
        es == NamesIn(c, Results)
        ds == NamesIn(c, {"created", "existing", "mismatch"})
    IN CASE r.op = "list" \/ (r.op # "interactive" /\ ~Known(r)) -> reports[c] = << >>
         [] Known(r) /\ r.op \in {"mount", "unmount"} -> es = Split(r.args) /\ Len(reports[c]) = Len(es)
         [] Known(r) /\ r.op \in {"mkdir", "dryrun"} ->
              /\ es = << >>
              /\ ds = r.args \/ (r.args = << >> /\ ds = Order)
              /\ \/ NamesIn(c, {"fixed"}) = << >>
                 \/ NamesIn(c, {"fixed"}) = NamesIn(c, {"mismatch"}) /\ r.op = "mkdir"
         [] r.op = "interactive" ->
              \A aim \in Results :
                LET ns == NamesIn(c, {aim})
                    S  == {ns[i] : i \in DOMAIN ns}
                IN /\ ns = Split(Only(Order, S))
                   /\ S \subseteq IF aim = "mounted" THEN Entries \ view[c] ELSE view[c]
  BY DEF AllReported
<1> DEFINE r  == req[c]
           rs == reports[c]
<1>1. /\ Typed /\ WorkInv(c) /\ todo[c] = << >> /\ r # None /\ r \in Request
      /\ rs \in Seq(Reports) /\ view[c] \subseteq Entries
  BY DEF CommandInv, AllWork, WorkInv, Placed, Typed
<1>2. Settled(c)
  <2>1. Range(todo[c]) = {}
    BY <1>1, NothingListed
  <2> QED
    BY <2>1 DEF AllAllotted, Allotted
<1>3. \A A : NamesIn(c, A) = Named(rs, A)
  BY <1>1, NamesInIs
<1>4. r.op \in {"list", "mount", "unmount", "interactive", "mkdir", "dryrun"}
  BY <1>1 DEF Request, Ops
<1>5. CASE r.op = "list" \/ (r.op # "interactive" /\ ~Known(r))
  BY <1>2, <1>5 DEF Settled
<1>6. CASE Known(r) /\ r.op \in {"mount", "unmount"}
  <2> DEFINE aim == IF r.op = "mount" THEN "mounted" ELSE "unmounted"
  <2>1. aim \in Results
    BY DEF Results
  <2>2. \A x \in Range(rs) : x.as = aim
    BY <1>1, <1>6 DEF WorkInv, Telling, Verb, Results
  <2>3. Named(rs, {aim}) = Split(r.args)
    <3>1. CASE r.op = "mount"
      <4>1. WorkLeft(todo[c], rs, << >>, r.args)
        BY <1>2, <1>6, <3>1 DEF Settled
      <4>2. Named(rs, {"mounted"}) = Split(r.args)
        BY <1>1, <4>1, WorkLeftDone
      <4> QED
        BY <3>1, <4>2
    <3>2. CASE r.op = "unmount"
      <4>1. WorkLeft(todo[c], rs, r.args, << >>)
        BY <1>2, <1>6, <3>2 DEF Settled
      <4>2. Named(rs, {"unmounted"}) = Split(r.args)
        BY <1>1, <4>1, WorkLeftDone
      <4> QED
        BY <3>2, <4>2
    <3> QED
      BY <1>6, <3>1, <3>2
  <2> HIDE DEF aim
  <2>4. Named(rs, Results) = Split(r.args) /\ Len(rs) = Len(Named(rs, Results))
    BY <1>1, <2>1, <2>2, <2>3, OneKind
  <2>5. NamesIn(c, Results) = Split(r.args) /\ Len(rs) = Len(NamesIn(c, Results))
    BY <1>3, <2>4
  <2> QED
    BY <1>6, <2>5
<1>7. CASE Known(r) /\ r.op \in {"mkdir", "dryrun"}
  <2>1. PrepLeft(todo[c], rs, r.args, r.op)
    BY <1>2, <1>7 DEF Settled
  <2>2. /\ Named(rs, MadeKinds) = r.args \/ (r.args = << >> /\ Named(rs, MadeKinds) = Order)
        /\ \A x \in Range(rs) : x.as \in MadeKinds \cup {"fixed"}
        /\ \/ Named(rs, {"fixed"}) = << >>
           \/ Named(rs, {"fixed"}) = Named(rs, {"mismatch"}) /\ r.op = "mkdir"
    <3> DEFINE args == r.args
               op == r.op
    <3> HIDE DEF args, op, rs
    <3>1. PrepLeft(todo[c], rs, args, op)
      BY <2>1 DEF args, op
    <3>2. /\ Named(rs, MadeKinds) = args \/ (args = << >> /\ Named(rs, MadeKinds) = Order)
          /\ \A x \in Range(rs) : x.as \in MadeKinds \cup {"fixed"}
          /\ \/ Named(rs, {"fixed"}) = << >>
             \/ Named(rs, {"fixed"}) = Named(rs, {"mismatch"}) /\ op = "mkdir"
      BY <1>1, <3>1, PrepDone
    <3> QED
      BY <3>2 DEF args, op
  <2>3. Named(rs, Results) = << >>
    <3>1. \A x \in Range(rs) : x.as \notin Results
      BY <2>2 DEF MadeKinds, Results
    <3> QED
      BY <1>1, <3>1, NamedIs
  <2>4. NamesIn(c, {"created", "existing", "mismatch"}) = Named(rs, MadeKinds)
    BY <1>3 DEF MadeKinds
  <2> QED
    BY <1>3, <1>7, <2>2, <2>3, <2>4
<1>8. CASE r.op = "interactive"
  <2>1. PICK S0 \in SUBSET Entries : Chosen(c, S0, todo[c], rs)
    BY <1>2, <1>8 DEF Settled
  <2> DEFINE U == S0 \cap view[c]
             M == S0 \ view[c]
  <2>2. Named(rs, {"unmounted"}) = Split(Only(Order, U)) /\ Named(rs, {"mounted"}) = Split(Only(Order, M))
    BY <1>1, <2>1, WorkLeftDone DEF Chosen
  <2>3. U \subseteq view[c] /\ U \subseteq Entries /\ M \subseteq Entries \ view[c]
    OBVIOUS
  <2> HIDE DEF U, M
  <2>4. ASSUME NEW aim \in Results
        PROVE  LET ns == NamesIn(c, {aim})
                   S  == {ns[i] : i \in DOMAIN ns}
               IN /\ ns = Split(Only(Order, S))
                  /\ S \subseteq IF aim = "mounted" THEN Entries \ view[c] ELSE view[c]
    <3> DEFINE V == IF aim = "mounted" THEN M ELSE U
               ns == Named(rs, {aim})
               S == {ns[i] : i \in DOMAIN ns}
    <3>1. V \subseteq Entries /\ V \subseteq IF aim = "mounted" THEN Entries \ view[c] ELSE view[c]
      BY <2>3
    <3>2. ns = Split(Only(Order, V))
      BY <2>2, <2>4 DEF Results
    <3> HIDE DEF V, ns
    <3>3. S = V /\ ns = Split(Only(Order, S))
      BY <3>1, <3>2, ChosenTold
    <3>4. NamesIn(c, {aim}) = ns
      BY <1>3 DEF ns
    <3> HIDE DEF S
    <3> QED
      BY <3>1, <3>3, <3>4 DEF S
  <2> QED
    BY <1>8, <2>4
<1> QED
  BY <1>4, <1>5, <1>6, <1>7, <1>8

(* A command that ends has said what became of each entry it was given,    *)
(* once for each time it was named and in order, and of no other           *)
(* (main.go:290-311, 683-715, 822-836, 903-908, 1056-1084).                *)
THEOREM AllReportedCorrect == Spec => []AllReported
BY CommandInvariant, AllottedInvariant, ToldAll, PTL
=============================================================================
