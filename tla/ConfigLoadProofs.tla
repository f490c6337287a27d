-------------------------- MODULE ConfigLoadProofs --------------------------
(***************************************************************************)
(* Proofs about ConfigLoad, for any files that include each other in any   *)
(* way.                                                                    *)
(***************************************************************************)
EXTENDS ConfigLoad, EntriesProofs, Ranking, SequenceTheorems

-----------------------------------------------------------------------------
(* Sorting.                                                                *)

(* An unknown field decides nothing, so the first field "name" decides     *)
(* alone (config.go:211-224).                                              *)
LEMMA LessAsymmetric ==
  ASSUME NEW a \in Entry, NEW b \in Entry, NEW by \in Seq(Field), LessBy(a, b, by)
  PROVE  ~LessBy(b, a, by)
<1>1. NameRank[a.name] \in Nat /\ NameRank[b.name] \in Nat
  BY RanksDiffer DEF Entry
<1> SUFFICES ASSUME LessBy(b, a, by) PROVE FALSE
  OBVIOUS
<1>2. PICK k \in DOMAIN by : /\ Before(a, b, by[k])
                             /\ \A l \in 1..(k - 1) : ~Before(a, b, by[l]) /\ ~Before(b, a, by[l])
  BY DEF LessBy
<1>3. PICK m \in DOMAIN by : /\ Before(b, a, by[m])
                             /\ \A l \in 1..(m - 1) : ~Before(b, a, by[l]) /\ ~Before(a, b, by[l])
  BY DEF LessBy
<1>4. k \in 1..Len(by) /\ m \in 1..Len(by) /\ Len(by) \in Nat
  OBVIOUS
<1>5. k = m
  BY <1>2, <1>3, <1>4
<1> QED
  BY <1>1, <1>2, <1>3, <1>5 DEF Before

LEMMA LessSplits ==
  ASSUME NEW a \in Entry, NEW b \in Entry, NEW c \in Entry, NEW by \in Seq(Field),
         LessBy(a, c, by)
  PROVE  LessBy(a, b, by) \/ LessBy(b, c, by)
<1>1. /\ NameRank[a.name] \in Nat /\ NameRank[b.name] \in Nat
      /\ NameRank[c.name] \in Nat
  BY RanksDiffer DEF Entry
<1>2. PICK k \in DOMAIN by : /\ Before(a, c, by[k])
                             /\ \A l \in 1..(k - 1) : ~Before(a, c, by[l]) /\ ~Before(c, a, by[l])
  BY DEF LessBy
<1>3. NameRank[a.name] # NameRank[c.name]
  BY <1>1, <1>2 DEF Before
<1>4. ASSUME NEW l \in 1..(k - 1) PROVE by[l].key # "name"
  BY <1>1, <1>2, <1>3, <1>4 DEF Before
<1>5. Before(a, b, by[k]) \/ Before(b, c, by[k])
  BY <1>1, <1>2 DEF Before
<1> QED
  BY <1>2, <1>4, <1>5 DEF LessBy, Before

(* The order in which applySorting leaves two entries (config.go:190-209). *)
Ahead(ms, by, j, i) == \/ LessBy(ms[j], ms[i], by)
                       \/ ~LessBy(ms[i], ms[j], by) /\ j < i

LEMMA AheadIsOrder ==
  ASSUME NEW ms \in Seq(Entry), NEW by \in Seq(Field),
         NEW x \in 1..Len(ms), NEW y \in 1..Len(ms), NEW z \in 1..Len(ms)
  PROVE  /\ ~Ahead(ms, by, x, x)
         /\ x # y => Ahead(ms, by, x, y) \/ Ahead(ms, by, y, x)
         /\ Ahead(ms, by, x, y) /\ Ahead(ms, by, y, z) => Ahead(ms, by, x, z)
<1>1. /\ ms[x] \in Entry /\ ms[y] \in Entry /\ ms[z] \in Entry
      /\ x \in Int /\ y \in Int /\ z \in Int
  OBVIOUS
<1>2. ~Ahead(ms, by, x, x)
  BY <1>1, LessAsymmetric DEF Ahead
<1>3. x # y => Ahead(ms, by, x, y) \/ Ahead(ms, by, y, x)
  BY <1>1 DEF Ahead
<1>4. ASSUME Ahead(ms, by, x, y), Ahead(ms, by, y, z) PROVE Ahead(ms, by, x, z)
  <2>1. LessBy(ms[x], ms[y], by) => LessBy(ms[x], ms[z], by) \/ LessBy(ms[z], ms[y], by)
    BY <1>1, LessSplits
  <2>2. LessBy(ms[y], ms[z], by) => LessBy(ms[y], ms[x], by) \/ LessBy(ms[x], ms[z], by)
    BY <1>1, LessSplits
  <2>3. LessBy(ms[z], ms[x], by) => LessBy(ms[z], ms[y], by) \/ LessBy(ms[y], ms[x], by)
    BY <1>1, LessSplits
  <2>4. /\ ~ (LessBy(ms[x], ms[y], by) /\ LessBy(ms[y], ms[x], by))
        /\ ~ (LessBy(ms[y], ms[z], by) /\ LessBy(ms[z], ms[y], by))
    BY <1>1, LessAsymmetric
  <2> QED
    BY <1>1, <1>4, <2>1, <2>2, <2>3, <2>4 DEF Ahead
<1> QED
  BY <1>2, <1>3, <1>4

(* Sorting only permutes the entries, and the places it gives them are in  *)
(* that order (config.go:190-209).                                         *)
LEMMA SortedInOrder ==
  ASSUME NEW ms \in Seq(Entry), NEW by \in Seq(Field)
  PROVE  \E from \in Bijection(1..Len(ms), 1..Len(ms)) :
           /\ Sorted(ms, by) = [k \in 1..Len(ms) |-> ms[from[k]]]
           /\ \A k, l \in 1..Len(ms) : k < l => Ahead(ms, by, from[k], from[l])
<1> DEFINE n == Len(ms)
           S == 1..n
           R == {q \in S \X S : Ahead(ms, by, q[1], q[2])}
           place(i) == 1 + Cardinality({j \in DOMAIN ms : \/ LessBy(ms[j], ms[i], by)
                                                          \/ ~LessBy(ms[i], ms[j], by) /\ j < i})
           at(k) == CHOOSE i \in DOMAIN ms : place(i) = k
           from  == [k \in S |-> at(k)]
<1>1. n \in Nat /\ DOMAIN ms = S
  OBVIOUS
<1>2. Orders(R, S)
  <2>1. \A x, y \in S : <<x, y>> \in R <=> Ahead(ms, by, x, y)
    OBVIOUS
  <2> HIDE DEF R
  <2> QED
    BY <2>1, AheadIsOrder DEF Orders
<1>3. ASSUME NEW i \in S PROVE place(i) = Rank(R, S, i)
  <2>1. {j \in DOMAIN ms : LessBy(ms[j], ms[i], by) \/ (~LessBy(ms[i], ms[j], by) /\ j < i)}
          = Earlier(R, S, i)
    BY <1>1 DEF Earlier, Ahead
  <2> QED
    BY <2>1 DEF Rank
<1>4. IsFiniteSet(S) /\ Cardinality(S) = n
  BY <1>1, IntervalIsFinite
<1>5. Sorted(ms, by) = [k \in S |-> ms[from[k]]]
  BY <1>1 DEF Sorted
<1> HIDE DEF S, R, place
<1>6. /\ \A x \in S : place(x) \in 1..n
      /\ \A x, y \in S : place(x) = place(y) => x = y
      /\ \A x, y \in S : <<x, y>> \in R <=> place(x) < place(y)
      /\ \A k \in 1..n : \E x \in S : place(x) = k
  BY <1>2, <1>3, <1>4, RanksAreTaken
<1>7. \A k \in S : at(k) \in S /\ place(at(k)) = k
  BY <1>1, <1>6 DEF S
<1> HIDE DEF at
<1>8. from \in Bijection(S, S)
  <2>1. /\ from \in [S -> S]
        /\ \A k, l \in S : from[k] = from[l] => k = l
    BY <1>7
  <2>2. ASSUME NEW x \in S PROVE \E k \in S : from[k] = x
    <3>1. place(x) \in S /\ place(at(place(x))) = place(x)
      BY <1>6, <1>7 DEF S
    <3> QED
      BY <1>6, <1>7, <3>1
  <2> HIDE DEF from
  <2> QED
    BY <2>1, <2>2 DEF Bijection, Injection, Surjection, IsInjective
<1>9. ASSUME NEW k \in S, NEW l \in S, k < l PROVE Ahead(ms, by, from[k], from[l])
  <2>1. <<at(k), at(l)>> \in R
    BY <1>6, <1>7, <1>9
  <2> QED
    BY <2>1 DEF R
<1> HIDE DEF from
<1> QED
  BY <1>5, <1>8, <1>9 DEF S

LEMMA SortedHoldsThem ==
  ASSUME NEW ms \in Seq(Entry), NEW by \in Seq(Field)
  PROVE  /\ Sorted(ms, by) \in Seq(Entry)
         /\ Len(Sorted(ms, by)) = Len(ms)
         /\ \A k \in 1..Len(ms) : \E i \in 1..Len(ms) : Sorted(ms, by)[k] = ms[i]
<1>1. PICK from \in Bijection(1..Len(ms), 1..Len(ms)) :
        Sorted(ms, by) = [k \in 1..Len(ms) |-> ms[from[k]]]
  BY SortedInOrder
<1>2. \A k \in 1..Len(ms) : from[k] \in 1..Len(ms)
  BY DEF Bijection, Injection
<1>3. Len(ms) \in Nat /\ \A k \in 1..Len(ms) : ms[from[k]] \in Entry
  BY <1>2
<1> QED
  BY <1>1, <1>2, <1>3

-----------------------------------------------------------------------------
(* The calls of loadRecursive.                                             *)

ValidEntry == {e \in Entry : StructValid(e)}
FrameType  == [path : Paths, rest : Seq(Seq(Paths)), mounts : Seq(ValidEntry)]

(* The files of a call's patterns, and those of all calls but the last and *)
(* of all of them, that are still to be loaded.                            *)
InRest(r)     == UNION {{r[i][j] : j \in DOMAIN r[i]} : i \in DOMAIN r}
Below(st)     == UNION {InRest(st[i].rest) : i \in 1..(Len(st) - 1)}
PendingIn(st) == UNION {InRest(st[i].rest) : i \in DOMAIN st}
Pending       == PendingIn(stack)

LEMMA InRestIs ==
  ASSUME NEW r, NEW q
  PROVE  q \in InRest(r) <=> \E i \in DOMAIN r : \E j \in DOMAIN r[i] : q = r[i][j]
  BY DEF InRest

(* Loading a file takes it off its pattern and nothing else                *)
(* (config.go:118-124).                                                    *)
LEMMA RestSkipped ==
  ASSUME NEW r \in Seq(Seq(Paths)), r # << >>, Head(r) # << >>
  PROVE  /\ Head(Head(r)) \in Paths
         /\ <<Tail(Head(r))>> \o Tail(r) \in Seq(Seq(Paths))
         /\ InRest(r) = InRest(<<Tail(Head(r))>> \o Tail(r)) \cup {Head(Head(r))}
<1> DEFINE h == Head(r)
           t == <<Tail(h)>> \o Tail(r)
<1>1. /\ Len(r) \in Nat \ {0} /\ DOMAIN r = 1..Len(r)
      /\ h = r[1] /\ h \in Seq(Paths)
  BY EmptySeq
<1>2. /\ Len(h) \in Nat \ {0} /\ DOMAIN h = 1..Len(h)
      /\ Head(h) = h[1] /\ h[1] \in Paths
  BY <1>1, EmptySeq
<1>3. /\ Tail(h) \in Seq(Paths) /\ DOMAIN Tail(h) = 1..(Len(h) - 1)
      /\ \A j \in 1..(Len(h) - 1) : Tail(h)[j] = h[j + 1]
  BY <1>1, <1>2, HeadTailProperties
<1>4. /\ t \in Seq(Seq(Paths)) /\ DOMAIN t = 1..Len(r)
      /\ t[1] = Tail(h)
      /\ \A i \in 2..Len(r) : t[i] = r[i]
  <2>1. /\ Tail(r) \in Seq(Seq(Paths)) /\ Len(Tail(r)) = Len(r) - 1
        /\ \A i \in 1..(Len(r) - 1) : Tail(r)[i] = r[i + 1]
    BY <1>1, HeadTailProperties
  <2>2. <<Tail(h)>> \in Seq(Seq(Paths)) /\ Len(<<Tail(h)>>) = 1 /\ <<Tail(h)>>[1] = Tail(h)
    BY <1>3
  <2>3. /\ t \in Seq(Seq(Paths)) /\ Len(t) = 1 + (Len(r) - 1)
        /\ \A i \in 1..(1 + (Len(r) - 1)) :
             t[i] = IF i <= 1 THEN <<Tail(h)>>[i] ELSE Tail(r)[i - 1]
    BY <2>1, <2>2, ConcatProperties
  <2> HIDE DEF t
  <2>4. Len(r) \in Nat /\ Len(r) >= 1
    BY <1>1
  <2>5. Len(t) = Len(r) /\ t[1] = Tail(h)
    BY <2>2, <2>3, <2>4
  <2>6. ASSUME NEW i \in 2..Len(r) PROVE t[i] = r[i]
    <3>1. i - 1 \in 1..(Len(r) - 1) /\ (i - 1) + 1 = i /\ ~(i <= 1) /\ i \in 1..(1 + (Len(r) - 1))
      BY <2>4
    <3>2. t[i] = Tail(r)[i - 1]
      BY <2>3, <3>1
    <3>3. Tail(r)[i - 1] = r[(i - 1) + 1]
      BY <2>1, <3>1
    <3> QED
      BY <3>1, <3>2, <3>3
  <2> QED
    BY <2>3, <2>5, <2>6, LenProperties
<1> HIDE DEF h, t
<1>5. ASSUME NEW q \in InRest(t) PROVE q \in InRest(r)
  <2>1. PICK i \in 1..Len(r) : \E j \in DOMAIN t[i] : q = t[i][j]
    BY <1>4 DEF InRest
  <2>2. CASE i = 1
    <3>1. PICK j \in 1..(Len(h) - 1) : q = h[j + 1]
      <4>1. PICK j \in DOMAIN Tail(h) : q = Tail(h)[j]
        BY <1>4, <2>1, <2>2
      <4>2. j \in 1..(Len(h) - 1) /\ q = h[j + 1]
        BY <1>3, <4>1
      <4> QED
        BY <4>2
    <3>2. 1 \in DOMAIN r /\ j + 1 \in DOMAIN r[1] /\ q = r[1][j + 1]
      BY <1>1, <1>2, <3>1
    <3> QED
      BY <3>2, InRestIs
  <2>3. CASE i # 1
    <3>1. i \in DOMAIN r /\ t[i] = r[i]
      BY <1>1, <1>4, <2>1, <2>3
    <3> QED
      BY <2>1, <3>1, InRestIs
  <2> QED
    BY <2>2, <2>3
<1>6. ASSUME NEW q \in InRest(r), q # h[1] PROVE q \in InRest(t)
  <2>1. PICK i \in 1..Len(r) : \E j \in DOMAIN r[i] : q = r[i][j]
    BY <1>1 DEF InRest
  <2>2. CASE i = 1
    <3>1. PICK j \in 1..Len(h) : q = h[j]
      BY <1>1, <1>2, <2>1, <2>2
    <3>2. j - 1 \in 1..(Len(h) - 1) /\ Tail(h)[j - 1] = h[j]
      BY <1>2, <1>3, <1>6, <3>1
    <3>3. 1 \in DOMAIN t /\ j - 1 \in DOMAIN t[1] /\ t[1][j - 1] = q
      BY <1>1, <1>3, <1>4, <3>1, <3>2
    <3> QED
      BY <3>3, InRestIs
  <2>3. CASE i # 1
    <3>1. i \in DOMAIN t /\ t[i] = r[i]
      BY <1>1, <1>4, <2>1, <2>3
    <3> QED
      BY <2>1, <3>1, InRestIs
  <2> QED
    BY <2>2, <2>3
<1>7. h[1] \in InRest(r)
  BY <1>1, <1>2, InRestIs
<1> QED
  BY <1>1, <1>2, <1>4, <1>5, <1>6, <1>7 DEF h, t

(* A pattern all of whose files are loaded holds none (config.go:112-118). *)
LEMMA PatternDone ==
  ASSUME NEW r \in Seq(Seq(Paths)), r # << >>, Head(r) = << >>
  PROVE  Tail(r) \in Seq(Seq(Paths)) /\ InRest(Tail(r)) = InRest(r)
<1>1. /\ Len(r) \in Nat \ {0} /\ DOMAIN r = 1..Len(r) /\ r[1] = << >>
  BY EmptySeq
<1>2. /\ Tail(r) \in Seq(Seq(Paths)) /\ DOMAIN Tail(r) = 1..(Len(r) - 1)
      /\ \A i \in 1..(Len(r) - 1) : Tail(r)[i] = r[i + 1]
  BY <1>1, HeadTailProperties
<1>3. ASSUME NEW q \in InRest(Tail(r)) PROVE q \in InRest(r)
  <2>1. PICK i \in 1..(Len(r) - 1) : \E j \in DOMAIN r[i + 1] : q = r[i + 1][j]
    <3> DEFINE u == Tail(r)
    <3>0. q \in InRest(u)
      BY <1>3
    <3> HIDE DEF u
    <3>1. PICK i \in DOMAIN u : \E j \in DOMAIN u[i] : q = u[i][j]
      BY <3>0, InRestIs
    <3>2. i \in 1..(Len(r) - 1) /\ u[i] = r[i + 1]
      BY <1>2 DEF u
    <3> QED
      BY <3>1, <3>2
  <2>2. i + 1 \in DOMAIN r
    BY <1>1
  <2> QED
    BY <2>1, <2>2, InRestIs
<1>4. ASSUME NEW q \in InRest(r) PROVE q \in InRest(Tail(r))
  <2>1. PICK i \in 1..Len(r) : \E j \in DOMAIN r[i] : q = r[i][j]
    BY <1>1, <1>4 DEF InRest
  <2>2. i # 1
    BY <1>1, <2>1
  <2>3. i - 1 \in 1..(Len(r) - 1) /\ Tail(r)[i - 1] = r[i]
    BY <1>1, <1>2, <2>1, <2>2
  <2>4. i - 1 \in DOMAIN Tail(r) /\ \E j \in DOMAIN Tail(r)[i - 1] : q = Tail(r)[i - 1][j]
    BY <1>2, <2>1, <2>3
  <2> QED
    BY <2>4, InRestIs
<1> QED
  BY <1>2, <1>3, <1>4

LEMMA NothingInNoRest == InRest(<< >>) = {}
  BY DEF InRest

LEMMA NoCallsNoRest ==
  ASSUME NEW st, st = << >>
  PROVE  PendingIn(st) = {}
  BY DEF PendingIn

LEMMA NothingListed ==
  ASSUME NEW o, o = << >>, NEW S
  PROVE  /\ {o[i] : i \in DOMAIN o} = {}
         /\ DOMAIN o = {}
         /\ o \in Seq(S)
<1>1. {o[i] : i \in DOMAIN o} = {}
  OBVIOUS
<1>2. << >> \in Seq(S) /\ Len(<< >>) = 0
  BY EmptySeq
<1>3. DOMAIN o = {}
  BY <1>2
<1> QED
  BY <1>1, <1>2, <1>3

(* What is pending after a call has gone on, was made, or returned.        *)
LEMMA PendingSplit ==
  ASSUME NEW st \in Seq(FrameType), st # << >>
  PROVE  /\ st[Len(st)] \in FrameType
         /\ PendingIn(st) = Below(st) \cup InRest(st[Len(st)].rest)
<1>1. Len(st) \in Nat \ {0} /\ DOMAIN st = 1..Len(st)
  BY EmptySeq
<1>2. DOMAIN st = (1..(Len(st) - 1)) \cup {Len(st)}
  BY <1>1
<1> QED
  BY <1>1, <1>2 DEF PendingIn, Below

LEMMA TopReplaced ==
  ASSUME NEW st \in Seq(FrameType), st # << >>, NEW f \in FrameType
  PROVE  /\ [st EXCEPT ![Len(st)] = f] \in Seq(FrameType)
         /\ [st EXCEPT ![Len(st)] = f] # << >>
         /\ PendingIn([st EXCEPT ![Len(st)] = f]) = Below(st) \cup InRest(f.rest)
<1> DEFINE u == [st EXCEPT ![Len(st)] = f]
<1>1. Len(st) \in Nat \ {0} /\ DOMAIN st = 1..Len(st)
  BY EmptySeq
<1>2. /\ u \in Seq(FrameType) /\ Len(u) = Len(st)
      /\ \A j \in 1..Len(st) : u[j] = IF j = Len(st) THEN f ELSE st[j]
  BY <1>1, ExceptSeq
<1> HIDE DEF u
<1>3. DOMAIN u = (1..(Len(st) - 1)) \cup {Len(st)}
  <2>1. DOMAIN u = 1..Len(st)
    BY <1>2
  <2> QED
    BY <1>1, <2>1
<1>4. u[Len(st)] = f /\ \A i \in 1..(Len(st) - 1) : u[i] = st[i]
  <2>1. /\ Len(st) \in 1..Len(st)
        /\ \A i \in 1..(Len(st) - 1) : i \in 1..Len(st) /\ i # Len(st)
    <3> DEFINE n == Len(st)
    <3>1. n \in Nat \ {0}
      BY <1>1
    <3> HIDE DEF n
    <3>2. n \in 1..n /\ \A i \in 1..(n - 1) : i \in 1..n /\ i # n
      BY <3>1
    <3> QED
      BY <3>2 DEF n
  <2> QED
    BY <1>2, <2>1
<1>5. u # << >>
  BY <1>1, <1>2
<1>6. PendingIn(u) = Below(st) \cup InRest(f.rest)
  BY <1>3, <1>4 DEF PendingIn, Below
<1> QED
  BY <1>2, <1>5, <1>6 DEF u

LEMMA CallPushed ==
  ASSUME NEW st \in Seq(FrameType), NEW f \in FrameType
  PROVE  /\ Append(st, f) \in Seq(FrameType) /\ Append(st, f) # << >>
         /\ PendingIn(Append(st, f)) = PendingIn(st) \cup InRest(f.rest)
<1>1. Len(st) \in Nat /\ DOMAIN st = 1..Len(st)
  OBVIOUS
<1>2. /\ Append(st, f) \in Seq(FrameType) /\ Append(st, f) # << >>
      /\ Len(Append(st, f)) = Len(st) + 1
      /\ \A i \in 1..Len(st) : Append(st, f)[i] = st[i]
      /\ Append(st, f)[Len(st) + 1] = f
  BY AppendProperties
<1>3. DOMAIN Append(st, f) = (DOMAIN st) \cup {Len(st) + 1}
  BY <1>1, <1>2
<1> QED
  BY <1>1, <1>2, <1>3 DEF PendingIn

LEMMA CallReturned ==
  ASSUME NEW st \in Seq(FrameType), Len(st) > 1
  PROVE  LET u == SubSeq([st EXCEPT ![Len(st) - 1].mounts = @ \o st[Len(st)].mounts],
                         1, Len(st) - 1)
         IN /\ u \in Seq(FrameType) /\ u # << >>
            /\ PendingIn(u) = Below(st)
<1> DEFINE n == Len(st)
           f == [st[n - 1] EXCEPT !.mounts = @ \o st[n].mounts]
           v == [st EXCEPT ![n - 1] = f]
           u == SubSeq(v, 1, n - 1)
<1>1. n \in Nat /\ n > 1 /\ DOMAIN st = 1..n /\ n - 1 \in 1..n
  OBVIOUS
<1>2. st[n - 1] \in FrameType /\ st[n] \in FrameType
  BY <1>1
<1>3. f \in FrameType /\ f.rest = st[n - 1].rest
  <2>1. st[n - 1].mounts \o st[n].mounts \in Seq(ValidEntry)
    BY <1>2, ConcatProperties DEF FrameType
  <2> QED
    BY <1>2, <2>1 DEF FrameType
<1>4. /\ v \in Seq(FrameType) /\ Len(v) = n
      /\ \A j \in 1..n : v[j] = IF j = n - 1 THEN f ELSE st[j]
  BY <1>1, <1>3, ExceptSeq
<1>5. /\ u \in Seq(FrameType) /\ Len(u) = n - 1
      /\ \A i \in 1..(n - 1) : u[i] = v[i]
  <2> HIDE DEF v
  <2>1. \A i \in 1..(n - 1) : v[i] \in FrameType
    BY <1>1, <1>4
  <2>2. n - 1 \in Int /\ 1 \in Int /\ 1 <= n - 1
    BY <1>1
  <2> HIDE DEF n
  <2>3. /\ u \in Seq(FrameType)
        /\ Len(u) = IF 1 <= n - 1 THEN (n - 1) - 1 + 1 ELSE 0
        /\ \A i \in 1..((n - 1) - 1 + 1) : u[i] = v[1 + i - 1]
    BY <2>1, <2>2, SubSeqProperties
  <2> QED
    BY <2>2, <2>3
<1>6. u # << >> /\ DOMAIN u = 1..(n - 1)
  <2> HIDE DEF u
  <2> QED
    BY <1>1, <1>5
<1>7. \A i \in 1..(n - 1) : u[i].rest = st[i].rest
  <2> HIDE DEF f, v, u
  <2>1. ASSUME NEW i \in 1..(n - 1) PROVE u[i].rest = st[i].rest
    <3>1. i \in 1..n /\ u[i] = v[i]
      BY <1>1, <1>5
    <3> QED
      BY <1>3, <1>4, <3>1
  <2> QED
    BY <2>1
<1>8. PendingIn(u) = Below(st)
  <2> HIDE DEF u
  <2> QED
    BY <1>6, <1>7 DEF PendingIn, Below
<1>9. u = SubSeq([st EXCEPT ![n - 1].mounts = @ \o st[n].mounts], 1, n - 1)
  OBVIOUS
<1> QED
  BY <1>5, <1>6, <1>8, <1>9

-----------------------------------------------------------------------------
(* The types, but for what doLoad returns.                                 *)

Typed ==
  /\ files \in [Paths -> Content \cup {Unread}]
  /\ opened \in Seq(Paths)
  /\ stack \in Seq(FrameType)
  /\ status \in {"loading", "ok", "failed"}
  /\ status = "loading" <=> stack # << >>
  /\ \A p \in Paths : files[p] # Unread <=> p \in Visited

LEMMA TopIs ==
  ASSUME Typed, status = "loading"
  PROVE  /\ stack # << >> /\ stack \in Seq(FrameType)
         /\ Top \in FrameType
         /\ Pending = Below(stack) \cup InRest(Top.rest)
  BY PendingSplit DEF Typed, Top, Pending

LEMMA FileSkipped ==
  ASSUME Typed, NEW p, Calls(p)
  PROVE  /\ p \in Paths
         /\ WithTop(SkipFile) \in Seq(FrameType) /\ WithTop(SkipFile) # << >>
         /\ Pending = PendingIn(WithTop(SkipFile)) \cup {p}
<1>1. /\ stack # << >> /\ stack \in Seq(FrameType)
      /\ Top \in FrameType
      /\ Pending = Below(stack) \cup InRest(Top.rest)
  BY TopIs DEF Calls
<1>2. Top.rest \in Seq(Seq(Paths)) /\ Top.path \in Paths /\ Top.mounts \in Seq(ValidEntry)
  BY <1>1 DEF FrameType
<1>3. /\ p \in Paths
      /\ <<Tail(Head(Top.rest))>> \o Tail(Top.rest) \in Seq(Seq(Paths))
      /\ InRest(Top.rest) = InRest(<<Tail(Head(Top.rest))>> \o Tail(Top.rest)) \cup {p}
  BY <1>2, RestSkipped DEF Calls
<1>4. /\ SkipFile \in FrameType
      /\ SkipFile.rest = <<Tail(Head(Top.rest))>> \o Tail(Top.rest)
  BY <1>2, <1>3 DEF SkipFile, Frame, FrameType
<1>5. /\ WithTop(SkipFile) \in Seq(FrameType) /\ WithTop(SkipFile) # << >>
      /\ PendingIn(WithTop(SkipFile)) = Below(stack) \cup InRest(SkipFile.rest)
  BY <1>1, <1>4, TopReplaced DEF WithTop
<1> QED
  BY <1>1, <1>3, <1>4, <1>5

LEMMA PatternSkipped ==
  ASSUME Typed, NextPattern
  PROVE  /\ stack' \in Seq(FrameType) /\ stack' # << >>
         /\ Pending' = Pending
<1> DEFINE f == [Top EXCEPT !.rest = Tail(@)]
<1>1. /\ stack # << >> /\ stack \in Seq(FrameType)
      /\ Top \in FrameType
      /\ Pending = Below(stack) \cup InRest(Top.rest)
  BY TopIs DEF NextPattern
<1>2. Top.rest \in Seq(Seq(Paths))
  BY <1>1 DEF FrameType
<1>3. Tail(Top.rest) \in Seq(Seq(Paths)) /\ InRest(Tail(Top.rest)) = InRest(Top.rest)
  BY <1>2, PatternDone DEF NextPattern
<1>4. f \in FrameType /\ f.rest = Tail(Top.rest)
  BY <1>1, <1>3 DEF FrameType
<1>5. stack' = [stack EXCEPT ![Len(stack)] = f]
  BY DEF NextPattern, WithTop
<1> HIDE DEF f
<1>6. /\ stack' \in Seq(FrameType) /\ stack' # << >>
      /\ PendingIn(stack') = Below(stack) \cup InRest(f.rest)
  BY <1>1, <1>4, <1>5, TopReplaced
<1> QED
  BY <1>1, <1>3, <1>4, <1>6 DEF Pending

LEMMA ReturnGoesOn ==
  ASSUME Typed, Return
  PROVE  /\ stack' \in Seq(FrameType) /\ stack' # << >>
         /\ Pending' = Pending
<1>1. /\ stack \in Seq(FrameType) /\ Len(stack) > 1
      /\ Pending = Below(stack) \cup InRest(Top.rest)
  BY TopIs DEF Return, Returning
<1>2. /\ stack' \in Seq(FrameType) /\ stack' # << >>
      /\ PendingIn(stack') = Below(stack)
  BY <1>1, CallReturned DEF Return, Top
<1>3. InRest(Top.rest) = {}
  BY NothingInNoRest DEF Return, Returning
<1> QED
  BY <1>1, <1>2, <1>3 DEF Pending

LEMMA FileOpened ==
  ASSUME Typed, NEW p \in Paths, opened' = Append(opened, p)
  PROVE  opened' \in Seq(Paths) /\ Visited' = Visited \cup {p}
<1>1. Len(opened) \in Nat /\ DOMAIN opened = 1..Len(opened)
  BY DEF Typed
<1>2. /\ opened' \in Seq(Paths) /\ Len(opened') = Len(opened) + 1
      /\ \A i \in 1..Len(opened) : opened'[i] = opened[i]
      /\ opened'[Len(opened) + 1] = p
  BY AppendProperties DEF Typed
<1>3. DOMAIN opened' = (DOMAIN opened) \cup {Len(opened) + 1}
  BY <1>1, <1>2
<1> QED
  BY <1>1, <1>2, <1>3 DEF Visited

LEMMA FileRead ==
  ASSUME Typed, NEW p \in Paths, NEW c \in Files[p], Calls(p), p \notin Visited,
         files' = [files EXCEPT ![p] = c], opened' = Append(opened, p)
  PROVE  /\ files' \in [Paths -> Content \cup {Unread}]
         /\ c \in Content /\ files'[p] = c
         /\ \A q \in Paths : files'[q] # Unread <=> q \in Visited'
         /\ \A q \in Visited : files'[q] = files[q]
<1>1. c \in Content /\ c # Unread
  BY FilesAreContents, UnreadIsNone
<1>2. Visited' = Visited \cup {p}
  BY FileOpened
<1> QED
  BY <1>1, <1>2 DEF Typed

LEMMA CallMade ==
  ASSUME Typed, NEW p \in Paths, NEW c \in Files[p], Open(p, c)
  PROVE  /\ stack' \in Seq(FrameType) /\ stack' # << >>
         /\ Pending \cup InRest(c.include) = Pending' \cup {p}
         /\ InRest(c.include) \subseteq Pending'
<1> DEFINE f == Frame(p, c.include, c.mounts)
<1>1. c \in Content /\ Usable(c)
  BY FilesAreContents DEF Open
<1>2. c.mounts \in Seq(ValidEntry)
  <2>1. c.mounts \in Seq(Entry) /\ \A i \in DOMAIN c.mounts : StructValid(c.mounts[i])
    BY <1>1 DEF Content, Usable
  <2>2. \A i \in 1..Len(c.mounts) : c.mounts[i] \in ValidEntry
    BY <2>1 DEF ValidEntry
  <2> QED
    BY <2>1, <2>2
<1>3. f \in FrameType /\ f.rest = c.include
  BY <1>1, <1>2 DEF Frame, FrameType, Content
<1>4. /\ WithTop(SkipFile) \in Seq(FrameType)
      /\ Pending = PendingIn(WithTop(SkipFile)) \cup {p}
  BY FileSkipped DEF Open
<1>5. stack' = Append(WithTop(SkipFile), f)
  BY DEF Open
<1> HIDE DEF f
<1>6. /\ stack' \in Seq(FrameType) /\ stack' # << >>
      /\ PendingIn(stack') = PendingIn(WithTop(SkipFile)) \cup InRest(f.rest)
  BY <1>3, <1>4, <1>5, CallPushed
<1> QED
  BY <1>3, <1>4, <1>6 DEF Pending

LEMMA InitTyped == Init => Typed /\ Pending = {Root} /\ Visited = {}
<1> SUFFICES ASSUME Init PROVE Typed /\ Pending = {Root} /\ Visited = {}
  OBVIOUS
<1> DEFINE f == Frame(Root, << <<Root>> >>, << >>)
<1>1. f \in FrameType
  BY RootIsPath DEF Frame, FrameType
<1>2. stack = <<f>> /\ f.rest = << <<Root>> >>
  BY DEF Init, Frame
<1>3. InRest(f.rest) = {Root}
  BY <1>2 DEF InRest
<1> HIDE DEF f
<1>4. stack \in Seq(FrameType) /\ stack # << >>
  BY <1>1, <1>2
<1>5. Pending = {Root}
  <2>1. Len(stack) = 1 /\ stack[1] = f
    BY <1>2
  <2>2. Pending = Below(stack) \cup InRest(f.rest)
    BY <1>4, <2>1, PendingSplit DEF Pending
  <2>3. Below(stack) = {}
    BY <2>1 DEF Below
  <2> QED
    BY <1>3, <2>2, <2>3
<1>6. Visited = {}
  <2>1. opened = << >>
    BY DEF Init
  <2> QED
    BY <2>1, NothingListed DEF Visited
<1>7. files \in [Paths -> Content \cup {Unread}] /\ \A p \in Paths : files[p] = Unread
  BY DEF Init
<1>8. opened \in Seq(Paths) /\ status = "loading"
  BY NothingListed DEF Init
<1> QED
  BY <1>4, <1>5, <1>6, <1>7, <1>8 DEF Typed

LEMMA TypedStep == Typed /\ [Next]_vars => Typed'
<1> SUFFICES ASSUME Typed, [Next]_vars PROVE Typed'
  OBVIOUS
<1>1. CASE UNCHANGED vars
  BY <1>1 DEF Typed, Visited, vars
<1>2. CASE Revisit
  <2>1. PICK p \in Visited : Calls(p)
    BY <1>2 DEF Revisit
  <2>2. stack' \in Seq(FrameType) /\ stack' # << >>
    BY <1>2, <2>1, FileSkipped DEF Revisit
  <2>3. status = "loading"
    BY <2>1 DEF Calls
  <2> QED
    BY <1>2, <2>2, <2>3 DEF Revisit, Typed, Visited
<1>3. CASE NextPattern
  <2>1. stack' \in Seq(FrameType) /\ stack' # << >>
    BY <1>3, PatternSkipped
  <2> QED
    BY <1>3, <2>1 DEF NextPattern, Typed, Visited
<1>4. ASSUME NEW p \in Paths, NEW c \in Files[p], Open(p, c) PROVE Typed'
  <2>1. stack' \in Seq(FrameType) /\ stack' # << >>
    BY <1>4, CallMade
  <2>2. /\ files' \in [Paths -> Content \cup {Unread}]
        /\ \A q \in Paths : files'[q] # Unread <=> q \in Visited'
    BY <1>4, FileRead DEF Open
  <2>3. opened' \in Seq(Paths)
    BY <1>4, FileOpened DEF Open
  <2>4. status = "loading" /\ status' = "loading"
    BY <1>4 DEF Open, Calls
  <2> QED
    BY <2>1, <2>2, <2>3, <2>4 DEF Typed
<1>5. ASSUME NEW p \in Paths, NEW c \in Files[p], OpenFails(p, c) PROVE Typed'
  <2>1. /\ files' \in [Paths -> Content \cup {Unread}]
        /\ \A q \in Paths : files'[q] # Unread <=> q \in Visited'
    BY <1>5, FileRead DEF OpenFails
  <2>2. opened' \in Seq(Paths)
    BY <1>5, FileOpened DEF OpenFails
  <2>3. status' = "failed" /\ stack' = << >>
    BY <1>5 DEF OpenFails, GiveUp
  <2> QED
    BY <2>1, <2>2, <2>3 DEF Typed
<1>6. CASE Return
  <2>1. stack' \in Seq(FrameType) /\ stack' # << >>
    BY <1>6, ReturnGoesOn
  <2> QED
    BY <1>6, <2>1 DEF Return, Returning, Typed, Visited
<1>7. CASE ReturnFails
  BY <1>7 DEF ReturnFails, GiveUp, Typed, Visited
<1>8. CASE Finish
  <2>1. /\ UNCHANGED <<files, opened>>
        /\ stack' = << >> /\ status' = "ok"
    BY <1>8 DEF Finish
  <2>2. stack' \in Seq(FrameType)
    BY <2>1
  <2> QED
    BY <2>1, <2>2 DEF Typed, Visited
<1>9. CASE FinishFails
  BY <1>9 DEF FinishFails, GiveUp, Typed, Visited
<1> QED
  BY <1>1, <1>2, <1>3, <1>4, <1>5, <1>6, <1>7, <1>8, <1>9 DEF Next, Load

-----------------------------------------------------------------------------
(* Which files are read.                                                   *)

(* What is read is reached from the root; what a file read so far includes *)
(* is read or pending, so nothing is left when nothing is pending.         *)
Reached ==
  status # "failed" =>
    /\ Root \in Visited \cup Pending
    /\ \A p \in Visited : Includes(files[p]) \subseteq Visited \cup Pending
    /\ Visited \cup Pending \subseteq Reachable

LEMMA ReachableGrows ==
  ASSUME \A p \in Paths : files[p] # Unread => files'[p] = files[p]
  PROVE  Reachable \subseteq Reachable'
  BY DEF Reachable, ClosedUnderIncludes

LEMMA ReachedKept ==
  ASSUME Reached, status # "failed",
         UNCHANGED <<files, opened>>, Visited \cup Pending' = Visited \cup Pending
  PROVE  Reached'
<1>1. Visited' = Visited
  BY DEF Visited
<1>2. Reachable \subseteq Reachable'
  BY ReachableGrows
<1> QED
  BY <1>1, <1>2 DEF Reached

LEMMA ReachedOpening ==
  ASSUME Typed, Reached, NEW p \in Paths, NEW c \in Files[p], Open(p, c)
  PROVE  Reached'
<1>1. status = "loading" /\ p \notin Visited /\ Calls(p)
  BY DEF Open, Calls
<1>2. /\ Pending \cup InRest(c.include) = Pending' \cup {p}
      /\ InRest(c.include) \subseteq Pending'
  BY CallMade
<1>3. Visited' = Visited \cup {p}
  BY FileOpened DEF Open
<1>4. files'[p] = c /\ \A q \in Visited : files'[q] = files[q]
  BY <1>1, FileRead DEF Open
<1>5. Includes(c) = InRest(c.include)
  BY DEF Includes, InRest
<1>6. p \in Pending
  BY <1>1, FileSkipped
<1>7. Visited \cup Pending \subseteq Visited' \cup Pending'
  BY <1>2, <1>3
<1>8. Reachable \subseteq Reachable'
  <2>1. \A q \in Paths : files[q] # Unread => files'[q] = files[q]
    BY <1>4 DEF Typed
  <2> QED
    BY <2>1, ReachableGrows
<1>9. c # Unread /\ c \in Content
  BY FilesAreContents, UnreadIsNone
<1>10. InRest(c.include) \subseteq Reachable'
  <2>1. ASSUME NEW q \in InRest(c.include),
               NEW S \in SUBSET Paths, Root \in S, ClosedUnderIncludes(S)'
        PROVE  q \in S
    <3>1. p \in Reachable'
      BY <1>1, <1>6, <1>8 DEF Reached
    <3>2. p \in S
      BY <2>1, <3>1 DEF Reachable
    <3>3. Includes(files'[p]) \subseteq S
      BY <1>4, <1>9, <2>1, <3>2 DEF ClosedUnderIncludes
    <3> QED
      BY <1>4, <1>5, <3>3
  <2>2. InRest(c.include) \subseteq Paths
    <3>1. c.include \in Seq(Seq(Paths))
      BY <1>9 DEF Content
    <3> QED
      BY <3>1 DEF InRest
  <2> QED
    BY <2>1, <2>2 DEF Reachable
<1>11. Root \in Visited' \cup Pending'
  BY <1>1, <1>7 DEF Reached
<1>12. ASSUME NEW q \in Visited' PROVE Includes(files'[q]) \subseteq Visited' \cup Pending'
  <2>1. CASE q = p
    BY <1>2, <1>4, <1>5, <2>1
  <2>2. CASE q # p
    BY <1>1, <1>3, <1>4, <1>7, <1>12, <2>2 DEF Reached
  <2> QED
    BY <2>1, <2>2
<1>13. Visited' \cup Pending' \subseteq Reachable'
  BY <1>1, <1>2, <1>3, <1>6, <1>8, <1>10 DEF Reached
<1> QED
  BY <1>11, <1>12, <1>13 DEF Reached

LEMMA ReachedStep == Typed /\ Reached /\ [Next]_vars => Reached'
<1> SUFFICES ASSUME Typed, Reached, [Next]_vars PROVE Reached'
  OBVIOUS
<1>1. CASE UNCHANGED vars
  BY <1>1 DEF Reached, Visited, Pending, PendingIn, Reachable, ClosedUnderIncludes, vars
<1>2. CASE Revisit
  <2>1. PICK p \in Visited : Calls(p)
    BY <1>2 DEF Revisit
  <2>2. Pending = Pending' \cup {p}
    BY <1>2, <2>1, FileSkipped DEF Revisit, Pending
  <2>3. status = "loading"
    BY <2>1 DEF Calls
  <2> QED
    BY <1>2, <2>1, <2>2, <2>3, ReachedKept DEF Revisit
<1>3. CASE NextPattern
  BY <1>3, PatternSkipped, ReachedKept DEF NextPattern
<1>4. ASSUME NEW p \in Paths, NEW c \in Files[p], Open(p, c) PROVE Reached'
  BY <1>4, ReachedOpening
<1>5. ASSUME NEW p \in Paths, NEW c \in Files[p], OpenFails(p, c) PROVE Reached'
  BY <1>5 DEF OpenFails, GiveUp, Reached
<1>6. CASE Return
  BY <1>6, ReturnGoesOn, ReachedKept DEF Return, Returning
<1>7. CASE ReturnFails
  BY <1>7 DEF ReturnFails, GiveUp, Reached
<1>8. CASE Finish
  <2>1. Pending = {}
    <3>1. Pending = Below(stack) \cup InRest(Top.rest) /\ Len(stack) = 1 /\ Top.rest = << >>
      BY <1>8, TopIs DEF Finish, Done
    <3>2. Below(stack) = {}
      BY <3>1 DEF Below
    <3> QED
      BY <3>1, <3>2, NothingInNoRest
  <2>2. Pending' = {}
    <3>1. stack' = << >>
      BY <1>8 DEF Finish
    <3> QED
      BY <3>1, NoCallsNoRest DEF Pending
  <2> QED
    BY <1>8, <2>1, <2>2, ReachedKept DEF Finish, Done
<1>9. CASE FinishFails
  BY <1>9 DEF FinishFails, GiveUp, Reached
<1> QED
  BY <1>1, <1>2, <1>3, <1>4, <1>5, <1>6, <1>7, <1>8, <1>9 DEF Next, Load

LEMMA Invariants == Spec => [](Typed /\ Reached)
<1>1. Init => Typed /\ Reached
  <2> SUFFICES ASSUME Init PROVE Typed /\ Reached
    OBVIOUS
  <2>1. Typed /\ Pending = {Root} /\ Visited = {}
    BY InitTyped
  <2>2. Root \in Reachable
    BY RootIsPath DEF Reachable
  <2> QED
    BY <2>1, <2>2 DEF Reached
<1>2. Typed /\ Reached /\ [Next]_vars => (Typed /\ Reached)'
  BY TypedStep, ReachedStep
<1> QED
  BY <1>1, <1>2, PTL DEF Spec

(* A load that succeeds has read exactly the files that can be reached     *)
(* from the root, however they include each other (config.go:87-130).      *)
THEOREM ReachesAllCorrect == Spec => [](status = "ok" => Visited = Reachable)
<1>1. Typed /\ Reached => (status = "ok" => Visited = Reachable)
  <2> SUFFICES ASSUME Typed, Reached, status = "ok" PROVE Visited = Reachable
    OBVIOUS
  <2>1. Pending = {}
    BY NoCallsNoRest DEF Typed, Pending
  <2>2. Visited \in SUBSET Paths
    BY DEF Visited, Typed
  <2>3. Root \in Visited /\ ClosedUnderIncludes(Visited)
    BY <2>1 DEF Reached, ClosedUnderIncludes
  <2>4. Reachable \subseteq Visited
    BY <2>2, <2>3 DEF Reachable
  <2> QED
    BY <2>4 DEF Reached
<1> QED
  BY <1>1, Invariants, PTL

-----------------------------------------------------------------------------
(* What a load hands out.                                                  *)

LEMMA EntryResolved ==
  ASSUME NEW e \in ValidEntry, ValidateDriverConfig(e), Resolves(e.dir)
  PROVE  LET f == [e EXCEPT !.dir = Resolve[@]]
         IN /\ f \in Entry
            /\ Mountable(f) /\ CredentialsReach(f) /\ SecretsStayHome(f)
            /\ Resolve[f.dir] = f.dir
<1> DEFINE f == [e EXCEPT !.dir = Resolve[@]]
<1>1. e \in Entry /\ StructValid(e) /\ Given(e.dir) /\ e.dir \in Text
  BY DEF ValidEntry, StructValid, Entry
<1>2. /\ Resolve[e.dir] \in Text /\ Given(Resolve[e.dir])
      /\ Resolve[Resolve[e.dir]] = Resolve[e.dir]
  BY <1>1, ResolveIsFinal DEF Resolves
<1>3. /\ f \in Entry /\ f.dir = Resolve[e.dir]
      /\ f.name = e.name /\ f.type = e.type /\ f.smb = e.smb /\ f.sshfs = e.sshfs
      /\ f.webdav = e.webdav /\ f.s3 = e.s3 /\ f.tunnel = e.tunnel
  BY <1>1, <1>2 DEF Entry
<1> HIDE DEF f
<1>4. StructValid(f)
  BY <1>1, <1>2, <1>3 DEF StructValid
<1>5. ValidateDriverConfig(f)
  BY <1>3 DEF ValidateDriverConfig
<1>6. Accepted(f)
  BY <1>4, <1>5 DEF Accepted
<1>7. Mountable(f) /\ CredentialsReach(f) /\ SecretsStayHome(f)
  BY <1>3, <1>6, AcceptedIsMountable, AcceptedCredentialsReach, NoSecretsAsked
<1>8. Resolve[f.dir] = f.dir
  BY <1>2, <1>3
<1> QED
  BY <1>3, <1>7, <1>8 DEF f

Settled == mounts \in Seq(Entry) /\ socket \in Text /\ LoadedUsable

LEMMA SettledFinish ==
  ASSUME Typed, Reached, Finish
  PROVE  Settled'
<1> DEFINE c  == files[Root]
           ms == Top.mounts
           so == Sorted(ms, c.by)
<1>1. status = "loading" /\ Top.rest = << >> /\ Len(stack) = 1 /\ LoadValid(c, ms)
  BY DEF Finish, Done
<1>2. Top \in FrameType /\ Pending = Below(stack) \cup InRest(Top.rest)
  BY <1>1, TopIs
<1>3. c \in Content
  <2>1. Below(stack) = {}
    BY <1>1 DEF Below
  <2>2. Root \in Visited
    BY <1>1, <1>2, <2>1, NothingInNoRest DEF Reached
  <2> QED
    BY <2>2, RootIsPath DEF Typed
<1>4. /\ c.by \in Seq(Field) /\ c.socket \in Text
  BY <1>3 DEF Content
<1>5. ms \in Seq(ValidEntry) /\ ms \in Seq(Entry)
  <2>1. ms \in Seq(ValidEntry)
    BY <1>2 DEF FrameType
  <2> HIDE DEF ms
  <2>2. \A i \in 1..Len(ms) : ms[i] \in Entry
    BY <2>1 DEF ValidEntry
  <2> QED
    BY <2>1, <2>2
<1>6. /\ Resolves(c.socket)
      /\ \A i \in DOMAIN ms : ValidateDriverConfig(ms[i]) /\ Resolves(ms[i].dir)
  BY <1>1 DEF LoadValid
<1>7. mounts' = Normalize(so) /\ socket' = IF Given(c.socket) THEN Resolve[c.socket] ELSE ""
  BY DEF Finish
<1>8. socket' \in Text
  BY <1>4, <1>6, <1>7, ResolveIsFinal, EmptyIsText DEF Resolves
<1> HIDE DEF c, ms
<1>9. /\ so \in Seq(Entry) /\ Len(so) = Len(ms)
      /\ \A k \in 1..Len(ms) : \E i \in 1..Len(ms) : so[k] = ms[i]
  BY <1>4, <1>5, SortedHoldsThem
<1> HIDE DEF so
<1>10. ASSUME NEW k \in 1..Len(ms)
       PROVE  LET f == [so[k] EXCEPT !.dir = Resolve[@]]
              IN /\ f \in Entry
                 /\ Mountable(f) /\ CredentialsReach(f) /\ SecretsStayHome(f)
                 /\ Resolve[f.dir] = f.dir
  <2>1. PICK i \in 1..Len(ms) : so[k] = ms[i]
    BY <1>9
  <2>2. ms[i] \in ValidEntry /\ ValidateDriverConfig(ms[i]) /\ Resolves(ms[i].dir)
    BY <1>5, <1>6
  <2> QED
    BY <2>1, <2>2, EntryResolved
<1>11. DOMAIN so = 1..Len(ms) /\ Len(ms) \in Nat
  BY <1>5, <1>9
<1>12. mounts' = [k \in 1..Len(ms) |-> [so[k] EXCEPT !.dir = Resolve[@]]]
  BY <1>7, <1>11 DEF Normalize
<1>13. /\ \A k \in 1..Len(ms) : /\ mounts'[k] \in Entry
                                /\ Mountable(mounts'[k]) /\ CredentialsReach(mounts'[k])
                                /\ SecretsStayHome(mounts'[k])
                                /\ Resolve[mounts'[k].dir] = mounts'[k].dir
       /\ DOMAIN mounts' = 1..Len(ms)
  BY <1>10, <1>12
<1>14. mounts' \in Seq(Entry)
  <2> DEFINE n == Len(ms)
             g == [k \in 1..n |-> [so[k] EXCEPT !.dir = Resolve[@]]]
  <2>1. n \in Nat /\ \A k \in 1..n : g[k] \in Entry
    BY <1>10, <1>11
  <2>2. g = [k \in 1..n |-> g[k]]
    OBVIOUS
  <2> HIDE DEF n, g
  <2>3. g \in Seq(Entry)
    BY <2>1, <2>2
  <2> QED
    BY <1>12, <2>3 DEF n, g
<1> QED
  BY <1>8, <1>13, <1>14 DEF Settled, LoadedUsable

LEMMA SettledStep == Typed /\ Reached /\ Settled /\ [Next]_vars => Settled'
<1> SUFFICES ASSUME Typed, Reached, Settled, [Next]_vars PROVE Settled'
  OBVIOUS
<1>1. CASE Finish
  BY <1>1, SettledFinish
<1>2. CASE UNCHANGED <<mounts, socket>>
  BY <1>2 DEF Settled, LoadedUsable
<1>3. Finish \/ UNCHANGED <<mounts, socket>>
  BY DEF Next, Load, Revisit, NextPattern, Open, OpenFails, Return, ReturnFails,
         FinishFails, GiveUp, vars
<1> QED
  BY <1>1, <1>2, <1>3

LEMMA AllInvariants == Spec => [](Typed /\ Reached /\ Settled)
<1>1. Init => Settled
  <2> SUFFICES ASSUME Init PROVE Settled
    OBVIOUS
  <2>1. mounts = << >> /\ socket = ""
    BY DEF Init
  <2>2. mounts \in Seq(Entry) /\ socket \in Text
    BY <2>1, EmptyIsText, NothingListed
  <2>3. DOMAIN mounts = {}
    BY <2>1, NothingListed
  <2> QED
    BY <2>2, <2>3 DEF Settled, LoadedUsable
<1>2. Typed /\ Reached /\ Settled /\ [Next]_vars => Settled'
  BY SettledStep
<1> QED
  BY <1>1, <1>2, Invariants, PTL DEF Spec

(* The types hold, whatever files there are.                               *)
THEOREM TypeCorrect == Spec => []TypeOK
<1>1. Typed /\ Settled => TypeOK
  <2> SUFFICES ASSUME Typed, Settled PROVE TypeOK
    OBVIOUS
  <2>1. ASSUME NEW i \in DOMAIN stack PROVE IsFrame(stack[i])
    <3>1. stack[i] \in FrameType
      BY DEF Typed
    <3>2. stack[i].mounts \in Seq(ValidEntry)
      BY <3>1 DEF FrameType
    <3>3. stack[i].mounts \in Seq(Entry)
      <4> DEFINE ms == stack[i].mounts
      <4>1. ms \in Seq(ValidEntry)
        BY <3>2
      <4> HIDE DEF ms
      <4>2. \A k \in 1..Len(ms) : ms[k] \in Entry
        BY <4>1 DEF ValidEntry
      <4>3. ms \in Seq(Entry)
        BY <4>1, <4>2
      <4> QED
        BY <4>3 DEF ms
    <3> QED
      BY <3>1, <3>3 DEF FrameType, IsFrame
  <2> QED
    BY <2>1 DEF Typed, Settled, TypeOK
<1> QED
  BY <1>1, AllInvariants, PTL

(* Every entry a load hands out is one that its driver or the daemon takes, *)
(* with the configured credentials and an absolute directory               *)
(* (config.go:226-266, types.go:148-192).                                  *)
THEOREM UsableCorrect == Spec => []LoadedUsable
<1>1. Settled => LoadedUsable
  BY DEF Settled
<1> QED
  BY <1>1, AllInvariants, PTL

-----------------------------------------------------------------------------
(* Each file once, and what the calls hold.                                *)

(* Each file is opened once.                                               *)
OpenedOnce == \A i, j \in DOMAIN opened : opened[i] = opened[j] => i = j

LEMMA OpenedOnceStep == Typed /\ OpenedOnce /\ [Next]_vars => OpenedOnce'
<1> SUFFICES ASSUME Typed, OpenedOnce, [Next]_vars PROVE OpenedOnce'
  OBVIOUS
<1>1. ASSUME NEW p \in Paths, p \notin Visited, opened' = Append(opened, p)
      PROVE  OpenedOnce'
  <2>1. Len(opened) \in Nat /\ DOMAIN opened = 1..Len(opened)
    BY DEF Typed
  <2>2. /\ opened' \in Seq(Paths) /\ Len(opened') = Len(opened) + 1
        /\ \A i \in 1..Len(opened) : opened'[i] = opened[i]
        /\ opened'[Len(opened) + 1] = p
    BY <1>1, AppendProperties DEF Typed
  <2>3. DOMAIN opened' = (DOMAIN opened) \cup {Len(opened) + 1}
    BY <2>1, <2>2
  <2>4. \A i \in DOMAIN opened : opened'[i] = opened[i] /\ opened[i] # p
    BY <1>1, <2>1, <2>2 DEF Visited
  <2> QED
    BY <2>2, <2>3, <2>4 DEF OpenedOnce
<1>2. CASE UNCHANGED opened
  BY <1>2 DEF OpenedOnce
<1>3. UNCHANGED opened \/ \E p \in Paths : p \notin Visited /\ opened' = Append(opened, p)
  BY DEF Next, Load, Revisit, NextPattern, Open, OpenFails, Return, ReturnFails,
         Finish, FinishFails, GiveUp, vars
<1> QED
  BY <1>1, <1>2, <1>3

-----------------------------------------------------------------------------
(* The entries that the calls hold.                                        *)

LEMMA ItemIs ==
  ASSUME NEW st, NEW x
  PROVE  x \in Items(st) <=> \E k \in DOMAIN st : \E i \in DOMAIN st[k].mounts : x = <<k, i>>
  BY DEF Items

LEMMA FrameHas ==
  ASSUME NEW f \in FrameType
  PROVE  f.mounts \in Seq(ValidEntry) /\ DOMAIN f.mounts = 1..Len(f.mounts)
<1>1. f.mounts \in Seq(ValidEntry)
  BY DEF FrameType
<1> QED
  BY <1>1

LEMMA ItemsAreFinite ==
  ASSUME NEW st \in Seq(FrameType)
  PROVE  IsFiniteSet(Items(st)) /\ Items(st) \subseteq Int \X Int
<1> DEFINE n    == Len(st)
           g(k) == {<<k, i>> : i \in DOMAIN st[k].mounts}
           G    == [k \in 1..n |-> g(k)]
           R    == {g(k) : k \in 1..n}
<1>1. n \in Nat /\ DOMAIN st = 1..n /\ IsFiniteSet(1..n)
  BY IntervalIsFinite
<1>2. ASSUME NEW k \in 1..n PROVE IsFiniteSet(g(k)) /\ g(k) \subseteq Int \X Int
  <2> DEFINE m == Len(st[k].mounts)
             h == [i \in 1..m |-> <<k, i>>]
  <2>1. m \in Nat /\ DOMAIN st[k].mounts = 1..m /\ IsFiniteSet(1..m)
    BY <1>1, IntervalIsFinite DEF FrameType
  <2>2. h \in [1..m -> g(k)] /\ \A t \in g(k) : \E i \in 1..m : h[i] = t
    BY <2>1
  <2>3. h \in Surjection(1..m, g(k))
    <3> HIDE DEF g, h
    <3> QED
      BY <2>2 DEF Surjection
  <2>4. IsFiniteSet(g(k))
    <3> HIDE DEF g, h, m
    <3> QED
      BY <2>1, <2>3, FS_Surjection
  <2> QED
    BY <2>1, <2>4
<1>3. G \in Surjection(1..n, R)
  <2>1. G \in [1..n -> R] /\ \A t \in R : \E k \in 1..n : G[k] = t
    OBVIOUS
  <2> HIDE DEF G, R
  <2> QED
    BY <2>1 DEF Surjection
<1>4. IsFiniteSet(R)
  <2> HIDE DEF G, R, n
  <2> QED
    BY <1>1, <1>3, FS_Surjection
<1>5. Items(st) = UNION R
  BY <1>1 DEF Items
<1> HIDE DEF n, g
<1>6. IsFiniteSet(UNION R)
  BY <1>2, <1>4, FS_UNION
<1> QED
  BY <1>2, <1>5, <1>6

(* A call that goes on keeps what it holds (config.go:112-124).            *)
LEMMA ItemsKept ==
  ASSUME NEW st \in Seq(FrameType), st # << >>, NEW f \in FrameType,
         f.mounts = st[Len(st)].mounts
  PROVE  LET u == [st EXCEPT ![Len(st)] = f]
         IN /\ Len(u) = Len(st) /\ Items(u) = Items(st)
            /\ \A x \in Items(st) : Held(u, x) = Held(st, x)
            /\ \A k \in 1..(Len(st) - 1) : u[k] = st[k]
<1> DEFINE u == [st EXCEPT ![Len(st)] = f]
<1>1. Len(st) \in Nat \ {0} /\ DOMAIN st = 1..Len(st)
  BY EmptySeq
<1>2. /\ Len(u) = Len(st) /\ DOMAIN u = 1..Len(st)
      /\ \A j \in 1..Len(st) : u[j] = IF j = Len(st) THEN f ELSE st[j]
  BY <1>1, ExceptSeq
<1> HIDE DEF u
<1>3. \A j \in 1..Len(st) : u[j].mounts = st[j].mounts
  BY <1>2
<1>4. Items(u) = Items(st)
  <2>1. ASSUME NEW x PROVE x \in Items(u) <=> x \in Items(st)
    <3>0. DOMAIN u = 1..Len(st)
      BY <1>2
    <3>1. x \in Items(u) <=> \E k \in 1..Len(st) : \E i \in DOMAIN u[k].mounts : x = <<k, i>>
      BY <3>0, ItemIs
    <3>2. x \in Items(st) <=> \E k \in 1..Len(st) : \E i \in DOMAIN st[k].mounts : x = <<k, i>>
      BY <1>1, ItemIs
    <3> QED
      BY <1>3, <3>1, <3>2
  <2> QED
    BY <2>1
<1>5. \A x \in Items(st) : Held(u, x) = Held(st, x)
  <2> SUFFICES ASSUME NEW x \in Items(st) PROVE Held(u, x) = Held(st, x)
    OBVIOUS
  <2>1. PICK k \in DOMAIN st : \E i \in DOMAIN st[k].mounts : x = <<k, i>>
    BY ItemIs
  <2>2. x[1] = k
    BY <2>1
  <2> QED
    BY <1>1, <1>3, <2>2 DEF Held
<1>6. \A k \in 1..(Len(st) - 1) : u[k] = st[k]
  <2> SUFFICES ASSUME NEW k \in 1..(Len(st) - 1) PROVE u[k] = st[k]
    OBVIOUS
  <2>1. k \in 1..Len(st) /\ k # Len(st)
    <3> DEFINE n == Len(st)
    <3>1. n \in Nat /\ k \in 1..(n - 1)
      BY <1>1
    <3> HIDE DEF n
    <3>2. k \in 1..n /\ k # n
      BY <3>1
    <3> QED
      BY <3>2 DEF n
  <2> QED
    BY <1>2, <2>1
<1> QED
  BY <1>2, <1>4, <1>5, <1>6 DEF u

(* A call that is made brings what its file holds (config.go:105-111).     *)
LEMMA ItemsPushed ==
  ASSUME NEW st \in Seq(FrameType), NEW f \in FrameType
  PROVE  LET u == Append(st, f)
             B == {<<Len(st) + 1, i>> : i \in DOMAIN f.mounts}
         IN /\ Items(u) = Items(st) \cup B
            /\ \A x \in Items(st) : x[1] \in 1..Len(st) /\ Held(u, x) = Held(st, x)
            /\ \A x \in B : Held(u, x) = f.mounts[x[2]]
<1> DEFINE u == Append(st, f)
           B == {<<Len(st) + 1, i>> : i \in DOMAIN f.mounts}
<1>1. Len(st) \in Nat /\ DOMAIN st = 1..Len(st)
  OBVIOUS
<1>2. /\ Len(u) = Len(st) + 1
      /\ \A i \in 1..Len(st) : u[i] = st[i]
      /\ u[Len(st) + 1] = f
  BY AppendProperties
<1>3. DOMAIN u = (DOMAIN st) \cup {Len(st) + 1}
  BY <1>1, <1>2
<1> HIDE DEF u
<1>4. Items(u) = Items(st) \cup B
  BY <1>1, <1>2, <1>3 DEF Items
<1>5. ASSUME NEW x \in Items(st) PROVE x[1] \in 1..Len(st) /\ Held(u, x) = Held(st, x)
  <2>1. PICK k \in DOMAIN st : \E i \in DOMAIN st[k].mounts : x = <<k, i>>
    BY ItemIs
  <2>2. x[1] = k
    BY <2>1
  <2> QED
    BY <1>1, <1>2, <2>2 DEF Held
<1>6. \A x \in B : Held(u, x) = f.mounts[x[2]]
  BY <1>2 DEF Held
<1> QED
  BY <1>4, <1>5, <1>6 DEF u

(* Where the entries that u holds came from, if the topmost call of st     *)
(* returned.                                                               *)
Source(st, x) == IF x[1] = Len(st) - 1 /\ x[2] > Len(st[Len(st) - 1].mounts)
                 THEN <<Len(st), x[2] - Len(st[Len(st) - 1].mounts)>>
                 ELSE x

(* Returning appends what the call holds to what its caller holds: nothing *)
(* is lost, nothing changes places (config.go:122-124).                    *)
LEMMA ItemsReturned ==
  ASSUME NEW st \in Seq(FrameType), Len(st) > 1
  PROVE  LET u == SubSeq([st EXCEPT ![Len(st) - 1].mounts = @ \o st[Len(st)].mounts],
                         1, Len(st) - 1)
             move == [x \in Items(u) |-> Source(st, x)]
         IN /\ Len(u) = Len(st) - 1
            /\ u[Len(st) - 1].mounts = st[Len(st) - 1].mounts \o st[Len(st)].mounts
            /\ \A k \in 1..(Len(st) - 1) : u[k].rest = st[k].rest
            /\ \A k \in 1..(Len(st) - 2) : u[k] = st[k]
            /\ move \in Bijection(Items(u), Items(st))
            /\ \A x \in Items(u) : Held(u, x) = Held(st, move[x])
            /\ \A x, y \in Items(u) : Precedes(x, y) <=> Precedes(move[x], move[y])
<1> DEFINE n == Len(st)
           a == st[n - 1].mounts
           b == st[n].mounts
           f == [st[n - 1] EXCEPT !.mounts = @ \o st[n].mounts]
           v == [st EXCEPT ![n - 1] = f]
           u == SubSeq(v, 1, n - 1)
           move == [x \in Items(u) |-> Source(st, x)]
<1>1. n \in Nat /\ n > 1 /\ DOMAIN st = 1..n /\ n - 1 \in 1..n
  OBVIOUS
<1>2. /\ st[n - 1] \in FrameType /\ st[n] \in FrameType
      /\ a \in Seq(ValidEntry) /\ b \in Seq(ValidEntry)
  <2>1. st[n - 1] \in FrameType /\ st[n] \in FrameType
    BY <1>1
  <2> HIDE DEF n
  <2> QED
    BY <2>1, FrameHas
<1>3. f \in FrameType /\ f.mounts = a \o b /\ f.rest = st[n - 1].rest
  <2>1. a \o b \in Seq(ValidEntry)
    BY <1>2, ConcatProperties
  <2> QED
    BY <1>2, <2>1 DEF FrameType
<1>4. /\ v \in Seq(FrameType) /\ Len(v) = n
      /\ \A j \in 1..n : v[j] = IF j = n - 1 THEN f ELSE st[j]
  BY <1>1, <1>3, ExceptSeq
<1>5. /\ Len(u) = n - 1 /\ DOMAIN u = 1..(n - 1)
      /\ \A i \in 1..(n - 1) : u[i] = v[i]
  <2> HIDE DEF v
  <2>1. \A i \in 1..(n - 1) : v[i] \in FrameType
    BY <1>1, <1>4
  <2>2. n - 1 \in Int /\ 1 \in Int /\ 1 <= n - 1
    BY <1>1
  <2> HIDE DEF n
  <2>3. /\ u \in Seq(FrameType)
        /\ Len(u) = IF 1 <= n - 1 THEN (n - 1) - 1 + 1 ELSE 0
        /\ \A i \in 1..((n - 1) - 1 + 1) : u[i] = v[1 + i - 1]
    BY <2>1, <2>2, SubSeqProperties
  <2> HIDE DEF u
  <2> QED
    BY <2>2, <2>3
<1>6. /\ u[n - 1] = f
      /\ \A k \in 1..(n - 2) : u[k] = st[k]
  <2> HIDE DEF u, v, f, n
  <2>1. u[n - 1] = f
    BY <1>1, <1>4, <1>5
  <2>2. \A k \in 1..(n - 2) : k \in 1..n /\ k \in 1..(n - 1) /\ k # n - 1
    BY <1>1
  <2> QED
    BY <1>4, <1>5, <2>1, <2>2
<1>7. /\ Len(a) \in Nat /\ Len(b) \in Nat
      /\ DOMAIN a = 1..Len(a) /\ DOMAIN b = 1..Len(b)
      /\ DOMAIN (a \o b) = 1..(Len(a) + Len(b))
      /\ \A i \in 1..(Len(a) + Len(b)) :
           (a \o b)[i] = IF i <= Len(a) THEN a[i] ELSE b[i - Len(a)]
  <2> HIDE DEF a, b
  <2> QED
    BY <1>2, ConcatProperties
<1>8. \A k \in 1..(n - 1) : u[k].rest = st[k].rest
  <2> HIDE DEF u, v, f, n
  <2>1. \A k \in 1..(n - 1) : k = n - 1 \/ k \in 1..(n - 2)
    BY <1>1
  <2> QED
    BY <1>3, <1>6, <2>1
<1>s. ASSUME NEW x
      PROVE  Source(st, x) = IF x[1] = n - 1 /\ x[2] > Len(a)
                             THEN <<n, x[2] - Len(a)>> ELSE x
  BY DEF Source
<1> HIDE DEF u, v, f, n, a, b
<1>9. ASSUME NEW x
      PROVE  x \in Items(u) <=>
               \/ \E k \in 1..(n - 2) : \E i \in DOMAIN st[k].mounts : x = <<k, i>>
               \/ \E i \in 1..(Len(a) + Len(b)) : x = <<n - 1, i>>
  <2>1. 1..(n - 1) = (1..(n - 2)) \cup {n - 1}
    BY <1>1
  <2>2. \A k \in 1..(n - 2) : u[k] = st[k]
    BY <1>6
  <2>3. u[n - 1].mounts = a \o b
    BY <1>3, <1>6
  <2>4. x \in Items(u) <=> \E k \in 1..(n - 1) : \E i \in DOMAIN u[k].mounts : x = <<k, i>>
    BY <1>5, ItemIs
  <2> QED
    BY <1>7, <2>1, <2>2, <2>3, <2>4
<1>10. ASSUME NEW x
       PROVE  x \in Items(st) <=>
                \/ \E k \in 1..(n - 2) : \E i \in DOMAIN st[k].mounts : x = <<k, i>>
                \/ \E i \in 1..Len(a) : x = <<n - 1, i>>
                \/ \E i \in 1..Len(b) : x = <<n, i>>
  <2>1. 1..n = (1..(n - 2)) \cup {n - 1, n}
    BY <1>1
  <2>2. x \in Items(st) <=> \E k \in 1..n : \E i \in DOMAIN st[k].mounts : x = <<k, i>>
    BY <1>1, ItemIs
  <2>3. DOMAIN st[n - 1].mounts = 1..Len(a) /\ DOMAIN st[n].mounts = 1..Len(b)
    BY <1>7 DEF a, b
  <2> QED
    BY <2>1, <2>2, <2>3
<1>11. ASSUME NEW k \in 1..(n - 2), NEW i PROVE Source(st, <<k, i>>) = <<k, i>>
  <2>1. k # n - 1
    BY <1>1
  <2> QED
    BY <1>s, <2>1
<1>12. ASSUME NEW i \in 1..(Len(a) + Len(b))
       PROVE  Source(st, <<n - 1, i>>) = IF i <= Len(a) THEN <<n - 1, i>> ELSE <<n, i - Len(a)>>
  BY <1>1, <1>7, <1>s
<1>13. ASSUME NEW x \in Items(u)
       PROVE  Source(st, x) \in Items(st) /\ Held(u, x) = Held(st, Source(st, x))
  <2>1. CASE \E k \in 1..(n - 2) : \E i \in DOMAIN st[k].mounts : x = <<k, i>>
    <3>1. Source(st, x) = x /\ u[x[1]] = st[x[1]]
      BY <1>6, <1>11, <2>1
    <3> QED
      BY <1>10, <2>1, <3>1 DEF Held
  <2>2. ASSUME NEW i \in 1..(Len(a) + Len(b)), x = <<n - 1, i>>
        PROVE  Source(st, x) \in Items(st) /\ Held(u, x) = Held(st, Source(st, x))
    <3>1. Held(u, x) = IF i <= Len(a) THEN a[i] ELSE b[i - Len(a)]
      BY <1>3, <1>6, <1>7, <2>2 DEF Held
    <3>2. CASE i <= Len(a)
      <4>1. Source(st, x) = <<n - 1, i>>
        BY <1>12, <2>2, <3>2
      <4>2. i \in 1..Len(a)
        BY <1>7, <3>2
      <4> QED
        BY <1>10, <3>1, <3>2, <4>1, <4>2 DEF Held, a
    <3>3. CASE i > Len(a)
      <4>1. i - Len(a) \in 1..Len(b) /\ ~(i <= Len(a))
        BY <1>7, <3>3
      <4>2. Source(st, x) = <<n, i - Len(a)>>
        BY <1>12, <2>2, <4>1
      <4> QED
        BY <1>10, <3>1, <4>1, <4>2 DEF Held, b
    <3> QED
      BY <1>7, <3>2, <3>3
  <2> QED
    BY <1>9, <2>1, <2>2
<1>14. ASSUME NEW y \in Items(st) PROVE \E x \in Items(u) : Source(st, x) = y
  <2>1. CASE \E k \in 1..(n - 2) : \E i \in DOMAIN st[k].mounts : y = <<k, i>>
    BY <1>9, <1>11, <2>1
  <2>2. ASSUME NEW i \in 1..Len(a), y = <<n - 1, i>>
        PROVE  \E x \in Items(u) : Source(st, x) = y
    <3>1. i \in 1..(Len(a) + Len(b)) /\ i <= Len(a)
      BY <1>7
    <3> QED
      BY <1>9, <1>12, <2>2, <3>1
  <2>3. ASSUME NEW i \in 1..Len(b), y = <<n, i>>
        PROVE  \E x \in Items(u) : Source(st, x) = y
    <3> DEFINE j == i + Len(a)
    <3>1. j \in 1..(Len(a) + Len(b)) /\ ~(j <= Len(a)) /\ j - Len(a) = i
      BY <1>7
    <3> HIDE DEF j
    <3> QED
      BY <1>9, <1>12, <2>3, <3>1
  <2> QED
    BY <1>10, <2>1, <2>2, <2>3
<1>15. ASSUME NEW x \in Items(u), NEW y \in Items(u)
       PROVE  /\ Precedes(x, y) <=> Precedes(Source(st, x), Source(st, y))
              /\ Source(st, x) = Source(st, y) => x = y
  <2>1. \A k \in 1..(n - 2) : DOMAIN st[k].mounts \subseteq Int
    <3>1. \A k \in 1..(n - 2) : k \in 1..n
      BY <1>1
    <3>2. \A k \in 1..(n - 2) : st[k] \in FrameType
      BY <1>1, <3>1
    <3>3. \A k \in 1..(n - 2) : DOMAIN st[k].mounts = 1..Len(st[k].mounts)
      BY <3>2, FrameHas
    <3> QED
      BY <3>3
  <2>2. PICK k \in 1..(n - 1), i \in Int :
          /\ x = <<k, i>>
          /\ k = n - 1 => i \in 1..(Len(a) + Len(b))
    <3>1. CASE \E m \in 1..(n - 2) : \E o \in DOMAIN st[m].mounts : x = <<m, o>>
      <4>1. PICK m \in 1..(n - 2) : \E o \in DOMAIN st[m].mounts : x = <<m, o>>
        BY <3>1
      <4>2. PICK o \in Int : x = <<m, o>>
        BY <2>1, <4>1
      <4>3. m \in 1..(n - 1) /\ m # n - 1
        BY <1>1
      <4> QED
        BY <4>2, <4>3
    <3>2. CASE \E o \in 1..(Len(a) + Len(b)) : x = <<n - 1, o>>
      <4>1. PICK o \in 1..(Len(a) + Len(b)) : x = <<n - 1, o>>
        BY <3>2
      <4>2. n - 1 \in 1..(n - 1) /\ o \in Int
        BY <1>1
      <4> QED
        BY <4>1, <4>2
    <3> QED
      BY <1>9, <3>1, <3>2
  <2>3. PICK l \in 1..(n - 1), j \in Int :
          /\ y = <<l, j>>
          /\ l = n - 1 => j \in 1..(Len(a) + Len(b))
    <3>1. CASE \E m \in 1..(n - 2) : \E o \in DOMAIN st[m].mounts : y = <<m, o>>
      <4>1. PICK m \in 1..(n - 2) : \E o \in DOMAIN st[m].mounts : y = <<m, o>>
        BY <3>1
      <4>2. PICK o \in Int : y = <<m, o>>
        BY <2>1, <4>1
      <4>3. m \in 1..(n - 1) /\ m # n - 1
        BY <1>1
      <4> QED
        BY <4>2, <4>3
    <3>2. CASE \E o \in 1..(Len(a) + Len(b)) : y = <<n - 1, o>>
      <4>1. PICK o \in 1..(Len(a) + Len(b)) : y = <<n - 1, o>>
        BY <3>2
      <4>2. n - 1 \in 1..(n - 1) /\ o \in Int
        BY <1>1
      <4> QED
        BY <4>1, <4>2
    <3> QED
      BY <1>9, <3>1, <3>2
  <2>4. Source(st, x) = IF k = n - 1 /\ i > Len(a) THEN <<n, i - Len(a)>> ELSE <<k, i>>
    BY <1>s, <2>2
  <2>5. Source(st, y) = IF l = n - 1 /\ j > Len(a) THEN <<n, j - Len(a)>> ELSE <<l, j>>
    BY <1>s, <2>3
  <2> QED
    BY <1>1, <1>7, <2>2, <2>3, <2>4, <2>5 DEF Precedes
<1>16. move \in Bijection(Items(u), Items(st))
  <2>1. /\ move \in [Items(u) -> Items(st)]
        /\ \A x, y \in Items(u) : move[x] = move[y] => x = y
        /\ \A y \in Items(st) : \E x \in Items(u) : move[x] = y
    BY <1>13, <1>14, <1>15
  <2> HIDE DEF move
  <2> QED
    BY <2>1 DEF Bijection, Injection, Surjection, IsInjective
<1>17. /\ \A x \in Items(u) : Held(u, x) = Held(st, move[x])
       /\ \A x, y \in Items(u) : Precedes(x, y) <=> Precedes(move[x], move[y])
  BY <1>13, <1>15
<1>18. u = SubSeq([st EXCEPT ![n - 1].mounts = @ \o st[n].mounts], 1, n - 1)
  BY DEF u, v, f
<1> QED
  BY <1>3, <1>5, <1>6, <1>8, <1>16, <1>17, <1>18 DEF n, a, b

-----------------------------------------------------------------------------
(* The list that is merged.                                                *)

(* What the calls hold is what the files read so far hold, each entry once *)
(* and all in the same order.                                              *)
MergedBy(at) ==
  /\ at \in Bijection(Items(stack), Slots)
  /\ \A x \in Items(stack) : \A s \in Slots : at[x] = s => Held(stack, x) = At(s)
  /\ \A x, y \in Items(stack) : Precedes(x, y) <=> Precedes(at[x], at[y])
Merged == status = "loading" => \E at : MergedBy(at)

LEMMA SkipFileIsFrame ==
  ASSUME Typed, NEW p, Calls(p)
  PROVE  SkipFile \in FrameType /\ SkipFile.mounts = Top.mounts
<1>1. Top \in FrameType
  BY TopIs DEF Calls
<1>2. Top.rest \in Seq(Seq(Paths)) /\ Top.path \in Paths /\ Top.mounts \in Seq(ValidEntry)
  BY <1>1 DEF FrameType
<1>3. <<Tail(Head(Top.rest))>> \o Tail(Top.rest) \in Seq(Seq(Paths))
  BY <1>2, RestSkipped DEF Calls
<1> QED
  BY <1>2, <1>3 DEF SkipFile, Frame, FrameType

LEMMA FileIsFrame ==
  ASSUME NEW p \in Paths, NEW c \in Files[p], Usable(c)
  PROVE  Frame(p, c.include, c.mounts) \in FrameType
<1>1. c \in Content
  BY FilesAreContents
<1>2. c.mounts \in Seq(ValidEntry)
  <2>1. c.mounts \in Seq(Entry) /\ \A i \in DOMAIN c.mounts : StructValid(c.mounts[i])
    BY <1>1 DEF Content, Usable
  <2>2. \A i \in 1..Len(c.mounts) : c.mounts[i] \in ValidEntry
    BY <2>1 DEF ValidEntry
  <2> QED
    BY <2>1, <2>2
<1> QED
  BY <1>1, <1>2 DEF Frame, FrameType, Content

LEMMA SlotIs ==
  ASSUME NEW x
  PROVE  x \in Slots <=>
           \E k \in DOMAIN opened : \E i \in DOMAIN files[opened[k]].mounts : x = <<k, i>>
  BY DEF Slots

LEMMA MergedKept ==
  ASSUME Merged, status = "loading", UNCHANGED <<files, opened>>,
         Items(stack') = Items(stack),
         \A x \in Items(stack) : Held(stack', x) = Held(stack, x)
  PROVE  Merged'
<1>1. PICK at : MergedBy(at)
  BY DEF Merged
<1>2. Slots' = Slots /\ \A x : At(x)' = At(x)
  BY DEF Slots, At
<1>3. MergedBy(at)'
  <2>1. at \in Bijection(Items(stack'), Slots')
    BY <1>1, <1>2 DEF MergedBy
  <2>2. \A x \in Items(stack') : \A s \in Slots' : at[x] = s => Held(stack', x) = At(s)'
    BY <1>1, <1>2 DEF MergedBy
  <2>3. \A x, y \in Items(stack') : Precedes(x, y) <=> Precedes(at[x], at[y])
    BY <1>1 DEF MergedBy
  <2> QED
    BY <2>1, <2>2, <2>3 DEF MergedBy
<1> QED
  BY <1>3 DEF Merged

LEMMA MergedMoved ==
  ASSUME Merged, status = "loading", UNCHANGED <<files, opened>>,
         NEW move \in Bijection(Items(stack'), Items(stack)),
         \A x \in Items(stack') : Held(stack', x) = Held(stack, move[x]),
         \A x, y \in Items(stack') : Precedes(x, y) <=> Precedes(move[x], move[y])
  PROVE  Merged'
<1>1. PICK at : MergedBy(at)
  BY DEF Merged
<1>2. Slots' = Slots /\ \A x : At(x)' = At(x)
  BY DEF Slots, At
<1> DEFINE I  == Items(stack')
           to == [x \in I |-> at[move[x]]]
<1>3. to \in Bijection(I, Slots)
  <2>1. /\ at \in [Items(stack) -> Slots]
        /\ \A x, y \in Items(stack) : at[x] = at[y] => x = y
        /\ \A s \in Slots : \E x \in Items(stack) : at[x] = s
    BY <1>1 DEF MergedBy, Bijection, Injection, Surjection, IsInjective
  <2>2. /\ move \in [I -> Items(stack)]
        /\ \A x, y \in I : move[x] = move[y] => x = y
        /\ \A s \in Items(stack) : \E x \in I : move[x] = s
    BY DEF Bijection, Injection, Surjection, IsInjective
  <2>3. /\ to \in [I -> Slots]
        /\ \A x, y \in I : to[x] = to[y] => x = y
        /\ \A s \in Slots : \E x \in I : to[x] = s
    BY <2>1, <2>2
  <2> HIDE DEF to, I
  <2> QED
    BY <2>3 DEF Bijection, Injection, Surjection, IsInjective
<1>4. move \in [I -> Items(stack)]
  BY DEF Bijection, Injection
<1>5. \A x \in I : \A s \in Slots : to[x] = s => Held(stack', x) = At(s)'
  BY <1>1, <1>2, <1>4 DEF MergedBy
<1>6. \A x, y \in I : Precedes(x, y) <=> Precedes(to[x], to[y])
  BY <1>1, <1>4 DEF MergedBy
<1>7. \E at2 : /\ at2 \in Bijection(Items(stack'), Slots')
               /\ \A x \in Items(stack') : \A s \in Slots' : at2[x] = s => Held(stack', x) = At(s)'
               /\ \A x, y \in Items(stack') : Precedes(x, y) <=> Precedes(at2[x], at2[y])
  <2> HIDE DEF to
  <2> QED
    BY <1>2, <1>3, <1>5, <1>6
<1> QED
  BY <1>7 DEF Merged, MergedBy

(* A file that is opened adds its entries to both, at the end.             *)
LEMMA SlotsAdded ==
  ASSUME Typed, NEW p \in Paths, NEW c \in Files[p], Calls(p), p \notin Visited,
         files' = [files EXCEPT ![p] = c], opened' = Append(opened, p)
  PROVE  LET B == {<<Len(opened) + 1, i>> : i \in DOMAIN c.mounts}
         IN /\ Slots' = Slots \cup B
            /\ \A x \in Slots : x[1] \in 1..Len(opened) /\ At(x)' = At(x)
            /\ \A x \in B : At(x)' = c.mounts[x[2]]
<1> DEFINE n == Len(opened)
           B == {<<n + 1, i>> : i \in DOMAIN c.mounts}
<1>1. n \in Nat /\ DOMAIN opened = 1..n
  BY DEF Typed
<1>2. /\ Len(opened') = n + 1 /\ DOMAIN opened' = 1..(n + 1)
      /\ \A i \in 1..n : opened'[i] = opened[i]
      /\ opened'[n + 1] = p
  <2>1. /\ opened' \in Seq(Paths) /\ Len(opened') = n + 1
        /\ \A i \in 1..n : opened'[i] = opened[i]
        /\ opened'[n + 1] = p
    BY AppendProperties DEF Typed
  <2> QED
    BY <2>1
<1>3. files'[p] = c /\ \A q \in Visited : files'[q] = files[q]
  BY FileRead
<1>4. \A k \in 1..n : files'[opened'[k]] = files[opened[k]]
  BY <1>1, <1>2, <1>3 DEF Visited
<1>5. files'[opened'[n + 1]] = c
  BY <1>2, <1>3
<1>6. DOMAIN opened' = (1..n) \cup {n + 1}
  BY <1>1, <1>2
<1>7. ASSUME NEW x PROVE x \in Slots' <=> x \in Slots \/ x \in B
  <2>1. x \in Slots' <=> \E k \in DOMAIN opened' :
                           \E i \in DOMAIN files'[opened'[k]].mounts : x = <<k, i>>
    BY DEF Slots
  <2> QED
    BY <1>1, <1>4, <1>5, <1>6, <2>1, SlotIs
<1>8. ASSUME NEW x \in Slots PROVE x[1] \in 1..n /\ At(x)' = At(x)
  <2>1. PICK k \in 1..n : \E i \in DOMAIN files[opened[k]].mounts : x = <<k, i>>
    BY <1>1, SlotIs
  <2>2. x[1] = k
    BY <2>1
  <2> QED
    BY <1>4, <2>2 DEF At
<1>9. \A x \in B : At(x)' = c.mounts[x[2]]
  BY <1>5 DEF At
<1> QED
  BY <1>7, <1>8, <1>9

LEMMA MergedOpening ==
  ASSUME Typed, Merged, NEW p \in Paths, NEW c \in Files[p], Open(p, c)
  PROVE  Merged'
<1>1. /\ status = "loading" /\ Calls(p) /\ p \notin Visited
      /\ files' = [files EXCEPT ![p] = c] /\ opened' = Append(opened, p)
      /\ stack' = Append(WithTop(SkipFile), Frame(p, c.include, c.mounts))
  BY DEF Open, Calls
<1>2. PICK at : MergedBy(at)
  BY <1>1 DEF Merged
<1> DEFINE f == Frame(p, c.include, c.mounts)
           u == WithTop(SkipFile)
           n == Len(stack)
           m == Len(opened)
           A == {<<n + 1, i>> : i \in DOMAIN c.mounts}
           B == {<<m + 1, i>> : i \in DOMAIN c.mounts}
           I == Items(stack)
           to == [x \in I \cup A |-> IF x \in A THEN <<m + 1, x[2]>> ELSE at[x]]
<1>3. /\ stack \in Seq(FrameType) /\ stack # << >> /\ u \in Seq(FrameType)
      /\ n \in Nat /\ m \in Nat
  BY <1>1, FileSkipped, TopIs DEF Typed
<1>4. Len(u) = n /\ Items(u) = I /\ \A x \in I : Held(u, x) = Held(stack, x)
  <2>1. Top \in FrameType /\ SkipFile \in FrameType /\ SkipFile.mounts = Top.mounts
    BY <1>1, TopIs, SkipFileIsFrame
  <2>2. Top = stack[Len(stack)]
    BY DEF Top
  <2>3. u = [stack EXCEPT ![Len(stack)] = SkipFile]
    BY DEF WithTop
  <2> HIDE DEF u
  <2> QED
    BY <1>3, <2>1, <2>2, <2>3, ItemsKept
<1>5. f \in FrameType /\ f.mounts = c.mounts
  BY <1>1, FileIsFrame DEF Frame, Open
<1>6. /\ Items(stack') = I \cup A
      /\ \A x \in I : x[1] \in 1..n /\ Held(stack', x) = Held(stack, x)
      /\ \A x \in A : Held(stack', x) = c.mounts[x[2]]
  <2> HIDE DEF u, f, I, n
  <2>1. stack' = Append(u, f)
    BY <1>1 DEF u, f
  <2> QED
    BY <1>3, <1>4, <1>5, <2>1, ItemsPushed
<1>7. /\ Slots' = Slots \cup B
      /\ \A x \in Slots : x[1] \in 1..m /\ At(x)' = At(x)
      /\ \A x \in B : At(x)' = c.mounts[x[2]]
  BY <1>1, SlotsAdded
<1>8. /\ at \in [I -> Slots]
      /\ \A x, y \in I : at[x] = at[y] => x = y
      /\ \A s \in Slots : \E x \in I : at[x] = s
      /\ \A x \in I : Held(stack, x) = At(at[x])
      /\ \A x, y \in I : Precedes(x, y) <=> Precedes(at[x], at[y])
  BY <1>2 DEF MergedBy, Bijection, Injection, Surjection, IsInjective
<1>9. /\ DOMAIN c.mounts \subseteq Int
  <2>1. DOMAIN c.mounts = 1..Len(c.mounts)
    BY <1>5, FrameHas
  <2> QED
    BY <2>1
<1> HIDE DEF I, n, m, u, f
<1>10. /\ \A x \in I : x \notin A /\ to[x] = at[x]
       /\ \A x \in A : x[1] = n + 1 /\ x = <<n + 1, x[2]>> /\ to[x] = <<m + 1, x[2]>> /\ to[x] \in B
  BY <1>3, <1>6
<1>11. to \in Bijection(I \cup A, Slots \cup B)
  <2>1. to \in [I \cup A -> Slots \cup B]
    BY <1>8, <1>10
  <2>2. ASSUME NEW x \in I \cup A, NEW y \in I \cup A, to[x] = to[y] PROVE x = y
    <3>1. CASE x \in I /\ y \in I
      BY <1>8, <1>10, <2>2, <3>1
    <3>2. CASE x \in A /\ y \in A
      BY <1>10, <2>2, <3>2
    <3>3. \A v \in I, w \in A : to[v] # to[w]
      <4> SUFFICES ASSUME NEW v \in I, NEW w \in A PROVE to[v] # to[w]
        OBVIOUS
      <4>1. to[v][1] \in 1..m /\ to[w][1] = m + 1
        BY <1>7, <1>8, <1>10
      <4> QED
        BY <1>3, <4>1
    <3> QED
      BY <2>2, <3>1, <3>2, <3>3
  <2>3. ASSUME NEW s \in Slots \cup B PROVE \E x \in I \cup A : to[x] = s
    <3>1. CASE s \in Slots
      BY <1>8, <1>10, <3>1
    <3>2. CASE s \in B
      <4>1. PICK i \in DOMAIN c.mounts : s = <<m + 1, i>>
        BY <3>2
      <4>2. <<n + 1, i>> \in A
        OBVIOUS
      <4> QED
        BY <4>1, <4>2
    <3> QED
      BY <3>1, <3>2
  <2> HIDE DEF to, A, B
  <2> QED
    BY <2>1, <2>2, <2>3 DEF Bijection, Injection, Surjection, IsInjective
<1>12. \A x \in I \cup A : \A s \in Slots \cup B : to[x] = s => Held(stack', x) = At(s)'
  <2>1. \A x \in I : \A s \in Slots \cup B : to[x] = s => Held(stack', x) = At(s)'
    BY <1>6, <1>7, <1>8, <1>10
  <2>2. \A x \in A : \A s \in Slots \cup B : to[x] = s => Held(stack', x) = At(s)'
    <3> SUFFICES ASSUME NEW x \in A, NEW s \in Slots \cup B, to[x] = s
                 PROVE  Held(stack', x) = At(s)'
      OBVIOUS
    <3>1. to[x] \in B /\ to[x][2] = x[2]
      BY <1>10
    <3> HIDE DEF to, A, B
    <3> QED
      BY <1>6, <1>7, <3>1
  <2> QED
    BY <2>1, <2>2
<1>13. \A x, y \in I \cup A : Precedes(x, y) <=> Precedes(to[x], to[y])
  <2> SUFFICES ASSUME NEW x \in I \cup A, NEW y \in I \cup A
               PROVE  Precedes(x, y) <=> Precedes(to[x], to[y])
    OBVIOUS
  <2>0. /\ \A v \in I : v[1] \in 1..n /\ to[v][1] \in 1..m
        /\ \A w \in A : w[1] = n + 1 /\ to[w][1] = m + 1 /\ to[w][2] = w[2]
    BY <1>6, <1>7, <1>8, <1>10
  <2>1. CASE x \in I /\ y \in I
    BY <1>8, <1>10, <2>1
  <2>2. CASE x \in I /\ y \in A
    <3> HIDE DEF to, A
    <3> QED
      BY <1>3, <2>0, <2>2 DEF Precedes
  <2>3. CASE x \in A /\ y \in I
    <3> HIDE DEF to, A
    <3> QED
      BY <1>3, <2>0, <2>3 DEF Precedes
  <2>4. CASE x \in A /\ y \in A
    <3> HIDE DEF to, A
    <3> QED
      BY <1>3, <2>0, <2>4 DEF Precedes
  <2> QED
    BY <2>1, <2>2, <2>3, <2>4
<1>14. \E at2 : /\ at2 \in Bijection(Items(stack'), Slots')
                /\ \A x \in Items(stack') : \A s \in Slots' : at2[x] = s => Held(stack', x) = At(s)'
                /\ \A x, y \in Items(stack') : Precedes(x, y) <=> Precedes(at2[x], at2[y])
  <2> HIDE DEF to, A, B
  <2> QED
    BY <1>6, <1>7, <1>11, <1>12, <1>13
<1> QED
  BY <1>14 DEF Merged, MergedBy

LEMMA OneBelow ==
  ASSUME NEW n \in Nat \ {0}, n # 1
  PROVE  n > 1 /\ 1 \in 1..(n - 1)
  OBVIOUS

LEMMA ReturnMoves ==
  ASSUME Typed, Return
  PROVE  /\ Len(stack') = Len(stack) - 1
         /\ stack'[Len(stack) - 1].mounts = stack[Len(stack) - 1].mounts \o Top.mounts
         /\ \A k \in 1..(Len(stack) - 1) : stack'[k].rest = stack[k].rest
         /\ \A k \in 1..(Len(stack) - 2) : stack'[k] = stack[k]
         /\ \E move \in Bijection(Items(stack'), Items(stack)) :
              /\ \A x \in Items(stack') : Held(stack', x) = Held(stack, move[x])
              /\ \A x, y \in Items(stack') : Precedes(x, y) <=> Precedes(move[x], move[y])
<1> DEFINE u == SubSeq([stack EXCEPT ![Len(stack) - 1].mounts = @ \o stack[Len(stack)].mounts],
                       1, Len(stack) - 1)
<1>1. stack \in Seq(FrameType) /\ Len(stack) > 1
  BY TopIs DEF Return, Returning
<1>2. stack' = u /\ Top = stack[Len(stack)]
  BY DEF Return, Top
<1>3. /\ Len(u) = Len(stack) - 1
      /\ u[Len(stack) - 1].mounts = stack[Len(stack) - 1].mounts \o stack[Len(stack)].mounts
      /\ \A k \in 1..(Len(stack) - 1) : u[k].rest = stack[k].rest
      /\ \A k \in 1..(Len(stack) - 2) : u[k] = stack[k]
      /\ \E move \in Bijection(Items(u), Items(stack)) :
           /\ \A x \in Items(u) : Held(u, x) = Held(stack, move[x])
           /\ \A x, y \in Items(u) : Precedes(x, y) <=> Precedes(move[x], move[y])
  <2> DEFINE move == [x \in Items(u) |-> Source(stack, x)]
  <2>1. /\ Len(u) = Len(stack) - 1
        /\ u[Len(stack) - 1].mounts = stack[Len(stack) - 1].mounts \o stack[Len(stack)].mounts
        /\ \A k \in 1..(Len(stack) - 1) : u[k].rest = stack[k].rest
        /\ \A k \in 1..(Len(stack) - 2) : u[k] = stack[k]
        /\ move \in Bijection(Items(u), Items(stack))
        /\ \A x \in Items(u) : Held(u, x) = Held(stack, move[x])
        /\ \A x, y \in Items(u) : Precedes(x, y) <=> Precedes(move[x], move[y])
    BY <1>1, ItemsReturned
  <2> HIDE DEF u, move
  <2> QED
    BY <2>1
<1> HIDE DEF u
<1> QED
  BY <1>2, <1>3

LEMMA FileSkippedKeeps ==
  ASSUME Typed, NEW p, Calls(p)
  PROVE  /\ Len(WithTop(SkipFile)) = Len(stack)
         /\ Items(WithTop(SkipFile)) = Items(stack)
         /\ \A x \in Items(stack) : Held(WithTop(SkipFile), x) = Held(stack, x)
         /\ \A k \in 1..(Len(stack) - 1) : WithTop(SkipFile)[k] = stack[k]
<1>1. /\ stack \in Seq(FrameType) /\ stack # << >>
      /\ SkipFile \in FrameType /\ SkipFile.mounts = stack[Len(stack)].mounts
  BY TopIs, SkipFileIsFrame DEF Calls, Top
<1> QED
  BY <1>1, ItemsKept DEF WithTop

LEMMA NextPatternKeeps ==
  ASSUME Typed, NextPattern
  PROVE  /\ Len(stack') = Len(stack)
         /\ Items(stack') = Items(stack)
         /\ \A x \in Items(stack) : Held(stack', x) = Held(stack, x)
         /\ \A k \in 1..(Len(stack) - 1) : stack'[k] = stack[k]
         /\ stack'[Len(stack)] = [Top EXCEPT !.rest = Tail(@)]
<1> DEFINE f == [Top EXCEPT !.rest = Tail(@)]
<1>1. stack \in Seq(FrameType) /\ stack # << >> /\ Top \in FrameType /\ Top = stack[Len(stack)]
  BY TopIs DEF NextPattern, Top
<1>2. Top.rest \in Seq(Seq(Paths)) /\ Top.rest # << >>
  BY <1>1 DEF FrameType, NextPattern
<1>3. f \in FrameType /\ f.mounts = Top.mounts
  <2>1. Tail(Top.rest) \in Seq(Seq(Paths))
    BY <1>2, HeadTailProperties
  <2> QED
    BY <1>1, <2>1 DEF FrameType
<1>4. stack' = [stack EXCEPT ![Len(stack)] = f]
  BY DEF NextPattern, WithTop
<1> HIDE DEF f
<1>5. stack'[Len(stack)] = f
  <2>1. Len(stack) \in 1..Len(stack)
    BY <1>1, EmptySeq
  <2> QED
    BY <1>1, <1>4, <2>1
<1>6. f.mounts = stack[Len(stack)].mounts
  BY <1>1, <1>3
<1>7. /\ Len(stack') = Len(stack)
      /\ Items(stack') = Items(stack)
      /\ \A x \in Items(stack) : Held(stack', x) = Held(stack, x)
      /\ \A k \in 1..(Len(stack) - 1) : stack'[k] = stack[k]
  BY <1>1, <1>3, <1>4, <1>6, ItemsKept
<1> QED
  BY <1>5, <1>7 DEF f

LEMMA MergedStep == Typed /\ Merged /\ [Next]_vars => Merged'
<1> SUFFICES ASSUME Typed, Merged, [Next]_vars PROVE Merged'
  OBVIOUS
<1>1. CASE UNCHANGED vars
  BY <1>1 DEF Merged, MergedBy, Slots, At, vars
<1>2. CASE Revisit
  <2>1. PICK p \in Visited : Calls(p)
    BY <1>2 DEF Revisit
  <2> QED
    BY <1>2, <2>1, FileSkippedKeeps, MergedKept DEF Revisit, Calls
<1>3. CASE NextPattern
  BY <1>3, NextPatternKeeps, MergedKept DEF NextPattern
<1>4. ASSUME NEW p \in Paths, NEW c \in Files[p], Open(p, c) PROVE Merged'
  BY <1>4, MergedOpening
<1>5. CASE status' # "loading"
  BY <1>5 DEF Merged
<1>6. CASE Return
  <2>1. PICK move \in Bijection(Items(stack'), Items(stack)) :
          /\ \A x \in Items(stack') : Held(stack', x) = Held(stack, move[x])
          /\ \A x, y \in Items(stack') : Precedes(x, y) <=> Precedes(move[x], move[y])
    BY <1>6, ReturnMoves
  <2>2. status = "loading" /\ UNCHANGED <<files, opened>>
    BY <1>6 DEF Return, Returning
  <2> QED
    BY <2>1, <2>2, MergedMoved
<1> QED
  BY <1>1, <1>2, <1>3, <1>4, <1>5, <1>6
     DEF Next, Load, OpenFails, ReturnFails, Finish, FinishFails, GiveUp

LEMMA InitItems == Init => Items(stack) = {} /\ Slots = {}
<1> SUFFICES ASSUME Init PROVE Items(stack) = {} /\ Slots = {}
  OBVIOUS
<1>1. opened = << >>
  BY DEF Init
<1>2. Slots = {}
  BY <1>1, NothingListed DEF Slots
<1>3. Len(stack) = 1 /\ DOMAIN stack = {1} /\ stack[1].mounts = << >>
  <2> DEFINE f == Frame(Root, << <<Root>> >>, << >>)
  <2>1. stack = <<f>> /\ f.mounts = << >>
    BY DEF Init, Frame
  <2> HIDE DEF f
  <2>2. Len(stack) = 1 /\ DOMAIN stack = 1..1 /\ stack[1] = f
    BY <2>1
  <2> QED
    BY <2>1, <2>2
<1>4. DOMAIN stack[1].mounts = {}
  BY <1>3, NothingListed
<1>5. \A x : x \notin Items(stack)
  BY <1>3, <1>4, ItemIs
<1> QED
  BY <1>2, <1>5

LEMMA MergedInit == Init => Merged
<1> SUFFICES ASSUME Init PROVE Merged
  OBVIOUS
<1>1. Items(stack) = {} /\ Slots = {}
  BY InitItems
<1> DEFINE at == [x \in {} |-> x]
<1>2. at \in Bijection({}, {})
  BY DEF Bijection, Injection, Surjection, IsInjective
<1> HIDE DEF at
<1>3. MergedBy(at)
  BY <1>1, <1>2 DEF MergedBy
<1> QED
  BY <1>3 DEF Merged

(* doLoad waits for the root; then its list is complete, and no name       *)
(* occurs in it twice (config.go:80-86, 126-130).                          *)
DoLoadWaits ==
  status = "loading" =>
    \/ Len(stack) = 1 /\ stack[1].rest = << <<Root>> >> /\ stack[1].mounts = << >>
    \/ Len(stack) > 1 /\ stack[1].rest = << << >> >> /\ stack[1].mounts = << >>
    \/ Len(stack) = 1 /\ stack[1].rest \in {<< << >> >>, << >>} /\ Distinct(stack[1].mounts)

LEMMA NothingIsDistinct == ASSUME NEW ms, ms = << >> PROVE Distinct(ms)
  BY NothingListed DEF Distinct

LEMMA DoLoadWaitsStep == Typed /\ DoLoadWaits /\ [Next]_vars => DoLoadWaits'
<1> SUFFICES ASSUME Typed, DoLoadWaits, [Next]_vars PROVE DoLoadWaits'
  OBVIOUS
<1>1. CASE UNCHANGED vars
  BY <1>1 DEF DoLoadWaits, vars, Distinct
<1>2. CASE status' # "loading"
  BY <1>2 DEF DoLoadWaits
<1>a. ASSUME status = "loading"
      PROVE  stack \in Seq(FrameType) /\ Len(stack) \in Nat \ {0} /\ Top = stack[Len(stack)]
  <2>1. stack \in Seq(FrameType) /\ stack # << >>
    BY <1>a, TopIs
  <2> QED
    BY <2>1, EmptySeq DEF Top
<1>b. ASSUME NEW p, Calls(p), Len(stack) = 1
      PROVE  /\ WithTop(SkipFile)[1].rest = << << >> >>
             /\ WithTop(SkipFile)[1].mounts = << >>
  <2>1. status = "loading" /\ Top = stack[1] /\ 1 \in DOMAIN stack
    BY <1>a, <1>b DEF Calls
  <2>2. Top.rest = << <<Root>> >> /\ Top.mounts = << >>
    BY <1>b, <2>1 DEF DoLoadWaits, Calls
  <2>3. <<Tail(Head(Top.rest))>> \o Tail(Top.rest) = << << >> >>
    BY <2>2
  <2>4. SkipFile.rest = << << >> >> /\ SkipFile.mounts = << >>
    BY <2>2, <2>3 DEF SkipFile, Frame
  <2>5. WithTop(SkipFile)[1] = SkipFile
    BY <1>b, <2>1 DEF WithTop
  <2> QED
    BY <2>4, <2>5
<1>c. ASSUME NEW p, Calls(p), Len(stack) # 1
      PROVE  /\ Len(stack) > 1 /\ WithTop(SkipFile)[1] = stack[1]
             /\ stack[1].rest = << << >> >> /\ stack[1].mounts = << >>
  <2>0. status = "loading"
    BY <1>c DEF Calls
  <2>1. Len(stack) \in Nat \ {0}
    BY <1>a, <2>0
  <2>2. Len(stack) > 1 /\ 1 \in 1..(Len(stack) - 1)
    BY <1>c, <2>1, OneBelow
  <2> QED
    BY <1>c, <2>0, <2>2, FileSkippedKeeps DEF DoLoadWaits
<1>3. CASE Revisit
  <2>1. PICK p \in Visited : Calls(p)
    BY <1>3 DEF Revisit
  <2>2. stack' = WithTop(SkipFile) /\ Len(stack') = Len(stack) /\ Len(stack) \in Nat
    BY <1>3, <1>a, <2>1, FileSkippedKeeps DEF Revisit, Calls
  <2>3. CASE Len(stack) = 1
    BY <1>b, <2>1, <2>2, <2>3, NothingIsDistinct DEF DoLoadWaits
  <2>4. CASE Len(stack) # 1
    BY <1>c, <2>1, <2>2, <2>4 DEF DoLoadWaits
  <2> QED
    BY <2>3, <2>4
<1>4. CASE NextPattern
  <2>0. status = "loading" /\ Top.rest # << >> /\ Head(Top.rest) = << >>
    BY <1>4 DEF NextPattern
  <2>1. /\ Len(stack') = Len(stack)
        /\ \A k \in 1..(Len(stack) - 1) : stack'[k] = stack[k]
        /\ stack'[Len(stack)] = [Top EXCEPT !.rest = Tail(@)]
    BY <1>4, NextPatternKeeps
  <2>2. Top \in FrameType
    BY <2>0, TopIs
  <2>3. CASE Len(stack) = 1
    <3>1. Top = stack[1]
      BY <1>a, <2>0, <2>3
    <3>2. Top.rest = << << >> >> /\ Distinct(Top.mounts)
      BY <2>0, <2>3, <3>1, NothingIsDistinct DEF DoLoadWaits
    <3>3. stack'[1].rest = << >> /\ stack'[1].mounts = Top.mounts
      BY <2>1, <2>2, <2>3, <3>2 DEF FrameType
    <3> QED
      BY <2>1, <2>3, <3>2, <3>3 DEF DoLoadWaits
  <2>4. CASE Len(stack) # 1
    <3>1. 1 \in 1..(Len(stack) - 1) /\ Len(stack) > 1
      BY <1>a, <2>0, <2>4, OneBelow
    <3> QED
      BY <2>0, <2>1, <3>1 DEF DoLoadWaits
  <2> QED
    BY <2>3, <2>4
<1>5. ASSUME NEW p \in Paths, NEW c \in Files[p], Open(p, c) PROVE DoLoadWaits'
  <2>1. Calls(p) /\ stack' = Append(WithTop(SkipFile), Frame(p, c.include, c.mounts))
    BY <1>5 DEF Open
  <2>2. /\ WithTop(SkipFile) \in Seq(FrameType) /\ Len(WithTop(SkipFile)) = Len(stack)
        /\ Len(stack) \in Nat \ {0}
    BY <1>a, <2>1, FileSkipped, FileSkippedKeeps DEF Calls
  <2>3. Len(stack') > 1 /\ stack'[1] = WithTop(SkipFile)[1]
    <3> DEFINE u == WithTop(SkipFile)
    <3> HIDE DEF u
    <3>1. /\ u \in Seq(FrameType) /\ Len(u) \in Nat \ {0}
          /\ stack' = Append(u, Frame(p, c.include, c.mounts))
      BY <2>1, <2>2 DEF u
    <3>2. Len(stack') > 1 /\ stack'[1] = u[1]
      BY <3>1
    <3> QED
      BY <3>2 DEF u
  <2>4. stack'[1].rest = << << >> >> /\ stack'[1].mounts = << >>
    BY <1>b, <1>c, <2>1, <2>3
  <2> QED
    BY <2>3, <2>4 DEF DoLoadWaits
<1>6. CASE Return
  <2>1. /\ status = "loading" /\ Len(stack) > 1 /\ Distinct(Top.mounts)
        /\ stack[1].rest = << << >> >> /\ stack[1].mounts = << >>
    <3>1. status = "loading" /\ Len(stack) > 1 /\ Distinct(Top.mounts)
      BY <1>6 DEF Return, Returning
    <3>2. Len(stack) # 1
      BY <1>a, <3>1
    <3> QED
      BY <3>1, <3>2 DEF DoLoadWaits
  <2>2. /\ Len(stack') = Len(stack) - 1 /\ Len(stack) \in Nat
        /\ stack'[Len(stack) - 1].mounts = stack[Len(stack) - 1].mounts \o Top.mounts
        /\ \A k \in 1..(Len(stack) - 1) : stack'[k].rest = stack[k].rest
        /\ \A k \in 1..(Len(stack) - 2) : stack'[k] = stack[k]
    BY <1>6, <1>a, <2>1, ReturnMoves
  <2>3. stack'[1].rest = << << >> >>
    <3>1. 1 \in 1..(Len(stack) - 1)
      BY <2>1, <2>2
    <3> QED
      BY <2>1, <2>2, <3>1
  <2>4. CASE Len(stack) = 2
    <3>1. stack'[1].mounts = << >> \o Top.mounts
      <4>1. Len(stack) - 1 = 1
        BY <2>4
      <4> QED
        BY <2>1, <2>2, <4>1
    <3>2. Top.mounts \in Seq(ValidEntry)
      BY <2>1, TopIs, FrameHas
    <3>3. stack'[1].mounts = Top.mounts
      BY <3>1, <3>2
    <3> QED
      BY <2>1, <2>2, <2>3, <2>4, <3>3 DEF DoLoadWaits
  <2>5. CASE Len(stack) # 2
    <3>1. 1 \in 1..(Len(stack) - 2) /\ Len(stack) - 1 > 1
      BY <2>1, <2>2, <2>5
    <3> QED
      BY <2>1, <2>2, <3>1 DEF DoLoadWaits
  <2> QED
    BY <2>4, <2>5
<1> QED
  BY <1>1, <1>2, <1>3, <1>4, <1>5, <1>6
     DEF Next, Load, OpenFails, ReturnFails, Finish, FinishFails, GiveUp

LEMMA DoLoadWaitsInit == Init => DoLoadWaits
<1> SUFFICES ASSUME Init PROVE DoLoadWaits
  OBVIOUS
<1>1. Len(stack) = 1 /\ stack[1].rest = << <<Root>> >> /\ stack[1].mounts = << >>
  BY DEF Init, Frame
<1> QED
  BY <1>1 DEF DoLoadWaits

-----------------------------------------------------------------------------
(* What is handed out, and why a load fails.                               *)

(* When doLoad has the complete list, it is that of the slots, in order.   *)
LEMMA MergedWhole ==
  ASSUME Typed, Merged, Done
  PROVE  /\ stack = <<Top>> /\ Top \in FrameType
         /\ \E slot \in Bijection(1..Len(Top.mounts), Slots) :
              /\ \A i \in 1..Len(Top.mounts) : Top.mounts[i] = At(slot[i])
              /\ \A i, j \in 1..Len(Top.mounts) : i < j => Precedes(slot[i], slot[j])
<1> DEFINE S    == 1..Len(Top.mounts)
<1>1. status = "loading" /\ Len(stack) = 1 /\ stack \in Seq(FrameType) /\ Top \in FrameType
  BY TopIs DEF Done
<1>2. stack = <<Top>> /\ DOMAIN stack = {1} /\ stack[1] = Top
  <2>1. Top = stack[1]
    BY <1>1 DEF Top
  <2>2. stack = <<stack[1]>>
    BY <1>1
  <2>3. DOMAIN stack = 1..1
    BY <1>1
  <2> QED
    BY <2>1, <2>2, <2>3
<1>3. PICK at : MergedBy(at)
  BY <1>1 DEF Merged
<1>4. Top.mounts \in Seq(ValidEntry) /\ DOMAIN Top.mounts = S
  BY <1>1, FrameHas
<1> HIDE DEF S
<1>5. \A x : x \in Items(stack) <=> \E i \in S : x = <<1, i>>
  BY <1>2, <1>4, ItemIs
<1>6. /\ at \in [Items(stack) -> Slots]
      /\ \A x, y \in Items(stack) : at[x] = at[y] => x = y
      /\ \A s \in Slots : \E x \in Items(stack) : at[x] = s
      /\ \A x \in Items(stack) : Held(stack, x) = At(at[x])
      /\ \A x, y \in Items(stack) : Precedes(x, y) => Precedes(at[x], at[y])
  BY <1>3 DEF MergedBy, Bijection, Injection, Surjection, IsInjective
<1> DEFINE slot == [i \in S |-> at[<<1, i>>]]
<1>7. \A i \in S : <<1, i>> \in Items(stack) /\ slot[i] = at[<<1, i>>]
  BY <1>5
<1>8. slot \in Bijection(S, Slots)
  <2>1. slot \in [S -> Slots]
    BY <1>6, <1>7
  <2>2. \A i, j \in S : slot[i] = slot[j] => i = j
    BY <1>6, <1>7
  <2>3. \A s \in Slots : \E i \in S : slot[i] = s
    BY <1>5, <1>6, <1>7
  <2> HIDE DEF slot
  <2> QED
    BY <2>1, <2>2, <2>3 DEF Bijection, Injection, Surjection, IsInjective
<1>9. \A i \in S : Top.mounts[i] = At(slot[i])
  BY <1>2, <1>6, <1>7 DEF Held
<1>10. \A i, j \in S : i < j => Precedes(slot[i], slot[j])
  <2>1. \A i, j \in S : i < j => Precedes(<<1, i>>, <<1, j>>)
    BY DEF Precedes
  <2> QED
    BY <1>6, <1>7, <2>1
<1> HIDE DEF slot
<1> QED
  BY <1>1, <1>2, <1>8, <1>9, <1>10 DEF S

(* Nothing is pending then, so everything that can be reached is read.     *)
LEMMA NothingPending ==
  ASSUME Typed, Reached, Done
  PROVE  Visited = Reachable /\ files[Root] \in Content
<1>1. status = "loading" /\ Pending = {}
  <2>1. /\ status = "loading" /\ Len(stack) = 1 /\ Top.rest = << >>
        /\ Pending = Below(stack) \cup InRest(Top.rest)
    BY TopIs DEF Done
  <2>2. Below(stack) = {}
    BY <2>1 DEF Below
  <2> QED
    BY <2>1, <2>2, NothingInNoRest
<1>2. Visited \in SUBSET Paths
  BY DEF Visited, Typed
<1>3. Root \in Visited /\ ClosedUnderIncludes(Visited)
  BY <1>1 DEF Reached, ClosedUnderIncludes
<1>4. Reachable \subseteq Visited
  BY <1>2, <1>3 DEF Reachable
<1>5. Visited \subseteq Reachable
  BY <1>1 DEF Reached
<1>6. files[Root] \in Content
  BY <1>3, RootIsPath DEF Typed
<1> QED
  BY <1>4, <1>5, <1>6

(* What a load hands out: the entries of the slots, each once, in the      *)
(* order asked for.                                                        *)
HandedOut(from) ==
  /\ DOMAIN mounts \in {1..n : n \in Nat}
  /\ from \in Bijection(DOMAIN mounts, Slots)
  /\ \A k \in DOMAIN mounts : \A s \in Slots :
       from[k] = s => mounts[k] = [At(s) EXCEPT !.dir = Resolve[@]] /\ At(s) \in Entry
  /\ \A k, l \in DOMAIN mounts : k < l =>
       \A s, t \in Slots : from[k] = s /\ from[l] = t =>
         \/ LessBy(At(s), At(t), files[Root].by)
         \/ ~LessBy(At(t), At(s), files[Root].by) /\ Precedes(s, t)

LEMMA FinishHandsOut ==
  ASSUME Typed, Reached, Merged, Finish
  PROVE  \E from : HandedOut(from)'
<1> DEFINE c  == files[Root]
           ms == Top.mounts
           n  == Len(ms)
           so == Sorted(ms, c.by)
<1>1. Done /\ mounts' = Normalize(so) /\ UNCHANGED <<files, opened>>
  BY DEF Finish
<1>2. c.by \in Seq(Field)
  BY <1>1, NothingPending DEF Content
<1>3. Top \in FrameType
  BY <1>1, MergedWhole
<1>4. ms \in Seq(Entry) /\ n \in Nat
  <2>1. ms \in Seq(ValidEntry)
    BY <1>3, FrameHas
  <2> HIDE DEF ms
  <2>2. \A i \in 1..Len(ms) : ms[i] \in Entry
    BY <2>1 DEF ValidEntry
  <2> QED
    BY <2>1, <2>2
<1>a. \A i \in 1..n : ms[i] \in Entry
  <2> HIDE DEF ms
  <2> QED
    BY <1>4
<1>5. PICK slot \in Bijection(1..n, Slots) :
        /\ \A i \in 1..n : ms[i] = At(slot[i])
        /\ \A i, j \in 1..n : i < j => Precedes(slot[i], slot[j])
  BY <1>1, MergedWhole
<1>6. PICK perm \in Bijection(1..n, 1..n) :
        /\ so = [k \in 1..n |-> ms[perm[k]]]
        /\ \A k, l \in 1..n : k < l => Ahead(ms, c.by, perm[k], perm[l])
  BY <1>2, <1>4, SortedInOrder
<1> DEFINE from == [k \in 1..n |-> slot[perm[k]]]
<1>7. /\ perm \in [1..n -> 1..n]
      /\ \A k, l \in 1..n : perm[k] = perm[l] => k = l
      /\ \A i \in 1..n : \E k \in 1..n : perm[k] = i
  BY DEF Bijection, Injection, Surjection, IsInjective
<1>8. /\ slot \in [1..n -> Slots]
      /\ \A k, l \in 1..n : slot[k] = slot[l] => k = l
      /\ \A s \in Slots : \E k \in 1..n : slot[k] = s
  BY DEF Bijection, Injection, Surjection, IsInjective
<1> HIDE DEF c, ms, n, so
<1>9. from \in Bijection(1..n, Slots)
  <2>1. /\ from \in [1..n -> Slots]
        /\ \A k, l \in 1..n : from[k] = from[l] => k = l
    BY <1>7, <1>8
  <2>2. ASSUME NEW s \in Slots PROVE \E k \in 1..n : from[k] = s
    <3>1. PICK i \in 1..n : slot[i] = s
      BY <1>8
    <3>2. PICK k \in 1..n : perm[k] = i
      BY <1>7
    <3> QED
      BY <3>1, <3>2
  <2> HIDE DEF from
  <2> QED
    BY <2>1, <2>2 DEF Bijection, Injection, Surjection, IsInjective
<1>10. mounts' = [k \in 1..n |-> [so[k] EXCEPT !.dir = Resolve[@]]]
  <2>1. DOMAIN so = 1..n
    BY <1>6
  <2> QED
    BY <1>1, <2>1 DEF Normalize
<1>11. /\ DOMAIN mounts' = 1..n
       /\ \A k \in 1..n : /\ from[k] \in Slots
                          /\ mounts'[k] = [At(from[k]) EXCEPT !.dir = Resolve[@]]
                          /\ At(from[k]) \in Entry
  <2>1. \A k \in 1..n : so[k] = At(slot[perm[k]])
    BY <1>5, <1>6, <1>7
  <2>2. \A k \in 1..n : ms[perm[k]] \in Entry
    BY <1>a, <1>7
  <2>3. \A k \in 1..n : from[k] = slot[perm[k]] /\ slot[perm[k]] \in Slots
    BY <1>7, <1>8
  <2> QED
    BY <1>6, <1>10, <2>1, <2>2, <2>3
<1>12. ASSUME NEW k \in 1..n, NEW l \in 1..n, k < l
       PROVE  \/ LessBy(At(from[k]), At(from[l]), c.by)
              \/ ~LessBy(At(from[l]), At(from[k]), c.by) /\ Precedes(from[k], from[l])
  <2>1. Ahead(ms, c.by, perm[k], perm[l])
    BY <1>6, <1>12
  <2>2. perm[k] \in 1..n /\ perm[l] \in 1..n
    BY <1>7
  <2>3. /\ ms[perm[k]] = At(slot[perm[k]]) /\ ms[perm[l]] = At(slot[perm[l]])
        /\ perm[k] < perm[l] => Precedes(slot[perm[k]], slot[perm[l]])
    BY <1>5, <2>2
  <2>4. from[k] = slot[perm[k]] /\ from[l] = slot[perm[l]]
    OBVIOUS
  <2> HIDE DEF from
  <2> QED
    BY <2>1, <2>3, <2>4 DEF Ahead
<1>13. Slots' = Slots /\ (\A s : At(s)' = At(s)) /\ files'[Root].by = c.by
  BY <1>1 DEF Slots, At, c
<1> HIDE DEF from
<1>14. \E g : /\ DOMAIN mounts' \in {1..m : m \in Nat}
              /\ g \in Bijection(DOMAIN mounts', Slots')
              /\ \A k \in DOMAIN mounts' : \A s \in Slots' :
                   g[k] = s => mounts'[k] = [At(s)' EXCEPT !.dir = Resolve[@]] /\ At(s)' \in Entry
              /\ \A k, l \in DOMAIN mounts' : k < l =>
                   \A s, t \in Slots' : g[k] = s /\ g[l] = t =>
                     \/ LessBy(At(s)', At(t)', files'[Root].by)
                     \/ ~LessBy(At(t)', At(s)', files'[Root].by) /\ Precedes(s, t)
  BY <1>4, <1>9, <1>11, <1>12, <1>13
<1> QED
  BY <1>14 DEF HandedOut, LessBy, Before

(* A name that occurs twice in a list stands in two slots.                 *)
LEMMA TwiceInFiles ==
  ASSUME Typed, OpenedOnce, Merged, status = "loading", ~Distinct(Top.mounts)
  PROVE  \E p, q \in Visited : \E i \in DOMAIN files[p].mounts, j \in DOMAIN files[q].mounts :
           <<p, i>> # <<q, j>> /\ files[p].mounts[i].name = files[q].mounts[j].name
<1> DEFINE n == Len(stack)
<1>1. stack \in Seq(FrameType) /\ n \in DOMAIN stack /\ Top = stack[n]
  <2>1. stack \in Seq(FrameType) /\ stack # << >>
    BY TopIs
  <2> QED
    BY <2>1, EmptySeq DEF Top
<1>2. PICK i, j \in DOMAIN Top.mounts : Top.mounts[i].name = Top.mounts[j].name /\ i # j
  BY DEF Distinct
<1>3. PICK at : MergedBy(at)
  BY DEF Merged
<1> HIDE DEF n
<1> DEFINE x == <<n, i>>
           y == <<n, j>>
<1>4. /\ x \in Items(stack) /\ y \in Items(stack) /\ x # y
      /\ Held(stack, x).name = Held(stack, y).name
  <2>1. x \in Items(stack) /\ y \in Items(stack)
    BY <1>1, ItemIs
  <2> QED
    BY <1>1, <1>2, <2>1 DEF Held
<1> HIDE DEF x, y
<1>5. PICK s, t \in Slots : s # t /\ At(s).name = At(t).name
  <2>1. /\ at \in [Items(stack) -> Slots]
        /\ \A v, w \in Items(stack) : at[v] = at[w] => v = w
        /\ \A v \in Items(stack) : Held(stack, v) = At(at[v])
    BY <1>3 DEF MergedBy, Bijection, Injection, Surjection, IsInjective
  <2> QED
    BY <1>4, <2>1
<1>6. PICK k \in DOMAIN opened : \E a \in DOMAIN files[opened[k]].mounts : s = <<k, a>>
  BY SlotIs
<1>7. PICK a \in DOMAIN files[opened[k]].mounts : s = <<k, a>>
  BY <1>6
<1>8. PICK l \in DOMAIN opened : \E b \in DOMAIN files[opened[l]].mounts : t = <<l, b>>
  BY SlotIs
<1>9. PICK b \in DOMAIN files[opened[l]].mounts : t = <<l, b>>
  BY <1>8
<1>10. opened[k] \in Visited /\ opened[l] \in Visited
  BY DEF Visited
<1>11. files[opened[k]].mounts[a].name = files[opened[l]].mounts[b].name
  BY <1>5, <1>7, <1>9 DEF At
<1>12. <<opened[k], a>> # <<opened[l], b>>
  BY <1>5, <1>7, <1>9 DEF OpenedOnce
<1> QED
  BY <1>10, <1>11, <1>12

LEMMA FailsForCauseStep ==
  Typed /\ Reached /\ OpenedOnce /\ Merged /\ FailsForCause /\ [Next]_vars => FailsForCause'
<1> SUFFICES ASSUME Typed, Reached, OpenedOnce, Merged, FailsForCause, [Next]_vars
             PROVE  FailsForCause'
  OBVIOUS
<1>1. CASE UNCHANGED vars
  <2>1. UNCHANGED <<files, opened, status>>
    BY <1>1 DEF vars
  <2>2. Visited' = Visited /\ Reachable' = Reachable /\ Slots' = Slots /\ \A x : At(x)' = At(x)
    BY <2>1 DEF Visited, Reachable, ClosedUnderIncludes, Slots, At
  <2> QED
    BY <2>1, <2>2 DEF FailsForCause
<1>2. CASE status' # "failed"
  BY <1>2 DEF FailsForCause
<1>3. ASSUME NEW p \in Paths, NEW c \in Files[p], OpenFails(p, c) PROVE FailsForCause'
  <2>1. p \in Visited' /\ files'[p] = c
    <3>1. /\ Calls(p) /\ p \notin Visited
          /\ files' = [files EXCEPT ![p] = c] /\ opened' = Append(opened, p)
      BY <1>3 DEF OpenFails
    <3>2. files'[p] = c
      BY <3>1, FileRead
    <3>3. Visited' = Visited \cup {p}
      BY <3>1, FileOpened
    <3> QED
      BY <3>2, <3>3
  <2> QED
    BY <1>3, <2>1 DEF OpenFails, FailsForCause
<1>4. CASE ReturnFails
  <2>1. status = "loading" /\ ~Distinct(Top.mounts) /\ UNCHANGED <<files, opened>>
    BY <1>4 DEF ReturnFails, Returning
  <2>2. Visited' = Visited
    BY <2>1 DEF Visited
  <2>3. \E p, q \in Visited : \E i \in DOMAIN files[p].mounts, j \in DOMAIN files[q].mounts :
          <<p, i>> # <<q, j>> /\ files[p].mounts[i].name = files[q].mounts[j].name
    BY <2>1, TwiceInFiles
  <2> QED
    BY <2>1, <2>2, <2>3 DEF FailsForCause
<1>5. CASE FinishFails
  <2>1. Done /\ ~LoadValid(files[Root], Top.mounts) /\ UNCHANGED <<files, opened>>
    BY <1>5 DEF FinishFails
  <2>2. Visited' = Reachable'
    BY <2>1, NothingPending DEF Visited, Reachable, ClosedUnderIncludes
  <2>3. PICK slot \in Bijection(1..Len(Top.mounts), Slots) :
          \A i \in 1..Len(Top.mounts) : Top.mounts[i] = At(slot[i])
    BY <2>1, MergedWhole
  <2>4. /\ DOMAIN Top.mounts = 1..Len(Top.mounts)
        /\ \A i \in 1..Len(Top.mounts) : slot[i] \in Slots
    BY <2>1, MergedWhole, FrameHas DEF Bijection, Injection
  <2>5. CASE \E i \in DOMAIN Top.mounts :
               ~(ValidateDriverConfig(Top.mounts[i]) /\ Resolves(Top.mounts[i].dir))
    <3>1. PICK i \in DOMAIN Top.mounts :
                 ~(ValidateDriverConfig(Top.mounts[i]) /\ Resolves(Top.mounts[i].dir))
      BY <2>5
    <3>2. slot[i] \in Slots /\ Top.mounts[i] = At(slot[i])
      BY <2>3, <2>4
    <3>3. PICK x \in Slots : ~(ValidateDriverConfig(At(x)) /\ Resolves(At(x).dir))
      BY <3>1, <3>2
    <3>4. ~LoadValid(files[Root], <<At(x)>>)
      <4> DEFINE one == <<At(x)>>
      <4>1. 1 \in DOMAIN one /\ one[1] = At(x)
        OBVIOUS
      <4> HIDE DEF one
      <4>2. ~LoadValid(files[Root], one)
        BY <3>3, <4>1 DEF LoadValid
      <4> QED
        BY <4>2 DEF one
    <3>5. Slots' = Slots /\ At(x)' = At(x)
      BY <2>1 DEF Slots, At
    <3>6. \E y \in Slots' : ~LoadValid(files'[Root], <<At(y)'>>)
      BY <2>1, <3>4, <3>5
    <3> QED
      BY <2>2, <3>6 DEF FailsForCause, LoadValid
  <2>6. CASE ~(LogTargetValid(files[Root]) /\ Resolves(files[Root].logFile)
               /\ Resolves(files[Root].socket))
    <3>1. ~LoadValid(files[Root], << >>)
      BY <2>6 DEF LoadValid
    <3> QED
      BY <2>1, <2>2, <3>1 DEF FailsForCause, LoadValid
  <2> QED
    BY <2>1, <2>5, <2>6 DEF LoadValid
<1> QED
  BY <1>1, <1>2, <1>3, <1>4, <1>5
     DEF Next, Load, Revisit, NextPattern, Open, Calls, Return, Returning, Finish

LEMMA NamesDiffer ==
  ASSUME Typed, Merged, DoLoadWaits, Finish
  PROVE  /\ Distinct(Top.mounts)
         /\ \A s, t \in Slots : At(s).name = At(t).name => s = t
<1>1. Done
  BY DEF Finish
<1>2. stack = <<Top>> /\ Top.rest = << >> /\ status = "loading"
  BY <1>1, MergedWhole DEF Done
<1>3. Distinct(Top.mounts)
  <2>1. stack[1] = Top /\ Len(stack) = 1
    BY <1>1, <1>2 DEF Done
  <2>2. << <<Root>> >> # << >>
    OBVIOUS
  <2> QED
    BY <1>2, <2>1, <2>2 DEF DoLoadWaits
<1>4. PICK slot \in Bijection(1..Len(Top.mounts), Slots) :
        \A i \in 1..Len(Top.mounts) : Top.mounts[i] = At(slot[i])
  BY <1>1, MergedWhole
<1>5. DOMAIN Top.mounts = 1..Len(Top.mounts)
  BY <1>1, MergedWhole, FrameHas
<1>6. \A s \in Slots : \E i \in 1..Len(Top.mounts) : slot[i] = s
  BY DEF Bijection, Surjection
<1> QED
  BY <1>3, <1>4, <1>5, <1>6 DEF Distinct

HandsOut ==
  status = "ok" =>
    /\ Visited = Reachable
    /\ \E from : HandedOut(from)
    /\ \A s, t \in Slots : At(s).name = At(t).name => s = t

LEMMA HandsOutStep ==
  Typed /\ Reached /\ Merged /\ DoLoadWaits /\ HandsOut /\ [Next]_vars => HandsOut'
<1> SUFFICES ASSUME Typed, Reached, Merged, DoLoadWaits, HandsOut, [Next]_vars
             PROVE  HandsOut'
  OBVIOUS
<1>1. CASE UNCHANGED vars
  <2>1. UNCHANGED <<files, opened, status, mounts>>
    BY <1>1 DEF vars
  <2>2. Visited' = Visited /\ Reachable' = Reachable /\ Slots' = Slots /\ \A x : At(x)' = At(x)
    BY <2>1 DEF Visited, Reachable, ClosedUnderIncludes, Slots, At
  <2>3. \A from : HandedOut(from) => HandedOut(from)'
    BY <2>1, <2>2 DEF HandedOut
  <2> QED
    BY <2>1, <2>2, <2>3 DEF HandsOut
<1>2. CASE status' # "ok"
  BY <1>2 DEF HandsOut
<1>3. CASE Finish
  <2>1. \E from : HandedOut(from)'
    BY <1>3, FinishHandsOut
  <2>2. UNCHANGED <<files, opened>> /\ Done
    BY <1>3 DEF Finish
  <2>3. Visited' = Visited /\ Reachable' = Reachable /\ Slots' = Slots /\ \A x : At(x)' = At(x)
    BY <2>2 DEF Visited, Reachable, ClosedUnderIncludes, Slots, At
  <2>4. Visited = Reachable
    BY <2>2, NothingPending
  <2>5. \A s, t \in Slots : At(s).name = At(t).name => s = t
    BY <1>3, NamesDiffer
  <2> QED
    BY <2>1, <2>3, <2>4, <2>5 DEF HandsOut
<1> QED
  BY <1>1, <1>2, <1>3
     DEF Next, Load, Revisit, NextPattern, Open, OpenFails, Calls, Return, Returning,
         ReturnFails, FinishFails, GiveUp

LEMMA MergeInvariants ==
  Spec => [](/\ Typed /\ Reached /\ OpenedOnce /\ Merged /\ DoLoadWaits
             /\ FailsForCause /\ HandsOut)
<1>1. Init => OpenedOnce /\ FailsForCause /\ HandsOut
  <2> SUFFICES ASSUME Init PROVE OpenedOnce /\ FailsForCause /\ HandsOut
    OBVIOUS
  <2>1. status = "loading" /\ opened = << >>
    BY DEF Init
  <2>2. DOMAIN opened = {}
    BY <2>1, NothingListed
  <2> QED
    BY <2>1, <2>2 DEF OpenedOnce, FailsForCause, HandsOut
<1>2. Init => Merged /\ DoLoadWaits
  BY MergedInit, DoLoadWaitsInit
<1>3. Typed /\ Reached /\ OpenedOnce /\ Merged /\ DoLoadWaits /\ FailsForCause /\ HandsOut
        /\ [Next]_vars
      => (OpenedOnce /\ Merged /\ DoLoadWaits /\ FailsForCause /\ HandsOut)'
  BY OpenedOnceStep, MergedStep, DoLoadWaitsStep, FailsForCauseStep, HandsOutStep
<1> QED
  BY <1>1, <1>2, <1>3, Invariants, PTL DEF Spec

(* A load that succeeds hands out each entry of each file that can be      *)
(* reached exactly once, and no name twice, whatever cycles and diamonds   *)
(* the files form (config.go:87-90, 112-130).                              *)
THEOREM CompleteCorrect == Spec => []Complete
<1>1. Typed /\ OpenedOnce /\ HandsOut => Complete
  <2> SUFFICES ASSUME Typed, OpenedOnce, HandsOut, status = "ok" PROVE Complete
    BY DEF Complete
  <2>1. PICK from : HandedOut(from)
    BY DEF HandsOut
  <2>2. PICK n \in Nat : DOMAIN mounts = 1..n
    BY <2>1 DEF HandedOut
  <2>3. /\ from \in [DOMAIN mounts -> Slots]
        /\ \A k, l \in DOMAIN mounts : from[k] = from[l] => k = l
        /\ \A s \in Slots : \E k \in DOMAIN mounts : from[k] = s
    BY <2>1 DEF HandedOut, Bijection, Injection, Surjection, IsInjective
  <2>4. \A k \in DOMAIN mounts : from[k] \in Slots /\ mounts[k].name = At(from[k]).name
    <3> SUFFICES ASSUME NEW k \in DOMAIN mounts
                 PROVE  from[k] \in Slots /\ mounts[k].name = At(from[k]).name
      OBVIOUS
    <3>1. from[k] \in Slots
      BY <2>3
    <3>2. mounts[k] = [At(from[k]) EXCEPT !.dir = Resolve[@]] /\ At(from[k]) \in Entry
      BY <2>1, <3>1 DEF HandedOut
    <3> QED
      BY <3>1, <3>2 DEF Entry
  <2>5. Distinct(mounts)
    BY <2>3, <2>4 DEF Distinct, HandsOut
  <2>6. Len(mounts) = Cardinality(Slots)
    <3>1. IsFiniteSet(1..n) /\ Cardinality(1..n) = n
      BY IntervalIsFinite
    <3>2. ExistsBijection(1..n, Slots)
      BY <2>1, <2>2 DEF HandedOut, ExistsBijection
    <3>3. Cardinality(Slots) = n
      BY <3>1, <3>2, FS_Bijection
    <3>4. Len(mounts) = n
      BY <2>2
    <3> QED
      BY <3>3, <3>4
  <2>7. {mounts[i].name : i \in DOMAIN mounts} = {At(x).name : x \in Slots}
    BY <2>3, <2>4
  <2> QED
    BY <2>5, <2>6, <2>7 DEF Complete, HandsOut, OpenedOnce
<1> QED
  BY <1>1, MergeInvariants, PTL

(* A load fails only because of what stands in the files it has read:      *)
(* that a file is included twice or in a circle is never the cause         *)
(* (config.go:87-89).                                                      *)
THEOREM FailsForCauseCorrect == Spec => []FailsForCause
  BY MergeInvariants, PTL

(* Merging depth first and sorting stably leave the entries in the order   *)
(* the root asks for and otherwise in that in which they were met          *)
(* (config.go:112-124, 190-224).                                           *)
THEOREM OrderCorrect == Spec => []OrderAsAsked
<1>1. Typed /\ HandsOut => OrderAsAsked
  <2> SUFFICES ASSUME Typed, HandsOut, status = "ok",
                      NEW i \in DOMAIN mounts, NEW j \in DOMAIN mounts, i < j
               PROVE  \/ LessBy(mounts[i], mounts[j], files[Root].by)
                      \/ /\ ~LessBy(mounts[j], mounts[i], files[Root].by)
                         /\ CameFirst(mounts[i], mounts[j])
    BY DEF OrderAsAsked
  <2>1. PICK from : HandedOut(from)
    BY DEF HandsOut
  <2>2. from[i] \in Slots /\ from[j] \in Slots
    BY <2>1 DEF HandedOut, Bijection, Injection
  <2> DEFINE s == from[i]
             t == from[j]
             by == files[Root].by
  <2>3. /\ mounts[i] = [At(s) EXCEPT !.dir = Resolve[@]] /\ At(s) \in Entry
        /\ mounts[j] = [At(t) EXCEPT !.dir = Resolve[@]] /\ At(t) \in Entry
    BY <2>1, <2>2 DEF HandedOut
  <2>4. mounts[i].name = At(s).name /\ mounts[j].name = At(t).name
    BY <2>3 DEF Entry
  <2>5. \/ LessBy(At(s), At(t), by)
        \/ ~LessBy(At(t), At(s), by) /\ Precedes(s, t)
    BY <2>1, <2>2 DEF HandedOut
  <2>6. /\ LessBy(At(s), At(t), by) <=> LessBy(mounts[i], mounts[j], by)
        /\ LessBy(At(t), At(s), by) <=> LessBy(mounts[j], mounts[i], by)
    <3> HIDE DEF s, t, by
    <3> QED
      BY <2>4 DEF LessBy, Before
  <2>7. Precedes(s, t) => CameFirst(mounts[i], mounts[j])
    BY <2>2, <2>4 DEF CameFirst
  <2> QED
    BY <2>5, <2>6, <2>7
<1> QED
  BY <1>1, MergeInvariants, PTL

-----------------------------------------------------------------------------
(* The refinement of ConfigContents.                                       *)

Order(S) == {q \in S \X S : Precedes(q[1], q[2])}

LEMMA OrderOrders ==
  ASSUME NEW S, S \subseteq Int \X Int
  PROVE  Orders(Order(S), S) /\ \A x, y \in S : <<x, y>> \in Order(S) <=> Precedes(x, y)
<1>1. \A x, y \in S : <<x, y>> \in Order(S) <=> Precedes(x, y)
  BY DEF Order
<1>2. \A x \in S : x[1] \in Int /\ x[2] \in Int /\ x = <<x[1], x[2]>>
  OBVIOUS
<1>3. \A x \in S : ~Precedes(x, x)
  BY <1>2 DEF Precedes
<1>4. \A x, y \in S : x # y => Precedes(x, y) \/ Precedes(y, x)
  BY <1>2 DEF Precedes
<1>5. \A x, y, z \in S : Precedes(x, y) /\ Precedes(y, z) => Precedes(x, z)
  BY <1>2 DEF Precedes
<1> QED
  BY <1>1, <1>3, <1>4, <1>5 DEF Orders

Lists(g, n, st) ==
  /\ g \in Bijection(1..n, Items(st))
  /\ \A i, j \in 1..n : i < j <=> Precedes(g[i], g[j])

(* The names in order are those of the items in order.                     *)
LEMMA NamesHeldAre ==
  ASSUME NEW st \in Seq(FrameType), NEW n \in Nat, NEW g, Lists(g, n, st)
  PROVE  NamesHeld(st) = [k \in 1..n |-> Held(st, g[k]).name]
<1> DEFINE I == Items(st)
           P == Order(I)
           R == {q \in (1..n) \X (1..n) : q[1] < q[2]}
<1>1. IsFiniteSet(I) /\ I \subseteq Int \X Int
  BY ItemsAreFinite
<1>2. Orders(P, I) /\ \A x, y \in I : <<x, y>> \in P <=> Precedes(x, y)
  BY <1>1, OrderOrders
<1>3. /\ g \in Bijection(1..n, I) /\ g \in [1..n -> I]
      /\ \A i, j \in 1..n : i < j <=> Precedes(g[i], g[j])
  BY DEF Lists, Bijection, Injection
<1>4. IsFiniteSet(1..n) /\ Cardinality(1..n) = n
  BY IntervalIsFinite
<1>5. Cardinality(I) = n
  <2>1. ExistsBijection(1..n, I)
    BY <1>3 DEF ExistsBijection
  <2> HIDE DEF I
  <2> QED
    BY <1>4, <2>1, FS_Bijection
<1>6. \A k \in 1..n : Rank(P, I, g[k]) = k
  <2> SUFFICES ASSUME NEW k \in 1..n PROVE Rank(P, I, g[k]) = k
    OBVIOUS
  <2>1. Rank(R, 1..n, k) = k
    BY BeforeInInterval
  <2>2. \A i, j \in 1..n : <<i, j>> \in R <=> i < j
    OBVIOUS
  <2> HIDE DEF I, P, R
  <2>3. \A i, j \in 1..n : <<i, j>> \in R <=> <<g[i], g[j]>> \in P
    BY <1>2, <1>3, <2>2
  <2>4. Rank(P, I, g[k]) = Rank(R, 1..n, k)
    <3> DEFINE S == 1..n
    <3>1. IsFiniteSet(S) /\ k \in S /\ KeepsOrder(g, S, R, I, P)
      BY <1>3, <1>4, <2>3 DEF KeepsOrder
    <3> HIDE DEF S
    <3>2. Rank(P, I, g[k]) = Rank(R, S, k)
      BY <3>1, RankIsKept
    <3> QED
      BY <3>2 DEF S
  <2> QED
    BY <2>1, <2>4
<1>7. \A x \in I : 1 + Cardinality({y \in I : Precedes(y, x)}) = Rank(P, I, x)
  <2> SUFFICES ASSUME NEW x \in I
               PROVE  1 + Cardinality({y \in I : Precedes(y, x)}) = Rank(P, I, x)
    OBVIOUS
  <2>1. Earlier(P, I, x) = {y \in I : Precedes(y, x)}
    BY <1>2 DEF Earlier
  <2> QED
    BY <2>1 DEF Rank
<1>8. \A x, y \in I : Rank(P, I, x) = Rank(P, I, y) => x = y
  <2> HIDE DEF I, P
  <2> QED
    BY <1>1, <1>2, RanksAreTaken
<1>9. ASSUME NEW k \in 1..n PROVE Nth(st, k) = g[k]
  <2> DEFINE Q(x) == 1 + Cardinality({y \in I : Precedes(y, x)}) = k
  <2>1. g[k] \in I /\ Q(g[k])
    BY <1>3, <1>6, <1>7
  <2>2. \A x \in I : Q(x) => x = g[k]
    BY <1>6, <1>7, <1>8, <2>1
  <2>3. Nth(st, k) = CHOOSE x \in I : Q(x)
    BY DEF Nth
  <2> HIDE DEF I, Q
  <2> QED
    BY <2>1, <2>2, <2>3
<1> HIDE DEF P, R
<1> QED
  BY <1>5, <1>9 DEF NamesHeld

LEMMA ItemsAreListed ==
  ASSUME NEW st \in Seq(FrameType)
  PROVE  \E n \in Nat : \E g : Lists(g, n, st)
<1> DEFINE I == Items(st)
           P == Order(I)
           n == Cardinality(I)
           g == [k \in 1..n |-> CHOOSE x \in I : Rank(P, I, x) = k]
<1>1. IsFiniteSet(I) /\ I \subseteq Int \X Int
  BY ItemsAreFinite
<1>2. Orders(P, I) /\ \A x, y \in I : <<x, y>> \in P <=> Precedes(x, y)
  BY <1>1, OrderOrders
<1>3. n \in Nat
  BY <1>1, FS_CardinalityType
<1> HIDE DEF I, P
<1>4. /\ \A x \in I : Rank(P, I, x) \in 1..n
      /\ \A x, y \in I : Rank(P, I, x) = Rank(P, I, y) => x = y
      /\ \A x, y \in I : <<x, y>> \in P <=> Rank(P, I, x) < Rank(P, I, y)
      /\ \A k \in 1..n : \E x \in I : Rank(P, I, x) = k
  BY <1>1, <1>2, RanksAreTaken
<1> HIDE DEF n
<1>5. \A k \in 1..n : g[k] \in I /\ Rank(P, I, g[k]) = k
  BY <1>4
<1>6. g \in [1..n -> I]
  BY <1>5
<1> HIDE DEF g
<1>7. g \in Bijection(1..n, I)
  <2>1. \A k, l \in 1..n : g[k] = g[l] => k = l
    BY <1>5
  <2>2. ASSUME NEW x \in I PROVE \E k \in 1..n : g[k] = x
    <3>1. Rank(P, I, x) \in 1..n
      BY <1>4
    <3>2. g[Rank(P, I, x)] = x
      BY <1>4, <1>5, <3>1
    <3> QED
      BY <3>1, <3>2
  <2> QED
    BY <1>6, <2>1, <2>2 DEF Bijection, Injection, Surjection, IsInjective
<1>8. \A i, j \in 1..n : i < j <=> Precedes(g[i], g[j])
  <2> SUFFICES ASSUME NEW i \in 1..n, NEW j \in 1..n
               PROVE  i < j <=> Precedes(g[i], g[j])
    OBVIOUS
  <2>1. g[i] \in I /\ g[j] \in I /\ Rank(P, I, g[i]) = i /\ Rank(P, I, g[j]) = j
    BY <1>5
  <2>2. Precedes(g[i], g[j]) <=> Rank(P, I, g[i]) < Rank(P, I, g[j])
    BY <1>2, <1>4, <2>1
  <2> QED
    BY <2>1, <2>2
<1>9. Lists(g, n, st)
  BY <1>7, <1>8 DEF Lists, I
<1> QED
  BY <1>3, <1>9

LEMMA NamesMoved ==
  ASSUME NEW st \in Seq(FrameType), NEW u \in Seq(FrameType),
         NEW move \in Bijection(Items(u), Items(st)),
         \A x \in Items(u) : Held(u, x) = Held(st, move[x]),
         \A x, y \in Items(u) : Precedes(x, y) <=> Precedes(move[x], move[y])
  PROVE  NamesHeld(u) = NamesHeld(st)
<1>1. PICK n \in Nat : \E g : Lists(g, n, u)
  BY ItemsAreListed
<1>2. PICK g : Lists(g, n, u)
  BY <1>1
<1> DEFINE h == [k \in 1..n |-> move[g[k]]]
<1>3. /\ g \in [1..n -> Items(u)]
      /\ \A i, j \in 1..n : g[i] = g[j] => i = j
      /\ \A x \in Items(u) : \E i \in 1..n : g[i] = x
      /\ \A i, j \in 1..n : i < j <=> Precedes(g[i], g[j])
  BY <1>2 DEF Lists, Bijection, Injection, Surjection, IsInjective
<1>4. /\ move \in [Items(u) -> Items(st)]
      /\ \A x, y \in Items(u) : move[x] = move[y] => x = y
      /\ \A s \in Items(st) : \E x \in Items(u) : move[x] = s
  BY DEF Bijection, Injection, Surjection, IsInjective
<1>5. h \in [1..n -> Items(st)]
  BY <1>3, <1>4
<1>6. \A i, j \in 1..n : h[i] = h[j] => i = j
  BY <1>3, <1>4
<1>7. ASSUME NEW s \in Items(st) PROVE \E i \in 1..n : h[i] = s
  <2>1. PICK x \in Items(u) : move[x] = s
    BY <1>4
  <2>2. PICK i \in 1..n : g[i] = x
    BY <1>3
  <2> QED
    BY <2>1, <2>2
<1>8. \A i, j \in 1..n : i < j <=> Precedes(h[i], h[j])
  BY <1>3
<1>9. \A k \in 1..n : Held(u, g[k]) = Held(st, h[k])
  BY <1>3
<1> HIDE DEF h
<1>10. Lists(h, n, st)
  BY <1>5, <1>6, <1>7, <1>8 DEF Lists, Bijection, Injection, Surjection, IsInjective
<1>11. /\ NamesHeld(u) = [k \in 1..n |-> Held(u, g[k]).name]
       /\ NamesHeld(st) = [k \in 1..n |-> Held(st, h[k]).name]
  BY <1>2, <1>10, NamesHeldAre
<1> QED
  BY <1>9, <1>11

LEMMA NamesKept ==
  ASSUME NEW st \in Seq(FrameType), NEW u \in Seq(FrameType), Items(u) = Items(st),
         \A x \in Items(st) : Held(u, x) = Held(st, x)
  PROVE  NamesHeld(u) = NamesHeld(st)
<1> DEFINE I == Items(st)
           id == [x \in I |-> x]
<1>1. /\ id \in [I -> I] /\ (\A x, y \in I : id[x] = id[y] => x = y)
      /\ \A s \in I : \E x \in I : id[x] = s
  OBVIOUS
<1>2. \A x \in I : id[x] = x
  OBVIOUS
<1> HIDE DEF id, I
<1>3. id \in Bijection(I, I)
  BY <1>1 DEF Bijection, Injection, Surjection, IsInjective
<1> QED
  BY <1>2, <1>3, NamesMoved DEF I

LEMMA NamesPushed ==
  ASSUME NEW st \in Seq(FrameType), NEW f \in FrameType
  PROVE  NamesHeld(Append(st, f)) = NamesHeld(st) \o NamesOf(f.mounts)
<1> DEFINE u == Append(st, f)
           c == Len(st) + 1
           m == Len(f.mounts)
           B == {<<c, i>> : i \in DOMAIN f.mounts}
           I == Items(st)
<1>1. PICK n \in Nat : \E g : Lists(g, n, st)
  BY ItemsAreListed
<1>2. PICK g : Lists(g, n, st)
  BY <1>1
<1>3. /\ g \in [1..n -> I]
      /\ \A i, j \in 1..n : g[i] = g[j] => i = j
      /\ \A x \in I : \E i \in 1..n : g[i] = x
      /\ \A i, j \in 1..n : i < j <=> Precedes(g[i], g[j])
  BY <1>2 DEF Lists, Bijection, Injection, Surjection, IsInjective
<1>4. /\ Items(u) = I \cup B
      /\ \A x \in I : x[1] \in 1..Len(st) /\ Held(u, x) = Held(st, x)
      /\ \A x \in B : Held(u, x) = f.mounts[x[2]]
  BY ItemsPushed
<1>5. /\ f.mounts \in Seq(ValidEntry) /\ DOMAIN f.mounts = 1..m /\ m \in Nat
      /\ \A i \in 1..m : f.mounts[i].name \in Text
  <2>1. f.mounts \in Seq(ValidEntry)
    BY FrameHas
  <2>2. \A i \in 1..m : f.mounts[i] \in ValidEntry
    BY <2>1
  <2> QED
    BY <2>1, <2>2 DEF ValidEntry, Entry
<1>6. u \in Seq(FrameType) /\ c \in Int /\ Len(st) \in Nat
  BY AppendProperties
<1>7. ASSUME NEW x \in I PROVE Held(st, x).name \in Text
  <2>1. PICK k \in DOMAIN st : \E i \in DOMAIN st[k].mounts : x = <<k, i>>
    BY ItemIs
  <2>2. PICK i \in DOMAIN st[k].mounts : x = <<k, i>>
    BY <2>1
  <2>3. st[k] \in FrameType
    OBVIOUS
  <2>4. st[k].mounts[i] \in ValidEntry
    BY <2>3, FrameHas
  <2> QED
    BY <2>2, <2>4 DEF Held, ValidEntry, Entry
<1> DEFINE h == [k \in 1..(n + m) |-> IF k <= n THEN g[k] ELSE <<c, k - n>>]
<1>8. /\ \A k \in 1..n : k \in 1..(n + m) /\ h[k] = g[k] /\ h[k] \in I
      /\ \A k \in (n + 1)..(n + m) : /\ k \in 1..(n + m) /\ k - n \in 1..m
                                     /\ h[k] = <<c, k - n>> /\ h[k] \in B
      /\ \A k \in 1..(n + m) : k \in 1..n \/ k \in (n + 1)..(n + m)
  <2>1. \A k \in 1..n : k \in 1..(n + m) /\ k <= n
    BY <1>5
  <2>2. \A k \in (n + 1)..(n + m) : k \in 1..(n + m) /\ k - n \in 1..m /\ ~(k <= n)
    BY <1>5
  <2>3. \A k \in 1..(n + m) : k \in 1..n \/ k \in (n + 1)..(n + m)
    BY <1>5
  <2>4. \A i \in 1..m : <<c, i>> \in B
    BY <1>5
  <2> HIDE DEF B, I, c, m
  <2> QED
    BY <1>3, <2>1, <2>2, <2>3, <2>4
<1>9. \A x \in B : x[1] = c /\ x = <<c, x[2]>> /\ x[2] \in 1..m
  BY <1>5
<1>10. \A x \in I : x \notin B
  BY <1>4, <1>6, <1>9
<1>11. h \in [1..(n + m) -> I \cup B]
  BY <1>8
<1> HIDE DEF h, I, B
<1>12. \A i, j \in 1..(n + m) : h[i] = h[j] => i = j
  <2> SUFFICES ASSUME NEW i \in 1..(n + m), NEW j \in 1..(n + m), h[i] = h[j] PROVE i = j
    OBVIOUS
  <2>1. CASE i \in 1..n /\ j \in 1..n
    BY <1>3, <1>8, <2>1
  <2>2. CASE i \in (n + 1)..(n + m) /\ j \in (n + 1)..(n + m)
    <3>1. <<c, i - n>> = <<c, j - n>>
      BY <1>8, <2>2
    <3> QED
      BY <3>1
  <2> QED
    BY <1>8, <1>10, <2>1, <2>2
<1>13. ASSUME NEW x \in I \cup B PROVE \E k \in 1..(n + m) : h[k] = x
  <2>1. CASE x \in I
    BY <1>3, <1>8, <2>1
  <2>2. CASE x \in B
    <3> DEFINE k == n + x[2]
    <3>1. k \in (n + 1)..(n + m) /\ k - n = x[2]
      BY <1>5, <1>9, <2>2
    <3> HIDE DEF k
    <3>2. k \in 1..(n + m) /\ h[k] = x
      BY <1>8, <1>9, <2>2, <3>1
    <3> QED
      BY <3>2
  <2> QED
    BY <2>1, <2>2
<1>14. \A i, j \in 1..(n + m) : i < j <=> Precedes(h[i], h[j])
  <2> SUFFICES ASSUME NEW i \in 1..(n + m), NEW j \in 1..(n + m)
               PROVE  i < j <=> Precedes(h[i], h[j])
    OBVIOUS
  <2>1. CASE i \in 1..n /\ j \in 1..n
    BY <1>3, <1>8, <2>1
  <2>2. CASE i \in 1..n /\ j \in (n + 1)..(n + m)
    <3>1. h[i][1] \in 1..Len(st) /\ h[j][1] = c /\ i < j
      BY <1>4, <1>8, <1>9, <2>2
    <3> QED
      BY <1>6, <3>1 DEF Precedes
  <2>3. CASE i \in (n + 1)..(n + m) /\ j \in 1..n
    <3>1. h[j][1] \in 1..Len(st) /\ h[i][1] = c /\ ~(i < j)
      BY <1>4, <1>8, <1>9, <2>3
    <3> QED
      BY <1>6, <3>1 DEF Precedes
  <2>4. CASE i \in (n + 1)..(n + m) /\ j \in (n + 1)..(n + m)
    <3>1. h[i] = <<c, i - n>> /\ h[j] = <<c, j - n>>
      BY <1>8, <2>4
    <3>2. h[i][1] = c /\ h[j][1] = c /\ h[i][2] = i - n /\ h[j][2] = j - n
      BY <3>1
    <3> HIDE DEF c
    <3> QED
      BY <1>6, <3>2 DEF Precedes
  <2> QED
    BY <1>8, <2>1, <2>2, <2>3, <2>4
<1>15. Lists(h, n + m, u)
  BY <1>4, <1>11, <1>12, <1>13, <1>14 DEF Lists, Bijection, Injection, Surjection, IsInjective
<1>16. /\ NamesHeld(u) = [k \in 1..(n + m) |-> Held(u, h[k]).name]
       /\ NamesHeld(st) = [k \in 1..n |-> Held(st, g[k]).name]
  <2>1. n + m \in Nat
    BY <1>5
  <2> HIDE DEF u, m
  <2> QED
    BY <1>2, <1>6, <1>15, <2>1, NamesHeldAre
<1> DEFINE a == NamesHeld(st)
           b == NamesOf(f.mounts)
<1>17. a \in Seq(Text) /\ Len(a) = n /\ \A k \in 1..n : a[k] = Held(st, g[k]).name
  <2> DEFINE e == [k \in 1..n |-> Held(st, g[k]).name]
  <2>1. \A k \in 1..n : e[k] \in Text
    BY <1>3, <1>7 DEF I
  <2>2. a = [k \in 1..n |-> e[k]]
    BY <1>16
  <2>3. \A k \in 1..n : e[k] = Held(st, g[k]).name
    OBVIOUS
  <2> HIDE DEF e, a
  <2>4. a \in [1..n -> Text] /\ \A k \in 1..n : a[k] = e[k]
    BY <2>1, <2>2
  <2>5. a \in Seq(Text) /\ Len(a) = n
    <3>1. n \in Nat /\ a \in [1..n -> Text]
      BY <2>4
    <3> QED
      BY <3>1
  <2> QED
    BY <2>3, <2>4, <2>5
<1>18. b \in Seq(Text) /\ Len(b) = m /\ \A i \in 1..m : b[i] = f.mounts[i].name
  <2> DEFINE e == [i \in 1..m |-> f.mounts[i].name]
  <2>1. \A i \in 1..m : e[i] \in Text /\ e[i] = f.mounts[i].name
    BY <1>5
  <2>2. b = [i \in 1..m |-> e[i]]
    BY <1>5 DEF NamesOf
  <2> HIDE DEF e, b, m
  <2> QED
    BY <1>5, <2>1, <2>2
<1> HIDE DEF a, b
<1>19. /\ a \o b \in Seq(Text) /\ Len(a \o b) = n + m
       /\ \A k \in 1..(n + m) : (a \o b)[k] = IF k <= n THEN a[k] ELSE b[k - n]
  <2>1. a \in Seq(Text) /\ b \in Seq(Text) /\ Len(a) = n /\ Len(b) = m
    BY <1>17, <1>18
  <2> HIDE DEF m
  <2>2. /\ a \o b \in Seq(Text) /\ Len(a \o b) = Len(a) + Len(b)
        /\ \A k \in 1..(Len(a) + Len(b)) : (a \o b)[k] = IF k <= Len(a) THEN a[k] ELSE b[k - Len(a)]
    BY <2>1, ConcatProperties
  <2> QED
    BY <2>1, <2>2
<1>20. \A k \in 1..(n + m) : Held(u, h[k]).name = (a \o b)[k]
  <2> SUFFICES ASSUME NEW k \in 1..(n + m) PROVE Held(u, h[k]).name = (a \o b)[k]
    OBVIOUS
  <2>1. CASE k \in 1..n
    <3>1. Held(u, h[k]) = Held(st, g[k])
      BY <1>4, <1>8, <2>1
    <3>2. k <= n
      BY <2>1
    <3> QED
      BY <1>17, <1>19, <2>1, <3>1, <3>2
  <2>2. CASE k \in (n + 1)..(n + m)
    <3>1. h[k] \in B /\ h[k] = <<c, k - n>> /\ k - n \in 1..m
      BY <1>8, <2>2
    <3>2. Held(u, h[k]) = f.mounts[k - n]
      <4>1. h[k][2] = k - n
        BY <3>1
      <4> QED
        BY <1>4, <3>1, <4>1
    <3>3. ~(k <= n)
      BY <2>2
    <3> QED
      BY <1>18, <1>19, <3>1, <3>2, <3>3
  <2> QED
    BY <1>8, <2>1, <2>2
<1>21. NamesHeld(u) = a \o b
  <2> DEFINE N == n + m
             ab == a \o b
  <2>0. ab \in Seq(Text) /\ Len(ab) = N
    BY <1>19
  <2>1. \A k \in 1..N : Held(u, h[k]).name = ab[k]
    BY <1>20
  <2>2. NamesHeld(u) = [k \in 1..N |-> Held(u, h[k]).name]
    BY <1>16
  <2> HIDE DEF ab, N
  <2>3. ab = [k \in 1..N |-> ab[k]]
    BY <2>0
  <2>4. NamesHeld(u) = ab
    BY <2>1, <2>2, <2>3
  <2> QED
    BY <2>4 DEF ab
<1> QED
  BY <1>21 DEF a, b

LEMMA NamesWhole ==
  ASSUME NEW f \in FrameType
  PROVE  NamesHeld(<<f>>) = NamesOf(f.mounts)
<1> DEFINE n == Len(f.mounts)
           st == <<f>>
           g == [i \in 1..n |-> <<1, i>>]
<1>1. f.mounts \in Seq(ValidEntry) /\ DOMAIN f.mounts = 1..n /\ n \in Nat
  BY FrameHas
<1>2. st \in Seq(FrameType) /\ DOMAIN st = 1..1 /\ st[1] = f
  OBVIOUS
<1> HIDE DEF st
<1>3. \A x : x \in Items(st) <=> \E i \in 1..n : x = <<1, i>>
  <2>1. \A x : x \in Items(st) <=> \E k \in DOMAIN st : \E i \in DOMAIN st[k].mounts : x = <<k, i>>
    BY ItemIs
  <2>2. \A k \in DOMAIN st : k = 1
    BY <1>2
  <2>3. 1 \in DOMAIN st /\ DOMAIN st[1].mounts = 1..n
    BY <1>1, <1>2
  <2> HIDE DEF n
  <2> QED
    BY <2>1, <2>2, <2>3
<1> HIDE DEF n
<1>4. /\ g \in [1..n -> Items(st)]
      /\ \A i, j \in 1..n : g[i] = g[j] => i = j
      /\ \A x \in Items(st) : \E i \in 1..n : g[i] = x
      /\ \A i, j \in 1..n : i < j <=> Precedes(g[i], g[j])
  BY <1>3 DEF Precedes
<1>5. \A i \in 1..n : Held(st, g[i]) = f.mounts[i]
  BY <1>2 DEF Held
<1> HIDE DEF g
<1>6. Lists(g, n, st)
  BY <1>4 DEF Lists, Bijection, Injection, Surjection, IsInjective
<1>7. NamesHeld(st) = [i \in 1..n |-> Held(st, g[i]).name]
  BY <1>1, <1>2, <1>6, NamesHeldAre
<1>8. NamesHeld(st) = NamesOf(f.mounts)
  BY <1>1, <1>5, <1>7 DEF NamesOf
<1> QED
  BY <1>8 DEF st

NoneYet == status # "ok" => mounts = << >>

(* Only the root and what a file read before includes is ever pending      *)
(* (config.go:112-124).                                                    *)
Awaited ==
  status = "loading" =>
    \A p \in Pending : p = Root \/ \E q \in Visited : p \in Includes(files[q])

LEMMA AwaitedStep == Typed /\ Awaited /\ [Next]_vars => Awaited'
<1> SUFFICES ASSUME Typed, Awaited, [Next]_vars PROVE Awaited'
  OBVIOUS
<1>1. ASSUME status = "loading", UNCHANGED <<files, opened>>, Pending' \subseteq Pending
      PROVE  Awaited'
  <2>1. Visited' = Visited
    BY <1>1 DEF Visited
  <2> QED
    BY <1>1, <2>1 DEF Awaited
<1>2. CASE UNCHANGED vars
  BY <1>2 DEF Awaited, Pending, PendingIn, Visited, vars
<1>3. CASE status' # "loading"
  BY <1>3 DEF Awaited
<1>4. CASE Revisit
  <2>1. PICK p \in Visited : Calls(p)
    BY <1>4 DEF Revisit
  <2>2. Pending = Pending' \cup {p}
    BY <1>4, <2>1, FileSkipped DEF Revisit, Pending
  <2> QED
    BY <1>1, <1>4, <2>1, <2>2 DEF Revisit, Calls
<1>5. CASE NextPattern
  BY <1>1, <1>5, PatternSkipped DEF NextPattern
<1>6. CASE Return
  BY <1>1, <1>6, ReturnGoesOn DEF Return, Returning
<1>7. ASSUME NEW p \in Paths, NEW c \in Files[p], Open(p, c) PROVE Awaited'
  <2>1. status = "loading" /\ p \notin Visited
    BY <1>7 DEF Open, Calls
  <2>2. Pending \cup InRest(c.include) = Pending' \cup {p}
    BY <1>7, CallMade
  <2>3. Visited' = Visited \cup {p}
    BY <1>7, FileOpened DEF Open
  <2>4. files'[p] = c /\ \A q \in Visited : files'[q] = files[q]
    BY <1>7, FileRead DEF Open
  <2>5. Includes(c) = InRest(c.include)
    BY DEF Includes, InRest
  <2>6. ASSUME NEW r \in Pending' PROVE r = Root \/ \E q \in Visited' : r \in Includes(files'[q])
    <3>1. CASE r \in Pending
      BY <2>1, <2>3, <2>4, <3>1 DEF Awaited
    <3>2. CASE r \in InRest(c.include)
      BY <2>3, <2>4, <2>5, <3>2
    <3> QED
      BY <2>2, <3>1, <3>2
  <2> QED
    BY <2>6 DEF Awaited
<1> QED
  BY <1>2, <1>3, <1>4, <1>5, <1>6, <1>7
     DEF Next, Load, OpenFails, ReturnFails, Finish, FinishFails, GiveUp

LEMMA RefinementInvariants ==
  Spec => [](/\ Typed /\ Reached /\ Merged /\ DoLoadWaits /\ Awaited /\ NoneYet)
<1>1. Init => Awaited /\ NoneYet
  <2> SUFFICES ASSUME Init PROVE Awaited /\ NoneYet
    OBVIOUS
  <2>1. Pending = {Root}
    BY InitTyped
  <2>2. mounts = << >>
    BY DEF Init
  <2> QED
    BY <2>1, <2>2 DEF Awaited, NoneYet
<1>2. NoneYet /\ [Next]_vars => NoneYet'
  <2> SUFFICES ASSUME NoneYet, [Next]_vars PROVE NoneYet'
    OBVIOUS
  <2>1. \/ status' = "ok" \/ UNCHANGED <<status, mounts>>
        \/ status = "loading" /\ UNCHANGED mounts
    <3>1. CASE UNCHANGED vars
      BY <3>1 DEF vars
    <3>2. CASE Next
      BY <3>2 DEF Next, Load, Revisit, NextPattern, Open, OpenFails, Calls, Return, Returning,
                  ReturnFails, Finish, FinishFails, Done, GiveUp, vars
    <3> QED
      BY <3>1, <3>2
  <2> QED
    BY <2>1 DEF NoneYet
<1>3. Typed /\ Awaited /\ NoneYet /\ [Next]_vars => (Awaited /\ NoneYet)'
  BY <1>2, AwaitedStep
<1> QED
  BY <1>1, <1>3, MergeInvariants, PTL DEF Spec

LEMMA SameIncludes ==
  ASSUME NEW c
  PROVE  Contents!Includes(c) = Includes(c)
  BY DEF Contents!Includes, Includes

LEMMA AddedIsVisited ==
  ASSUME Typed
  PROVE  Contents!Added = Visited
<1>1. Visited \subseteq Paths
  BY DEF Visited, Typed
<1> QED
  BY <1>1 DEF Contents!Added, Typed

LEMMA RefinesInit == Init => Contents!Init
<1> SUFFICES ASSUME Init PROVE Contents!Init
  OBVIOUS
<1>1. Items(stack) = {} /\ status = "loading"
  BY InitItems DEF Init
<1>2. Cardinality({}) = 0
  BY FS_EmptySet
<1>3. NamesHeld(stack) = << >>
  <2>1. NamesHeld(stack) = [n \in 1..0 |-> Held(stack, Nth(stack, n)).name]
    BY <1>1, <1>2 DEF NamesHeld
  <2> QED
    BY <2>1
<1>4. NamesLoaded = << >>
  BY <1>1, <1>3 DEF NamesLoaded
<1> QED
  BY <1>1, <1>4 DEF Contents!Init, Init

LEMMA FailRefines ==
  ASSUME Typed, NoneYet, status = "loading", GiveUp,
         \A q \in Visited : files'[q] = files[q]
  PROVE  Contents!Fail
<1>1. status' = "failed" /\ mounts' = << >>
  BY DEF GiveUp, NoneYet
<1>2. NamesLoaded' = << >>
  <2>1. NamesLoaded' = NamesOf(mounts')
    BY <1>1 DEF NamesLoaded
  <2>2. DOMAIN mounts' = 1..0
    BY <1>1
  <2>3. NamesOf(mounts') = [i \in 1..0 |-> mounts'[i].name]
    BY <2>2 DEF NamesOf
  <2> QED
    BY <2>1, <2>3
<1>3. \A p \in Contents!Added : files'[p] = files[p]
  BY AddedIsVisited
<1> QED
  BY <1>1, <1>2, <1>3 DEF Contents!Fail

LEMMA OpenRefines ==
  ASSUME Typed, Awaited, NEW p \in Paths, NEW c \in Files[p], Open(p, c), Typed'
  PROVE  Contents!Add(p)
<1> DEFINE f == Frame(p, c.include, c.mounts)
           u == WithTop(SkipFile)
<1>1. /\ status = "loading" /\ status' = "loading" /\ p \notin Visited /\ Calls(p) /\ Usable(c)
      /\ files' = [files EXCEPT ![p] = c] /\ stack' = Append(u, f)
  BY DEF Open, Calls
<1>2. files'[p] = c /\ c # Unread
  BY <1>1, FileRead, FilesAreContents, UnreadIsNone DEF Open
<1>3. p \in Pending
  BY <1>1, FileSkipped
<1>4. p = Root \/ \E q \in Contents!Added : p \in Contents!Includes(files[q])
  BY <1>1, <1>3, AddedIsVisited, SameIncludes DEF Awaited
<1>5. p \notin Contents!Added
  BY <1>1, AddedIsVisited
<1>6. files' = [files EXCEPT ![p] = files'[p]]
  BY <1>1, <1>2
<1>7. NamesLoaded' = NamesLoaded \o NamesOf(c.mounts)
  <2>1. stack \in Seq(FrameType) /\ u \in Seq(FrameType) /\ f \in FrameType /\ f.mounts = c.mounts
    BY <1>1, FileSkipped, FileIsFrame DEF Typed, Frame
  <2>2. Items(u) = Items(stack) /\ \A x \in Items(stack) : Held(u, x) = Held(stack, x)
    BY <1>1, FileSkippedKeeps
  <2> HIDE DEF u, f
  <2>3. NamesHeld(u) = NamesHeld(stack)
    BY <2>1, <2>2, NamesKept
  <2>4. NamesHeld(stack') = NamesHeld(u) \o NamesOf(f.mounts)
    BY <1>1, <2>1, NamesPushed
  <2> QED
    BY <1>1, <2>1, <2>3, <2>4 DEF NamesLoaded
<1>8. NamesOf(c.mounts) = [i \in DOMAIN files'[p].mounts |-> files'[p].mounts[i].name]
  BY <1>2 DEF NamesOf
<1> QED
  BY <1>1, <1>2, <1>4, <1>5, <1>6, <1>7, <1>8 DEF Contents!Add

LEMMA FinishRefines ==
  ASSUME Typed, Reached, Merged, DoLoadWaits, Finish
  PROVE  Contents!Succeed
<1> DEFINE ms == Top.mounts
           n  == Len(ms)
           by == files[Root].by
           so == Sorted(ms, by)
<1>1. /\ Done /\ status = "loading" /\ status' = "ok" /\ mounts' = Normalize(so)
      /\ UNCHANGED files
  BY DEF Finish, Done
<1>2. stack = <<Top>> /\ Top \in FrameType
  BY <1>1, MergedWhole
<1>3. by \in Seq(Field) /\ Visited = Reachable
  BY <1>1, NothingPending DEF Content
<1>4. ms \in Seq(ValidEntry) /\ DOMAIN ms = 1..n /\ n \in Nat
  BY <1>2, FrameHas
<1>5. ms \in Seq(Entry)
  <2> HIDE DEF ms
  <2>1. \A i \in 1..Len(ms) : ms[i] \in Entry
    BY <1>4 DEF ValidEntry
  <2> QED
    BY <1>4, <2>1
<1>6. NamesLoaded = NamesOf(ms)
  <2> DEFINE f == Top
  <2>1. stack = <<f>> /\ f \in FrameType
    BY <1>2
  <2> HIDE DEF f
  <2>2. NamesHeld(stack) = NamesOf(f.mounts)
    BY <2>1, NamesWhole
  <2> QED
    BY <1>1, <2>2 DEF NamesLoaded, f
<1>7. PICK perm \in Bijection(1..n, 1..n) : so = [k \in 1..n |-> ms[perm[k]]]
  BY <1>3, <1>5, SortedInOrder
<1>8. perm \in [1..n -> 1..n] /\ \A i \in 1..n : \E k \in 1..n : perm[k] = i
  BY DEF Bijection, Injection, Surjection
<1>9. Distinct(ms)
  BY NamesDiffer
<1> HIDE DEF so, ms, n, by
<1>10. NamesLoaded' = [k \in 1..n |-> ms[perm[k]].name]
  <2>1. mounts' = [k \in 1..n |-> [so[k] EXCEPT !.dir = Resolve[@]]]
    BY <1>1, <1>7 DEF Normalize
  <2>2. \A k \in 1..n : so[k] = ms[perm[k]] /\ so[k] \in Entry
    BY <1>4, <1>5, <1>7, <1>8
  <2>3. \A k \in 1..n : mounts'[k].name = ms[perm[k]].name
    BY <2>1, <2>2 DEF Entry
  <2>4. DOMAIN mounts' = 1..n
    BY <2>1
  <2>5. NamesOf(mounts') = [k \in 1..n |-> mounts'[k].name]
    BY <2>4 DEF NamesOf
  <2> QED
    BY <1>1, <2>3, <2>5 DEF NamesLoaded
<1>11. NamesLoaded = [i \in 1..n |-> ms[i].name]
  BY <1>4, <1>6 DEF NamesOf
<1>12. Len(NamesLoaded') = n /\ Len(NamesLoaded) = n
  BY <1>4, <1>10, <1>11
<1>13. {NamesLoaded'[i] : i \in DOMAIN NamesLoaded'} = {NamesLoaded[i] : i \in DOMAIN NamesLoaded}
  <2>1. {NamesLoaded'[i] : i \in DOMAIN NamesLoaded'} = {ms[perm[k]].name : k \in 1..n}
    BY <1>10
  <2>2. {NamesLoaded[i] : i \in DOMAIN NamesLoaded} = {ms[i].name : i \in 1..n}
    BY <1>11
  <2>3. {ms[perm[k]].name : k \in 1..n} = {ms[i].name : i \in 1..n}
    BY <1>8
  <2> QED
    BY <2>1, <2>2, <2>3
<1>14. \A i, j \in DOMAIN NamesLoaded : NamesLoaded[i] = NamesLoaded[j] => i = j
  BY <1>4, <1>9, <1>11 DEF Distinct
<1>15. /\ Root \in Contents!Added
       /\ \A p \in Contents!Added : Contents!Includes(files[p]) \subseteq Contents!Added
  <2>1. Visited \in SUBSET Paths
    BY DEF Visited, Typed
  <2>2. Root \in Visited
    BY <1>3, RootIsPath DEF Reachable
  <2>3. ASSUME NEW p \in Visited PROVE Includes(files[p]) \subseteq Visited
    <3> SUFFICES ASSUME NEW q \in Includes(files[p]) PROVE q \in Visited
      OBVIOUS
    <3>1. files[p] \in Content
      BY <2>1, <2>3 DEF Typed
    <3>2. q \in Paths
      <4>1. files[p].include \in Seq(Seq(Paths))
        BY <3>1 DEF Content
      <4>2. PICK i \in DOMAIN files[p].include : \E j \in DOMAIN files[p].include[i] :
                   q = files[p].include[i][j]
        BY DEF Includes
      <4> QED
        BY <4>1, <4>2
    <3>3. q \in Reachable
      <4>1. files[p] # Unread /\ p \in Reachable
        BY <1>3, <3>1, UnreadIsNone
      <4> QED
        BY <3>2, <4>1 DEF Reachable, ClosedUnderIncludes
    <3> QED
      BY <1>3, <3>3
  <2> QED
    BY <2>2, <2>3, AddedIsVisited, SameIncludes
<1> QED
  BY <1>1, <1>12, <1>13, <1>14, <1>15 DEF Contents!Succeed

LEMMA RefinesStep ==
  Typed /\ Reached /\ Merged /\ DoLoadWaits /\ Awaited /\ NoneYet /\ [Next]_vars
  => [Contents!Next]_Contents!vars
<1> SUFFICES ASSUME Typed, Reached, Merged, DoLoadWaits, Awaited, NoneYet, [Next]_vars
             PROVE  [Contents!Next]_Contents!vars
  OBVIOUS
<1>0. Typed'
  BY TypedStep
<1>a. ASSUME status = "loading", status' = "loading", UNCHANGED files,
             NamesHeld(stack') = NamesHeld(stack)
      PROVE  UNCHANGED Contents!vars
  BY <1>a DEF Contents!vars, NamesLoaded
<1>1. CASE UNCHANGED vars
  <2>1. UNCHANGED <<files, status, stack, mounts>>
    BY <1>1 DEF vars
  <2>2. NamesLoaded' = NamesLoaded
    BY <2>1 DEF NamesLoaded, NamesHeld, NamesOf, Nth, Items, Held
  <2> QED
    BY <2>1, <2>2 DEF Contents!vars
<1>2. CASE Revisit
  <2>1. PICK p \in Visited : Calls(p)
    BY <1>2 DEF Revisit
  <2>2. stack' \in Seq(FrameType) /\ stack \in Seq(FrameType) /\ stack' = WithTop(SkipFile)
    BY <1>0, <1>2 DEF Typed, Revisit
  <2>3. NamesHeld(stack') = NamesHeld(stack)
    BY <2>1, <2>2, FileSkippedKeeps, NamesKept
  <2>4. status = "loading" /\ status' = "loading" /\ UNCHANGED files
    BY <1>2, <2>1 DEF Revisit, Calls
  <2> QED
    BY <1>a, <2>3, <2>4
<1>3. CASE NextPattern
  <2>1. NamesHeld(stack') = NamesHeld(stack)
    BY <1>0, <1>3, NextPatternKeeps, NamesKept DEF Typed
  <2> QED
    BY <1>a, <1>3, <2>1 DEF NextPattern
<1>4. CASE Return
  <2>1. PICK move \in Bijection(Items(stack'), Items(stack)) :
          /\ \A x \in Items(stack') : Held(stack', x) = Held(stack, move[x])
          /\ \A x, y \in Items(stack') : Precedes(x, y) <=> Precedes(move[x], move[y])
    BY <1>4, ReturnMoves
  <2>2. stack' \in Seq(FrameType) /\ stack \in Seq(FrameType)
    BY <1>0 DEF Typed
  <2>3. NamesHeld(stack') = NamesHeld(stack)
    BY <2>1, <2>2, NamesMoved
  <2> QED
    BY <1>a, <1>4, <2>3 DEF Return, Returning
<1>5. ASSUME NEW p \in Paths, NEW c \in Files[p], Open(p, c) PROVE Contents!Next
  BY <1>0, <1>5, OpenRefines DEF Contents!Next
<1>6. ASSUME NEW p \in Paths, NEW c \in Files[p], OpenFails(p, c) PROVE Contents!Next
  <2>1. \A q \in Visited : files'[q] = files[q]
    BY <1>6, FileRead DEF OpenFails
  <2> QED
    BY <1>6, <2>1, FailRefines DEF OpenFails, Calls, Contents!Next
<1>7. CASE ReturnFails
  BY <1>7, FailRefines DEF ReturnFails, Returning, Contents!Next
<1>8. CASE FinishFails
  BY <1>8, FailRefines DEF FinishFails, Done, Contents!Next
<1>9. CASE Finish
  BY <1>9, FinishRefines DEF Contents!Next
<1> QED
  BY <1>1, <1>2, <1>3, <1>4, <1>5, <1>6, <1>7, <1>8, <1>9 DEF Next, Load

(* The loading with its calls and returns implements the addition of files *)
(* one after the other that ConfigContents describes (config.go:80-130).   *)
THEOREM RefinesCorrect == Spec => RefinesContents
<1>1. Typed /\ Reached /\ Merged /\ DoLoadWaits /\ Awaited /\ NoneYet /\ [Next]_vars
      => [Contents!Next]_Contents!vars
  BY RefinesStep
<1>2. Spec => Contents!Init
  BY RefinesInit DEF Spec
<1>3. Spec => [][Contents!Next]_Contents!vars
  BY <1>1, RefinementInvariants, PTL DEF Spec
<1> QED
  BY <1>2, <1>3, PTL DEF RefinesContents, Contents!Spec
=============================================================================
