----------------------------- MODULE DataLemmas -----------------------------
(***************************************************************************)
(* Lemmas about numbers, finite sets and sequences that the proofs of      *)
(* several modules need: least numbers, ranks, occurrences, sequences that *)
(* are put together from others.                                           *)
(***************************************************************************)
EXTENDS Naturals, Sequences, FiniteSets, FiniteSetTheorems, SequenceTheorems,
        WellFoundedInduction, TLAPS

\* A non-empty set of numbers has a least element.
LEMMA LeastNumber ==
  ASSUME NEW S, S \subseteq Nat, S # {}
  PROVE  \E i \in S : \A j \in S : i <= j
<1> DEFINE R == OpToRel(<, Nat)
<1>1. IsWellFoundedOn(R, Nat)
  BY NatLessThanWellFounded
<1>2. PICK i \in S : \A j \in S : ~ (<<j, i>> \in R)
  <2> HIDE DEF R
  <2> QED BY <1>1, WFMin
<1>3. \A j \in S : ~(j < i)
  BY <1>2 DEF OpToRel
<1> QED BY <1>3

\* A set of numbers below a bound is finite.
LEMMA BoundedFinite ==
  ASSUME NEW n \in Nat, NEW S, S \subseteq 1 .. n
  PROVE  IsFiniteSet(S) /\ Cardinality(S) \in Nat /\ Cardinality(S) <= n
<1>1. IsFiniteSet(1 .. n) /\ Cardinality(1 .. n) = n
  BY FS_Interval
<1> QED BY <1>1, FS_Subset, FS_CardinalityType

\* A non-empty set of numbers below a bound has a greatest element.
LEMMA GreatestNumber ==
  ASSUME NEW n \in Nat, NEW S, S \subseteq 0 .. n, S # {}
  PROVE  \E i \in S : \A j \in S : i >= j
<1> DEFINE T == {n - i : i \in S}
<1>1. T \subseteq Nat /\ T # {}
  <2>1. \A i \in S : n - i \in Nat
    OBVIOUS
  <2> QED BY <2>1
<1>2. PICK m \in T : \A l \in T : m <= l
  <2> HIDE DEF T
  <2> QED BY <1>1, LeastNumber
<1>3. PICK i \in S : m = n - i
  OBVIOUS
<1>4. ASSUME NEW j \in S PROVE i >= j
  <2>1. n - i <= n - j
    BY <1>2, <1>3
  <2>2. i \in Nat /\ j \in Nat
    OBVIOUS
  <2> QED BY <2>1, <2>2
<1> QED BY <1>4

\* A set of numbers up to a bound is finite.
LEMMA BelowFinite ==
  ASSUME NEW n \in Nat, NEW S, S \subseteq 0 .. n
  PROVE  IsFiniteSet(S) /\ Cardinality(S) \in Nat
<1>1. IsFiniteSet(0 .. n)
  BY FS_Interval
<1> QED BY <1>1, FS_Subset, FS_CardinalityType

\* How many elements of S are below i, and how many are not above it.
Before(S, i) == Cardinality({j \in S : j < i})
Rank(S, i) == Cardinality({j \in S : j <= i})

\* Every number below the size of a set is the number of elements before one of it.
LEMMA BeforeTaken ==
  ASSUME NEW n \in Nat, NEW S, S \subseteq 0 .. n, NEW k \in 1 .. Cardinality(S)
  PROVE  \E i \in S : Before(S, i) = k - 1
<1> DEFINE Below(i) == {j \in S : j < i}
           At == {i \in Nat : k <= Before(S, i)}
<1>1. \A i : IsFiniteSet(Below(i)) /\ Before(S, i) = Cardinality(Below(i))
             /\ Before(S, i) \in Nat
  <2> SUFFICES ASSUME NEW i PROVE IsFiniteSet(Below(i)) /\ Cardinality(Below(i)) \in Nat
    BY DEF Before
  <2>1. Below(i) \subseteq 0 .. n
    OBVIOUS
  <2> HIDE DEF Below
  <2> QED BY <2>1, BelowFinite
<1>2. Below(n + 1) = S /\ Below(0) = {}
  <2>1. \A j \in S : j < n + 1 /\ ~(j < 0)
    OBVIOUS
  <2> QED BY <2>1
<1>3. k \in Nat /\ k >= 1 /\ k <= Cardinality(S)
  BY BelowFinite
<1>4. n + 1 \in At /\ ~(0 \in At)
  <2>1. Before(S, n + 1) = Cardinality(S) /\ Before(S, 0) = 0
    BY <1>1, <1>2, FS_EmptySet
  <2> QED BY <1>3, <2>1
<1>5. PICK m \in At : \A j \in At : m <= j
  <2>1. At \subseteq Nat /\ At # {}
    BY <1>4
  <2> HIDE DEF At
  <2> QED BY <2>1, LeastNumber
<1>6. PICK i \in Nat : m = i + 1 /\ ~(i \in At)
  <2>1. m \in Nat /\ m # 0
    BY <1>4
  <2>2. m - 1 \in Nat /\ ~(m <= m - 1) /\ m = (m - 1) + 1
    BY <2>1
  <2> HIDE DEF At
  <2> QED BY <1>5, <2>1, <2>2
<1>7. /\ Before(S, i) \in Nat /\ Before(S, i + 1) \in Nat
      /\ k <= Before(S, i + 1) /\ ~(k <= Before(S, i))
  <2>1. k <= Before(S, i + 1) /\ ~(k <= Before(S, i))
    BY <1>6
  <2> HIDE DEF At, Below
  <2> QED BY <1>1, <2>1
<1> HIDE DEF At
<1>8. i \in S
  <2> SUFFICES ASSUME i \notin S PROVE FALSE
    OBVIOUS
  <2>1. Below(i + 1) = Below(i)
    <3>1. \A j \in S : j < i + 1 <=> j < i
      BY <1>6
    <3> QED BY <3>1
  <2>2. Before(S, i + 1) = Before(S, i)
    BY <2>1 DEF Before
  <2> QED BY <1>7, <2>2
<1>9. Before(S, i + 1) = Before(S, i) + 1
  <2>1. Below(i + 1) = Below(i) \cup {i} /\ i \notin Below(i)
    <3>1. \A j \in S : j < i + 1 <=> (j < i \/ j = i)
      BY <1>6
    <3>2. ~(i < i) /\ i < i + 1
      BY <1>6
    <3> QED BY <1>8, <3>1, <3>2
  <2> HIDE DEF Below
  <2> QED BY <1>1, <2>1, FS_AddElement
<1>10. Before(S, i) = k - 1
  BY <1>3, <1>7, <1>9
<1> QED BY <1>8, <1>10

\* More elements are before a greater one, and fewer than there are.
LEMMA BeforeGrows ==
  ASSUME NEW n \in Nat, NEW S, S \subseteq 0 .. n, NEW i \in S
  PROVE  /\ Before(S, i) \in Nat /\ Before(S, i) + 1 <= Cardinality(S)
         /\ \A j \in S : i < j => Before(S, i) + 1 <= Before(S, j)
<1> DEFINE Below(j) == {l \in S : l < j}
<1>1. i \in Nat /\ S \subseteq Nat
  OBVIOUS
<1>2. IsFiniteSet(S)
  BY BelowFinite
<1>3. \A j : Below(j) \subseteq S /\ IsFiniteSet(Below(j)) /\ Before(S, j) = Cardinality(Below(j))
  <2> SUFFICES ASSUME NEW j
               PROVE  Below(j) \subseteq S /\ IsFiniteSet(Below(j)) /\ Before(S, j) = Cardinality(Below(j))
    OBVIOUS
  <2>1. Below(j) \subseteq S /\ Before(S, j) = Cardinality(Below(j))
    BY DEF Before
  <2> HIDE DEF Below
  <2> QED BY <1>2, <2>1, FS_Subset
<1>4. i \notin Below(i)
  BY <1>1
<1>5. PICK T : T = Below(i) \cup {i}
  OBVIOUS
<1>6. \A j \in S : i < j => T \subseteq Below(j)
  <2> SUFFICES ASSUME NEW j \in S, i < j PROVE T \subseteq Below(j)
    OBVIOUS
  <2>1. \A l \in S : l < i => l < j
    BY <1>1
  <2> QED BY <1>5, <2>1
<1>7. T \subseteq S
  BY <1>3, <1>5
<1> HIDE DEF Below
<1>8. IsFiniteSet(T) /\ Cardinality(T) = Before(S, i) + 1 /\ Before(S, i) \in Nat
  <2>1. Before(S, i) \in Nat
    BY <1>3, FS_CardinalityType
  <2> QED BY <1>3, <1>4, <1>5, <2>1, FS_AddElement
<1>9. Cardinality(T) <= Cardinality(S)
  BY <1>2, <1>7, FS_Subset
<1>10. \A j \in S : i < j => Cardinality(T) <= Cardinality(Below(j))
  BY <1>3, <1>6, FS_Subset
<1> QED BY <1>3, <1>8, <1>9, <1>10

\* Every number up to the size of a set is the rank of one of its elements.
LEMMA RankTaken ==
  ASSUME NEW n \in Nat, NEW S, S \subseteq 1 .. n, NEW k \in 1 .. Cardinality(S)
  PROVE  \E i \in S : Rank(S, i) = k
<1> DEFINE Below(i) == {j \in S : j < i}
<1>1. S \subseteq 0 .. n
  OBVIOUS
<1>2. PICK i \in S : Before(S, i) = k - 1
  BY <1>1, BeforeTaken
<1>3. IsFiniteSet(Below(i)) /\ Cardinality(Below(i)) = k - 1
  <2>1. Below(i) \subseteq 0 .. n
    BY <1>1
  <2> HIDE DEF Below
  <2>2. IsFiniteSet(Below(i))
    BY <2>1, BelowFinite
  <2> QED BY <1>2, <2>2 DEF Below, Before
<1>4. {j \in S : j <= i} = Below(i) \cup {i} /\ i \notin Below(i)
  <2>1. \A j \in S : j <= i <=> (j < i \/ j = i)
    OBVIOUS
  <2>2. ~(i < i) /\ i <= i
    OBVIOUS
  <2> QED BY <2>1, <2>2
<1> HIDE DEF Below
<1>5. k \in Nat
  BY BoundedFinite
<1> QED BY <1>3, <1>4, <1>5, FS_AddElement DEF Rank

\* The places of x in s.
Places(s, x) == {k \in DOMAIN s : s[k] = x}

Count(s, x) == Cardinality(Places(s, x))

\* The places at which a sequence holds a value can be counted.
LEMMA CountType ==
  ASSUME NEW S, NEW s \in Seq(S), NEW x
  PROVE  IsFiniteSet(Places(s, x)) /\ Count(s, x) \in Nat /\ Count(s, x) <= Len(s)
<1>1. Len(s) \in Nat /\ Places(s, x) \subseteq 1 .. Len(s)
  BY LenProperties DEF Places
<1> QED BY <1>1, BoundedFinite DEF Count

\* An element appended counts once.
LEMMA CountAppend ==
  ASSUME NEW S, NEW s \in Seq(S), NEW e \in S, NEW x
  PROVE  Count(Append(s, e), x) = IF e = x THEN Count(s, x) + 1 ELSE Count(s, x)
<1> DEFINE t == Append(s, e)
<1>1. /\ Len(s) \in Nat /\ DOMAIN s = 1 .. Len(s) /\ DOMAIN t = 1 .. Len(s) + 1
      /\ \A i \in 1 .. Len(s) : t[i] = s[i]
      /\ t[Len(s) + 1] = e
  BY AppendProperties, LenProperties
<1> HIDE DEF t
<1>2. Places(t, x) = IF e = x THEN Places(s, x) \cup {Len(s) + 1} ELSE Places(s, x)
  <2>1. \A i \in DOMAIN t : i \in DOMAIN s \/ i = Len(s) + 1
    BY <1>1
  <2>2. Len(s) + 1 \in DOMAIN t /\ \A i \in DOMAIN s : i \in DOMAIN t /\ t[i] = s[i]
    BY <1>1
  <2> QED BY <1>1, <2>1, <2>2 DEF Places
<1>3. Len(s) + 1 \notin Places(s, x)
  BY <1>1 DEF Places
<1> QED BY <1>2, <1>3, CountType, FS_AddElement DEF Count, t

\* The first element taken away counts no more.
LEMMA CountTail ==
  ASSUME NEW S, NEW s \in Seq(S), s # <<>>, NEW x
  PROVE  Count(s, x) = IF Head(s) = x THEN Count(Tail(s), x) + 1 ELSE Count(Tail(s), x)
<1> DEFINE t == Tail(s)
           P == Places(t, x)
           Q == {k \in Places(s, x) : k # 1}
           f == [k \in P |-> k + 1]
<1>1. /\ Len(s) \in Nat /\ Len(s) >= 1 /\ DOMAIN s = 1 .. Len(s)
      /\ t \in Seq(S) /\ DOMAIN t = 1 .. Len(s) - 1
      /\ \A i \in 1 .. Len(s) - 1 : t[i] = s[i + 1]
      /\ Head(s) = s[1]
  BY HeadTailProperties, LenProperties, EmptySeq
<1>2. IsFiniteSet(P) /\ Count(t, x) \in Nat
  BY <1>1, CountType DEF Count
<1> HIDE DEF t
<1>3. f \in [P -> Q]
  BY <1>1 DEF Places
<1>4. f \in Injection(P, Q)
  <2>1. \A a, b \in P : f[a] = f[b] => a = b
    BY <1>1 DEF Places
  <2> HIDE DEF f, P, Q
  <2> QED BY <1>3, <2>1 DEF Injection, IsInjective
<1>5. f \in Surjection(P, Q)
  <2>1. ASSUME NEW k \in Q PROVE \E a \in P : f[a] = k
    <3>1. k \in 1 .. Len(s) /\ k # 1 /\ s[k] = x
      BY <1>1 DEF Places
    <3>2. k - 1 \in 1 .. Len(s) - 1 /\ (k - 1) + 1 = k
      BY <1>1, <3>1
    <3>3. t[k - 1] = x
      BY <1>1, <3>1, <3>2
    <3>4. k - 1 \in P
      BY <1>1, <3>2, <3>3 DEF Places
    <3> QED BY <3>2, <3>4
  <2> HIDE DEF f, P, Q
  <2> QED BY <1>3, <2>1 DEF Surjection
<1>6. IsFiniteSet(Q) /\ Cardinality(Q) = Count(t, x)
  <2>1. f \in Bijection(P, Q)
    BY <1>4, <1>5 DEF Bijection
  <2>2. ExistsBijection(P, Q)
    BY <2>1 DEF ExistsBijection
  <2> HIDE DEF P, Q
  <2> QED BY <1>2, <2>2, FS_Bijection DEF Count, P
<1>7. Places(s, x) = IF Head(s) = x THEN Q \cup {1} ELSE Q
  <2>1. 1 \in DOMAIN s
    BY <1>1
  <2> QED BY <1>1, <2>1 DEF Places
<1>8. 1 \notin Q
  OBVIOUS
<1> HIDE DEF Q
<1>9. Count(s, x) = IF Head(s) = x THEN Count(t, x) + 1 ELSE Count(t, x)
  BY <1>6, <1>7, <1>8, FS_AddElement DEF Count
<1> QED BY <1>9 DEF t

\* An element in front of a sequence.
LEMMA HeadTailOfPushed ==
  ASSUME NEW S, NEW e \in S, NEW s \in Seq(S)
  PROVE  <<e>> \o s # <<>> /\ Head(<<e>> \o s) = e /\ Tail(<<e>> \o s) = s
<1>1. PICK one : one = <<e>>
  OBVIOUS
<1>2. one \in Seq(S) /\ Len(one) = 1 /\ one[1] = e
  BY <1>1
<1>3. PICK t : t = one \o s
  OBVIOUS
<1>4. /\ t \in Seq(S) /\ Len(s) \in Nat /\ Len(t) = 1 + Len(s)
      /\ t[1] = e
      /\ \A k \in 1 .. Len(s) : t[k + 1] = s[k]
  <2>1. /\ t \in Seq(S) /\ Len(s) \in Nat /\ Len(t) = 1 + Len(s)
        /\ \A k \in 1 .. Len(one) + Len(s) :
             t[k] = IF k <= Len(one) THEN one[k] ELSE s[k - Len(one)]
    BY <1>2, <1>3, ConcatProperties, LenProperties, ZenonT(60)
  <2>2. t[1] = e
    BY <1>2, <2>1
  <2>3. ASSUME NEW k \in 1 .. Len(s) PROVE t[k + 1] = s[k]
    <3>1. k + 1 \in 1 .. Len(one) + Len(s) /\ ~(k + 1 <= Len(one)) /\ (k + 1) - Len(one) = k
      BY <1>2, <2>1
    <3> QED BY <2>1, <3>1
  <2> QED BY <2>1, <2>2, <2>3
<1>5. t # <<>>
  BY <1>4, EmptySeq
<1>6. /\ Head(t) = t[1] /\ Tail(t) \in Seq(S) /\ Len(Tail(t)) = Len(t) - 1
      /\ \A k \in 1 .. Len(t) - 1 : Tail(t)[k] = t[k + 1]
  BY <1>4, <1>5, HeadTailProperties
<1>7. Tail(t) = s
  <2>1. Len(Tail(t)) = Len(s) /\ \A k \in 1 .. Len(s) : Tail(t)[k] = s[k]
    BY <1>4, <1>6
  <2> QED BY <1>6, <2>1, SeqEqual
<1> QED BY <1>1, <1>3, <1>4, <1>5, <1>6, <1>7

\* The associativity of concatenation, read from right to left.
LEMMA ConcatMoves ==
  ASSUME NEW S, NEW r \in Seq(S), NEW s \in Seq(S), NEW t \in Seq(S)
  PROVE  r \o (s \o t) = (r \o s) \o t
<1>1. (r \o s) \o t = r \o (s \o t)
  BY ConcatAssociative
<1> QED BY <1>1

\* f[k] is a followed by the first k of the sequences g.
IsChain(f, n, a, g) == \A k \in 0 .. n : f[k] = IF k = 0 THEN a ELSE f[k - 1] \o g[k]

\* Sequences can be put together one behind the other...
LEMMA ChainExists ==
  ASSUME NEW S, NEW a \in Seq(S), NEW n \in Nat, NEW g \in [1 .. n -> Seq(S)]
  PROVE  \E f \in [0 .. n -> Seq(S)] : IsChain(f, n, a, g)
<1> USE DEF IsChain
<1> DEFINE Chain(f, m) == IsChain(f, m, a, g)
           Bad == {m \in 0 .. n : ~ \E f \in [0 .. m -> Seq(S)] : Chain(f, m)}
<1> SUFFICES ASSUME Bad # {} PROVE FALSE
  <2>1. n \notin Bad => \E f \in [0 .. n -> Seq(S)] : Chain(f, n)
    OBVIOUS
  <2> QED BY <2>1
<1>1. PICK m \in Bad : \A l \in Bad : m <= l
  <2>1. Bad \subseteq Nat
    OBVIOUS
  <2> HIDE DEF Bad
  <2> QED BY <2>1, LeastNumber
<1>2. m # 0
  <2>1. [k \in 0 .. 0 |-> a] \in [0 .. 0 -> Seq(S)] /\ Chain([k \in 0 .. 0 |-> a], 0)
    OBVIOUS
  <2>2. 0 \notin Bad
    BY <2>1
  <2> HIDE DEF Bad
  <2> QED BY <2>2
<1>3. m \in 1 .. n /\ m - 1 \in 0 .. n /\ ~(m <= m - 1)
  BY <1>2
<1>4. m - 1 \notin Bad
  <2> HIDE DEF Bad
  <2> QED BY <1>1, <1>3
<1>5. PICK f \in [0 .. m - 1 -> Seq(S)] : Chain(f, m - 1)
  BY <1>3, <1>4
<1> DEFINE h == [k \in 0 .. m |-> IF k = m THEN f[m - 1] \o g[m] ELSE f[k]]
<1>6. h \in [0 .. m -> Seq(S)]
  <2>1. f[m - 1] \in Seq(S) /\ g[m] \in Seq(S)
    BY <1>3
  <2>2. f[m - 1] \o g[m] \in Seq(S)
    BY <2>1, ConcatProperties
  <2>3. \A k \in 0 .. m : k # m => f[k] \in Seq(S)
    BY <1>3
  <2> QED BY <2>2, <2>3
<1>7. Chain(h, m)
  <2> SUFFICES ASSUME NEW k \in 0 .. m
               PROVE  h[k] = IF k = 0 THEN a ELSE h[k - 1] \o g[k]
    OBVIOUS
  <2>1. CASE k = m
    <3>1. h[k] = f[m - 1] \o g[m] /\ h[m - 1] = f[m - 1]
      BY <1>3, <2>1, SMTT(60)
    <3> QED BY <1>2, <2>1, <3>1
  <2>2. CASE k # m
    <3>1. k \in 0 .. m - 1
      BY <1>3, <2>2
    <3>2. f[k] = IF k = 0 THEN a ELSE f[k - 1] \o g[k]
      BY <1>5, <3>1
    <3>3. h[k] = f[k] /\ (k # 0 => h[k - 1] = f[k - 1])
      BY <1>3, <2>2
    <3> QED BY <3>2, <3>3
  <2> QED BY <2>1, <2>2
<1>8. m \notin Bad
  <2> HIDE DEF h
  <2> QED BY <1>6, <1>7
<1> HIDE DEF Bad
<1> QED BY <1>1, <1>8

\* ... and in one way only.
LEMMA ChainUnique ==
  ASSUME NEW n \in Nat, NEW a, NEW f, NEW h, NEW g,
         IsChain(f, n, a, g), IsChain(h, n, a, g)
  PROVE  \A k \in 0 .. n : f[k] = h[k]
<1> USE DEF IsChain
<1> DEFINE Bad == {k \in 0 .. n : f[k] # h[k]}
<1> SUFFICES ASSUME Bad # {} PROVE FALSE
  OBVIOUS
<1>1. PICK m \in Bad : \A l \in Bad : m <= l
  <2>1. Bad \subseteq Nat
    OBVIOUS
  <2> HIDE DEF Bad
  <2> QED BY <2>1, LeastNumber
<1>2. m \in 0 .. n /\ f[m] # h[m]
  BY <1>1
<1>3. m # 0
  BY <1>2
<1>4. m - 1 \in 0 .. n /\ ~(m <= m - 1)
  BY <1>2, <1>3
<1>5. m - 1 \notin Bad
  <2> HIDE DEF Bad
  <2> QED BY <1>1, <1>4
<1>6. f[m - 1] = h[m - 1]
  BY <1>4, <1>5
<1>7. f[m] = f[m - 1] \o g[m] /\ h[m] = h[m - 1] \o g[m]
  BY <1>2, <1>3
<1> QED BY <1>2, <1>6, <1>7

\* What holds of 0, and of k when it holds of k - 1, holds up to n.
LEMMA CountUp ==
  ASSUME NEW n \in Nat, NEW P, 0 \in P, \A k \in 1 .. n : k - 1 \in P => k \in P
  PROVE  \A k \in 0 .. n : k \in P
<1> DEFINE Bad == {k \in 0 .. n : k \notin P}
<1> SUFFICES ASSUME Bad # {} PROVE FALSE
  OBVIOUS
<1>1. PICK m \in Bad : \A l \in Bad : m <= l
  <2>1. Bad \subseteq Nat
    OBVIOUS
  <2> HIDE DEF Bad
  <2> QED BY <2>1, LeastNumber
<1>2. m \in 0 .. n /\ m \notin P
  OBVIOUS
<1>3. m # 0
  BY <1>2
<1>4. m \in 1 .. n /\ m - 1 \in 0 .. n /\ ~(m <= m - 1)
  BY <1>2, <1>3
<1>5. m - 1 \in P
  <2>1. m - 1 \notin Bad
    <3> HIDE DEF Bad
    <3> QED BY <1>1, <1>4
  <2> QED BY <1>4, <2>1
<1> QED BY <1>2, <1>4, <1>5

\* f is what step makes of a, one number after the other.
IsRun(f, n, a, step) == \A k \in 0 .. n : f[k] = IF k = 0 THEN a ELSE step[<<f[k - 1], k>>]

\* A step applied once for each number up to n gives a run of n steps.
LEMMA RunExists ==
  ASSUME NEW T, NEW a \in T, NEW n \in Nat, NEW step \in [T \X (1 .. n) -> T]
  PROVE  \E f \in [0 .. n -> T] : IsRun(f, n, a, step)
<1> DEFINE P == {m \in 0 .. n : \E f \in [0 .. m -> T] : IsRun(f, m, a, step)}
<1>1. 0 \in P
  <2>1. [k \in 0 .. 0 |-> a] \in [0 .. 0 -> T] /\ IsRun([k \in 0 .. 0 |-> a], 0, a, step)
    BY DEF IsRun
  <2> QED BY <2>1
<1>2. ASSUME NEW m \in 1 .. n, m - 1 \in P PROVE m \in P
  <2>1. PICK f \in [0 .. m - 1 -> T] : IsRun(f, m - 1, a, step)
    BY <1>2
  <2>2. f[m - 1] \in T
    BY <1>2
  <2>3. PICK t \in T : t = step[<<f[m - 1], m>>]
    BY <2>2
  <2>4. PICK h \in [0 .. m -> T] : h[m] = t /\ \A k \in 0 .. m - 1 : h[k] = f[k]
    <3>1. [k \in 0 .. m |-> IF k = m THEN t ELSE f[k]] \in [0 .. m -> T]
      <4>1. \A k \in 0 .. m : k # m => k \in 0 .. m - 1
        BY <1>2
      <4> QED BY <4>1
    <3>2. \A k \in 0 .. m - 1 : k \in 0 .. m /\ k # m
      BY <1>2
    <3>3. m \in 0 .. m
      OBVIOUS
    <3> QED BY <3>1, <3>2, <3>3
  <2>5. IsRun(h, m, a, step)
    <3> SUFFICES ASSUME NEW k \in 0 .. m
                 PROVE  h[k] = IF k = 0 THEN a ELSE step[<<h[k - 1], k>>]
      BY DEF IsRun
    <3>1. CASE k = m
      <4>1. k # 0 /\ m - 1 \in 0 .. m - 1
        BY <1>2, <3>1
      <4> QED BY <2>3, <2>4, <3>1, <4>1
    <3>2. CASE k # m
      <4>1. k \in 0 .. m - 1 /\ (k # 0 => k - 1 \in 0 .. m - 1)
        BY <1>2, <3>2
      <4>2. f[k] = IF k = 0 THEN a ELSE step[<<f[k - 1], k>>]
        BY <2>1, <4>1 DEF IsRun
      <4> QED BY <2>4, <4>1, <4>2
    <3> QED BY <3>1, <3>2
  <2>6. m \in 0 .. n
    BY <1>2
  <2> QED BY <2>5, <2>6
<1>3. n \in P
  <2>1. n \in 0 .. n
    OBVIOUS
  <2> HIDE DEF P
  <2> QED BY <1>1, <1>2, <2>1, CountUp
<1> QED BY <1>3

\* A function that takes an element of S in.
TakesIn(op, T, S) == op \in [T \X S -> T]

\* A sequence taken in, one element after the other.
Folded(op, a, s) ==
  LET after[k \in 0 .. Len(s)] == IF k = 0 THEN a ELSE op[<<after[k - 1], s[k]>>]
  IN after[Len(s)]

IsFold(f, op, a, s) == f[0] = a /\ \A k \in 1 .. Len(s) : f[k] = op[<<f[k - 1], s[k]>>]

\* Two functions that take it in alike are alike.
LEMMA FoldUnique ==
  ASSUME NEW S, NEW s \in Seq(S), NEW op, NEW a, NEW f, NEW h, IsFold(f, op, a, s), IsFold(h, op, a, s)
  PROVE  f[Len(s)] = h[Len(s)]
<1>1. PICK n \in Nat : n = Len(s)
  BY LenProperties
<1> DEFINE P == {k \in 0 .. n : f[k] = h[k]}
<1>2. 0 \in P
  <2>1. 0 \in 0 .. n
    OBVIOUS
  <2> QED BY <2>1 DEF IsFold
<1>3. ASSUME NEW k \in 1 .. n, k - 1 \in P PROVE k \in P
  <2>1. k \in 0 .. n /\ f[k - 1] = h[k - 1]
    BY <1>3
  <2>2. f[k] = op[<<f[k - 1], s[k]>>] /\ h[k] = op[<<h[k - 1], s[k]>>]
    BY <1>1 DEF IsFold
  <2> QED BY <2>1, <2>2
<1>4. n \in P
  <2>1. n \in 0 .. n
    OBVIOUS
  <2> HIDE DEF P
  <2> QED BY <1>2, <1>3, <2>1, CountUp
<1> QED BY <1>1, <1>4

\* A fold has its value after each element, and the last one is the result.
LEMMA FoldedIs ==
  ASSUME NEW S, NEW T, NEW op, TakesIn(op, T, S), NEW a \in T, NEW s \in Seq(S)
  PROVE  /\ \E f \in [0 .. Len(s) -> T] : IsFold(f, op, a, s) /\ Folded(op, a, s) = f[Len(s)]
         /\ Folded(op, a, s) \in T
<1>1. PICK n \in Nat : n = Len(s)
  BY LenProperties
<1>2. \A t \in T, k \in 1 .. n : s[k] \in S /\ op[<<t, s[k]>>] \in T
  BY <1>1, ElementOfSeq DEF TakesIn
<1>3. PICK step : step = [x \in T \X (1 .. n) |-> op[<<x[1], s[x[2]]>>]]
  OBVIOUS
<1>4. step \in [T \X (1 .. n) -> T]
  BY <1>2, <1>3
<1>5. PICK f \in [0 .. n -> T] : IsRun(f, n, a, step)
  BY <1>4, RunExists
<1>6. f[0] = a
  <2>1. 0 \in 0 .. n
    OBVIOUS
  <2> QED BY <1>5, <2>1 DEF IsRun
<1>7. ASSUME NEW k \in 1 .. n PROVE f[k - 1] \in T /\ f[k] = op[<<f[k - 1], s[k]>>]
  <2>1. k - 1 \in 0 .. n /\ k \in 0 .. n /\ k # 0
    OBVIOUS
  <2>2. f[k - 1] \in T /\ f[k] = step[<<f[k - 1], k>>]
    BY <1>5, <2>1 DEF IsRun
  <2>3. <<f[k - 1], k>> \in T \X (1 .. n)
    BY <2>2
  <2> QED BY <1>3, <2>2, <2>3
<1> DEFINE F(x) == [k \in 0 .. n |-> IF k = 0 THEN a ELSE op[<<x[k - 1], s[k]>>]]
           after == CHOOSE x : x = F(x)
<1>8. Folded(op, a, s) = after[n]
  BY <1>1 DEF Folded
<1>9. f = F(f)
  <2>1. \A k \in 0 .. n : k # 0 => k \in 1 .. n
    OBVIOUS
  <2>2. \A k \in 0 .. n : f[k] = IF k = 0 THEN a ELSE op[<<f[k - 1], s[k]>>]
    BY <1>6, <1>7, <2>1, SMTT(60)
  <2> QED BY <2>2
<1>10. after = F(after)
  BY <1>9
<1>11. PICK g : g = after
  OBVIOUS
<1>12. g[0] = a /\ \A k \in 1 .. n : g[k] = op[<<g[k - 1], s[k]>>]
  <2> HIDE DEF after
  <2>1. g = [k \in 0 .. n |-> IF k = 0 THEN a ELSE op[<<g[k - 1], s[k]>>]]
    BY <1>10, <1>11
  <2>2. 0 \in 0 .. n /\ \A k \in 1 .. n : k \in 0 .. n /\ k # 0
    OBVIOUS
  <2>3. \A k \in 0 .. n : g[k] = IF k = 0 THEN a ELSE op[<<g[k - 1], s[k]>>]
    BY <2>1
  <2> QED BY <2>2, <2>3
<1> HIDE DEF after
<1>13. IsFold(f, op, a, s) /\ IsFold(g, op, a, s)
  BY <1>1, <1>6, <1>7, <1>12 DEF IsFold
<1>14. g[n] = f[n] /\ n \in 0 .. n
  BY <1>1, <1>13, FoldUnique
<1> QED BY <1>1, <1>8, <1>11, <1>13, <1>14

\* Any function that takes it in gives the same.
LEMMA FoldedBy ==
  ASSUME NEW S, NEW T, NEW op, TakesIn(op, T, S), NEW a \in T, NEW s \in Seq(S), NEW f, IsFold(f, op, a, s)
  PROVE  Folded(op, a, s) = f[Len(s)]
<1>1. PICK h \in [0 .. Len(s) -> T] : IsFold(h, op, a, s) /\ Folded(op, a, s) = h[Len(s)]
  BY FoldedIs
<1>2. f[Len(s)] = h[Len(s)]
  BY <1>1, FoldUnique
<1> QED BY <1>1, <1>2

\* The fold of no element is where it starts.
LEMMA FoldedEmpty ==
  ASSUME NEW S, NEW T, NEW op, TakesIn(op, T, S), NEW a \in T
  PROVE  Folded(op, a, <<>>) = a
<1>1. PICK s \in Seq(S) : s = <<>> /\ Len(s) = 0
  BY EmptySeq
<1>2. PICK f \in [0 .. Len(s) -> T] : IsFold(f, op, a, s) /\ Folded(op, a, s) = f[Len(s)]
  BY FoldedIs
<1> QED BY <1>1, <1>2 DEF IsFold

\* The last element is taken in last.
LEMMA FoldedAppend ==
  ASSUME NEW S, NEW T, NEW op, TakesIn(op, T, S), NEW a \in T, NEW s \in Seq(S), NEW e \in S
  PROVE  Folded(op, a, Append(s, e)) = op[<<Folded(op, a, s), e>>]
<1>1. PICK n \in Nat : n = Len(s)
  BY LenProperties
<1>2. PICK t \in Seq(S) : /\ t = Append(s, e) /\ Len(t) = n + 1
                          /\ t[n + 1] = e /\ \A k \in 1 .. n : t[k] = s[k]
  <2>1. /\ Append(s, e) \in Seq(S) /\ Len(Append(s, e)) = Len(s) + 1
        /\ Append(s, e)[Len(s) + 1] = e /\ \A k \in 1 .. Len(s) : Append(s, e)[k] = s[k]
    BY AppendProperties
  <2> QED BY <1>1, <2>1
<1>3. PICK f \in [0 .. n + 1 -> T] : IsFold(f, op, a, t) /\ Folded(op, a, t) = f[n + 1]
  <2>1. \E f \in [0 .. Len(t) -> T] : IsFold(f, op, a, t) /\ Folded(op, a, t) = f[Len(t)]
    BY FoldedIs
  <2> QED BY <1>2, <2>1
<1>4. f[0] = a /\ \A k \in 1 .. n + 1 : f[k] = op[<<f[k - 1], t[k]>>]
  BY <1>2, <1>3 DEF IsFold
<1>5. IsFold(f, op, a, s)
  <2>1. \A k \in 1 .. n : k \in 1 .. n + 1
    OBVIOUS
  <2> QED BY <1>1, <1>2, <1>4, <2>1 DEF IsFold
<1>6. Folded(op, a, s) = f[n]
  <2>1. Folded(op, a, s) = f[Len(s)]
    BY <1>5, FoldedBy
  <2> QED BY <1>1, <2>1
<1>7. n + 1 \in 1 .. n + 1 /\ (n + 1) - 1 = n
  OBVIOUS
<1> QED BY <1>2, <1>3, <1>4, <1>6, <1>7

\* The first element is taken in first.
LEMMA FoldedHead ==
  ASSUME NEW S, NEW T, NEW op, TakesIn(op, T, S), NEW a \in T, NEW s \in Seq(S), s # <<>>
  PROVE  Folded(op, a, s) = Folded(op, op[<<a, Head(s)>>], Tail(s))
<1>1. PICK n \in Nat : n = Len(s)
  BY LenProperties
<1>2. n # 0
  BY <1>1, EmptySeq
<1>3. PICK t \in Seq(S) : t = Tail(s) /\ Len(t) = n - 1 /\ \A k \in 1 .. n - 1 : t[k] = s[k + 1]
  <2>1. Tail(s) \in Seq(S) /\ Len(Tail(s)) = Len(s) - 1
        /\ \A k \in 1 .. Len(Tail(s)) : Tail(s)[k] = s[k + 1]
    BY HeadTailProperties
  <2> QED BY <1>1, <2>1
<1>4. Head(s) = s[1] /\ Head(s) \in S
  BY HeadTailProperties
<1>5. PICK b \in T : b = op[<<a, Head(s)>>]
  BY <1>4 DEF TakesIn
<1>6. PICK f \in [0 .. n -> T] : IsFold(f, op, a, s) /\ Folded(op, a, s) = f[n]
  <2>1. \E f \in [0 .. Len(s) -> T] : IsFold(f, op, a, s) /\ Folded(op, a, s) = f[Len(s)]
    BY FoldedIs
  <2> QED BY <1>1, <2>1
<1>7. f[0] = a /\ \A k \in 1 .. n : f[k] = op[<<f[k - 1], s[k]>>]
  BY <1>1, <1>6 DEF IsFold
<1>8. PICK g : g = [k \in 0 .. n - 1 |-> f[k + 1]]
  OBVIOUS
<1>9. g[0] = b
  <2>1. 0 \in 0 .. n - 1 /\ 0 + 1 = 1 /\ 1 - 1 = 0 /\ 1 \in 1 .. n
    BY <1>2
  <2>2. g[0] = f[1] /\ f[1] = op[<<f[0], s[1]>>]
    BY <1>7, <1>8, <2>1
  <2> QED BY <1>4, <1>5, <1>7, <2>2
<1>10. ASSUME NEW k \in 1 .. n - 1 PROVE g[k] = op[<<g[k - 1], t[k]>>]
  <2>1. k \in 0 .. n - 1 /\ k - 1 \in 0 .. n - 1 /\ (k - 1) + 1 = k /\ k + 1 \in 1 .. n /\ (k + 1) - 1 = k
    BY <1>2
  <2>2. g[k] = f[k + 1] /\ g[k - 1] = f[k]
    BY <1>8, <2>1
  <2> QED BY <1>3, <1>7, <2>1, <2>2
<1>11. IsFold(g, op, b, t)
  BY <1>3, <1>9, <1>10 DEF IsFold
<1>12. Folded(op, b, t) = g[n - 1]
  <2>1. Folded(op, b, t) = g[Len(t)]
    BY <1>11, FoldedBy
  <2> QED BY <1>3, <2>1
<1>13. g[n - 1] = f[n]
  <2>1. n - 1 \in 0 .. n - 1 /\ (n - 1) + 1 = n
    BY <1>2
  <2> QED BY <1>8, <2>1
<1> QED BY <1>3, <1>5, <1>6, <1>12, <1>13

\* What comes behind is taken in after what comes before.
LEMMA FoldedConcat ==
  ASSUME NEW S, NEW T, NEW op, TakesIn(op, T, S), NEW a \in T, NEW s \in Seq(S), NEW t \in Seq(S)
  PROVE  Folded(op, a, s \o t) = Folded(op, Folded(op, a, s), t)
<1>1. PICK n \in Nat : n = Len(s)
  BY LenProperties
<1>2. PICK m \in Nat : m = Len(t)
  BY LenProperties
<1>3. PICK v \in Seq(S) : /\ v = s \o t /\ Len(v) = n + m
                          /\ \A k \in 1 .. n : v[k] = s[k]
                          /\ \A k \in 1 .. m : v[n + k] = t[k]
  <2>1. /\ s \o t \in Seq(S) /\ Len(s \o t) = n + m
        /\ \A k \in 1 .. n + m : (s \o t)[k] = IF k <= n THEN s[k] ELSE t[k - n]
    BY <1>1, <1>2, ConcatProperties
  <2>2. \A k \in 1 .. n : k \in 1 .. n + m /\ k <= n
    OBVIOUS
  <2>3. \A k \in 1 .. m : n + k \in 1 .. n + m /\ ~(n + k <= n) /\ (n + k) - n = k
    OBVIOUS
  <2>4. PICK v \in Seq(S) : v = s \o t
    BY <2>1
  <2>5. \A k \in 1 .. n : v[k] = s[k]
    BY <2>1, <2>2, <2>4
  <2>6. \A k \in 1 .. m : v[n + k] = t[k]
    BY <2>1, <2>3, <2>4
  <2> QED BY <2>1, <2>4, <2>5, <2>6
<1>4. PICK f \in [0 .. n + m -> T] : IsFold(f, op, a, v) /\ Folded(op, a, v) = f[n + m]
  <2>1. \E f \in [0 .. Len(v) -> T] : IsFold(f, op, a, v) /\ Folded(op, a, v) = f[Len(v)]
    BY FoldedIs
  <2> QED BY <1>3, <2>1
<1>5. f[0] = a /\ \A k \in 1 .. n + m : f[k] = op[<<f[k - 1], v[k]>>]
  BY <1>3, <1>4 DEF IsFold
<1>6. Folded(op, a, s) = f[n] /\ f[n] \in T
  <2>1. \A k \in 1 .. n : k \in 1 .. n + m
    OBVIOUS
  <2>2. IsFold(f, op, a, s)
    BY <1>1, <1>3, <1>5, <2>1 DEF IsFold
  <2>3. Folded(op, a, s) = f[Len(s)]
    BY <2>2, FoldedBy
  <2>4. n \in 0 .. n + m
    OBVIOUS
  <2> QED BY <1>1, <2>3, <2>4
<1>7. PICK g : g = [k \in 0 .. m |-> f[n + k]]
  OBVIOUS
<1>8. IsFold(g, op, f[n], t)
  <2>1. g[0] = f[n]
    <3>1. 0 \in 0 .. m /\ n + 0 = n
      OBVIOUS
    <3> QED BY <1>7, <3>1
  <2>2. ASSUME NEW k \in 1 .. m PROVE g[k] = op[<<g[k - 1], t[k]>>]
    <3>1. k \in 0 .. m /\ k - 1 \in 0 .. m /\ n + k \in 1 .. n + m /\ (n + k) - 1 = n + (k - 1)
      OBVIOUS
    <3>2. g[k] = f[n + k] /\ g[k - 1] = f[n + (k - 1)]
      BY <1>7, <3>1
    <3>3. f[n + k] = op[<<f[n + (k - 1)], v[n + k]>>]
      BY <1>5, <3>1
    <3> QED BY <1>3, <3>2, <3>3
  <2> QED BY <1>2, <2>1, <2>2 DEF IsFold
<1>9. Folded(op, f[n], t) = f[n + m]
  <2>1. Folded(op, f[n], t) = g[Len(t)]
    BY <1>6, <1>8, FoldedBy
  <2>2. m \in 0 .. m
    OBVIOUS
  <2> QED BY <1>2, <1>7, <2>1, <2>2
<1> QED BY <1>3, <1>4, <1>6, <1>9

\* What an element makes of everything is the end of what was before it.
LEMMA FoldedForgets ==
  ASSUME NEW S, NEW T, NEW op, TakesIn(op, T, S), NEW a \in T, NEW b \in T, NEW s \in Seq(S),
         NEW j \in 1 .. Len(s), \A x, y \in T : op[<<x, s[j]>>] = op[<<y, s[j]>>]
  PROVE  Folded(op, a, s) = Folded(op, b, s)
<1>1. PICK n \in Nat : n = Len(s)
  BY LenProperties
<1>2. PICK f \in [0 .. n -> T] : IsFold(f, op, a, s) /\ Folded(op, a, s) = f[n]
  <2>1. \E f \in [0 .. Len(s) -> T] : IsFold(f, op, a, s) /\ Folded(op, a, s) = f[Len(s)]
    BY FoldedIs
  <2> QED BY <1>1, <2>1
<1>3. PICK h \in [0 .. n -> T] : IsFold(h, op, b, s) /\ Folded(op, b, s) = h[n]
  <2>1. \E h \in [0 .. Len(s) -> T] : IsFold(h, op, b, s) /\ Folded(op, b, s) = h[Len(s)]
    BY FoldedIs
  <2> QED BY <1>1, <2>1
<1> DEFINE P == {k \in 0 .. n : j <= k => f[k] = h[k]}
<1>4. 0 \in P
  <2>1. 0 \in 0 .. n /\ ~(j <= 0)
    BY <1>1
  <2> QED BY <2>1
<1>5. ASSUME NEW k \in 1 .. n, k - 1 \in P PROVE k \in P
  <2>1. k \in 0 .. n /\ k - 1 \in 0 .. n
    BY <1>5
  <2>2. f[k] = op[<<f[k - 1], s[k]>>] /\ h[k] = op[<<h[k - 1], s[k]>>] /\ f[k - 1] \in T /\ h[k - 1] \in T
    BY <1>1, <1>2, <1>3, <2>1 DEF IsFold
  <2>3. CASE j = k
    BY <2>1, <2>2, <2>3
  <2>4. CASE j # k
    <3>1. j <= k => j <= k - 1
      BY <1>1, <2>4
    <3>2. j <= k - 1 => f[k - 1] = h[k - 1]
      BY <1>5
    <3> QED BY <2>1, <2>2, <3>1, <3>2
  <2> QED BY <2>3, <2>4
<1>6. n \in P
  <2>1. n \in 0 .. n
    OBVIOUS
  <2> HIDE DEF P
  <2> QED BY <1>4, <1>5, <2>1, CountUp
<1>7. j <= n
  BY <1>1
<1> QED BY <1>2, <1>3, <1>6, <1>7

\* What the elements preserve between two things holds when all are taken in.
LEMMA FoldedRelated ==
  ASSUME NEW S, NEW T, NEW op, NEW other, TakesIn(op, T, S), TakesIn(other, T, S),
         NEW a \in T, NEW b \in T, NEW s \in Seq(S), NEW R, <<a, b>> \in R,
         \A x \in T, y \in T, j \in 1 .. Len(s) :
           <<x, y>> \in R => <<op[<<x, s[j]>>], other[<<y, s[j]>>]>> \in R
  PROVE  <<Folded(op, a, s), Folded(other, b, s)>> \in R
<1>1. PICK n \in Nat : n = Len(s)
  BY LenProperties
<1>2. PICK f \in [0 .. n -> T] : IsFold(f, op, a, s) /\ Folded(op, a, s) = f[n]
  <2>1. \E f \in [0 .. Len(s) -> T] : IsFold(f, op, a, s) /\ Folded(op, a, s) = f[Len(s)]
    BY FoldedIs
  <2> QED BY <1>1, <2>1
<1>3. PICK h \in [0 .. n -> T] : IsFold(h, other, b, s) /\ Folded(other, b, s) = h[n]
  <2>1. \E h \in [0 .. Len(s) -> T] : IsFold(h, other, b, s) /\ Folded(other, b, s) = h[Len(s)]
    BY FoldedIs
  <2> QED BY <1>1, <2>1
<1> DEFINE P == {k \in 0 .. n : <<f[k], h[k]>> \in R}
<1>4. 0 \in P
  <2>1. 0 \in 0 .. n
    OBVIOUS
  <2> QED BY <1>2, <1>3, <2>1 DEF IsFold
<1>5. ASSUME NEW k \in 1 .. n, k - 1 \in P PROVE k \in P
  <2>1. k \in 0 .. n /\ k - 1 \in 0 .. n /\ <<f[k - 1], h[k - 1]>> \in R
    BY <1>5
  <2>2. f[k] = op[<<f[k - 1], s[k]>>] /\ h[k] = other[<<h[k - 1], s[k]>>]
    BY <1>1, <1>2, <1>3 DEF IsFold
  <2>3. f[k - 1] \in T /\ h[k - 1] \in T
    BY <2>1
  <2>4. <<f[k], h[k]>> \in R
    BY <1>1, <2>1, <2>2, <2>3
  <2> QED BY <2>1, <2>4
<1>6. n \in P
  <2>1. n \in 0 .. n
    OBVIOUS
  <2> HIDE DEF P
  <2> QED BY <1>4, <1>5, <2>1, CountUp
<1> QED BY <1>2, <1>3, <1>6
=============================================================================
