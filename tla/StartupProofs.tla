--------------------------- MODULE StartupProofs ---------------------------
(***************************************************************************)
(* Proofs about the start-up and the routes: for any configuration, tags,  *)
(* instances, archives and addresses.                                      *)
(***************************************************************************)
EXTENDS Startup, DataLemmas

-----------------------------------------------------------------------------
(* The invariant *)

\* The configuration, as far as it is loaded.
ConfigTypes ==
  /\ config \in [prefix : {NoText, "/p"}, size : [classic : 0 .. MaxServers, dynamic : 0 .. MaxServers],
                 classic : Seq(Server), dynamic : Seq(Server)]
  /\ Len(config.classic) <= config.size.classic
  /\ Len(config.dynamic) <= config.size.dynamic
  /\ logs \in Seq({"there", "gone"}) /\ Len(logs) = Len(config.classic)
  /\ status = "options" => config.classic = <<>> /\ config.dynamic = <<>>

\* What main started: nothing before all is loaded, then server after server.
StartTypes ==
  /\ tails \in Seq({"stat", "watch"}) /\ Len(tails) <= Len(config.classic)
  /\ passes \in Seq(BOOLEAN) /\ Len(passes) <= Len(config.dynamic)
  /\ passes # <<>> => ClassicStarted
  /\ tails # <<>> \/ passes # <<>> => AllLoaded
  /\ lists = {config.classic[i].tag : i \in 1 .. Len(tails)}
  /\ outer = {config.dynamic[j].tag : j \in 1 .. Len(passes)}
  /\ \A x \in starting : x[1] \in 1 .. Len(passes) /\ passes[x[1]]

\* A pattern is registered once.
Same(a, b) == a.path = b.path /\ a.tree = b.tree
Distinct(s) == \A i, j \in DOMAIN s : Same(s[i], s[j]) => i = j

RouteType == [path : Seq(STRING), tree : BOOLEAN, tag : Seq(STRING),
              to : {"live", "archive", "dyn-archive", "dynamic", "home", "index", "ws", "res"}]

RoutesInv ==
  /\ routes \in SUBSET RouteType
  /\ status \in {"routed", "serving"} =>
       /\ AllLoaded /\ ClassicStarted /\ Len(passes) = Len(config.dynamic)
       /\ routes = ToSet(AllRoutes) /\ Distinct(AllRoutes)

StartInv ==
  /\ status \in {"options", "load", "routed", "serving", "refused", "fatal", "panic", "fault"}
  /\ ConfigTypes /\ StartTypes /\ RoutesInv
  /\ CheckedLogsOpen /\ OnlyDoublesPanic

-----------------------------------------------------------------------------
(* Sequences of routes put together *)

\* Routes of two lists.
LEMMA SetOfConcat ==
  ASSUME NEW S, NEW s \in Seq(S), NEW t \in Seq(S)
  PROVE  ToSet(s \o t) = ToSet(s) \cup ToSet(t)
<1>1. PICK r : r = s \o t
  OBVIOUS
<1>2. /\ Len(s) \in Nat /\ DOMAIN s = 1 .. Len(s) /\ Len(t) \in Nat /\ DOMAIN t = 1 .. Len(t)
      /\ DOMAIN r = 1 .. Len(s) + Len(t)
      /\ \A i \in 1 .. Len(s) + Len(t) : r[i] = IF i <= Len(s) THEN s[i] ELSE t[i - Len(s)]
  BY <1>1, ConcatProperties, LenProperties
<1>3. ASSUME NEW i \in DOMAIN r PROVE r[i] \in ToSet(s) \cup ToSet(t)
  <2>1. CASE i <= Len(s)
    <3>1. i \in DOMAIN s /\ r[i] = s[i]
      BY <1>2, <2>1
    <3> QED BY <3>1 DEF ToSet
  <2>2. CASE ~(i <= Len(s))
    <3>1. i - Len(s) \in DOMAIN t /\ r[i] = t[i - Len(s)]
      BY <1>2, <2>2
    <3> QED BY <3>1 DEF ToSet
  <2> QED BY <2>1, <2>2
<1>4. ASSUME NEW i \in DOMAIN s PROVE s[i] \in ToSet(r)
  <2>1. i \in DOMAIN r /\ r[i] = s[i]
    BY <1>2
  <2> QED BY <2>1 DEF ToSet
<1>5. ASSUME NEW i \in DOMAIN t PROVE t[i] \in ToSet(r)
  <2>1. i + Len(s) \in DOMAIN r /\ ~(i + Len(s) <= Len(s)) /\ (i + Len(s)) - Len(s) = i
    BY <1>2
  <2>2. r[i + Len(s)] = t[i]
    BY <1>2, <2>1
  <2> QED BY <2>1, <2>2 DEF ToSet
<1>6. ToSet(r) = ToSet(s) \cup ToSet(t)
  BY <1>3, <1>4, <1>5 DEF ToSet
<1> QED BY <1>1, <1>6

Apart(A, B) == \A a \in A, b \in B : ~Same(a, b)

\* Two lists of different patterns that have none in common are one such list.
LEMMA DistinctConcat ==
  ASSUME NEW S, NEW s \in Seq(S), NEW t \in Seq(S), Distinct(s), Distinct(t),
         Apart(ToSet(s), ToSet(t))
  PROVE  Distinct(s \o t)
<1>1. PICK r : r = s \o t
  OBVIOUS
<1>2. /\ Len(s) \in Nat /\ DOMAIN s = 1 .. Len(s) /\ Len(t) \in Nat /\ DOMAIN t = 1 .. Len(t)
      /\ DOMAIN r = 1 .. Len(s) + Len(t)
      /\ \A i \in 1 .. Len(s) + Len(t) : r[i] = IF i <= Len(s) THEN s[i] ELSE t[i - Len(s)]
  BY <1>1, ConcatProperties, LenProperties
<1>3. ASSUME NEW i \in DOMAIN s, NEW j \in DOMAIN t PROVE ~Same(s[i], t[j]) /\ ~Same(t[j], s[i])
  <2>1. s[i] \in ToSet(s) /\ t[j] \in ToSet(t)
    BY DEF ToSet
  <2> QED BY <2>1 DEF Apart, Same
<1>4. ASSUME NEW i \in DOMAIN r, NEW j \in DOMAIN r, Same(r[i], r[j]) PROVE i = j
  <2>1. i \in Nat /\ j \in Nat
    BY <1>2
  <2>2. CASE i <= Len(s) /\ j <= Len(s)
    <3>1. i \in DOMAIN s /\ j \in DOMAIN s /\ r[i] = s[i] /\ r[j] = s[j]
      BY <1>2, <2>2
    <3> QED BY <1>4, <3>1 DEF Distinct
  <2>3. CASE ~(i <= Len(s)) /\ ~(j <= Len(s))
    <3>1. i - Len(s) \in DOMAIN t /\ j - Len(s) \in DOMAIN t
          /\ r[i] = t[i - Len(s)] /\ r[j] = t[j - Len(s)]
      BY <1>2, <2>3
    <3>2. i - Len(s) = j - Len(s)
      BY <1>4, <3>1 DEF Distinct
    <3> QED BY <1>2, <2>1, <3>2
  <2>4. CASE i <= Len(s) /\ ~(j <= Len(s))
    <3>1. i \in DOMAIN s /\ j - Len(s) \in DOMAIN t /\ r[i] = s[i] /\ r[j] = t[j - Len(s)]
      BY <1>2, <2>4
    <3> QED BY <1>3, <1>4, <3>1
  <2>5. CASE ~(i <= Len(s)) /\ j <= Len(s)
    <3>1. j \in DOMAIN s /\ i - Len(s) \in DOMAIN t /\ r[j] = s[j] /\ r[i] = t[i - Len(s)]
      BY <1>2, <2>5
    <3> QED BY <1>3, <1>4, <3>1
  <2> QED BY <2>2, <2>3, <2>4, <2>5
<1> QED BY <1>1, <1>4 DEF Distinct

\* FlattenSeq puts sequences one behind the other.
LEMMA FlattenedIsChain ==
  ASSUME NEW S, NEW ss \in Seq(Seq(S))
  PROVE  \E f \in [0 .. Len(ss) -> Seq(S)] :
           IsChain(f, Len(ss), <<>>, ss) /\ FlattenSeq(ss) = f[Len(ss)]
<1>1. PICK n : n = Len(ss)
  OBVIOUS
<1>2. n \in Nat /\ DOMAIN ss = 1 .. n /\ ss \in [1 .. n -> Seq(S)]
  BY <1>1, LenProperties
<1>3. PICK f \in [0 .. n -> Seq(S)] : IsChain(f, n, <<>>, ss)
  <2>1. <<>> \in Seq(S)
    BY EmptySeq
  <2> QED BY <1>2, <2>1, ChainExists
<1>4. f[0] = <<>> /\ \A k \in 1 .. n : f[k] = f[k - 1] \o ss[k]
  <2>1. 0 \in 0 .. n /\ \A k \in 1 .. n : k \in 0 .. n /\ k # 0
    BY <1>2
  <2> QED BY <1>3, <2>1 DEF IsChain
<1>5. CASE n = 0
  <2>1. ss = <<>>
    BY <1>1, <1>2, <1>5, EmptySeq
  <2>2. FlattenSeq(ss) = ss
    BY <1>1, <1>5 DEF FlattenSeq
  <2> QED BY <1>1, <1>3, <1>4, <1>5, <2>1, <2>2
<1>6. CASE n # 0
  <2> DEFINE F(x) == [k \in 1 .. n |-> IF k = 1 THEN ss[k] ELSE x[k - 1] \o ss[k]]
             flatten == CHOOSE x : x = F(x)
             h == [k \in 0 .. n |-> IF k = 0 THEN <<>> ELSE flatten[k]]
             g == [k \in 1 .. n |-> f[k]]
  <2>1. FlattenSeq(ss) = flatten[n]
    BY <1>1, <1>6 DEF FlattenSeq
  <2>2. \A k \in 1 .. n : k # 1 => k - 1 \in 1 .. n
    BY <1>2
  <2>3. g = F(g)
    <3>1. ASSUME NEW k \in 1 .. n PROVE f[k] = IF k = 1 THEN ss[k] ELSE g[k - 1] \o ss[k]
      <4>1. CASE k = 1
        <5>1. PICK s \in Seq(S) : s = ss[k]
          BY <1>2
        <5>2. <<>> \o s = s
          BY ConcatEmptySeq
        <5>3. f[k] = f[k - 1] \o s
          BY <1>4, <5>1
        <5>4. k - 1 = 0
          BY <4>1
        <5> QED BY <1>4, <4>1, <5>1, <5>2, <5>3, <5>4
      <4>2. CASE k # 1
        <5>1. g[k - 1] = f[k - 1]
          BY <2>2, <4>2
        <5> QED BY <1>4, <4>2, <5>1
      <4> QED BY <4>1, <4>2
    <3>2. F(g) = [k \in 1 .. n |-> f[k]]
      BY <3>1
    <3> QED BY <3>2
  <2>4. flatten = F(flatten)
    <3> HIDE DEF F, g
    <3> QED BY <2>3
  <2> HIDE DEF flatten
  <2>5. \A k \in 1 .. n : flatten[k] = IF k = 1 THEN ss[k] ELSE flatten[k - 1] \o ss[k]
    BY <2>4
  <2>6. IsChain(h, n, <<>>, ss)
    <3> SUFFICES ASSUME NEW k \in 0 .. n
                 PROVE  h[k] = IF k = 0 THEN <<>> ELSE h[k - 1] \o ss[k]
      BY DEF IsChain
    <3>1. CASE k = 0
      BY <3>1
    <3>2. CASE k = 1
      <4>1. 1 \in 1 .. n /\ k # 0 /\ k - 1 = 0 /\ 0 \in 0 .. n
        BY <1>2, <3>2
      <4>2. <<>> \o ss[1] = ss[1]
        BY <1>2, <4>1, ConcatEmptySeq
      <4>3. flatten[1] = ss[1]
        BY <2>5, <4>1
      <4>4. h[k] = flatten[1] /\ h[k - 1] = <<>>
        BY <3>2, <4>1
      <4> QED BY <3>2, <4>1, <4>2, <4>3, <4>4
    <3>3. CASE k # 0 /\ k # 1
      <4>1. k \in 1 .. n /\ k - 1 \in 0 .. n /\ k - 1 # 0
        BY <1>2, <3>3
      <4>2. h[k] = flatten[k] /\ h[k - 1] = flatten[k - 1]
        BY <3>3, <4>1
      <4> QED BY <2>5, <3>3, <4>1, <4>2
    <3> QED BY <3>1, <3>2, <3>3
  <2>7. h[n] = flatten[n] /\ n \in 0 .. n
    BY <1>2, <1>6
  <2> HIDE DEF h
  <2>8. h[n] = f[n]
    BY <1>2, <1>3, <2>6, <2>7, ChainUnique
  <2> QED BY <1>1, <1>3, <2>1, <2>7, <2>8
<1> QED BY <1>5, <1>6

\* What is in the sequences is in the whole...
LEMMA SetOfFlattened ==
  ASSUME NEW S, NEW ss \in Seq(Seq(S))
  PROVE  /\ FlattenSeq(ss) \in Seq(S)
         /\ ToSet(FlattenSeq(ss)) = UNION {ToSet(ss[k]) : k \in DOMAIN ss}
<1>1. PICK n : n = Len(ss)
  OBVIOUS
<1>2. n \in Nat /\ DOMAIN ss = 1 .. n /\ ss \in [1 .. n -> Seq(S)]
  BY <1>1, LenProperties
<1>3. PICK f \in [0 .. n -> Seq(S)] : IsChain(f, n, <<>>, ss) /\ FlattenSeq(ss) = f[n]
  BY <1>1, FlattenedIsChain
<1>4. f[0] = <<>> /\ \A k \in 1 .. n : f[k] = f[k - 1] \o ss[k]
  <2>1. 0 \in 0 .. n /\ \A k \in 1 .. n : k \in 0 .. n /\ k # 0
    BY <1>2
  <2> QED BY <1>3, <2>1 DEF IsChain
<1> DEFINE All(m) == UNION {ToSet(ss[k]) : k \in 1 .. m}
           Bad == {m \in 0 .. n : ToSet(f[m]) # All(m)}
<1>5. Bad = {}
  <2> SUFFICES ASSUME Bad # {} PROVE FALSE
    OBVIOUS
  <2>1. PICK m \in Bad : \A l \in Bad : m <= l
    <3>1. Bad \subseteq Nat
      OBVIOUS
    <3> HIDE DEF Bad
    <3> QED BY <3>1, LeastNumber
  <2>2. m # 0
    <3>1. ToSet(f[0]) = {} /\ All(0) = {}
      BY <1>4 DEF ToSet
    <3> QED BY <2>1, <3>1
  <2>3. m \in 1 .. n /\ m - 1 \in 0 .. n /\ ~(m <= m - 1)
    <3>1. m \in 0 .. n
      BY <2>1
    <3> QED BY <1>2, <2>2, <3>1, SMTT(60)
  <2>4. ToSet(f[m - 1]) = All(m - 1)
    <3>1. m - 1 \notin Bad
      <4> HIDE DEF Bad
      <4> QED BY <2>1, <2>3
    <3> HIDE DEF All
    <3> QED BY <2>3, <3>1
  <2>5. ToSet(f[m]) = ToSet(f[m - 1]) \cup ToSet(ss[m])
    <3>1. PICK s \in Seq(S) : s = f[m - 1]
      BY <2>3
    <3>2. PICK t \in Seq(S) : t = ss[m]
      BY <1>2, <2>3
    <3>3. ToSet(s \o t) = ToSet(s) \cup ToSet(t)
      BY SetOfConcat
    <3>4. f[m] = s \o t
      BY <1>4, <2>3, <3>1, <3>2
    <3> QED BY <3>1, <3>2, <3>3, <3>4
  <2>6. All(m) = All(m - 1) \cup ToSet(ss[m])
    <3>1. (1 .. m) = (1 .. m - 1) \cup {m}
      BY <2>3, SMTT(60)
    <3> QED BY <3>1
  <2>7. ToSet(f[m]) = All(m)
    <3> HIDE DEF All
    <3> QED BY <2>4, <2>5, <2>6
  <2> HIDE DEF All
  <2> QED BY <2>1, <2>7
<1>6. n \in 0 .. n
  BY <1>2
<1>7. ToSet(f[n]) = All(n)
  <2> HIDE DEF All
  <2> QED BY <1>5, <1>6
<1>8. FlattenSeq(ss) \in Seq(S)
  BY <1>3, <1>6
<1>9. ToSet(FlattenSeq(ss)) = UNION {ToSet(ss[k]) : k \in DOMAIN ss}
  BY <1>2, <1>3, <1>7
<1> QED BY <1>8, <1>9

\* ... and patterns that are distinct in them and between them are distinct in the whole.
LEMMA DistinctFlattened ==
  ASSUME NEW S, NEW ss \in Seq(Seq(S)),
         \A k \in DOMAIN ss : Distinct(ss[k]),
         \A k, l \in DOMAIN ss : k # l => Apart(ToSet(ss[k]), ToSet(ss[l]))
  PROVE  Distinct(FlattenSeq(ss))
<1>1. PICK n : n = Len(ss)
  OBVIOUS
<1>2. n \in Nat /\ DOMAIN ss = 1 .. n /\ ss \in [1 .. n -> Seq(S)]
  BY <1>1, LenProperties
<1>3. PICK f \in [0 .. n -> Seq(S)] : IsChain(f, n, <<>>, ss) /\ FlattenSeq(ss) = f[n]
  BY <1>1, FlattenedIsChain
<1>4. f[0] = <<>> /\ \A k \in 1 .. n : f[k] = f[k - 1] \o ss[k]
  <2>1. 0 \in 0 .. n /\ \A k \in 1 .. n : k \in 0 .. n /\ k # 0
    BY <1>2
  <2> QED BY <1>3, <2>1 DEF IsChain
<1> DEFINE All(m) == UNION {ToSet(ss[k]) : k \in 1 .. m}
           Good(m) == Distinct(f[m]) /\ ToSet(f[m]) \subseteq All(m)
           Bad == {m \in 0 .. n : ~Good(m)}
<1>5. Bad = {}
  <2> SUFFICES ASSUME Bad # {} PROVE FALSE
    OBVIOUS
  <2>1. PICK m \in Bad : \A l \in Bad : m <= l
    <3>1. Bad \subseteq Nat
      OBVIOUS
    <3> HIDE DEF Bad
    <3> QED BY <3>1, LeastNumber
  <2>2. m # 0
    <3>1. ToSet(f[0]) = {} /\ Distinct(f[0])
      BY <1>4 DEF ToSet, Distinct
    <3> HIDE DEF All
    <3> QED BY <2>1, <3>1
  <2>3. m \in 1 .. n /\ m - 1 \in 0 .. n /\ ~(m <= m - 1)
    <3>1. m \in 0 .. n
      <4> HIDE DEF Good
      <4> QED BY <2>1
    <3> QED BY <1>2, <2>2, <3>1
  <2>4. Good(m - 1)
    <3>1. m - 1 \notin Bad
      <4> HIDE DEF Bad
      <4> QED BY <2>1, <2>3
    <3> HIDE DEF Good
    <3> QED BY <2>3, <3>1
  <2>5. PICK s \in Seq(S) : s = f[m - 1]
    BY <2>3
  <2>6. PICK t \in Seq(S) : t = ss[m]
    BY <1>2, <2>3
  <2>7. f[m] = s \o t
    BY <1>4, <2>3, <2>5, <2>6
  <2>8. Apart(ToSet(s), ToSet(t))
    <3>1. ASSUME NEW k \in 1 .. m - 1 PROVE Apart(ToSet(ss[k]), ToSet(ss[m]))
      <4>1. k \in DOMAIN ss /\ m \in DOMAIN ss /\ k # m
        BY <1>2, <2>3, SMTT(60)
      <4> QED BY <4>1
    <3>2. ToSet(s) \subseteq All(m - 1)
      BY <2>4, <2>5
    <3> QED BY <2>6, <3>1, <3>2 DEF Apart
  <2>9. Distinct(s \o t)
    <3>1. Distinct(s)
      BY <2>4, <2>5
    <3>2. Distinct(t)
      BY <1>2, <2>3, <2>6
    <3> QED BY <2>8, <3>1, <3>2, DistinctConcat
  <2>10. ToSet(s \o t) \subseteq All(m)
    <3>1. ToSet(s \o t) = ToSet(s) \cup ToSet(t)
      BY SetOfConcat
    <3>2. ToSet(t) \subseteq All(m)
      BY <2>3, <2>6
    <3>3. All(m - 1) \subseteq All(m)
      <4>1. \A k \in 1 .. m - 1 : k \in 1 .. m
        BY <2>3
      <4> QED BY <4>1
    <3> HIDE DEF All
    <3> QED BY <2>4, <2>5, <3>1, <3>2, <3>3
  <2> HIDE DEF All
  <2> QED BY <2>1, <2>7, <2>9, <2>10
<1>6. n \in 0 .. n
  BY <1>2
<1> HIDE DEF All
<1> QED BY <1>3, <1>5, <1>6

-----------------------------------------------------------------------------
(* The patterns *)

\* An element put in front of a sequence.
LEMMA Behind ==
  ASSUME NEW S, NEW x \in S, NEW t \in Seq(S)
  PROVE  /\ <<x>> \o t \in Seq(S) /\ Len(<<x>> \o t) = Len(t) + 1 /\ (<<x>> \o t)[1] = x
         /\ \A k \in 1 .. Len(t) : (<<x>> \o t)[k + 1] = t[k]
         /\ Tail(<<x>> \o t) = t
<1>1. PICK one : one = <<x>>
  OBVIOUS
<1>2. one \in Seq(S) /\ Len(one) = 1 /\ one[1] = x
  BY <1>1
<1>3. PICK p : p = one \o t
  OBVIOUS
<1>4. /\ p \in Seq(S) /\ Len(t) \in Nat /\ Len(p) = Len(t) + 1
      /\ \A k \in 1 .. 1 + Len(t) : p[k] = IF k <= 1 THEN one[k] ELSE t[k - 1]
  <2>1. /\ p \in Seq(S) /\ Len(t) \in Nat /\ Len(p) = Len(one) + Len(t)
        /\ \A k \in 1 .. Len(one) + Len(t) : p[k] = IF k <= Len(one) THEN one[k] ELSE t[k - Len(one)]
    BY <1>2, <1>3, ConcatProperties, LenProperties
  <2> QED BY <1>2, <2>1
<1>5. p[1] = x
  <2>1. 1 \in 1 .. 1 + Len(t)
    BY <1>4
  <2> QED BY <1>2, <1>4, <2>1
<1>6. ASSUME NEW k \in 1 .. Len(t) PROVE p[k + 1] = t[k]
  <2>1. k + 1 \in 1 .. 1 + Len(t) /\ ~(k + 1 <= 1) /\ (k + 1) - 1 = k
    BY <1>4
  <2> QED BY <1>4, <2>1
<1>7. Tail(p) = t
  BY <1>1, <1>3, HeadTailOfPushed
<1> QED BY <1>1, <1>3, <1>4, <1>5, <1>6, <1>7

\* A sequence of one element.
LEMMA Single ==
  ASSUME NEW S, NEW x \in S
  PROVE  <<x>> \in Seq(S)
  OBVIOUS

\* One segment is a path.
LEMMA SingleIsPath ==
  \A x \in STRING : <<x>> \in Seq(STRING)
  BY Single

\* A path that begins with a segment.
LEMMA PathBehind ==
  \A x \in STRING, t \in Seq(STRING) :
    /\ <<x>> \o t \in Seq(STRING) /\ Len(<<x>> \o t) = Len(t) + 1 /\ (<<x>> \o t)[1] = x
    /\ \A k \in 1 .. Len(t) : (<<x>> \o t)[k + 1] = t[k]
    /\ Tail(<<x>> \o t) = t
<1> TAKE x \in STRING, t \in Seq(STRING)
<1> QED BY Behind, ZenonT(60)

LiveRoute(tag) == Route(<<"server">> \o tag, FALSE, "live", tag)
ArchiveRoute(tag) == Route(<<"archive">> \o tag, TRUE, "archive", tag)
DynamicRoute(tag) == Route(<<"dyn-archive">> \o tag, TRUE, "dyn-archive", tag)

\* The patterns of one server (web_server.go:122-138): two of a classic one, one of a
\* dynamic one.
LEMMA RoutesOfTag ==
  ASSUME NEW tag \in Seq(STRING)
  PROVE  /\ ClassicRoutes(tag) \in Seq(RouteType) /\ DynamicRoutes(tag) \in Seq(RouteType)
         /\ ToSet(ClassicRoutes(tag)) = {LiveRoute(tag), ArchiveRoute(tag)}
         /\ ToSet(DynamicRoutes(tag)) = {DynamicRoute(tag)}
         /\ Distinct(ClassicRoutes(tag)) /\ Distinct(DynamicRoutes(tag))
<1>1. /\ <<"server">> \o tag \in Seq(STRING) /\ <<"archive">> \o tag \in Seq(STRING)
      /\ <<"dyn-archive">> \o tag \in Seq(STRING)
  BY PathBehind, LiteralsAreStrings
<1>2. LiveRoute(tag) \in RouteType /\ ArchiveRoute(tag) \in RouteType /\ DynamicRoute(tag) \in RouteType
  BY <1>1 DEF LiveRoute, ArchiveRoute, DynamicRoute, Route, RouteType
<1>3. ~Same(LiveRoute(tag), ArchiveRoute(tag)) /\ ~Same(ArchiveRoute(tag), LiveRoute(tag))
  BY DEF Same, LiveRoute, ArchiveRoute, Route
<1>4. /\ ClassicRoutes(tag) = <<LiveRoute(tag), ArchiveRoute(tag)>>
      /\ DynamicRoutes(tag) = <<DynamicRoute(tag)>>
  BY DEF ClassicRoutes, DynamicRoutes, LiveRoute, ArchiveRoute, DynamicRoute
<1>5. /\ ToSet(ClassicRoutes(tag)) = {LiveRoute(tag), ArchiveRoute(tag)}
      /\ ToSet(DynamicRoutes(tag)) = {DynamicRoute(tag)}
  BY <1>4 DEF ToSet
<1>6. Distinct(ClassicRoutes(tag)) /\ Distinct(DynamicRoutes(tag))
  BY <1>3, <1>4 DEF Distinct
<1>7. ClassicRoutes(tag) \in Seq(RouteType) /\ DynamicRoutes(tag) \in Seq(RouteType)
  BY <1>2, <1>4
<1> QED BY <1>5, <1>6, <1>7

FixedSet ==
  {Route(<<"dynamic">>, TRUE, "dynamic", <<>>), Route(<<"server">>, FALSE, "home", <<>>),
   Route(<<"archive">>, FALSE, "home", <<>>), Route(<<>>, TRUE, "index", <<>>),
   Route(<<"ws">>, FALSE, "ws", <<>>), Route(<<"res">>, TRUE, "res", <<>>)}

\* The patterns that do not depend on the configuration are all different.
LEMMA FixedRoutesAre ==
  /\ FixedRoutes \in Seq(RouteType) /\ ToSet(FixedRoutes) = FixedSet /\ Distinct(FixedRoutes)
<1>1. /\ <<"dynamic">> \in Seq(STRING) /\ <<"server">> \in Seq(STRING) /\ <<"archive">> \in Seq(STRING)
      /\ <<>> \in Seq(STRING) /\ <<"ws">> \in Seq(STRING) /\ <<"res">> \in Seq(STRING)
  <2>1. <<>> \in Seq(STRING)
    BY EmptySeq
  <2> QED BY <2>1, SingleIsPath, LiteralsAreStrings
<1>2. FixedSet \subseteq RouteType
  BY <1>1 DEF FixedSet, Route, RouteType
<1>3. FixedRoutes \in Seq(FixedSet) /\ DOMAIN FixedRoutes = 1 .. 6
  BY DEF FixedRoutes, FixedSet
<1>4. FixedRoutes \in Seq(RouteType)
  BY <1>2, <1>3, SeqMonotonic
<1>5. ToSet(FixedRoutes) = FixedSet
  <2>1. PICK r : r = FixedRoutes
    OBVIOUS
  <2>2. DOMAIN r = {1, 2, 3, 4, 5, 6}
    BY <1>3, <2>1
  <2>3. FixedSet = {r[1], r[2], r[3], r[4], r[5], r[6]}
    BY <2>1 DEF FixedRoutes, FixedSet
  <2>4. ToSet(r) = {r[1], r[2], r[3], r[4], r[5], r[6]}
    BY <2>2 DEF ToSet
  <2> QED BY <2>1, <2>3, <2>4
<1>6. Distinct(FixedRoutes)
  BY DEF FixedRoutes, Distinct, Same, Route
<1> QED BY <1>4, <1>5, <1>6

ClassicSet(servers) == UNION {{LiveRoute(s.tag), ArchiveRoute(s.tag)} : s \in ToSet(servers)}
DynamicSet(servers) == {DynamicRoute(s.tag) : s \in ToSet(servers)}

ClassicSeq(servers) == [i \in DOMAIN servers |-> ClassicRoutes(servers[i].tag)]
DynamicSeq(servers) == [j \in DOMAIN servers |-> DynamicRoutes(servers[j].tag)]

\* A tag is a path, and not the empty one.
LEMMA TagType ==
  \A s \in Server : s.tag \in Tags /\ s.tag \in Seq(STRING) /\ s.tag # <<>> /\ Len(s.tag) \in Nat \ {0}
<1> TAKE s \in Server
<1>1. s.tag \in Tags /\ s.tag \in Seq(STRING) /\ s.tag # <<>>
  BY StartupAssumption DEF Server
<1>2. Len(s.tag) \in Nat \ {0}
  BY <1>1, EmptySeq, LenProperties
<1> QED BY <1>1, <1>2

\* What is registered for the servers of one kind, and for all.
LEMMA SetsOfRoutes ==
  ASSUME NEW servers \in Seq(Server)
  PROVE  /\ ClassicSeq(servers) \in Seq(Seq(RouteType)) /\ DynamicSeq(servers) \in Seq(Seq(RouteType))
         /\ DOMAIN ClassicSeq(servers) = DOMAIN servers /\ DOMAIN DynamicSeq(servers) = DOMAIN servers
         /\ FlattenSeq(ClassicSeq(servers)) \in Seq(RouteType)
         /\ FlattenSeq(DynamicSeq(servers)) \in Seq(RouteType)
         /\ ToSet(FlattenSeq(ClassicSeq(servers))) = ClassicSet(servers)
         /\ ToSet(FlattenSeq(DynamicSeq(servers))) = DynamicSet(servers)
<1>1. PICK n \in Nat : DOMAIN servers = 1 .. n
  BY LenProperties
<1>2. \A i \in 1 .. n : servers[i] \in Server
  BY <1>1, ElementOfSeq, LenProperties
<1>3. \A i \in 1 .. n : servers[i].tag \in Seq(STRING)
  BY <1>2, TagType
<1>4. PICK c : c = ClassicSeq(servers)
  OBVIOUS
<1>5. PICK d : d = DynamicSeq(servers)
  OBVIOUS
<1>6. /\ DOMAIN c = 1 .. n /\ \A i \in 1 .. n : c[i] = ClassicRoutes(servers[i].tag)
      /\ DOMAIN d = 1 .. n /\ \A i \in 1 .. n : d[i] = DynamicRoutes(servers[i].tag)
  BY <1>1, <1>4, <1>5 DEF ClassicSeq, DynamicSeq
<1>7. c \in [1 .. n -> Seq(RouteType)] /\ d \in [1 .. n -> Seq(RouteType)]
  <2>1. \A i \in 1 .. n : ClassicRoutes(servers[i].tag) \in Seq(RouteType)
                          /\ DynamicRoutes(servers[i].tag) \in Seq(RouteType)
    BY <1>3, RoutesOfTag
  <2>2. c = [i \in 1 .. n |-> ClassicRoutes(servers[i].tag)]
    BY <1>1, <1>4 DEF ClassicSeq
  <2>3. d = [i \in 1 .. n |-> DynamicRoutes(servers[i].tag)]
    BY <1>1, <1>5 DEF DynamicSeq
  <2> QED BY <2>1, <2>2, <2>3
<1>8. c \in Seq(Seq(RouteType)) /\ d \in Seq(Seq(RouteType))
  BY <1>7, SeqDef
<1>9. UNION {ToSet(c[k]) : k \in DOMAIN c} = ClassicSet(servers)
  <2>1. \A k \in DOMAIN c : ToSet(c[k]) = {LiveRoute(servers[k].tag), ArchiveRoute(servers[k].tag)}
    BY <1>3, <1>6, RoutesOfTag
  <2>2. UNION {ToSet(c[k]) : k \in DOMAIN c}
          = UNION {{LiveRoute(servers[k].tag), ArchiveRoute(servers[k].tag)} : k \in DOMAIN servers}
    BY <1>1, <1>6, <2>1
  <2>3. ClassicSet(servers)
          = UNION {{LiveRoute(servers[k].tag), ArchiveRoute(servers[k].tag)} : k \in DOMAIN servers}
    BY DEF ClassicSet, ToSet
  <2> QED BY <2>2, <2>3
<1>10. UNION {ToSet(d[k]) : k \in DOMAIN d} = DynamicSet(servers)
  <2>1. \A k \in DOMAIN d : ToSet(d[k]) = {DynamicRoute(servers[k].tag)}
    BY <1>3, <1>6, RoutesOfTag
  <2>2. UNION {ToSet(d[k]) : k \in DOMAIN d} = {DynamicRoute(servers[k].tag) : k \in DOMAIN servers}
    BY <1>1, <1>6, <2>1
  <2>3. DynamicSet(servers) = {DynamicRoute(servers[k].tag) : k \in DOMAIN servers}
    BY DEF DynamicSet, ToSet
  <2> QED BY <2>2, <2>3
<1>11. FlattenSeq(c) \in Seq(RouteType) /\ ToSet(FlattenSeq(c)) = ClassicSet(servers)
  BY <1>8, <1>9, SetOfFlattened
<1>12. FlattenSeq(d) \in Seq(RouteType) /\ ToSet(FlattenSeq(d)) = DynamicSet(servers)
  BY <1>8, <1>10, SetOfFlattened
<1> QED BY <1>1, <1>4, <1>5, <1>6, <1>8, <1>11, <1>12

Servers == config.classic \in Seq(Server) /\ config.dynamic \in Seq(Server)

RouteSet == ClassicSet(config.classic) \cup DynamicSet(config.dynamic) \cup FixedSet

\* The patterns that startServer registers, as a set.
LEMMA AllRoutesAre ==
  ASSUME Servers
  PROVE  AllRoutes \in Seq(RouteType) /\ ToSet(AllRoutes) = RouteSet
<1>1. PICK c \in Seq(RouteType) : c = FlattenSeq(ClassicSeq(config.classic))
                                  /\ ToSet(c) = ClassicSet(config.classic)
  BY SetsOfRoutes DEF Servers
<1>2. PICK d \in Seq(RouteType) : d = FlattenSeq(DynamicSeq(config.dynamic))
                                  /\ ToSet(d) = DynamicSet(config.dynamic)
  BY SetsOfRoutes DEF Servers
<1>3. PICK f \in Seq(RouteType) : f = FixedRoutes /\ ToSet(f) = FixedSet
  BY FixedRoutesAre
<1>4. AllRoutes = (c \o d) \o f
  BY <1>1, <1>2, <1>3 DEF AllRoutes, ClassicSeq, DynamicSeq
<1>5. PICK e \in Seq(RouteType) : e = c \o d /\ ToSet(e) = ToSet(c) \cup ToSet(d)
  BY SetOfConcat, ConcatProperties, ZenonT(60)
<1>6. e \o f \in Seq(RouteType) /\ ToSet(e \o f) = ToSet(e) \cup ToSet(f)
  BY SetOfConcat, ConcatProperties
<1> QED BY <1>1, <1>2, <1>3, <1>4, <1>5, <1>6 DEF RouteSet

\* The patterns of a tag: one more segment than the tag has, and another first one for
\* each kind.
LEMMA RouteFacts ==
  \A t \in Seq(STRING) :
    /\ Len(LiveRoute(t).path) = Len(t) + 1 /\ LiveRoute(t).path[1] = "server"
    /\ Tail(LiveRoute(t).path) = t /\ LiveRoute(t).tree = FALSE
    /\ Len(ArchiveRoute(t).path) = Len(t) + 1 /\ ArchiveRoute(t).path[1] = "archive"
    /\ Tail(ArchiveRoute(t).path) = t /\ ArchiveRoute(t).tree = TRUE
    /\ Len(DynamicRoute(t).path) = Len(t) + 1 /\ DynamicRoute(t).path[1] = "dyn-archive"
    /\ Tail(DynamicRoute(t).path) = t /\ DynamicRoute(t).tree = TRUE
<1> TAKE t \in Seq(STRING)
<1>1. Len(<<"server">> \o t) = Len(t) + 1 /\ (<<"server">> \o t)[1] = "server" /\ Tail(<<"server">> \o t) = t
  BY PathBehind, LiteralsAreStrings
<1>2. Len(<<"archive">> \o t) = Len(t) + 1 /\ (<<"archive">> \o t)[1] = "archive" /\ Tail(<<"archive">> \o t) = t
  BY PathBehind, LiteralsAreStrings
<1>3. Len(<<"dyn-archive">> \o t) = Len(t) + 1 /\ (<<"dyn-archive">> \o t)[1] = "dyn-archive"
      /\ Tail(<<"dyn-archive">> \o t) = t
  BY PathBehind, LiteralsAreStrings
<1>4. /\ LiveRoute(t).path = <<"server">> \o t /\ LiveRoute(t).tree = FALSE
      /\ ArchiveRoute(t).path = <<"archive">> \o t /\ ArchiveRoute(t).tree = TRUE
      /\ DynamicRoute(t).path = <<"dyn-archive">> \o t /\ DynamicRoute(t).tree = TRUE
  BY DEF LiveRoute, ArchiveRoute, DynamicRoute, Route
<1> QED BY <1>1, <1>2, <1>3, <1>4

\* The fixed patterns have one segment at most.
LEMMA FixedPaths ==
  \A r \in FixedSet : Len(r.path) <= 1
<1> TAKE r \in FixedSet
<1>1. \/ r.path = <<"dynamic">> \/ r.path = <<"server">> \/ r.path = <<"archive">>
      \/ r.path = <<>> \/ r.path = <<"ws">> \/ r.path = <<"res">>
  BY DEF FixedSet, Route
<1>2. \A x : Len(<<x>>) = 1
  OBVIOUS
<1>3. Len(<<>>) = 0
  OBVIOUS
<1>4. PICK n : n = Len(r.path)
  OBVIOUS
<1>5. n = 0 \/ n = 1
  BY <1>1, <1>2, <1>3, <1>4
<1>6. n <= 1
  BY <1>5
<1> QED BY <1>4, <1>6

\* The patterns of two tags are apart; those of a tag are so from those of no tag, and
\* those of a classic server from those of a dynamic one.
LEMMA TagsApart ==
  /\ \A t, u \in Seq(STRING) : t # u =>
       /\ Apart({LiveRoute(t), ArchiveRoute(t)}, {LiveRoute(u), ArchiveRoute(u)})
       /\ Apart({DynamicRoute(t)}, {DynamicRoute(u)})
  /\ \A t, u \in Seq(STRING) : Apart({LiveRoute(t), ArchiveRoute(t)}, {DynamicRoute(u)})
<1>1. ASSUME NEW t \in Seq(STRING), NEW u \in Seq(STRING), t # u
      PROVE  /\ ~Same(LiveRoute(t), LiveRoute(u)) /\ ~Same(ArchiveRoute(t), ArchiveRoute(u))
             /\ ~Same(DynamicRoute(t), DynamicRoute(u))
  <2>1. /\ Tail(LiveRoute(t).path) = t /\ Tail(LiveRoute(u).path) = u
        /\ Tail(ArchiveRoute(t).path) = t /\ Tail(ArchiveRoute(u).path) = u
        /\ Tail(DynamicRoute(t).path) = t /\ Tail(DynamicRoute(u).path) = u
    BY RouteFacts
  <2> QED BY <1>1, <2>1 DEF Same
<1>2. ASSUME NEW t \in Seq(STRING), NEW u \in Seq(STRING)
      PROVE  /\ ~Same(LiveRoute(t), ArchiveRoute(u)) /\ ~Same(ArchiveRoute(t), LiveRoute(u))
             /\ ~Same(LiveRoute(t), DynamicRoute(u)) /\ ~Same(ArchiveRoute(t), DynamicRoute(u))
  BY RouteFacts DEF Same
<1> QED BY <1>1, <1>2 DEF Apart

Tagged(servers) == \A i, j \in DOMAIN servers : i # j => servers[i].tag # servers[j].tag

\* So two patterns are the same only if two servers of a kind have one tag.
LEMMA AllRoutesDistinct ==
  ASSUME Servers, Tagged(config.classic), Tagged(config.dynamic)
  PROVE  Distinct(AllRoutes)
<1>1. ASSUME NEW servers \in Seq(Server), Tagged(servers)
      PROVE  Distinct(FlattenSeq(ClassicSeq(servers))) /\ Distinct(FlattenSeq(DynamicSeq(servers)))
  <2>1. \A i \in DOMAIN servers : servers[i].tag \in Seq(STRING)
    <3>1. \A i \in DOMAIN servers : servers[i] \in Server
      BY ElementOfSeq, LenProperties
    <3> QED BY <3>1, TagType
  <2>2. PICK c \in Seq(Seq(RouteType)) : c = ClassicSeq(servers)
    BY SetsOfRoutes
  <2>3. PICK d \in Seq(Seq(RouteType)) : d = DynamicSeq(servers)
    BY SetsOfRoutes
  <2>4. /\ DOMAIN c = DOMAIN servers /\ \A i \in DOMAIN servers : c[i] = ClassicRoutes(servers[i].tag)
        /\ DOMAIN d = DOMAIN servers /\ \A i \in DOMAIN servers : d[i] = DynamicRoutes(servers[i].tag)
    BY <2>2, <2>3 DEF ClassicSeq, DynamicSeq
  <2>5. \A i \in DOMAIN servers : /\ Distinct(c[i]) /\ Distinct(d[i])
          /\ ToSet(c[i]) = {LiveRoute(servers[i].tag), ArchiveRoute(servers[i].tag)}
          /\ ToSet(d[i]) = {DynamicRoute(servers[i].tag)}
    BY <2>1, <2>4, RoutesOfTag
  <2>6. \A i, j \in DOMAIN servers : i # j => /\ Apart(ToSet(c[i]), ToSet(c[j]))
                                              /\ Apart(ToSet(d[i]), ToSet(d[j]))
    <3> TAKE i \in DOMAIN servers, j \in DOMAIN servers
    <3> HAVE i # j
    <3>1. servers[i].tag # servers[j].tag
      BY <1>1 DEF Tagged
    <3>2. PICK t \in Seq(STRING) : t = servers[i].tag
      BY <2>1
    <3>3. PICK u \in Seq(STRING) : u = servers[j].tag
      BY <2>1
    <3>4. /\ Apart({LiveRoute(t), ArchiveRoute(t)}, {LiveRoute(u), ArchiveRoute(u)})
          /\ Apart({DynamicRoute(t)}, {DynamicRoute(u)})
      BY <3>1, <3>2, <3>3, TagsApart
    <3> QED BY <2>5, <3>2, <3>3, <3>4
  <2>7. Distinct(FlattenSeq(c))
    BY <2>4, <2>5, <2>6, DistinctFlattened
  <2>8. Distinct(FlattenSeq(d))
    BY <2>4, <2>5, <2>6, DistinctFlattened
  <2> QED BY <2>2, <2>3, <2>7, <2>8
<1>2. PICK c \in Seq(RouteType) : c = FlattenSeq(ClassicSeq(config.classic))
                                  /\ ToSet(c) = ClassicSet(config.classic) /\ Distinct(c)
  BY <1>1, SetsOfRoutes DEF Servers
<1>3. PICK d \in Seq(RouteType) : d = FlattenSeq(DynamicSeq(config.dynamic))
                                  /\ ToSet(d) = DynamicSet(config.dynamic) /\ Distinct(d)
  BY <1>1, SetsOfRoutes DEF Servers
<1>4. PICK f \in Seq(RouteType) : f = FixedRoutes /\ ToSet(f) = FixedSet /\ Distinct(f)
  BY FixedRoutesAre
<1>5. \A s \in ToSet(config.classic) \cup ToSet(config.dynamic) :
        s.tag \in Seq(STRING) /\ Len(s.tag) \in Nat \ {0}
  <2>1. ASSUME NEW servers \in Seq(Server) PROVE ToSet(servers) \subseteq Server
    BY ElementOfSeq, LenProperties DEF ToSet
  <2> QED BY <2>1, TagType DEF Servers
<1>6. Apart(ToSet(c), ToSet(d))
  <2>1. \A s \in ToSet(config.classic), t \in ToSet(config.dynamic) :
          Apart({LiveRoute(s.tag), ArchiveRoute(s.tag)}, {DynamicRoute(t.tag)})
    BY <1>5, TagsApart
  <2> QED BY <1>2, <1>3, <2>1 DEF Apart, ClassicSet, DynamicSet
<1>7. Apart(ToSet(c) \cup ToSet(d), ToSet(f))
  <2>1. \A r \in ToSet(c) \cup ToSet(d) : Len(r.path) > 1
    <3>1. \A s \in ToSet(config.classic) : Len(LiveRoute(s.tag).path) > 1 /\ Len(ArchiveRoute(s.tag).path) > 1
      BY <1>5, RouteFacts
    <3>2. \A s \in ToSet(config.dynamic) : Len(DynamicRoute(s.tag).path) > 1
      BY <1>5, RouteFacts
    <3> QED BY <1>2, <1>3, <3>1, <3>2 DEF ClassicSet, DynamicSet
  <2>2. \A r \in ToSet(f) : Len(r.path) <= 1
    BY <1>4, FixedPaths
  <2>3. \A n \in Nat : ~(n > 1 /\ n <= 1)
    OBVIOUS
  <2>4. \A r \in RouteType : Len(r.path) \in Nat
    BY LenProperties DEF RouteType
  <2>5. ToSet(f) \subseteq RouteType
    BY ElementOfSeq, LenProperties DEF ToSet
  <2> QED BY <2>1, <2>2, <2>3, <2>4, <2>5 DEF Apart, Same
<1>8. PICK e \in Seq(RouteType) : e = c \o d /\ ToSet(e) = ToSet(c) \cup ToSet(d) /\ Distinct(e)
  <2>1. c \o d \in Seq(RouteType)
    BY ConcatProperties
  <2>2. ToSet(c \o d) = ToSet(c) \cup ToSet(d)
    BY SetOfConcat
  <2>3. Distinct(c \o d)
    BY <1>2, <1>3, <1>6, DistinctConcat
  <2> QED BY <2>1, <2>2, <2>3
<1>9. Distinct(e \o f)
  BY <1>4, <1>7, <1>8, DistinctConcat
<1>10. AllRoutes = e \o f
  BY <1>2, <1>3, <1>4, <1>8 DEF AllRoutes, ClassicSeq, DynamicSeq
<1> QED BY <1>9, <1>10

-----------------------------------------------------------------------------
(* The invariant is inductive *)

\* The number of servers.
LEMMA Bound ==
  MaxServers \in Nat /\ 0 \in 0 .. MaxServers /\ \A n \in 0 .. MaxServers : 0 <= n
<1>1. MaxServers \in Nat \ {0}
  BY StartupAssumption, Zenon
<1> QED BY <1>1

\* In the beginning nothing was loaded.
LEMMA StartInit == Init => StartInv
<1> SUFFICES ASSUME Init PROVE StartInv
  OBVIOUS
<1> USE DEF Init
<1>1. PICK none : none = <<>>
  OBVIOUS
<1>2. (\A S : none \in Seq(S)) /\ Len(none) = 0
  BY <1>1, EmptySeq
<1>3. ConfigTypes
  <2>1. 0 \in 0 .. MaxServers
    BY Bound
  <2>2. config = [prefix |-> NoText, size |-> [classic |-> 0, dynamic |-> 0],
                  classic |-> none, dynamic |-> none]
        /\ logs = none
    BY <1>1
  <2> HIDE DEF Init
  <2>3. config \in [prefix : {NoText, "/p"}, size : [classic : 0 .. MaxServers, dynamic : 0 .. MaxServers],
                    classic : Seq(Server), dynamic : Seq(Server)]
    BY <1>2, <2>1, <2>2
  <2>4. config.classic = none /\ config.dynamic = none /\ config.size.classic = 0 /\ config.size.dynamic = 0
    BY <2>2
  <2>5. 0 <= 0
    OBVIOUS
  <2> QED BY <1>1, <1>2, <2>2, <2>3, <2>4, <2>5 DEF ConfigTypes
<1>4. StartTypes
  <2>1. tails = none /\ passes = none /\ lists = {} /\ outer = {} /\ starting = {}
        /\ config.classic = none /\ config.dynamic = none
    BY <1>1
  <2> HIDE DEF Init
  <2>2. (1 .. 0) = {} /\ 0 <= 0
    OBVIOUS
  <2> QED BY <1>1, <1>2, <2>1, <2>2 DEF StartTypes
<1> QED BY <1>3, <1>4 DEF StartInv, RoutesInv, CheckedLogsOpen, OnlyDoublesPanic

\* What a step leaves as it is.
LEMMA ConfigStays ==
  ASSUME ConfigTypes, UNCHANGED loadVars, status' # "options"
  PROVE  ConfigTypes'
  BY DEF ConfigTypes, loadVars

\* A step that changes neither configuration nor goroutines keeps their types.
LEMMA StartStays ==
  ASSUME StartTypes, UNCHANGED <<config, startVars>>
  PROVE  StartTypes'
  BY DEF StartTypes, startVars, ClassicStarted, AllLoaded

\* While nothing is served, it does not matter which patterns there are.
LEMMA RoutesStay ==
  ASSUME RoutesInv, UNCHANGED routes, status' \notin {"routed", "serving"}
  PROVE  RoutesInv'
  BY DEF RoutesInv

\* The patterns stay those of the configuration while it and the goroutines stay.
LEMMA RoutesStayToo ==
  ASSUME RoutesInv, UNCHANGED <<status, config, routes>>, Len(tails') = Len(tails), Len(passes') = Len(passes)
  PROVE  RoutesInv'
<1>1. AllRoutes' = AllRoutes
  BY DEF AllRoutes
<1> QED BY <1>1 DEF RoutesInv, ClassicStarted, AllLoaded, Distinct, Same

\* What the end of the program says stays true of the same state.
LEMMA EndStays ==
  ASSUME CheckedLogsOpen, OnlyDoublesPanic,
         UNCHANGED <<config, logs, tails, passes, starting, here>>, status' = status
  PROVE  CheckedLogsOpen' /\ OnlyDoublesPanic'
  BY DEF CheckedLogsOpen, OnlyDoublesPanic, AllLoaded, Stats, InstancesOf

\* A program that has not ended by log.Fatal or a panic has nothing to answer for.
LEMMA NoEnd ==
  ASSUME status' \notin {"fatal", "panic"}
  PROVE  CheckedLogsOpen' /\ OnlyDoublesPanic'
  BY DEF CheckedLogsOpen, OnlyDoublesPanic

\* A server read is behind those read before.
LEMMA ServerAppended ==
  ASSUME NEW S, NEW s \in Seq(S), NEW x \in S
  PROVE  Append(s, x) \in Seq(S) /\ Len(Append(s, x)) = Len(s) + 1
  OBVIOUS

\* The options (config.go, loadConfigFrom up to the servers): refused, or the servers
\* are next.
LEMMA OptionsLoaded ==
  ASSUME StartInv, LoadOptions
  PROVE  StartInv'
<1>1. status' \in {"load", "refused"}
  BY DEF LoadOptions
<1>2. ConfigTypes'
  <2>1. config.classic = <<>> /\ config.dynamic = <<>> /\ UNCHANGED logs
    BY DEF StartInv, ConfigTypes, LoadOptions
  <2>2. CASE UNCHANGED config
    BY <1>1, <2>1, <2>2, ConfigStays DEF StartInv, loadVars
  <2>3. CASE config' # config
    <3>1. PICK o \in Options : config' = [config EXCEPT !.prefix = UrlPrefix(o.prefix),
                                 !.size = [classic |-> o.classic, dynamic |-> o.dynamic]]
      BY <2>3 DEF LoadOptions
    <3>2. UrlPrefix(o.prefix) \in {NoText, "/p"} /\ o.classic \in 0 .. MaxServers /\ o.dynamic \in 0 .. MaxServers
      BY DEF Options, UrlPrefix
    <3>3. config \in [prefix : {NoText, "/p"}, size : [classic : 0 .. MaxServers, dynamic : 0 .. MaxServers],
                      classic : Seq(Server), dynamic : Seq(Server)]
          /\ logs \in Seq({"there", "gone"}) /\ Len(logs) = 0
      BY <2>1 DEF StartInv, ConfigTypes
    <3>4. PICK z : z = [classic |-> o.classic, dynamic |-> o.dynamic]
      OBVIOUS
    <3>5. z \in [classic : 0 .. MaxServers, dynamic : 0 .. MaxServers] /\ 0 <= z.classic /\ 0 <= z.dynamic
      <4>1. z \in [classic : 0 .. MaxServers, dynamic : 0 .. MaxServers]
        BY <3>2, <3>4
      <4>2. z.classic = o.classic /\ z.dynamic = o.dynamic
        BY <3>4
      <4>3. \A n \in 0 .. MaxServers : 0 <= n
        BY Bound
      <4> QED BY <3>2, <4>1, <4>2, <4>3
    <3>6. config' = [config EXCEPT !.prefix = UrlPrefix(o.prefix), !.size = z]
      BY <3>1, <3>4
    <3>7. config' \in [prefix : {NoText, "/p"}, size : [classic : 0 .. MaxServers, dynamic : 0 .. MaxServers],
                      classic : Seq(Server), dynamic : Seq(Server)]
      BY <3>2, <3>3, <3>5, <3>6
    <3>8. config'.classic = <<>> /\ config'.dynamic = <<>> /\ config'.size = z
      BY <2>1, <3>3, <3>6
    <3>9. Len(config'.classic) = 0 /\ Len(config'.dynamic) = 0
      BY <3>8
    <3> QED BY <1>1, <2>1, <3>3, <3>5, <3>7, <3>8, <3>9 DEF ConfigTypes
  <2> QED BY <2>2, <2>3
<1>3. StartTypes'
  <2>1. /\ config.classic = <<>> /\ config.dynamic = <<>> /\ tails \in Seq({"stat", "watch"})
        /\ passes \in Seq(BOOLEAN) /\ Len(tails) <= Len(config.classic) /\ Len(passes) <= Len(config.dynamic)
    BY DEF StartInv, ConfigTypes, StartTypes, LoadOptions
  <2>2. Len(tails) = 0 /\ Len(passes) = 0
    BY <2>1, LenProperties
  <2>3. tails = <<>> /\ passes = <<>>
    BY <2>1, <2>2, EmptySeq
  <2>4. lists = {} /\ outer = {} /\ starting = {}
    <3>1. (1 .. 0) = {}
      OBVIOUS
    <3> QED BY <2>2, <3>1 DEF StartInv, StartTypes
  <2>5. UNCHANGED startVars
    BY DEF LoadOptions
  <2>6. Len(config'.classic) \in Nat /\ Len(config'.dynamic) \in Nat
    BY <1>2, LenProperties DEF ConfigTypes
  <2> QED BY <2>1, <2>2, <2>3, <2>4, <2>5, <2>6 DEF StartTypes, startVars
<1>4. RoutesInv'
  BY <1>1, RoutesStay DEF StartInv, LoadOptions
<1>5. CheckedLogsOpen' /\ OnlyDoublesPanic'
  BY <1>1, NoEnd
<1> QED BY <1>1, <1>2, <1>3, <1>4, <1>5 DEF StartInv

\* Nothing is started before all is loaded.
LEMMA NothingStarted ==
  ASSUME StartTypes, ~AllLoaded, UNCHANGED startVars,
         Len(config'.classic) \in Nat, Len(config'.dynamic) \in Nat
  PROVE  StartTypes'
<1>1. tails = <<>> /\ passes = <<>>
  BY DEF StartTypes
<1>2. Len(tails) = 0 /\ Len(passes) = 0
  BY <1>1, EmptySeq
<1>3. lists = {} /\ outer = {} /\ starting = {}
  <2>1. (1 .. 0) = {}
    OBVIOUS
  <2> QED BY <1>2, <2>1 DEF StartTypes
<1>4. 0 <= Len(config'.classic) /\ 0 <= Len(config'.dynamic) /\ (1 .. 0) = {}
  OBVIOUS
<1> QED BY <1>1, <1>2, <1>3, <1>4 DEF StartTypes, startVars

\* The configuration with the entries of one kind read so far replaced.
LEMMA ConfigParts ==
  ASSUME ConfigTypes
  PROVE  /\ config.classic \in Seq(Server) /\ config.dynamic \in Seq(Server)
         /\ config.size.classic \in Nat /\ config.size.dynamic \in Nat
         /\ config.size \in [classic : 0 .. MaxServers, dynamic : 0 .. MaxServers]
         /\ config.prefix \in {NoText, "/p"}
         /\ Len(config.classic) \in Nat /\ Len(config.dynamic) \in Nat
<1>1. config.classic \in Seq(Server) /\ config.dynamic \in Seq(Server)
      /\ config.size \in [classic : 0 .. MaxServers, dynamic : 0 .. MaxServers]
      /\ config.prefix \in {NoText, "/p"}
  BY DEF ConfigTypes
<1>2. config.size.classic \in 0 .. MaxServers /\ config.size.dynamic \in 0 .. MaxServers
  BY <1>1
<1>3. \A n \in 0 .. MaxServers : n \in Nat
  BY Bound
<1> QED BY <1>1, <1>2, <1>3, LenProperties

\* To rewrite an inequality.
LEMMA LessThan == \A m, n \in Nat : m < n => m # n /\ m + 1 <= n
  OBVIOUS

\* A round of the loop over classic servers: an accepted server has a log that is
\* there.
LEMMA ClassicLoaded ==
  ASSUME StartInv, LoadClassic
  PROVE  StartInv'
<1>1. PICK e \in ClassicEntry : status' = ClassicOutcome(e)
       /\ IF status' = "load"
          THEN /\ config' = [config EXCEPT
                    !.classic = Append(@, [tag |-> e.tag, archives |-> e.archives # NoText])]
               /\ logs' = Append(logs, IF e.log = "file" THEN "there" ELSE "never")
          ELSE UNCHANGED loadVars
  BY DEF LoadClassic
<1>2. status' \in {"load", "refused", "panic"}
  BY <1>1 DEF ClassicOutcome, Outcome
<1>3. status' = "load" => e.log = "file" /\ e.tag \in Tags
  BY <1>1 DEF ClassicOutcome, Outcome, FileFails, ClassicEntry
<1>4. ConfigTypes /\ StartTypes
  BY DEF StartInv
<1>5. Len(config.classic) < config.size.classic /\ ~AllLoaded
  <2>1. Len(config.classic) < config.size.classic
    BY DEF LoadClassic
  <2>2. Len(config.classic) # config.size.classic
    BY <1>4, <2>1, ConfigParts, LessThan
  <2> QED BY <2>1, <2>2 DEF AllLoaded
<1>6. CASE status' = "load"
  <2>1. PICK x \in Server : x = [tag |-> e.tag, archives |-> e.archives # NoText]
    <3>1. (e.archives # NoText) \in BOOLEAN
      OBVIOUS
    <3> QED BY <1>3, <1>6, <3>1 DEF Server
  <2>2. PICK c \in Seq(Server) : c = Append(config.classic, x) /\ Len(c) = Len(config.classic) + 1
    BY <1>4, ConfigParts, ServerAppended
  <2>3. config' = [config EXCEPT !.classic = c] /\ logs' = Append(logs, "there")
    BY <1>1, <1>3, <1>6, <2>1, <2>2
  <2>4. config' \in [prefix : {NoText, "/p"}, size : [classic : 0 .. MaxServers, dynamic : 0 .. MaxServers],
                     classic : Seq(Server), dynamic : Seq(Server)]
        /\ config'.classic = c /\ config'.dynamic = config.dynamic /\ config'.size = config.size
    BY <1>4, <2>3 DEF ConfigTypes
  <2>5. logs \in Seq({"there", "gone"}) /\ Len(logs) = Len(config.classic)
    BY <1>4 DEF ConfigTypes
  <2>6. logs' \in Seq({"there", "gone"}) /\ Len(logs') = Len(logs) + 1
    BY <2>3, <2>5, ServerAppended
  <2>7. Len(c) <= config.size.classic /\ Len(config.dynamic) <= config.size.dynamic
    <3>1. Len(c) <= config.size.classic
      BY <1>4, <1>5, <2>2, ConfigParts, LessThan
    <3> QED BY <1>4, <3>1 DEF ConfigTypes
  <2>8. ConfigTypes'
    BY <1>6, <2>2, <2>4, <2>5, <2>6, <2>7 DEF ConfigTypes
  <2>9. StartTypes'
    <3>1. Len(config'.classic) \in Nat /\ Len(config'.dynamic) \in Nat
      BY <2>4, LenProperties
    <3> QED BY <1>4, <1>5, <3>1, NothingStarted DEF LoadClassic
  <2>10. RoutesInv'
    BY <1>6, RoutesStay DEF StartInv, LoadClassic
  <2>11. CheckedLogsOpen' /\ OnlyDoublesPanic'
    BY <1>6, NoEnd
  <2> QED BY <1>6, <2>8, <2>9, <2>10, <2>11 DEF StartInv
<1>7. CASE status' # "load"
  <2>1. UNCHANGED loadVars
    BY <1>1, <1>7
  <2>2. ConfigTypes'
    BY <1>2, <1>4, <1>7, <2>1, ConfigStays
  <2>3. StartTypes'
    BY <1>4, <2>1, StartStays DEF loadVars, LoadClassic
  <2>4. RoutesInv'
    BY <1>2, <1>7, RoutesStay DEF StartInv, LoadClassic
  <2>5. CheckedLogsOpen'
    BY <1>2, <1>7 DEF CheckedLogsOpen
  <2>6. OnlyDoublesPanic'
    BY <1>5, <2>1 DEF OnlyDoublesPanic, AllLoaded, loadVars
  <2> QED BY <1>2, <2>2, <2>3, <2>4, <2>5, <2>6 DEF StartInv
<1> QED BY <1>6, <1>7

\* A round of the loop over dynamic servers.
LEMMA DynamicLoaded ==
  ASSUME StartInv, LoadDynamic
  PROVE  StartInv'
<1>1. PICK e \in DynamicEntry : status' = DynamicOutcome(e)
       /\ config' = IF status' = "load"
                    THEN [config EXCEPT
                           !.dynamic = Append(@, [tag |-> e.tag, archives |-> e.archives])]
                    ELSE config
  BY DEF LoadDynamic
<1>2. status' \in {"load", "refused", "panic"} /\ UNCHANGED logs
  BY <1>1 DEF DynamicOutcome, Outcome, LoadDynamic
<1>3. status' = "load" => e.tag \in Tags
  BY <1>1 DEF DynamicOutcome, Outcome, DynamicEntry
<1>4. ConfigTypes /\ StartTypes
  BY DEF StartInv
<1>5. Len(config.dynamic) < config.size.dynamic /\ ~AllLoaded
  <2>1. Len(config.dynamic) < config.size.dynamic
    BY DEF LoadDynamic
  <2>2. Len(config.dynamic) # config.size.dynamic
    BY <1>4, <2>1, ConfigParts, LessThan
  <2> QED BY <2>1, <2>2 DEF AllLoaded
<1>6. CASE status' = "load"
  <2>1. PICK x \in Server : x = [tag |-> e.tag, archives |-> e.archives]
    <3>1. e.archives \in BOOLEAN
      BY DEF DynamicEntry
    <3> QED BY <1>3, <1>6, <3>1 DEF Server
  <2>2. PICK c \in Seq(Server) : c = Append(config.dynamic, x) /\ Len(c) = Len(config.dynamic) + 1
    BY <1>4, ConfigParts, ServerAppended
  <2>3. config' = [config EXCEPT !.dynamic = c]
    BY <1>1, <1>6, <2>1, <2>2
  <2>4. config' \in [prefix : {NoText, "/p"}, size : [classic : 0 .. MaxServers, dynamic : 0 .. MaxServers],
                     classic : Seq(Server), dynamic : Seq(Server)]
        /\ config'.classic = config.classic /\ config'.dynamic = c /\ config'.size = config.size
    BY <1>4, <2>3 DEF ConfigTypes
  <2>5. logs \in Seq({"there", "gone"}) /\ Len(logs) = Len(config.classic)
    BY <1>4 DEF ConfigTypes
  <2>6. Len(c) <= config.size.dynamic /\ Len(config.classic) <= config.size.classic
    <3>1. Len(c) <= config.size.dynamic
      BY <1>4, <1>5, <2>2, ConfigParts, LessThan
    <3> QED BY <1>4, <3>1 DEF ConfigTypes
  <2>7. ConfigTypes'
    BY <1>2, <1>6, <2>4, <2>5, <2>6 DEF ConfigTypes
  <2>8. StartTypes'
    <3>1. Len(config'.classic) \in Nat /\ Len(config'.dynamic) \in Nat
      BY <2>4, LenProperties
    <3> QED BY <1>4, <1>5, <3>1, NothingStarted DEF LoadDynamic
  <2>9. RoutesInv'
    BY <1>6, RoutesStay DEF StartInv, LoadDynamic
  <2>10. CheckedLogsOpen' /\ OnlyDoublesPanic'
    BY <1>6, NoEnd
  <2> QED BY <1>6, <2>7, <2>8, <2>9, <2>10 DEF StartInv
<1>7. CASE status' # "load"
  <2>1. UNCHANGED loadVars
    BY <1>1, <1>2, <1>7 DEF loadVars
  <2>2. ConfigTypes'
    BY <1>2, <1>4, <1>7, <2>1, ConfigStays
  <2>3. StartTypes'
    BY <1>4, <2>1, StartStays DEF loadVars, LoadDynamic
  <2>4. RoutesInv'
    BY <1>2, <1>7, RoutesStay DEF StartInv, LoadDynamic
  <2>5. CheckedLogsOpen'
    BY <1>2, <1>7 DEF CheckedLogsOpen
  <2>6. OnlyDoublesPanic'
    BY <1>5, <2>1 DEF OnlyDoublesPanic, AllLoaded, loadVars
  <2> QED BY <1>2, <2>2, <2>3, <2>4, <2>5, <2>6 DEF StartInv
<1> QED BY <1>6, <1>7

\* One more is started: the names of those started are one more.
LEMMA OneMoreStarted ==
  ASSUME NEW S, NEW s \in Seq(S), NEW x \in S, NEW servers
  PROVE  {servers[i].tag : i \in 1 .. Len(Append(s, x))}
           = {servers[i].tag : i \in 1 .. Len(s)} \cup {servers[Len(s) + 1].tag}
<1>1. PICK n \in Nat : n = Len(s) /\ Len(Append(s, x)) = n + 1
  BY ServerAppended, LenProperties
<1>2. (1 .. n + 1) = (1 .. n) \cup {n + 1}
  OBVIOUS
<1> QED BY <1>1, <1>2

\* main starts the tail of the next classic server (main.go:42-55).
LEMMA ClassicIsStarted ==
  ASSUME StartInv, StartClassic
  PROVE  StartInv'
<1>1. /\ status = "load" /\ AllLoaded /\ Len(tails) # Len(config.classic)
      /\ lists' = lists \cup {config.classic[Len(tails) + 1].tag}
      /\ tails' = Append(tails, "stat")
      /\ UNCHANGED <<status, config, logs, outer, passes, starting, routes>>
  BY DEF StartClassic, Starting, ClassicStarted, loadVars
<1>2. ConfigTypes /\ StartTypes
  BY DEF StartInv
<1>3. tails \in Seq({"stat", "watch"}) /\ Len(tails) <= Len(config.classic) /\ passes = <<>>
      /\ passes \in Seq(BOOLEAN) /\ Len(passes) <= Len(config.dynamic)
  BY <1>1, <1>2 DEF StartTypes, ClassicStarted
<1>4. tails' \in Seq({"stat", "watch"}) /\ Len(tails') = Len(tails) + 1
  BY <1>1, <1>3, ServerAppended
<1>5. Len(tails') <= Len(config.classic)
  <2>1. \A m, n \in Nat : m <= n /\ m # n => m + 1 <= n
    OBVIOUS
  <2>2. Len(tails) \in Nat /\ Len(config.classic) \in Nat
    BY <1>2, <1>3, ConfigParts, LenProperties
  <2> QED BY <1>1, <1>3, <1>4, <2>1, <2>2
<1>6. lists' = {config.classic[i].tag : i \in 1 .. Len(tails')}
  <2>1. lists = {config.classic[i].tag : i \in 1 .. Len(tails)}
    BY <1>2 DEF StartTypes
  <2> QED BY <1>1, <1>3, <2>1, OneMoreStarted
<1>7. StartTypes'
  <2>1. outer = {config.dynamic[j].tag : j \in 1 .. Len(passes)}
    BY <1>2 DEF StartTypes
  <2>2. AllLoaded'
    BY <1>1 DEF AllLoaded
  <2>3. \A x \in starting : x[1] \in 1 .. Len(passes) /\ passes[x[1]]
    BY <1>2 DEF StartTypes
  <2> QED BY <1>1, <1>3, <1>4, <1>5, <1>6, <2>1, <2>2, <2>3 DEF StartTypes
<1>8. ConfigTypes'
  BY <1>1, <1>2, ConfigStays DEF loadVars
<1>9. RoutesInv'
  BY <1>1, RoutesStay DEF StartInv
<1>10. CheckedLogsOpen' /\ OnlyDoublesPanic'
  BY <1>1, NoEnd
<1> QED BY <1>1, <1>7, <1>8, <1>9, <1>10 DEF StartInv

\* main starts the pass of the next dynamic server (main.go:57-67).
LEMMA DynamicIsStarted ==
  ASSUME StartInv, StartDynamic
  PROVE  StartInv'
<1>1. /\ status = "load" /\ AllLoaded /\ Len(tails) = Len(config.classic)
      /\ Len(passes) < Len(config.dynamic)
      /\ outer' = outer \cup {config.dynamic[Len(passes) + 1].tag}
      /\ passes' = Append(passes, FALSE)
      /\ UNCHANGED <<status, config, logs, lists, tails, starting, routes>>
  BY DEF StartDynamic, Starting, ClassicStarted, loadVars
<1>2. ConfigTypes /\ StartTypes
  BY DEF StartInv
<1>3. tails \in Seq({"stat", "watch"}) /\ Len(tails) <= Len(config.classic) /\ passes \in Seq(BOOLEAN)
  BY <1>2 DEF StartTypes
<1>4. passes' \in Seq(BOOLEAN) /\ Len(passes') = Len(passes) + 1
  <2>1. FALSE \in BOOLEAN
    OBVIOUS
  <2> QED BY <1>1, <1>3, <2>1, ServerAppended
<1>5. Len(passes') <= Len(config.dynamic)
  <2>1. Len(passes) \in Nat /\ Len(config.dynamic) \in Nat
    BY <1>2, <1>3, ConfigParts, LenProperties
  <2> QED BY <1>1, <1>4, <2>1, LessThan
<1>6. outer' = {config.dynamic[j].tag : j \in 1 .. Len(passes')}
  <2>1. outer = {config.dynamic[j].tag : j \in 1 .. Len(passes)}
    BY <1>2 DEF StartTypes
  <2>2. FALSE \in BOOLEAN
    OBVIOUS
  <2> QED BY <1>1, <1>3, <2>1, <2>2, OneMoreStarted
<1>7. StartTypes'
  <2>1. lists = {config.classic[i].tag : i \in 1 .. Len(tails)}
    BY <1>2 DEF StartTypes
  <2>2. AllLoaded' /\ ClassicStarted'
    BY <1>1 DEF AllLoaded, ClassicStarted
  <2>3. ASSUME NEW x \in starting PROVE x[1] \in 1 .. Len(passes') /\ passes'[x[1]]
    <3>1. x[1] \in 1 .. Len(passes) /\ passes[x[1]]
      BY <1>2 DEF StartTypes
    <3>2. passes'[x[1]] = passes[x[1]]
      <4>1. FALSE \in BOOLEAN
        OBVIOUS
      <4> QED BY <1>1, <1>3, <3>1, <4>1, AppendProperties, ZenonT(60)
    <3>3. x[1] \in 1 .. Len(passes')
      <4>1. Len(passes) \in Nat
        BY <1>3, LenProperties
      <4> QED BY <1>4, <3>1, <4>1
    <3> QED BY <3>1, <3>2, <3>3
  <2> QED BY <1>1, <1>3, <1>4, <1>5, <1>6, <2>1, <2>2, <2>3 DEF StartTypes
<1>8. ConfigTypes'
  BY <1>1, <1>2, ConfigStays DEF loadVars
<1>9. RoutesInv'
  BY <1>1, RoutesStay DEF StartInv
<1>10. CheckedLogsOpen' /\ OnlyDoublesPanic'
  BY <1>1, NoEnd
<1> QED BY <1>1, <1>7, <1>8, <1>9, <1>10 DEF StartInv

\* The patterns are registered once all is started, and panic when two are alike
\* (web_server.go:106-171).
LEMMA RoutesRegistered ==
  ASSUME StartInv, Register
  PROVE  StartInv'
<1>1. /\ status = "load" /\ AllLoaded /\ ClassicStarted /\ Len(passes) = Len(config.dynamic)
      /\ UNCHANGED <<config, logs, lists, outer, tails, passes, starting>>
  BY DEF Register, Starting, loadVars, startVars
<1>2. /\ Distinct(AllRoutes) => status' = "routed" /\ routes' = ToSet(AllRoutes)
      /\ ~Distinct(AllRoutes) => status' = "panic" /\ UNCHANGED routes
  BY DEF Register, Distinct, Same
<1>3. ConfigTypes /\ StartTypes /\ Servers
  BY ConfigParts DEF StartInv, Servers
<1>4. ConfigTypes'
  BY <1>1, <1>2, <1>3, ConfigStays DEF loadVars
<1>5. StartTypes'
  BY <1>1, <1>3, StartStays DEF startVars
<1>6. AllRoutes' = AllRoutes
  BY <1>1 DEF AllRoutes
<1>7. CASE Distinct(AllRoutes)
  <2>1. ToSet(AllRoutes) \subseteq RouteType
    <3>1. PICK r \in Seq(RouteType) : r = AllRoutes
      BY <1>3, AllRoutesAre
    <3>2. ToSet(r) \subseteq RouteType
      BY ElementOfSeq, LenProperties DEF ToSet
    <3> QED BY <3>1, <3>2
  <2>2. AllLoaded' /\ ClassicStarted'
    BY <1>1 DEF AllLoaded, ClassicStarted
  <2>3. RoutesInv'
    BY <1>1, <1>2, <1>6, <1>7, <2>1, <2>2 DEF RoutesInv
  <2>4. CheckedLogsOpen' /\ OnlyDoublesPanic'
    BY <1>2, <1>7, NoEnd
  <2> QED BY <1>2, <1>4, <1>5, <1>7, <2>3, <2>4 DEF StartInv
<1>8. CASE ~Distinct(AllRoutes)
  <2>1. ~Tagged(config.classic) \/ ~Tagged(config.dynamic)
    BY <1>3, <1>8, AllRoutesDistinct
  <2>2. OnlyDoublesPanic'
    BY <1>1, <2>1 DEF OnlyDoublesPanic, Tagged
  <2>3. CheckedLogsOpen'
    BY <1>2, <1>8 DEF CheckedLogsOpen
  <2>4. RoutesInv'
    BY <1>2, <1>8, RoutesStay DEF StartInv
  <2> QED BY <1>2, <1>4, <1>5, <1>8, <2>2, <2>3, <2>4 DEF StartInv
<1> QED BY <1>7, <1>8

\* The rest of startServer: the program serves.
LEMMA Listens ==
  ASSUME StartInv, Listen
  PROVE  StartInv'
<1>1. /\ status = "routed" /\ status' \in {"serving", "refused"}
      /\ UNCHANGED <<config, logs, lists, outer, tails, passes, starting, routes>>
  BY DEF Listen, loadVars, startVars
<1>2. ConfigTypes'
  BY <1>1, ConfigStays DEF StartInv, loadVars
<1>3. StartTypes'
  BY <1>1, StartStays DEF StartInv, startVars
<1>4. RoutesInv'
  <2>1. AllRoutes' = AllRoutes
    BY <1>1 DEF AllRoutes
  <2>2. AllLoaded' = AllLoaded /\ ClassicStarted' = ClassicStarted
    BY <1>1 DEF AllLoaded, ClassicStarted
  <2> QED BY <1>1, <2>1, <2>2 DEF StartInv, RoutesInv
<1>5. CheckedLogsOpen' /\ OnlyDoublesPanic'
  BY <1>1, NoEnd
<1> QED BY <1>1, <1>2, <1>3, <1>4, <1>5 DEF StartInv

\* watchServ stats its log: it was checked, and is there unless it went away.
LEMMA TailIsOpened ==
  ASSUME StartInv, NEW i \in DOMAIN tails, TailStats(i)
  PROVE  StartInv'
<1>1. /\ Running /\ tails[i] = "stat"
      /\ UNCHANGED <<config, logs, lists, outer, passes, starting, routes>>
      /\ IF logs[i] = "there" THEN tails' = [tails EXCEPT ![i] = "watch"] /\ UNCHANGED status
                              ELSE status' = "fatal" /\ UNCHANGED tails
  BY DEF TailStats, loadVars
<1>2. ConfigTypes /\ StartTypes
  BY DEF StartInv
<1>3. tails \in Seq({"stat", "watch"}) /\ logs \in Seq({"there", "gone"})
      /\ Len(tails) <= Len(logs) /\ Len(tails) \in Nat /\ Len(logs) \in Nat
  BY <1>2, LenProperties DEF ConfigTypes, StartTypes
<1>4. CASE logs[i] = "there"
  <2>1. status' = status /\ tails' = [tails EXCEPT ![i] = "watch"]
    BY <1>1, <1>4
  <2>2. tails' \in Seq({"stat", "watch"}) /\ Len(tails') = Len(tails)
    BY <1>3, <2>1, ExceptSeq
  <2>3. tails' = <<>> <=> tails = <<>>
    BY <1>3, <2>2, EmptySeq
  <2>4. StartTypes'
    BY <1>1, <1>2, <2>2, <2>3 DEF StartTypes, ClassicStarted, AllLoaded
  <2>5. ConfigTypes'
    BY <1>1, <1>2, <2>1 DEF ConfigTypes
  <2>6. RoutesInv'
    BY <1>1, <2>1, <2>2, RoutesStayToo DEF StartInv
  <2>7. CheckedLogsOpen' /\ OnlyDoublesPanic'
    BY <1>1, <2>1, NoEnd DEF Running
  <2> QED BY <2>1, <2>4, <2>5, <2>6, <2>7 DEF StartInv
<1>5. CASE logs[i] # "there"
  <2>1. status' = "fatal" /\ UNCHANGED tails
    BY <1>1, <1>5
  <2>2. ConfigTypes'
    BY <1>1, <1>2, <2>1, ConfigStays DEF loadVars
  <2>3. StartTypes'
    BY <1>1, <1>2, <2>1, StartStays DEF startVars
  <2>4. RoutesInv'
    BY <1>1, <2>1, RoutesStay DEF StartInv
  <2>5. logs[i] = "gone"
    <3>1. i \in 1 .. Len(logs)
      BY <1>3
    <3> QED BY <1>3, <1>5, <3>1, ElementOfSeq
  <2>6. CheckedLogsOpen' /\ OnlyDoublesPanic'
    BY <1>1, <2>1, <2>5 DEF CheckedLogsOpen, OnlyDoublesPanic
  <2> QED BY <2>1, <2>2, <2>3, <2>4, <2>6 DEF StartInv
<1> QED BY <1>4, <1>5

\* A log goes away.
LEMMA LogIsGone ==
  ASSUME StartInv, NEW i \in DOMAIN logs, LogGone(i)
  PROVE  StartInv'
<1>1. /\ Running /\ logs' = [logs EXCEPT ![i] = "gone"]
      /\ UNCHANGED <<status, config, lists, outer, tails, passes, starting, routes>>
  BY DEF LogGone, startVars
<1>2. ConfigTypes /\ StartTypes /\ logs \in Seq({"there", "gone"}) /\ Len(logs) = Len(config.classic)
  BY DEF StartInv, ConfigTypes
<1>3. logs' \in Seq({"there", "gone"}) /\ Len(logs') = Len(logs)
  BY <1>1, <1>2, ExceptSeq, LenProperties
<1>4. ConfigTypes'
  BY <1>1, <1>2, <1>3 DEF ConfigTypes
<1>5. StartTypes'
  BY <1>1, <1>2, StartStays DEF startVars
<1>6. RoutesInv'
  BY <1>1, RoutesStayToo DEF StartInv
<1>7. CheckedLogsOpen' /\ OnlyDoublesPanic'
  BY <1>1, NoEnd DEF Running
<1> QED BY <1>1, <1>4, <1>5, <1>6, <1>7 DEF StartInv

\* A pass is made for a server that has its map.
LEMMA PassIsMade ==
  ASSUME StartInv, NEW j \in DOMAIN passes, FirstPass(j)
  PROVE  StartInv'
<1>1. /\ Running /\ passes' = [passes EXCEPT ![j] = TRUE]
      /\ UNCHANGED <<config, logs, lists, outer, tails, routes>>
      /\ IF InstancesOf(j) # {} /\ config.dynamic[j].tag \notin outer
         THEN status' = "panic" /\ UNCHANGED starting
         ELSE starting' = starting \cup ({j} \X InstancesOf(j)) /\ UNCHANGED status
  BY DEF FirstPass, loadVars
<1>2. ConfigTypes /\ StartTypes /\ passes \in Seq(BOOLEAN)
  BY DEF StartInv, StartTypes
<1>3. j \in 1 .. Len(passes) /\ config.dynamic[j].tag \in outer
  <2>1. j \in 1 .. Len(passes)
    BY <1>2, LenProperties
  <2> QED BY <1>2, <2>1 DEF StartTypes
<1>4. status' = status /\ starting' = starting \cup ({j} \X InstancesOf(j))
  BY <1>1, <1>3
<1>5. passes' \in Seq(BOOLEAN) /\ Len(passes') = Len(passes)
  BY <1>1, <1>2, ExceptSeq, LenProperties
<1>6. passes' = <<>> <=> passes = <<>>
  BY <1>2, <1>5, EmptySeq
<1>7. ASSUME NEW x \in starting' PROVE x[1] \in 1 .. Len(passes') /\ passes'[x[1]]
  <2>1. \A k \in DOMAIN passes : passes'[k] = IF k = j THEN TRUE ELSE passes[k]
    BY <1>1
  <2>2. DOMAIN passes = 1 .. Len(passes)
    BY <1>2, LenProperties
  <2>3. CASE x \in starting
    <3>1. x[1] \in 1 .. Len(passes) /\ passes[x[1]]
      BY <1>2, <2>3 DEF StartTypes
    <3>2. passes'[x[1]] = IF x[1] = j THEN TRUE ELSE passes[x[1]]
      BY <2>1, <2>2, <3>1
    <3> QED BY <1>5, <3>1, <3>2
  <2>4. CASE x \in {j} \X InstancesOf(j)
    <3>1. x[1] = j
      BY <2>4
    <3>2. passes'[j]
      BY <1>3, <2>1, <2>2
    <3> QED BY <1>3, <1>5, <3>1, <3>2
  <2> QED BY <1>4, <2>3, <2>4
<1>8. StartTypes'
  BY <1>1, <1>2, <1>5, <1>6, <1>7 DEF StartTypes, ClassicStarted, AllLoaded
<1>9. ConfigTypes'
  BY <1>1, <1>2, <1>4 DEF ConfigTypes
<1>10. RoutesInv'
  BY <1>1, <1>4, <1>5, RoutesStayToo DEF StartInv
<1>11. CheckedLogsOpen' /\ OnlyDoublesPanic'
  BY <1>1, <1>4, NoEnd DEF Running
<1> QED BY <1>4, <1>8, <1>9, <1>10, <1>11 DEF StartInv

\* watchServ stats the log of an instance: the pass that started its tail was made, and
\* the path of the file is known unless it went away or has no identifier.
LEMMA InstanceIsOpened ==
  ASSUME StartInv, NEW x \in starting, InstanceStats(x)
  PROVE  StartInv'
<1>1. /\ Running /\ UNCHANGED <<config, logs, lists, outer, tails, passes, routes, here>>
      /\ IF Stats(x) THEN starting' = starting \ {x} /\ UNCHANGED status
                     ELSE status' = "fatal" /\ UNCHANGED starting
  BY DEF InstanceStats, loadVars
<1>2. ConfigTypes /\ StartTypes
  BY DEF StartInv
<1>3. StartTypes'
  <2>1. starting' \subseteq starting
    BY <1>1
  <2> QED BY <1>1, <1>2, <2>1 DEF StartTypes, ClassicStarted, AllLoaded
<1>4. CASE Stats(x)
  <2>1. status' = status
    BY <1>1, <1>4
  <2>2. ConfigTypes'
    BY <1>1, <1>2, <2>1 DEF ConfigTypes
  <2>3. RoutesInv'
    BY <1>1, <2>1, RoutesStayToo DEF StartInv
  <2>4. CheckedLogsOpen' /\ OnlyDoublesPanic'
    BY <1>1, <2>1, NoEnd DEF Running
  <2> QED BY <1>3, <2>1, <2>2, <2>3, <2>4 DEF StartInv
<1>5. CASE ~Stats(x)
  <2>1. status' = "fatal" /\ UNCHANGED starting
    BY <1>1, <1>5
  <2>2. ConfigTypes'
    BY <1>1, <1>2, <2>1, ConfigStays DEF loadVars
  <2>3. RoutesInv'
    BY <1>1, <2>1, RoutesStay DEF StartInv
  <2>4. CheckedLogsOpen'
    <3>1. passes[x[1]]
      BY <1>2 DEF StartTypes
    <3>2. Stats(x)' <=> Stats(x)
      BY <1>1 DEF Stats, InstancesOf
    <3> QED BY <1>1, <1>5, <2>1, <3>1, <3>2 DEF CheckedLogsOpen
  <2>5. OnlyDoublesPanic'
    BY <2>1 DEF OnlyDoublesPanic
  <2> QED BY <1>3, <2>1, <2>2, <2>3, <2>4, <2>5 DEF StartInv
<1> QED BY <1>4, <1>5

\* A first pass meets the write of main: the program ends.
LEMMA MapsFault ==
  ASSUME StartInv, NEW j \in DOMAIN passes, MapFault(j)
  PROVE  StartInv'
<1>1. status' = "fault" /\ UNCHANGED <<loadVars, startVars, routes>>
  BY DEF MapFault
<1>2. ConfigTypes'
  BY <1>1, ConfigStays DEF StartInv
<1>3. StartTypes'
  BY <1>1, StartStays DEF StartInv, loadVars
<1>4. RoutesInv'
  BY <1>1, RoutesStay DEF StartInv
<1>5. CheckedLogsOpen' /\ OnlyDoublesPanic'
  BY <1>1, NoEnd
<1> QED BY <1>1, <1>2, <1>3, <1>4, <1>5 DEF StartInv

\* Requests, and instances that come and go, change none of it.
LEMMA OthersStay ==
  ASSUME StartInv, UNCHANGED <<status, loadVars, startVars, routes>>, UNCHANGED here \/ Running
  PROVE  StartInv'
<1>1. ConfigTypes'
  BY DEF StartInv, ConfigTypes, loadVars
<1>2. StartTypes'
  BY StartStays DEF StartInv, loadVars
<1>3. RoutesInv'
  BY RoutesStayToo DEF StartInv, loadVars, startVars
<1>4. CASE UNCHANGED here
  <2>1. CheckedLogsOpen' /\ OnlyDoublesPanic'
    BY <1>4, EndStays DEF StartInv, loadVars, startVars
  <2> QED BY <1>1, <1>2, <1>3, <2>1 DEF StartInv
<1>5. CASE Running
  <2>1. CheckedLogsOpen' /\ OnlyDoublesPanic'
    BY <1>5, NoEnd DEF Running
  <2> QED BY <1>1, <1>2, <1>3, <2>1 DEF StartInv
<1> QED BY <1>4, <1>5

Requesting == Follow \/ Type \/ Handle \/ \E x \in Files : Instance(x)

\* Requests change nothing that was loaded or started.
LEMMA RequestsChangeNoStart ==
  ASSUME Requesting
  PROVE  UNCHANGED <<status, loadVars, startVars, routes>> /\ (UNCHANGED here \/ Running)
<1>1. ASSUME Follow \/ Type \/ Handle PROVE RequestUnchanged
  BY <1>1 DEF Follow, Type, Handle, CleanPath, AddSlash, LogHandler, ArchiveHandler,
     DynamicArchiveHandler, InstanceList, InstanceHandler, ShowInstance, HomeHandler, IndexHandler,
     ServeWs, ServeResource, Answer, Redirect
<1>2. ASSUME NEW x \in Files, Instance(x)
      PROVE  UNCHANGED <<status, loadVars, startVars, routes>> /\ Running
  BY <1>2 DEF Instance
<1> QED BY <1>1, <1>2, SMTT(60) DEF Requesting, RequestUnchanged

\* Every step keeps the invariant of start-up.
LEMMA StartNext == StartInv /\ [Next]_vars => StartInv'
<1> SUFFICES ASSUME StartInv, [Next]_vars PROVE StartInv'
  OBVIOUS
<1>1. CASE LoadOptions
  BY <1>1, OptionsLoaded
<1>2. CASE LoadClassic
  BY <1>2, ClassicLoaded
<1>3. CASE LoadDynamic
  BY <1>3, DynamicLoaded
<1>4. CASE StartClassic
  BY <1>4, ClassicIsStarted
<1>5. CASE StartDynamic
  BY <1>5, DynamicIsStarted
<1>6. CASE Register
  BY <1>6, RoutesRegistered
<1>7. CASE Listen
  BY <1>7, Listens
<1>8. ASSUME NEW i \in DOMAIN tails, TailStats(i) PROVE StartInv'
  BY <1>8, TailIsOpened
<1>9. ASSUME NEW i \in DOMAIN logs, LogGone(i) PROVE StartInv'
  BY <1>9, LogIsGone
<1>10. ASSUME NEW j \in DOMAIN passes, FirstPass(j) PROVE StartInv'
  BY <1>10, PassIsMade
<1>11. ASSUME NEW j \in DOMAIN passes, MapFault(j) PROVE StartInv'
  BY <1>11, MapsFault
<1>12. ASSUME NEW x \in starting, InstanceStats(x) PROVE StartInv'
  BY <1>12, InstanceIsOpened
<1>13. CASE Requesting
  BY <1>13, RequestsChangeNoStart, OthersStay
<1>14. CASE UNCHANGED vars
  BY <1>14, OthersStay DEF vars
<1> QED BY <1>1, <1>2, <1>3, <1>4, <1>5, <1>6, <1>7, <1>8, <1>9, <1>10, <1>11, <1>12, <1>13, <1>14
        DEF Next, Requesting

\* The start-up is always in one of the states of StartInv: servers are started in the
\* order of the configuration once all of it is read, each with its list or map, and
\* what is registered is what startServer makes of them (main.go:42-67).
THEOREM StartupInvariant == Spec => []StartInv
<1>1. Init => StartInv
  BY StartInit
<1>2. StartInv /\ [Next]_vars => StartInv'
  BY StartNext
<1> QED BY <1>1, <1>2, PTL DEF Spec

\* CheckedLogsOpen, for any configuration and any instances: log.Fatal ends the program
\* for the log of a classic server only when it went away after checkFile found it
\* (config.go:244, watcher.go:20), and otherwise for a tail that the first pass of a
\* dynamic server started, of a log that went away since or of a file without identifier
\* (dynamic.go:60-68 and 107).
THEOREM StartupCheckedLogsOpen == Spec => []CheckedLogsOpen
<1>1. StartInv => CheckedLogsOpen
  BY DEF StartInv
<1> QED BY <1>1, StartupInvariant, PTL

\* OnlyDoublesPanic, for any tags: http.HandleFunc panics only for two servers of one
\* kind with one tag, and no pass panics (web_server.go:122-138, dynamic.go:57).
THEOREM StartupOnlyDoublesPanic == Spec => []OnlyDoublesPanic
<1>1. StartInv => OnlyDoublesPanic
  BY DEF StartInv
<1> QED BY <1>1, StartupInvariant, PTL

\* A sequence of distinct patterns has as many as it is long.
LEMMA DistinctCounted ==
  ASSUME NEW S, NEW s \in Seq(S), Distinct(s)
  PROVE  Cardinality(ToSet(s)) = Len(s)
<1>1. Len(s) \in Nat /\ DOMAIN s = 1 .. Len(s)
  BY LenProperties
<1>2. IsFiniteSet(1 .. Len(s)) /\ Cardinality(1 .. Len(s)) = Len(s)
  BY <1>1, FS_Interval, SMTT(60)
<1>3. ExistsBijection(1 .. Len(s), ToSet(s))
  <2> DEFINE f == [i \in 1 .. Len(s) |-> s[i]]
  <2>1. \A i, j \in 1 .. Len(s) : s[i] = s[j] => i = j
    BY <1>1 DEF Distinct, Same
  <2>2. f \in Bijection(1 .. Len(s), ToSet(s))
    BY <1>1, <2>1 DEF Bijection, Injection, Surjection, IsInjective, ToSet
  <2> QED BY <2>2 DEF ExistsBijection
<1> QED BY <1>2, <1>3, FS_Bijection

\* ServingIsComplete, for any configuration: once requests are served, nothing that main
\* and startServer make for a server is missing (main.go:42-67, web_server.go:122-138).
THEOREM StartupServingIsComplete == Spec => []ServingIsComplete
<1>1. StartInv => ServingIsComplete
  <2> SUFFICES ASSUME StartInv, status = "serving" PROVE ServingIsComplete
    BY DEF ServingIsComplete
  <2>1. AllLoaded /\ ClassicStarted /\ Len(passes) = Len(config.dynamic)
        /\ routes = ToSet(AllRoutes) /\ Distinct(AllRoutes)
    BY DEF StartInv, RoutesInv
  <2>2. Servers /\ ConfigTypes /\ StartTypes
    BY ConfigParts DEF StartInv, Servers
  <2>3. Len(tails) = config.size.classic /\ Len(passes) = config.size.dynamic
    BY <2>1 DEF AllLoaded, ClassicStarted
  <2>4. lists = {s.tag : s \in ToSet(config.classic)}
    <3>1. DOMAIN config.classic = 1 .. Len(tails)
      BY <2>1, <2>2, LenProperties DEF Servers, ClassicStarted
    <3>2. lists = {config.classic[i].tag : i \in 1 .. Len(tails)}
      BY <2>2 DEF StartTypes
    <3> QED BY <3>1, <3>2 DEF ToSet
  <2>5. outer = {s.tag : s \in ToSet(config.dynamic)}
    <3>1. DOMAIN config.dynamic = 1 .. Len(passes)
      BY <2>1, <2>2, LenProperties DEF Servers
    <3>2. outer = {config.dynamic[j].tag : j \in 1 .. Len(passes)}
      BY <2>2 DEF StartTypes
    <3> QED BY <3>1, <3>2 DEF ToSet
  <2>6. Cardinality(routes) = Len(AllRoutes)
    <3>1. AllRoutes \in Seq(RouteType)
      BY <2>2, AllRoutesAre
    <3> QED BY <2>1, <3>1, DistinctCounted
  <2> QED BY <2>3, <2>4, <2>5, <2>6 DEF ServingIsComplete
<1> QED BY <1>1, StartupInvariant, PTL

-----------------------------------------------------------------------------
(* Requests: the invariant *)

ReqType == [pc : {"none", "ask", "done"}, link : [url : Urls, leads : Pages],
            stale : BOOLEAN, clean : BOOLEAN, url : Urls, hops : Nat, page : Pages]

\* The links of the pages, whatever instances there are meanwhile.
IndexLink(l) == l = [url |-> Root, leads |-> Other("index")]
WsLink(l) == l = Link(<<"ws">>, Other("ws"))
ResLink(l) == \E r \in Resources : l = Link(<<"res", r>>, Page("res", <<>>, NoText, <<r>>))
LiveLink(l, s) == l = Link(<<"server">> \o s.tag, Page("live", s.tag, NoText, <<>>))
ArchiveLink(l, s) ==
  \E a \in Archives : l = Link(<<"archive">> \o s.tag \o <<>> \o a, Page("archive", s.tag, NoText, a))
JsonLink(l, s) ==
  l = [url |-> Url(<<"dynamic">>, TRUE, s.tag), leads |-> Page("json", s.tag, NoText, <<>>)]
InstanceLink(l, s) ==
  \E id \in Ids : l = Link(<<"dynamic">> \o s.tag \o <<id>>, Page("live", s.tag, id, <<>>))
InstanceArchiveLink(l, s) ==
  \E id \in Ids, a \in Archives :
    l = Link(<<"dyn-archive">> \o s.tag \o <<id>> \o a, Page("archive", s.tag, id, a))

KnownLink(l) ==
  \/ IndexLink(l) \/ WsLink(l) \/ ResLink(l)
  \/ \E s \in ToSet(config.classic) : LiveLink(l, s) \/ ArchiveLink(l, s)
  \/ \E s \in ToSet(config.dynamic) :
       JsonLink(l, s) \/ InstanceLink(l, s) \/ InstanceArchiveLink(l, s)

ReqTypes ==
  /\ here \subseteq Files /\ starting \subseteq (1 .. MaxServers) \X (Ids \cup {NoText})
  /\ req \in ReqType

\* The first redirection of an address that is not clean is the one of ServeMux, to the
\* same path.  Of those that follow, the second is for a tree or for the list of instances,
\* the third for none.
First == IF req.clean THEN 0 ELSE 1

HopsInv ==
  /\ req.pc = "none" => req.hops = 0 /\ req.clean
  /\ req.pc = "ask" =>
       \/ req.hops = 0 \/ req.hops = First
       \/ /\ req.hops = First + 1
          /\ \/ req.url = Root
             \/ req.url.slash /\ \E r \in routes : r.tree /\ r.path = req.url.path
             \/ req.url.path = <<"dynamic">> /\ ~req.url.slash
       \/ /\ req.hops = First + 2
          /\ req.url = Root \/ (req.url.path = <<"dynamic">> /\ req.url.slash)
  /\ RedirectsEnd

\* An instance that a link leads to is there until the link is stale.
Fresh(l) ==
  \A s \in ToSet(config.dynamic), id \in Ids :
    l = Link(<<"dynamic">> \o s.tag \o <<id>>, Page("live", s.tag, id, <<>>)) => <<s.tag, id>> \in here

\* A link is asked for as it is; after a redirection, it is stale.
LinkInv ==
  /\ req.pc = "none" => req.link = NoLink
  /\ (req.pc = "ask" /\ req.link # NoLink) => KnownLink(req.link) /\ req.clean
  /\ (req.pc = "ask" /\ req.link # NoLink /\ Plain(req.link.leads)) =>
       \/ req.url = req.link.url /\ (req.stale \/ Fresh(req.link))
       \/ req.url = Root /\ req.stale
  /\ LinksLeadToTheirPage

\* There are no requests before they are served.
Unasked == status \in {"options", "load", "routed"} => req.pc = "none"

-----------------------------------------------------------------------------
(* The links *)

\* Paths put together.
LEMMA PathConcat ==
  \A p, q \in Seq(STRING) :
    p \o q \in Seq(STRING) /\ Len(p \o q) = Len(p) + Len(q) /\ Len(p) \in Nat /\ Len(q) \in Nat
<1> TAKE p \in Seq(STRING), q \in Seq(STRING)
<1> QED BY ConcatProperties, LenProperties

\* The pages that have a tag.
LEMMA PageType ==
  \A kind \in {"live", "list", "archive", "json", "res"}, tag \in Seq(STRING), id \in STRING,
     name \in Seq(STRING) : Page(kind, tag, id, name) \in Pages
  BY DEF Page, Pages

\* The pages that have none.
LEMMA OtherType ==
  \A kind \in {"any", "index", "ws", "not found", "outside"} : Other(kind) \in Pages
<1> TAKE kind \in {"any", "index", "ws", "not found", "outside"}
<1>1. <<>> \in Seq(STRING) /\ NoText \in STRING
  BY EmptySeq, LiteralsAreStrings
<1> QED BY <1>1 DEF Other, Page, Pages

\* What an address is made of.
LEMMA UrlType ==
  \A path \in Seq(STRING), slash \in BOOLEAN, only \in Seq(STRING) : Url(path, slash, only) \in Urls
  BY DEF Url, Urls

\* What is empty and what is a segment, a tag or an archive.
LEMMA DataTypes ==
  /\ <<>> \in Seq(STRING) /\ NoText \in STRING /\ Root \in Urls
  /\ Tags \cup BadTags \cup Archives \subseteq Seq(STRING) /\ Ids \subseteq STRING
  /\ Resources \subseteq STRING /\ NoText \notin Ids
<1>1. <<>> \in Seq(STRING)
  BY EmptySeq
<1>2. NoText \in STRING /\ Resources \subseteq STRING
  BY LiteralsAreStrings DEF Resources
<1>3. Root \in Urls
  BY <1>1, UrlType DEF Root
<1> QED BY <1>1, <1>2, <1>3, StartupAssumption

\* What a server that was accepted is made of.
LEMMA ServerTypes ==
  ASSUME ConfigTypes
  PROVE  /\ ToSet(config.classic) \subseteq Server /\ ToSet(config.dynamic) \subseteq Server
         /\ \A s \in ToSet(config.classic) \cup ToSet(config.dynamic) :
              s.tag \in Tags /\ s.tag \in Seq(STRING) /\ Len(s.tag) \in Nat \ {0}
<1>1. ASSUME NEW servers \in Seq(Server) PROVE ToSet(servers) \subseteq Server
  BY ElementOfSeq, LenProperties DEF ToSet
<1> QED BY <1>1, ConfigParts, TagType

\* A link of a page is an address and a page.
LEMMA LinkType ==
  ASSUME ConfigTypes, NEW l, KnownLink(l)
  PROVE  l \in [url : Urls, leads : Pages]
<1> DEFINE T == [url : Urls, leads : Pages]
<1>1. \A p \in Seq(STRING), page \in Pages : Link(p, page) \in T
  BY DataTypes, UrlType DEF Link
<1>2. \A x \in STRING : <<x>> \in Seq(STRING)
  BY SingleIsPath
<1>3. CASE IndexLink(l)
  BY <1>3, DataTypes, OtherType DEF IndexLink
<1>4. CASE WsLink(l)
  BY <1>1, <1>2, <1>4, OtherType, LiteralsAreStrings DEF WsLink
<1>5. CASE ResLink(l)
  <2>1. PICK r \in Resources : l = Link(<<"res", r>>, Page("res", <<>>, NoText, <<r>>))
    BY <1>5 DEF ResLink
  <2>2. r \in STRING /\ "res" \in STRING
    BY DataTypes, LiteralsAreStrings
  <2>3. <<"res", r>> \in Seq(STRING)
    BY <2>2
  <2> QED BY <1>1, <1>2, <2>1, <2>2, <2>3, PageType, DataTypes
<1>6. ASSUME NEW s \in ToSet(config.classic) \cup ToSet(config.dynamic) PROVE s.tag \in Seq(STRING)
  BY ServerTypes
<1>7. ASSUME NEW s \in ToSet(config.classic), LiveLink(l, s) PROVE l \in T
  <2>1. <<"server">> \o s.tag \in Seq(STRING)
    BY <1>6, PathBehind, LiteralsAreStrings
  <2> QED BY <1>1, <1>6, <1>7, <2>1, PageType, DataTypes DEF LiveLink
<1>8. ASSUME NEW s \in ToSet(config.classic), ArchiveLink(l, s) PROVE l \in T
  <2>1. PICK a \in Archives : l = Link(<<"archive">> \o s.tag \o <<>> \o a, Page("archive", s.tag, NoText, a))
    BY <1>8 DEF ArchiveLink
  <2>2. <<"archive">> \o s.tag \o <<>> \o a \in Seq(STRING) /\ a \in Seq(STRING)
    BY <1>2, <1>6, PathConcat, DataTypes, LiteralsAreStrings
  <2> QED BY <1>1, <1>6, <2>1, <2>2, PageType, DataTypes
<1>9. ASSUME NEW s \in ToSet(config.dynamic), JsonLink(l, s) PROVE l \in T
  <2>1. Url(<<"dynamic">>, TRUE, s.tag) \in Urls
    BY <1>2, <1>6, UrlType, LiteralsAreStrings
  <2> QED BY <1>6, <1>9, <2>1, PageType, DataTypes DEF JsonLink
<1>10. ASSUME NEW s \in ToSet(config.dynamic), InstanceLink(l, s) PROVE l \in T
  <2>1. PICK id \in Ids : l = Link(<<"dynamic">> \o s.tag \o <<id>>, Page("live", s.tag, id, <<>>))
    BY <1>10 DEF InstanceLink
  <2>2. <<"dynamic">> \o s.tag \o <<id>> \in Seq(STRING) /\ id \in STRING
    BY <1>2, <1>6, PathConcat, DataTypes, LiteralsAreStrings
  <2> QED BY <1>1, <1>6, <2>1, <2>2, PageType, DataTypes
<1>11. ASSUME NEW s \in ToSet(config.dynamic), InstanceArchiveLink(l, s) PROVE l \in T
  <2>1. PICK id \in Ids, a \in Archives :
          l = Link(<<"dyn-archive">> \o s.tag \o <<id>> \o a, Page("archive", s.tag, id, a))
    BY <1>11 DEF InstanceArchiveLink
  <2>2. <<"dyn-archive">> \o s.tag \o <<id>> \o a \in Seq(STRING) /\ id \in STRING /\ a \in Seq(STRING)
    BY <1>2, <1>6, PathConcat, DataTypes, LiteralsAreStrings
  <2> QED BY <1>1, <1>6, <2>1, <2>2, PageType, DataTypes
<1> QED BY <1>3, <1>4, <1>5, <1>7, <1>8, <1>9, <1>10, <1>11 DEF KnownLink

\* The links one kind after the other.
LEMMA LinkCases ==
  ASSUME NEW l \in Links
  PROVE  \/ l \in ServerLinks
         \/ l = Link(<<"ws">>, Other("ws"))
         \/ \E r \in Resources : l = Link(<<"res", r>>, Page("res", <<>>, NoText, <<r>>))
         \/ \E s \in ToSet(config.classic) : l \in ArchiveLinks(<<"archive">>, s, NoText)
         \/ \E s \in ToSet(config.dynamic) : l \in InstanceLinks(s)
         \/ \E s \in ToSet(config.dynamic), id \in Ids : l \in ArchiveLinks(<<"dyn-archive">>, s, id)
<1> DEFINE A == UNION {ArchiveLinks(<<"archive">>, s, NoText) : s \in ToSet(config.classic)}
           I(s) == UNION {ArchiveLinks(<<"dyn-archive">>, s, id) : id \in Named(s.tag)}
           D == UNION {InstanceLinks(s) \cup I(s) : s \in ToSet(config.dynamic)}
<1>1. \/ l \in ServerLinks \/ l = Link(<<"ws">>, Other("ws"))
      \/ l \in {Link(<<"res", r>>, Page("res", <<>>, NoText, <<r>>)) : r \in Resources}
      \/ l \in A \/ l \in D
  <2>1. Links = ServerLinks \cup {Link(<<"ws">>, Other("ws"))}
          \cup {Link(<<"res", r>>, Page("res", <<>>, NoText, <<r>>)) : r \in Resources} \cup A \cup D
    BY DEF Links
  <2> HIDE DEF A, D
  <2> QED BY <2>1
<1>2. l \in A => \E s \in ToSet(config.classic) : l \in ArchiveLinks(<<"archive">>, s, NoText)
  OBVIOUS
<1>3. l \in D => \E s \in ToSet(config.dynamic) : l \in InstanceLinks(s) \/ l \in I(s)
  <2> HIDE DEF I
  <2> QED OBVIOUS
<1>4. \A s : l \in I(s) => \E id \in Ids : l \in ArchiveLinks(<<"dyn-archive">>, s, id)
  BY DEF Named
<1>5. l \in {Link(<<"res", r>>, Page("res", <<>>, NoText, <<r>>)) : r \in Resources}
        => \E r \in Resources : l = Link(<<"res", r>>, Page("res", <<>>, NoText, <<r>>))
  OBVIOUS
<1> HIDE DEF A, I, D
<1> QED BY <1>1, <1>2, <1>3, <1>4, <1>5

\* What kind of page a link leads to.
LEMMA LinkKinds ==
  ASSUME NEW l
  PROVE  /\ IndexLink(l) => l.leads.kind = "index"
         /\ WsLink(l) => l.leads.kind = "ws"
         /\ ResLink(l) => l.leads.kind = "res"
         /\ \A s : LiveLink(l, s) => l.leads.kind = "live" /\ l.leads.id = NoText
         /\ \A s : ArchiveLink(l, s) => l.leads.kind = "archive"
         /\ \A s : JsonLink(l, s) => l.leads.kind = "json"
         /\ \A s : InstanceLink(l, s) => l.leads.kind = "live"
         /\ \A s : InstanceArchiveLink(l, s) => l.leads.kind = "archive"
<1>1. \A path, page : Link(path, page).leads = page
  BY DEF Link
<1>2. \A kind, tag, id, name : Page(kind, tag, id, name).kind = kind /\ Page(kind, tag, id, name).id = id
  BY DEF Page
<1>3. \A kind : Other(kind).kind = kind
  BY DEF Other, Page
<1>4. IndexLink(l) => l.leads.kind = "index"
  BY <1>3 DEF IndexLink
<1>5. WsLink(l) => l.leads.kind = "ws"
  BY <1>1, <1>3 DEF WsLink
<1>6. ResLink(l) => l.leads.kind = "res"
  BY DEF ResLink, Link, Page
<1>7. \A s : LiveLink(l, s) => l.leads.kind = "live" /\ l.leads.id = NoText
  BY DEF LiveLink, Link, Page
<1>8. \A s : ArchiveLink(l, s) => l.leads.kind = "archive"
  BY DEF ArchiveLink, Link, Page
<1>9. \A s : JsonLink(l, s) => l.leads.kind = "json"
  BY DEF JsonLink, Page
<1>10. \A s : InstanceLink(l, s) => l.leads.kind = "live"
  BY <1>1, <1>2 DEF InstanceLink
<1>11. \A s : InstanceArchiveLink(l, s) => l.leads.kind = "archive"
  BY <1>1, <1>2 DEF InstanceArchiveLink
<1> QED BY <1>4, <1>5, <1>6, <1>7, <1>8, <1>9, <1>10, <1>11

\* The links of the pages are known, and those to instances lead to instances.
LEMMA LinksAreKnown ==
  ASSUME NEW l \in Links
  PROVE  KnownLink(l) /\ l # NoLink /\ Fresh(l)
<1>1. KnownLink(l)
  <2>1. CASE l \in ServerLinks
    BY <2>1 DEF ServerLinks, KnownLink, IndexLink, LiveLink
  <2>2. CASE l = Link(<<"ws">>, Other("ws"))
    BY <2>2 DEF KnownLink, WsLink
  <2>3. CASE \E r \in Resources : l = Link(<<"res", r>>, Page("res", <<>>, NoText, <<r>>))
    BY <2>3 DEF KnownLink, ResLink
  <2>4. ASSUME NEW s \in ToSet(config.classic), l \in ArchiveLinks(<<"archive">>, s, NoText)
        PROVE  KnownLink(l)
    <3>1. ArchiveLink(l, s)
      BY <2>4 DEF ArchiveLinks, ArchiveLink
    <3> QED BY <3>1 DEF KnownLink
  <2>5. ASSUME NEW s \in ToSet(config.dynamic), l \in InstanceLinks(s)
        PROVE  KnownLink(l)
    <3>1. JsonLink(l, s) \/ InstanceLink(l, s)
      BY <2>5 DEF InstanceLinks, Named, JsonLink, InstanceLink
    <3> QED BY <3>1 DEF KnownLink
  <2>6. ASSUME NEW s \in ToSet(config.dynamic), NEW id \in Ids, l \in ArchiveLinks(<<"dyn-archive">>, s, id)
        PROVE  KnownLink(l)
    <3>1. id # NoText
      BY DataTypes
    <3>2. InstanceArchiveLink(l, s)
      BY <2>6, <3>1 DEF ArchiveLinks, InstanceArchiveLink
    <3> QED BY <3>2 DEF KnownLink
  <2> QED BY <2>1, <2>2, <2>3, <2>4, <2>5, <2>6, LinkCases
<1>2. l # NoLink
  <2>1. l.leads.kind # "any"
    BY <1>1, LinkKinds DEF KnownLink
  <2>2. NoLink.leads.kind = "any"
    BY DEF NoLink, Other, Page
  <2> QED BY <2>1, <2>2
<1>3. Fresh(l)
  <2> SUFFICES ASSUME NEW t \in ToSet(config.dynamic), NEW id \in Ids,
                      l = Link(<<"dynamic">> \o t.tag \o <<id>>, Page("live", t.tag, id, <<>>))
               PROVE  <<t.tag, id>> \in here
    BY DEF Fresh
  <2>1. l.leads.kind = "live" /\ l.leads.id = id /\ l.leads.tag = t.tag /\ id # NoText
    BY DataTypes DEF Link, Page
  <2>2. l \notin ServerLinks /\ l # Link(<<"ws">>, Other("ws"))
    BY <2>1 DEF ServerLinks, Link, Page, Other
  <2>3. \A r \in Resources : l # Link(<<"res", r>>, Page("res", <<>>, NoText, <<r>>))
    BY <2>1 DEF Link, Page
  <2>4. \A root, s, x : l \notin ArchiveLinks(root, s, x)
    BY <2>1 DEF ArchiveLinks, Link, Page
  <2>5. PICK s \in ToSet(config.dynamic) : l \in InstanceLinks(s)
    BY <2>2, <2>3, <2>4, LinkCases
  <2>6. PICK name \in Named(s.tag) :
          l = Link(<<"dynamic">> \o s.tag \o <<name>>, Page("live", s.tag, name, <<>>))
    <3>1. \/ l = [url |-> Url(<<"dynamic">>, TRUE, s.tag), leads |-> Page("json", s.tag, NoText, <<>>)]
          \/ \E name \in Named(s.tag) :
               l = Link(<<"dynamic">> \o s.tag \o <<name>>, Page("live", s.tag, name, <<>>))
      BY <2>5 DEF InstanceLinks
    <3>2. l # [url |-> Url(<<"dynamic">>, TRUE, s.tag), leads |-> Page("json", s.tag, NoText, <<>>)]
      BY <2>1 DEF Page
    <3> QED BY <3>1, <3>2
  <2>7. l.leads.tag = s.tag /\ l.leads.id = name
    BY <2>6 DEF Link, Page
  <2>8. <<s.tag, name>> \in here
    BY DEF Named
  <2> QED BY <2>1, <2>7, <2>8
<1> QED BY <1>1, <1>2, <1>3

-----------------------------------------------------------------------------
(* ServeMux *)

\* A prefix is as long as what it is a prefix of, or shorter.
LEMMA PrefixFacts ==
  \A p, u \in Seq(STRING) :
    /\ IsPrefix(p, u) <=> Len(p) <= Len(u) /\ \A k \in 1 .. Len(p) : p[k] = u[k]
    /\ IsPrefix(p, u) /\ p # u => Len(p) < Len(u)
<1> TAKE p \in Seq(STRING), u \in Seq(STRING)
<1>1. Len(p) \in Nat /\ Len(u) \in Nat
  BY LenProperties
<1>2. ASSUME NEW v \in Seq(STRING), NEW n \in Nat, n <= Len(v)
      PROVE  /\ SubSeq(v, 1, n) \in Seq(STRING) /\ Len(SubSeq(v, 1, n)) = n
             /\ \A k \in 1 .. n : SubSeq(v, 1, n)[k] = v[k]
  <2>1. PICK w : w = SubSeq(v, 1, n)
    OBVIOUS
  <2>2. Len(v) \in Nat /\ \A i \in 1 .. n : i \in 1 .. Len(v) /\ v[i] \in STRING
    BY <1>2, LenProperties, ElementOfSeq
  <2>3. w = [i \in 1 .. n |-> v[i]]
    <3>1. (n - 1) + 1 = n /\ \A i \in 1 .. n : (i + 1) - 1 = i
      OBVIOUS
    <3> QED BY <1>2, <2>1, <2>2, SubSeqProperties
  <2>4. w \in Seq(STRING) /\ Len(w) = n
    BY <2>2, <2>3, SeqDef
  <2> QED BY <2>1, <2>3, <2>4
<1>3. IsPrefix(p, u) <=> (Len(p) <= Len(u) /\ \A k \in 1 .. Len(p) : p[k] = u[k])
  <2>1. CASE ~(Len(p) <= Len(u))
    BY <2>1 DEF IsPrefix
  <2>2. CASE Len(p) <= Len(u)
    <3>1. PICK a \in Seq(STRING) : a = SubSeq(p, 1, Len(p)) /\ Len(a) = Len(p)
                                   /\ \A k \in 1 .. Len(p) : a[k] = p[k]
      <4>1. Len(p) <= Len(p)
        BY <1>1
      <4> QED BY <1>1, <1>2, <4>1
    <3>2. PICK b \in Seq(STRING) : b = SubSeq(u, 1, Len(p)) /\ Len(b) = Len(p)
                                   /\ \A k \in 1 .. Len(p) : b[k] = u[k]
      BY <1>1, <1>2, <2>2
    <3>3. a = b <=> \A k \in 1 .. Len(p) : a[k] = b[k]
      BY <3>1, <3>2, SeqEqual
    <3> QED BY <2>2, <3>1, <3>2, <3>3 DEF IsPrefix
  <2> QED BY <2>1, <2>2
<1>4. ASSUME IsPrefix(p, u), p # u PROVE Len(p) < Len(u)
  <2>1. Len(p) # Len(u)
    BY <1>3, <1>4, SeqEqual
  <2>2. Len(p) <= Len(u)
    BY <1>3, <1>4
  <2> QED BY <1>1, <2>1, <2>2
<1> QED BY <1>3, <1>4

\* A server is ready to answer.
Ready == StartInv /\ ReqTypes /\ status = "serving"

\* When a request is handled, the patterns are those of the configuration.
LEMMA ReadyFacts ==
  ASSUME Ready
  PROVE  /\ routes = RouteSet /\ routes \subseteq RouteType /\ ConfigTypes /\ Servers
         /\ \A r, q \in routes : Same(r, q) => r = q
         /\ req.url \in Urls /\ req.url.path \in Seq(STRING) /\ req.url.slash \in BOOLEAN
         /\ \A r \in routes : r.path \in Seq(STRING) /\ r.tree \in BOOLEAN
<1>1. routes = ToSet(AllRoutes) /\ Distinct(AllRoutes) /\ routes \subseteq RouteType /\ ConfigTypes
  BY DEF Ready, StartInv, RoutesInv
<1>2. Servers
  BY <1>1, ConfigParts DEF Servers
<1>3. routes = RouteSet
  BY <1>1, <1>2, AllRoutesAre
<1>4. \A r, q \in routes : Same(r, q) => r = q
  <2>1. \A r \in routes : \E i \in DOMAIN AllRoutes : r = AllRoutes[i]
    BY <1>1 DEF ToSet
  <2> QED BY <1>1, <2>1 DEF Distinct
<1>5. req.url \in Urls
  BY DEF Ready, ReqTypes, ReqType
<1>6. req.url.path \in Seq(STRING) /\ req.url.slash \in BOOLEAN
  BY <1>5 DEF Urls
<1>7. \A r \in routes : r.path \in Seq(STRING) /\ r.tree \in BOOLEAN
  BY <1>1 DEF RouteType
<1> QED BY <1>1, <1>2, <1>3, <1>4, <1>5, <1>6, <1>7

\* The routes one kind after the other.
LEMMA RouteCases ==
  \A r : r \in RouteSet <=>
    \/ \E s \in ToSet(config.classic) : r = LiveRoute(s.tag) \/ r = ArchiveRoute(s.tag)
    \/ \E s \in ToSet(config.dynamic) : r = DynamicRoute(s.tag)
    \/ r \in FixedSet
  BY DEF RouteSet, ClassicSet, DynamicSet

\* The longest pattern is the one that ServeMux takes.
LEMMA LongestIsMatched ==
  ASSUME NEW r \in Exact \cup Trees,
         \A q \in Exact \cup Trees : Len(q.path) <= Len(r.path),
         \A q \in Exact \cup Trees : Len(r.path) <= Len(q.path) => q = r
  PROVE  Matched = r
<1>1. Matched \in Exact \cup Trees /\ \A q \in Exact \cup Trees : Len(q.path) <= Len(Matched.path)
  <2> DEFINE P(m) == m \in Exact \cup Trees /\ \A q \in Exact \cup Trees : Len(q.path) <= Len(m.path)
  <2>1. P(r)
    OBVIOUS
  <2>2. Matched = CHOOSE m : P(m)
    BY DEF Matched
  <2> QED BY <2>1, <2>2
<1> QED BY <1>1

\* A pattern for the very address.
LEMMA ExactMatch ==
  ASSUME Ready, NEW r \in routes, r.path = req.url.path, r.tree = req.url.slash
  PROVE  ~MuxRedirects /\ Matched = r
<1>1. Exact = {r}
  BY ReadyFacts DEF Exact, Same
<1>2. \A q \in Trees : Len(q.path) < Len(r.path)
  BY ReadyFacts, PrefixFacts DEF Trees
<1>3. Matched = r
  <2>1. \A q \in Exact \cup Trees : q = r \/ Len(q.path) < Len(r.path)
    BY <1>1, <1>2
  <2>2. \A q \in Exact \cup Trees : Len(q.path) \in Nat
    BY ReadyFacts, LenProperties DEF Exact, Trees
  <2> QED BY <1>1, <2>1, <2>2, LongestIsMatched
<1> QED BY <1>1, <1>3 DEF MuxRedirects

\* A tree around the address, when no pattern is for the address itself.
LEMMA TreeMatch ==
  ASSUME Ready, NEW r \in routes, r.tree, IsPrefix(r.path, req.url.path), r.path # req.url.path,
         \A q \in routes : q.path # req.url.path,
         \A q \in routes : q.tree /\ IsPrefix(q.path, req.url.path) /\ q # r => Len(q.path) < Len(r.path)
  PROVE  ~MuxRedirects /\ Matched = r
<1>1. Exact = {} /\ r \in Trees
  BY DEF Exact, Trees
<1>2. \A q \in Exact \cup Trees : q = r \/ Len(q.path) < Len(r.path)
  BY <1>1 DEF Trees
<1>3. \A q \in Exact \cup Trees : Len(q.path) \in Nat
  BY ReadyFacts, LenProperties DEF Exact, Trees
<1>4. Matched = r
  BY <1>1, <1>2, <1>3, LongestIsMatched
<1> QED BY <1>4 DEF MuxRedirects

\* Some pattern is always found, that of the index if no other.
LEMMA MatchedIsRoute ==
  ASSUME Ready, ~MuxRedirects
  PROVE  Matched \in Exact \cup Trees
<1>1. Exact \cup Trees # {}
  <2>1. PICK r \in routes : r.path = <<>> /\ r.tree
    <3>1. Route(<<>>, TRUE, "index", <<>>) \in RouteSet
      BY RouteCases DEF FixedSet
    <3> QED BY <3>1, ReadyFacts DEF Route
  <2>2. IsPrefix(r.path, req.url.path)
    <3>1. Len(<<>>) = 0 /\ Len(req.url.path) \in Nat /\ (1 .. 0) = {}
      BY ReadyFacts, LenProperties
    <3>2. Len(r.path) = 0 /\ 0 <= Len(req.url.path)
      BY <2>1, <3>1
    <3> QED BY <2>1, <3>1, <3>2, ReadyFacts, PrefixFacts
  <2>3. CASE req.url.path # <<>>
    <3>1. r \in Trees
      BY <2>1, <2>2, <2>3 DEF Trees
    <3> QED BY <3>1
  <2>4. CASE req.url.path = <<>>
    <3>1. CASE req.url.slash
      <4>1. r \in Exact
        BY <2>1, <2>4, <3>1, ReadyFacts DEF Exact
      <4> QED BY <4>1
    <3>2. CASE ~req.url.slash
      BY <2>1, <2>4, <3>2 DEF MuxRedirects
    <3> QED BY <3>1, <3>2
  <2> QED BY <2>3, <2>4
<1>2. PICK r \in Exact \cup Trees : \A q \in Exact \cup Trees : Len(q.path) <= Len(r.path)
  <2>1. PICK n \in Nat : n = Len(req.url.path)
    BY ReadyFacts, LenProperties
  <2> DEFINE lengths == {Len(q.path) : q \in Exact \cup Trees}
  <2>2. lengths \subseteq 0 .. n
    <3>1. ASSUME NEW q \in Exact \cup Trees PROVE Len(q.path) \in 0 .. n
      <4>1. q.path \in Seq(STRING) /\ Len(q.path) \in Nat /\ req.url.path \in Seq(STRING)
        BY ReadyFacts, LenProperties DEF Exact, Trees
      <4>2. q.path = req.url.path \/ IsPrefix(q.path, req.url.path)
        BY DEF Exact, Trees
      <4>3. Len(q.path) <= n
        BY <2>1, <4>1, <4>2, PrefixFacts
      <4> QED BY <4>1, <4>3
    <3> QED BY <3>1
  <2>3. lengths # {}
    BY <1>1
  <2>4. PICK m \in lengths : \A k \in lengths : m >= k
    <3> HIDE DEF lengths
    <3> QED BY <2>2, <2>3, GreatestNumber
  <2>5. \A k \in lengths : k <= m
    BY <2>2, <2>4
  <2>6. PICK r \in Exact \cup Trees : m = Len(r.path)
    BY <2>4
  <2> QED BY <2>5, <2>6
<1> DEFINE P(m) == m \in Exact \cup Trees /\ \A q \in Exact \cup Trees : Len(q.path) <= Len(m.path)
<1>3. P(r)
  BY <1>2
<1>4. Matched = CHOOSE m : P(m)
  BY DEF Matched
<1> QED BY <1>3, <1>4

-----------------------------------------------------------------------------
(* The types of requests *)

\* An answer ends the request, and changes nothing else.
LEMMA AnswerIs ==
  ASSUME ReqTypes, NEW page \in Pages, Answer(page)
  PROVE  /\ ReqTypes' /\ UNCHANGED <<config, routes, here, status>>
         /\ req'.pc = "done" /\ req'.page = page /\ req'.link = req.link /\ req'.stale = req.stale
         /\ req'.hops = req.hops /\ req'.clean = req.clean
<1>1. req' = [req EXCEPT !.pc = "done", !.page = page]
      /\ UNCHANGED <<config, routes, here, starting, status>>
  BY DEF Answer, RequestUnchanged, loadVars, startVars
<1>2. req \in ReqType
  BY DEF ReqTypes
<1>3. req' \in ReqType
  BY <1>1, <1>2 DEF ReqType
<1>4. /\ req'.pc = "done" /\ req'.page = page /\ req'.link = req.link /\ req'.stale = req.stale
      /\ req'.hops = req.hops /\ req'.clean = req.clean
  BY <1>1, <1>2 DEF ReqType
<1> QED BY <1>1, <1>3, <1>4 DEF ReqTypes

\* A redirection leads out of url-prefix, or to another address that is asked for.
LEMMA RedirectIs ==
  ASSUME ReqTypes, NEW url \in Urls, NEW prefix, Redirect(prefix, url)
  PROVE  /\ ReqTypes' /\ UNCHANGED <<config, routes, here, status>>
         /\ req'.link = req.link /\ req'.stale = req.stale /\ req'.hops = req.hops + 1
         /\ req'.clean = req.clean
         /\ \/ prefix = config.prefix /\ req'.pc = req.pc /\ req'.url = url
            \/ req'.pc = "done" /\ req'.page.kind = "outside"
<1>1. req \in ReqType /\ req.hops \in Nat /\ UNCHANGED <<config, routes, here, starting, status>>
  BY DEF ReqTypes, ReqType, Redirect, RequestUnchanged, loadVars, startVars
<1>2. CASE prefix = config.prefix
  <2>1. req' = [req EXCEPT !.hops = req.hops + 1, !.url = url]
    BY <1>2 DEF Redirect
  <2>2. req' \in ReqType
    <3>1. PICK h \in Nat : h = req.hops + 1
      BY <1>1
    <3>2. req' = [req EXCEPT !.hops = h, !.url = url]
      BY <2>1, <3>1
    <3> QED BY <1>1, <3>2 DEF ReqType
  <2>3. req'.link = req.link /\ req'.stale = req.stale /\ req'.hops = req.hops + 1
        /\ req'.pc = req.pc /\ req'.url = url /\ req'.clean = req.clean
    BY <1>1, <2>1 DEF ReqType
  <2> QED BY <1>1, <1>2, <2>2, <2>3 DEF ReqTypes
<1>3. CASE prefix # config.prefix
  <2>1. PICK page \in Pages : page = Other("outside")
    BY OtherType
  <2>2. page.kind = "outside"
    BY <2>1 DEF Other, Page
  <2>3. req' = [req EXCEPT !.hops = req.hops + 1, !.pc = "done", !.page = page]
    BY <1>3, <2>1 DEF Redirect
  <2>4. req' \in ReqType
    <3>1. PICK h \in Nat : h = req.hops + 1
      BY <1>1
    <3>2. req' = [req EXCEPT !.hops = h, !.pc = "done", !.page = page]
      BY <2>3, <3>1
    <3> QED BY <1>1, <3>2 DEF ReqType
  <2>5. req'.link = req.link /\ req'.stale = req.stale /\ req'.hops = req.hops + 1
        /\ req'.pc = "done" /\ req'.page = page /\ req'.clean = req.clean
    BY <1>1, <2>3 DEF ReqType
  <2> QED BY <1>1, <2>2, <2>4, <2>5 DEF ReqTypes
<1> QED BY <1>2, <1>3

\* The segments of the path behind the second one (strings.Split in the handlers).
LEMMA PartsAre ==
  ASSUME Ready
  PROVE  /\ Parts \in Seq(STRING) /\ Len(Parts) \in Nat /\ Len(req.url.path) \in Nat
         /\ Len(req.url.path) >= 2 => Len(Parts) = Len(req.url.path) - 2
         /\ \A k \in 1 .. Len(Parts) : Parts[k] = req.url.path[k + 2] /\ Parts[k] \in STRING
<1>1. PICK p \in Seq(STRING) : p = req.url.path
  BY ReadyFacts
<1>2. PICK n \in Nat : n = Len(p)
  BY LenProperties
<1>3. Parts = SubSeq(p, 3, n)
  BY <1>1, <1>2 DEF Parts
<1>4. \A i \in 3 .. n : i \in 1 .. Len(p) /\ p[i] \in STRING
  BY <1>2, LenProperties, ElementOfSeq
<1>5. CASE n >= 2
  <2>1. PICK w : w = SubSeq(p, 3, n)
    OBVIOUS
  <2>2. n - 2 \in Nat /\ (n - 3) + 1 = n - 2
    BY <1>5
  <2>3. w = [k \in 1 .. n - 2 |-> p[k + 2]]
    <3>1. w = [k \in 1 .. (n - 3) + 1 |-> p[(k + 3) - 1]]
      BY <1>2, <1>4, <2>1, SubSeqProperties
    <3>2. \A k \in 1 .. n - 2 : (k + 3) - 1 = k + 2
      BY <2>2
    <3> QED BY <2>2, <3>1, <3>2
  <2>4. \A k \in 1 .. n - 2 : k + 2 \in 3 .. n
    BY <2>2
  <2>5. w \in Seq(STRING) /\ Len(w) = n - 2
    BY <1>4, <2>2, <2>3, <2>4, SeqDef
  <2>6. \A k \in 1 .. n - 2 : w[k] = p[k + 2] /\ w[k] \in STRING
    BY <1>4, <2>3, <2>4
  <2> QED BY <1>1, <1>2, <1>3, <2>1, <2>2, <2>5, <2>6
<1>6. CASE ~(n >= 2)
  <2>1. Parts = <<>>
    BY <1>2, <1>3, <1>6, SubSeqProperties
  <2>2. <<>> \in Seq(STRING) /\ Len(<<>>) = 0 /\ (1 .. 0) = {}
    BY EmptySeq
  <2> QED BY <1>1, <1>2, <1>6, <2>1, <2>2
<1> QED BY <1>5, <1>6

\* What the regular expression takes of a segment is text; so are its groups.
LEMMA GroupType ==
  /\ \A x : Allowed(x) \in STRING
  /\ ServerGroup \in STRING /\ InstanceGroup \in STRING
<1>1. ASSUME NEW x PROVE Allowed(x) \in STRING
  <2>1. CASE x \in DOMAIN Taken
    BY <2>1, StartupAssumption DEF Allowed
  <2>2. CASE x \notin DOMAIN Taken
    BY <2>2, LiteralsAreStrings DEF Allowed
  <2> QED BY <2>1, <2>2
<1>2. NoText \in STRING
  BY LiteralsAreStrings
<1> QED BY <1>1, <1>2, Zenon DEF ServerGroup, InstanceGroup

\* Every handler answers with a page or redirects: to the home page, to the list
\* of instances, by a slash, or to the clean address.
LEMMA HandleCases ==
  ASSUME Ready, Handle
  PROVE  \/ \E page \in Pages : Answer(page)
         \/ Redirect(NoText, Root) \/ Redirect(config.prefix, Root) \/ AddSlash \/ CleanPath
         \/ InstanceHandler /\ Redirect(NoText, Url(<<"dynamic">>, FALSE, <<ServerGroup>>))
<1>1. ASSUME ~MuxRedirects PROVE Matched.tag \in Seq(STRING)
  BY <1>1, MatchedIsRoute, ReadyFacts DEF Exact, Trees, RouteType
<1>2. \A x \in STRING : <<x>> \in Seq(STRING) /\ Unescaped(x) \in Seq(STRING)
  BY SingleIsPath, DataTypes DEF Unescaped
<1>3. NoText \in STRING /\ <<>> \in Seq(STRING) /\ Root \in Urls
  BY DataTypes
<1>5. CASE LogHandler
  <2>1. Page("live", Matched.tag, NoText, <<>>) \in Pages
    BY <1>1, <1>3, <1>5, PageType DEF LogHandler, Asks
  <2> QED BY <1>5, <2>1 DEF LogHandler
<1>6. CASE ArchiveHandler
  <2>1. Matched.tag \in Seq(STRING)
    BY <1>1, <1>6 DEF ArchiveHandler, Asks
  <2>2. Page("list", Matched.tag, NoText, <<>>) \in Pages
    BY <1>3, <2>1, PageType
  <2>3. Len(Parts) = 1 => Page("archive", Matched.tag, NoText, Unescaped(Parts[1])) \in Pages
    <3>1. Len(Parts) = 1 => Parts[1] \in STRING
      BY PartsAre
    <3> QED BY <1>2, <1>3, <2>1, <3>1, PageType
  <2> QED BY <1>3, <1>6, <2>2, <2>3 DEF ArchiveHandler
<1>7. CASE DynamicArchiveHandler
  <2>1. Matched.tag \in Seq(STRING)
    BY <1>1, <1>7 DEF DynamicArchiveHandler, Asks
  <2>2. Len(Parts) = 1 => Page("list", Matched.tag, Parts[1], <<>>) \in Pages
    <3>1. Len(Parts) = 1 => Parts[1] \in STRING
      BY PartsAre
    <3> QED BY <1>3, <2>1, <3>1, PageType
  <2>3. Len(Parts) = 2 => Page("archive", Matched.tag, Parts[1], Unescaped(Parts[2])) \in Pages
    <3>1. Len(Parts) = 2 => Parts[1] \in STRING /\ Parts[2] \in STRING
      BY PartsAre
    <3> QED BY <1>2, <1>3, <2>1, <3>1, PageType
  <2> QED BY <1>3, <1>7, <2>2, <2>3 DEF DynamicArchiveHandler
<1>8. CASE InstanceList
  <2>1. Page("json", req.url.only, NoText, <<>>) \in Pages
    BY <1>3, ReadyFacts, PageType DEF Urls
  <2>2. Other("not found") \in Pages
    BY OtherType
  <2> QED BY <1>8, <2>1, <2>2 DEF InstanceList
<1>9. CASE InstanceHandler
  <2>1. Page("live", <<ServerGroup>>, InstanceGroup, <<>>) \in Pages
    BY <1>2, <1>3, GroupType, PageType
  <2>2. ShowInstance => \/ Redirect(NoText, Root)
                        \/ Answer(Page("live", <<ServerGroup>>, InstanceGroup, <<>>))
    <3>1. CASE Present(<<ServerGroup>>, InstanceGroup)
      BY <3>1, Zenon DEF ShowInstance
    <3>2. CASE ~Present(<<ServerGroup>>, InstanceGroup)
      BY <3>2, Zenon DEF ShowInstance
    <3> QED BY <3>1, <3>2
  <2>3. \/ Redirect(NoText, Root) \/ Redirect(NoText, Url(<<"dynamic">>, FALSE, <<ServerGroup>>))
        \/ ShowInstance
    BY <1>9, Zenon DEF InstanceHandler
  <2> QED BY <1>9, <2>1, <2>2, <2>3
<1>10. CASE HomeHandler
  BY <1>3, <1>10 DEF HomeHandler
<1>11. CASE IndexHandler
  BY <1>11, OtherType DEF IndexHandler
<1>12. CASE ServeWs
  BY <1>12, OtherType DEF ServeWs
<1>13. CASE ServeResource
  <2>1. req.url.path[2] \in Resources => Page("res", <<>>, NoText, <<req.url.path[2]>>) \in Pages
    BY <1>2, <1>3, DataTypes, PageType
  <2>2. Other("not found") \in Pages
    BY OtherType
  <2> QED BY <1>13, <2>1, <2>2 DEF ServeResource
<1> QED BY <1>5, <1>6, <1>7, <1>8, <1>9, <1>10, <1>11, <1>12, <1>13 DEF Handle

\* Every handler answers or redirects.
LEMMA HandleUrls ==
  ASSUME Ready, Handle
  PROVE  \/ \E page \in Pages : Answer(page)
         \/ \E url \in Urls, prefix \in {NoText, config.prefix} : Redirect(prefix, url)
<1>1. Root \in Urls
  BY DataTypes
<1>2. [req.url EXCEPT !.slash = TRUE] \in Urls
  BY ReadyFacts DEF Urls
<1>3. Url(<<"dynamic">>, FALSE, <<ServerGroup>>) \in Urls /\ req.url \in Urls
  BY GroupType, SingleIsPath, UrlType, LiteralsAreStrings, ReadyFacts
<1>4. /\ AddSlash => Redirect(NoText, [req.url EXCEPT !.slash = TRUE])
      /\ CleanPath => Redirect(NoText, req.url)
  BY DEF AddSlash, CleanPath
<1> QED BY <1>1, <1>2, <1>3, <1>4, HandleCases

\* The steps of main and startServer leave the requests alone.
Starts ==
  \/ LoadOptions \/ LoadClassic \/ LoadDynamic
  \/ StartClassic \/ StartDynamic \/ Register \/ Listen
  \/ \E i \in DOMAIN tails : TailStats(i)
  \/ \E i \in DOMAIN logs : LogGone(i)
  \/ \E j \in DOMAIN passes : FirstPass(j) \/ MapFault(j)
  \/ \E x \in starting : InstanceStats(x)

\* While the program starts there are no requests.
LEMMA StartsLeaveRequests ==
  ASSUME Starts
  PROVE  /\ UNCHANGED <<here, req>>
         /\ UNCHANGED <<config, routes>> \/ status \in {"options", "load", "routed"}
         /\ status' \in {"options", "load", "routed"} => status \in {"options", "load", "routed"}
<1>1. CASE LoadOptions
  BY <1>1 DEF LoadOptions
<1>2. CASE LoadClassic
  BY <1>2 DEF LoadClassic
<1>3. CASE LoadDynamic
  BY <1>3 DEF LoadDynamic
<1>4. CASE StartClassic
  BY <1>4 DEF StartClassic, Starting
<1>5. CASE StartDynamic
  BY <1>5 DEF StartDynamic, Starting
<1>6. CASE Register
  BY <1>6 DEF Register, Starting
<1>7. CASE Listen
  BY <1>7 DEF Listen
<1>8. ASSUME NEW i \in DOMAIN tails, TailStats(i)
      PROVE  UNCHANGED <<here, req, config, routes>> /\ status' \in {status, "fatal"}
  BY <1>8 DEF TailStats, loadVars
<1>9. ASSUME NEW i \in DOMAIN logs, LogGone(i)
      PROVE  UNCHANGED <<here, req, config, routes>> /\ status' = status
  BY <1>9 DEF LogGone
<1>10. ASSUME NEW j \in DOMAIN passes, FirstPass(j)
       PROVE  UNCHANGED <<here, req, config, routes>> /\ status' \in {status, "panic"}
  BY <1>10 DEF FirstPass, loadVars
<1>11. ASSUME NEW j \in DOMAIN passes, MapFault(j)
       PROVE  UNCHANGED <<here, req, config, routes>> /\ status' = "fault"
  BY <1>11 DEF MapFault, loadVars
<1>12. ASSUME NEW x \in starting, InstanceStats(x)
       PROVE  UNCHANGED <<here, req, config, routes>> /\ status' \in {status, "fatal"}
  BY <1>12 DEF InstanceStats, loadVars
<1> QED BY <1>1, <1>2, <1>3, <1>4, <1>5, <1>6, <1>7, <1>8, <1>9, <1>10, <1>11, <1>12 DEF Starts

\* The steps: of start-up, of the browser, of the handlers, of the instances.
LEMMA NextCases == Next => Starts \/ Follow \/ Type \/ Handle \/ \E x \in Files : Instance(x)
  BY DEF Next, Starts

\* A link that is followed is asked for as it was printed.
LEMMA FollowIs ==
  ASSUME StartInv, ReqTypes, Follow
  PROVE  \E l \in Links :
           /\ ReqTypes' /\ UNCHANGED <<config, routes, here, status>>
           /\ status = "serving" /\ req.pc = "none" /\ req'.pc = "ask" /\ req'.link = l
           /\ req'.url = l.url /\ req'.hops = req.hops /\ req'.stale = req.stale
           /\ req'.clean = req.clean
<1>1. PICK l \in Links :
        req' = [req EXCEPT !.link = l, !.url = l.url,
                           !.pc = IF config.prefix = "/" THEN "done" ELSE "ask",
                           !.page = IF config.prefix = "/" THEN Other("outside") ELSE @]
  BY DEF Follow
<1>2. config.prefix # "/"
  <2>1. NoText # "/"
    BY DEF NoText
  <2> QED BY <2>1, ConfigParts DEF StartInv
<1>3. req' = [req EXCEPT !.link = l, !.url = l.url, !.pc = "ask", !.page = @]
  BY <1>1, <1>2
<1>4. l \in [url : Urls, leads : Pages]
  BY LinksAreKnown, LinkType DEF StartInv
<1>5. req \in ReqType /\ status = "serving" /\ req.pc = "none"
      /\ UNCHANGED <<config, routes, here, starting, status>>
  BY DEF ReqTypes, Follow, RequestUnchanged, loadVars, startVars
<1>6. l.url \in Urls
  BY <1>4
<1>7. req' \in ReqType
  BY <1>3, <1>4, <1>5, <1>6 DEF ReqType
<1>8. req'.pc = "ask" /\ req'.link = l /\ req'.url = l.url /\ req'.hops = req.hops /\ req'.stale = req.stale
      /\ req'.clean = req.clean
  BY <1>3, <1>5 DEF ReqType
<1> QED BY <1>5, <1>7, <1>8 DEF ReqTypes

\* An address that is typed is asked for.
LEMMA TypeIs ==
  ASSUME ReqTypes, Type
  PROVE  /\ ReqTypes' /\ UNCHANGED <<config, routes, here, status>>
         /\ status = "serving" /\ req.pc = "none" /\ req'.pc = "ask" /\ req'.link = req.link
         /\ req'.hops = req.hops
<1>1. PICK a \in Typed, only \in Tags \cup BadTags :
        req' = [req EXCEPT !.pc = "ask", !.clean = a.clean, !.url = Url(a.path, a.slash, only)]
  BY DEF Type
<1>2. PICK url \in Urls : url = Url(a.path, a.slash, only) /\ a.clean \in BOOLEAN
  <2>1. a \in [path : Seq(STRING), slash : BOOLEAN, clean : BOOLEAN]
    BY StartupAssumption
  <2>2. a.path \in Seq(STRING) /\ a.slash \in BOOLEAN /\ a.clean \in BOOLEAN
    BY <2>1
  <2> QED BY <2>2, DataTypes, UrlType
<1>3. req \in ReqType /\ status = "serving" /\ req.pc = "none"
      /\ UNCHANGED <<config, routes, here, starting, status>>
  BY DEF ReqTypes, Type, RequestUnchanged, loadVars, startVars
<1>4. req' \in ReqType
  BY <1>1, <1>2, <1>3 DEF ReqType
<1>5. req'.pc = "ask" /\ req'.link = req.link /\ req'.hops = req.hops
  BY <1>1, <1>3 DEF ReqType
<1> QED BY <1>3, <1>4, <1>5 DEF ReqTypes

\* An instance that starts or stops makes the links to it stale.
LEMMA InstanceIs ==
  ASSUME ReqTypes, NEW x \in Files, Instance(x)
  PROVE  /\ ReqTypes' /\ UNCHANGED <<config, routes, status>> /\ req.pc # "done"
         /\ req'.pc = req.pc /\ req'.link = req.link /\ req'.url = req.url /\ req'.hops = req.hops
         /\ req'.clean = req.clean
         /\ req'.stale = (req.stale \/ x = <<req.link.leads.tag, req.link.leads.id>>)
         /\ \A y : y # x /\ y \in here => y \in here'
<1>1. PICK stale \in BOOLEAN : stale = (req.stale \/ x = <<req.link.leads.tag, req.link.leads.id>>)
  OBVIOUS
<1>2. req \in ReqType /\ here \subseteq Files /\ req.stale \in BOOLEAN
  BY DEF ReqTypes, ReqType
<1>3. req' = [req EXCEPT !.stale = stale]
  BY <1>1 DEF Instance
<1>4. req' \in ReqType
  BY <1>2, <1>3 DEF ReqType
<1>5. /\ req'.pc = req.pc /\ req'.link = req.link /\ req'.url = req.url /\ req'.hops = req.hops
      /\ req'.stale = stale /\ req'.clean = req.clean
  BY <1>2, <1>3 DEF ReqType
<1>6. here' \subseteq Files /\ \A y : y # x /\ y \in here => y \in here'
  BY <1>2 DEF Instance
<1> QED BY <1>1, <1>4, <1>5, <1>6 DEF ReqTypes, Instance, loadVars, startVars

\* Only a request that was made is handled.
LEMMA HandleAsks == Handle => status = "serving" /\ req.pc = "ask"
  BY DEF Handle, CleanPath, AddSlash, LogHandler, ArchiveHandler, DynamicArchiveHandler, InstanceList,
     InstanceHandler, HomeHandler, IndexHandler, ServeWs, ServeResource, Asks, Asking

\* In the beginning there is no request.
LEMMA ReqTypesInit == Init => ReqTypes
<1> SUFFICES ASSUME Init PROVE ReqTypes
  OBVIOUS
<1>1. PICK page \in Pages : page = Other("any")
  BY OtherType
<1>2. PICK link \in [url : Urls, leads : Pages] : link = NoLink
  BY <1>1, DataTypes DEF NoLink
<1>3. req = [pc |-> "none", link |-> link, stale |-> FALSE, clean |-> TRUE, url |-> Root,
             hops |-> 0, page |-> page]
      /\ here = {} /\ starting = {}
  BY <1>1, <1>2 DEF Init
<1>4. Root \in Urls
  BY DataTypes
<1> QED BY <1>3, <1>4 DEF ReqTypes, ReqType

\* The tails that a first pass starts are of files of that server.
LEMMA StartingIs ==
  ASSUME StartInv, ReqTypes, Starts
  PROVE  starting' \subseteq (1 .. MaxServers) \X (Ids \cup {NoText})
<1>1. starting \subseteq (1 .. MaxServers) \X (Ids \cup {NoText}) /\ here \subseteq Files
  BY DEF ReqTypes
<1>2. ASSUME NEW j \in DOMAIN passes, FirstPass(j)
      PROVE  starting' \subseteq (1 .. MaxServers) \X (Ids \cup {NoText})
  <2>1. starting' \subseteq starting \cup ({j} \X InstancesOf(j))
    BY <1>2 DEF FirstPass
  <2>2. InstancesOf(j) \subseteq Ids \cup {NoText}
    BY <1>1, StartupAssumption DEF InstancesOf
  <2>3. j \in 1 .. MaxServers
    <3>1. ConfigTypes /\ StartTypes
      BY DEF StartInv
    <3>2. PICK n \in Nat : n = Len(passes) /\ n <= Len(config.dynamic) /\ DOMAIN passes = 1 .. n
      BY <3>1, LenProperties DEF StartTypes
    <3>3. PICK m \in Nat : m = Len(config.dynamic) /\ m <= config.size.dynamic
      BY <3>1, ConfigParts DEF ConfigTypes
    <3>4. config.size.dynamic \in 0 .. MaxServers
      BY <3>1, ConfigParts
    <3>5. MaxServers \in Nat
      BY Bound
    <3>6. \A k, l \in Nat : k <= l => 1 .. k \subseteq 1 .. l
      OBVIOUS
    <3>7. n <= m /\ m <= MaxServers
      BY <3>2, <3>3, <3>4, <3>5
    <3>8. n <= MaxServers
      BY <3>5, <3>7
    <3> QED BY <3>2, <3>5, <3>6, <3>8
  <2> QED BY <1>1, <2>1, <2>2, <2>3
<1>3. ASSUME NEW x \in starting, InstanceStats(x)
      PROVE  starting' \subseteq (1 .. MaxServers) \X (Ids \cup {NoText})
  <2>1. starting' \subseteq starting
    BY <1>3 DEF InstanceStats
  <2> QED BY <1>1, <2>1
<1>4. CASE UNCHANGED starting
  BY <1>1, <1>4, SMTT(60)
<1>5. CASE LoadOptions \/ LoadClassic \/ LoadDynamic \/ StartClassic \/ StartDynamic \/ Register \/ Listen
  BY <1>4, <1>5 DEF LoadOptions, LoadClassic, LoadDynamic, StartClassic, StartDynamic, Register, Listen,
     startVars
<1>6. ASSUME NEW i \in DOMAIN tails, TailStats(i) PROVE UNCHANGED starting
  BY <1>6 DEF TailStats
<1>7. ASSUME NEW i \in DOMAIN logs, LogGone(i) PROVE UNCHANGED starting
  BY <1>7 DEF LogGone, startVars
<1>8. ASSUME NEW j \in DOMAIN passes, MapFault(j) PROVE UNCHANGED starting
  BY <1>8 DEF MapFault, startVars
<1> QED BY <1>2, <1>3, <1>4, <1>5, <1>6, <1>7, <1>8 DEF Starts

\* Every step keeps the types of requests.
LEMMA ReqTypesNext == StartInv /\ ReqTypes /\ [Next]_vars => ReqTypes'
<1> SUFFICES ASSUME StartInv, ReqTypes, [Next]_vars PROVE ReqTypes'
  OBVIOUS
<1>1. CASE Starts
  BY <1>1, StartsLeaveRequests, StartingIs DEF ReqTypes
<1>2. CASE Follow
  BY <1>2, FollowIs
<1>3. CASE Type
  BY <1>3, TypeIs
<1>4. CASE Handle
  <2>1. Ready
    BY <1>4, HandleAsks DEF Ready
  <2> QED BY <1>4, <2>1, HandleUrls, AnswerIs, RedirectIs
<1>5. ASSUME NEW x \in Files, Instance(x) PROVE ReqTypes'
  BY <1>5, InstanceIs
<1>6. CASE UNCHANGED vars
  BY <1>6 DEF vars, startVars, ReqTypes
<1> QED BY <1>1, <1>2, <1>3, <1>4, <1>5, <1>6, NextCases

\* TypeOK, for any constants.
THEOREM StartupTypeOK == Spec => []TypeOK
<1>1. Init => ReqTypes
  BY ReqTypesInit
<1>2. StartInv /\ ReqTypes /\ [Next]_vars => ReqTypes'
  BY ReqTypesNext
<1>3. StartInv /\ ReqTypes => TypeOK
  <2> SUFFICES ASSUME StartInv, ReqTypes PROVE TypeOK
    OBVIOUS
  <2>1. ConfigTypes /\ StartTypes /\ RoutesInv
    BY DEF StartInv
  <2>2. /\ config \in [prefix : {NoText, "/p"}, size : [classic : 0 .. MaxServers, dynamic : 0 .. MaxServers],
                       classic : Seq(Server), dynamic : Seq(Server)]
        /\ logs \in Seq({"there", "never", "gone"}) /\ Len(logs) = Len(config.classic)
    <3>1. logs \in Seq({"there", "gone"})
      BY <2>1 DEF ConfigTypes
    <3>2. logs \in Seq({"there", "never", "gone"})
      BY <3>1, SeqMonotonic
    <3> QED BY <2>1, <3>2 DEF ConfigTypes
  <2>3. lists \subseteq Tags /\ outer \subseteq Tags
    <3>1. ASSUME NEW servers \in Seq(Server), NEW n \in Nat, n <= Len(servers)
          PROVE  {servers[i].tag : i \in 1 .. n} \subseteq Tags
      <4>1. \A i \in 1 .. n : i \in 1 .. Len(servers)
        BY <3>1, LenProperties
      <4> QED BY <4>1, ElementOfSeq, TagType
    <3>2. Len(tails) \in Nat /\ Len(passes) \in Nat
      BY <2>1, LenProperties DEF StartTypes
    <3> QED BY <2>1, <3>1, <3>2, ConfigParts DEF StartTypes
  <2>4. tails \in Seq({"stat", "watch"}) /\ passes \in Seq(BOOLEAN)
    BY <2>1 DEF StartTypes
  <2>5. routes \in SUBSET [path : Seq(STRING), tree : BOOLEAN, tag : Seq(STRING),
          to : {"live", "archive", "dyn-archive", "dynamic", "home", "index", "ws", "res"}]
    BY <2>1 DEF RoutesInv, RouteType
  <2> QED BY <2>2, <2>3, <2>4, <2>5 DEF TypeOK, StartInv, ReqTypes, ReqType
<1> QED BY <1>1, <1>2, <1>3, StartupInvariant, PTL DEF Spec

-----------------------------------------------------------------------------
(* Redirections end *)

\* Which handler it is.
LEMMA HandlerOf ==
  ASSUME Handle
  PROVE  \/ AddSlash /\ MuxRedirects
         \/ CleanPath /\ ~Clean
         \/ LogHandler /\ ~MuxRedirects /\ Matched.to = "live"
         \/ ArchiveHandler /\ ~MuxRedirects /\ Matched.to = "archive"
         \/ DynamicArchiveHandler /\ ~MuxRedirects /\ Matched.to = "dyn-archive"
         \/ InstanceList /\ ~MuxRedirects /\ Matched.to = "dynamic"
         \/ InstanceHandler /\ ~MuxRedirects /\ Matched.to = "dynamic"
         \/ HomeHandler /\ ~MuxRedirects /\ Matched.to = "home"
         \/ IndexHandler /\ ~MuxRedirects /\ Matched.to = "index"
         \/ ServeWs /\ ~MuxRedirects /\ Matched.to = "ws"
         \/ ServeResource /\ ~MuxRedirects /\ Matched.to = "res"
<1>1. (AddSlash => MuxRedirects) /\ (CleanPath => ~Clean)
  BY DEF AddSlash, CleanPath
<1>2. /\ LogHandler => ~MuxRedirects /\ Matched.to = "live"
      /\ ArchiveHandler => ~MuxRedirects /\ Matched.to = "archive"
      /\ DynamicArchiveHandler => ~MuxRedirects /\ Matched.to = "dyn-archive"
  BY DEF LogHandler, ArchiveHandler, DynamicArchiveHandler, Asks
<1>3. /\ InstanceList => ~MuxRedirects /\ Matched.to = "dynamic"
      /\ InstanceHandler => ~MuxRedirects /\ Matched.to = "dynamic"
      /\ HomeHandler => ~MuxRedirects /\ Matched.to = "home"
  BY DEF InstanceList, InstanceHandler, HomeHandler, Asks
<1>4. /\ IndexHandler => ~MuxRedirects /\ Matched.to = "index"
      /\ ServeWs => ~MuxRedirects /\ Matched.to = "ws"
      /\ ServeResource => ~MuxRedirects /\ Matched.to = "res"
  BY DEF IndexHandler, ServeWs, ServeResource, Asks
<1> QED BY <1>1, <1>2, <1>3, <1>4 DEF Handle

\* The patterns that are always there.
LEMMA FixedAre ==
  ASSUME Ready
  PROVE  /\ \E r \in routes : r.path = <<>> /\ r.tree = TRUE /\ r.to = "index"
         /\ \E r \in routes : r.path = <<"dynamic">> /\ r.tree = TRUE /\ r.to = "dynamic"
         /\ \E r \in routes : r.path = <<"ws">> /\ r.tree = FALSE /\ r.to = "ws"
         /\ \E r \in routes : r.path = <<"res">> /\ r.tree = TRUE /\ r.to = "res"
<1>1. FixedSet \subseteq routes
  BY ReadyFacts, RouteCases
<1>2. /\ Route(<<>>, TRUE, "index", <<>>) \in routes /\ Route(<<"dynamic">>, TRUE, "dynamic", <<>>) \in routes
      /\ Route(<<"ws">>, FALSE, "ws", <<>>) \in routes /\ Route(<<"res">>, TRUE, "res", <<>>) \in routes
  BY <1>1 DEF FixedSet
<1> QED BY <1>2 DEF Route

\* The home page answers, without a redirection.
LEMMA IndexAnswers ==
  ASSUME Ready, Clean, Handle, req.url = Root
  PROVE  Answer(Other("index"))
<1>1. req.url.path = <<>> /\ req.url.slash = TRUE
  BY DEF Root, Url
<1>2. ~MuxRedirects /\ Matched.to = "index"
  <2>1. PICK r \in routes : r.path = <<>> /\ r.tree = TRUE /\ r.to = "index"
    BY FixedAre
  <2> QED BY <1>1, <2>1, ExactMatch
<1>3. IndexHandler
  BY <1>2, HandlerOf
<1> QED BY <1>1, <1>3 DEF IndexHandler

\* The first segment tells the patterns apart.
LEMMA FirstSegments ==
  ASSUME Ready
  PROVE  \A r \in routes :
    \/ \E s \in ToSet(config.classic) : r = LiveRoute(s.tag)
         /\ r.path[1] = "server" /\ Tail(r.path) = s.tag /\ Len(r.path) = Len(s.tag) + 1
         /\ ~r.tree /\ r.to = "live" /\ r.tag = s.tag
    \/ \E s \in ToSet(config.classic) : r = ArchiveRoute(s.tag)
         /\ r.path[1] = "archive" /\ Tail(r.path) = s.tag /\ Len(r.path) = Len(s.tag) + 1
         /\ r.tree /\ r.to = "archive" /\ r.tag = s.tag
    \/ \E s \in ToSet(config.dynamic) : r = DynamicRoute(s.tag)
         /\ r.path[1] = "dyn-archive" /\ Tail(r.path) = s.tag /\ Len(r.path) = Len(s.tag) + 1
         /\ r.tree /\ r.to = "dyn-archive" /\ r.tag = s.tag
    \/ r \in FixedSet /\ Len(r.path) <= 1
<1> TAKE r \in routes
<1>1. \A s \in ToSet(config.classic) \cup ToSet(config.dynamic) : s.tag \in Seq(STRING)
  BY ReadyFacts, ServerTypes
<1>2. \A t : /\ LiveRoute(t).to = "live" /\ LiveRoute(t).tag = t
             /\ ArchiveRoute(t).to = "archive" /\ ArchiveRoute(t).tag = t
             /\ DynamicRoute(t).to = "dyn-archive" /\ DynamicRoute(t).tag = t
  BY DEF LiveRoute, ArchiveRoute, DynamicRoute, Route
<1>3. CASE \E s \in ToSet(config.classic) : r = LiveRoute(s.tag)
  <2>1. PICK s \in ToSet(config.classic) : r = LiveRoute(s.tag)
    BY <1>3
  <2>2. PICK t \in Seq(STRING) : t = s.tag
    BY <1>1
  <2>3. r = LiveRoute(t)
    BY <2>1, <2>2
  <2>4. Len(r.path) = Len(t) + 1 /\ r.path[1] = "server" /\ Tail(r.path) = t /\ r.tree = FALSE
    BY <2>3, RouteFacts
  <2>5. r.to = "live" /\ r.tag = t
    BY <1>2, <2>3
  <2> QED BY <2>1, <2>2, <2>4, <2>5
<1>4. CASE \E s \in ToSet(config.classic) : r = ArchiveRoute(s.tag)
  <2>1. PICK s \in ToSet(config.classic) : r = ArchiveRoute(s.tag)
    BY <1>4
  <2>2. PICK t \in Seq(STRING) : t = s.tag
    BY <1>1
  <2>3. r = ArchiveRoute(t)
    BY <2>1, <2>2
  <2>4. Len(r.path) = Len(t) + 1 /\ r.path[1] = "archive" /\ Tail(r.path) = t /\ r.tree = TRUE
    BY <2>3, RouteFacts
  <2>5. r.to = "archive" /\ r.tag = t
    BY <1>2, <2>3
  <2> QED BY <2>1, <2>2, <2>4, <2>5
<1>5. CASE \E s \in ToSet(config.dynamic) : r = DynamicRoute(s.tag)
  <2>1. PICK s \in ToSet(config.dynamic) : r = DynamicRoute(s.tag)
    BY <1>5
  <2>2. PICK t \in Seq(STRING) : t = s.tag
    BY <1>1
  <2>3. r = DynamicRoute(t)
    BY <2>1, <2>2
  <2>4. Len(r.path) = Len(t) + 1 /\ r.path[1] = "dyn-archive" /\ Tail(r.path) = t /\ r.tree = TRUE
    BY <2>3, RouteFacts
  <2>5. r.to = "dyn-archive" /\ r.tag = t
    BY <1>2, <2>3
  <2> QED BY <2>1, <2>2, <2>4, <2>5
<1>6. CASE r \in FixedSet
  BY <1>6, FixedPaths
<1> QED BY <1>3, <1>4, <1>5, <1>6, ReadyFacts, RouteCases

\* Tags are not empty: what has a tag has two segments at least.
LEMMA ShortRoutes ==
  ASSUME Ready, NEW r \in routes, Len(r.path) <= 1
  PROVE  r \in FixedSet
<1>1. \A s \in ToSet(config.classic) \cup ToSet(config.dynamic) : Len(s.tag) \in Nat \ {0}
  BY ReadyFacts, ServerTypes
<1>2. \A n \in Nat \ {0} : ~(n + 1 <= 1)
  OBVIOUS
<1> QED BY <1>1, <1>2, FirstSegments

\* The list of instances answers under its address with a slash...
LEMMA ListAnswers ==
  ASSUME Ready, Clean, Handle, req.url.path = <<"dynamic">>, req.url.slash
  PROVE  InstanceList
<1>1. ~MuxRedirects /\ Matched.to = "dynamic"
  <2>1. PICK r \in routes : r.path = <<"dynamic">> /\ r.tree = TRUE /\ r.to = "dynamic"
    BY FixedAre
  <2>2. req.url.slash = TRUE
    BY ReadyFacts
  <2> QED BY <2>1, <2>2, ExactMatch
<1>2. ~(Len(req.url.path) > 1)
  BY SMT
<1>3. ~InstanceHandler
  BY <1>2 DEF InstanceHandler
<1> QED BY <1>1, <1>3, HandlerOf

\* ... and ServeMux redirects there without one.
LEMMA ListGetsSlash ==
  ASSUME Ready, Handle, req.url.path = <<"dynamic">>, ~req.url.slash
  PROVE  AddSlash
<1>1. Exact = {}
  <2> SUFFICES ASSUME NEW r \in routes, r.path = <<"dynamic">>, ~r.tree PROVE FALSE
    BY DEF Exact
  <2>1. Len(<<"dynamic">>) = 1 /\ 1 <= 1
    OBVIOUS
  <2>2. r \in FixedSet
    BY <2>1, ShortRoutes
  <2> QED BY <2>2 DEF FixedSet, Route
<1>2. MuxRedirects
  BY <1>1, FixedAre DEF MuxRedirects
<1>3. ~CleanPath
  BY <1>2 DEF CleanPath
<1> QED BY <1>2, <1>3, HandlerOf

\* For the very address of a tree, no handler asks for the same address again.
LEMMA TreeAnswers ==
  ASSUME Ready, Handle, req.url.slash, NEW r \in routes, r.tree, r.path = req.url.path
  PROVE  ~AddSlash /\ ~InstanceHandler
<1>1. r.tree = req.url.slash
  BY ReadyFacts
<1>2. ~MuxRedirects /\ Matched = r
  BY <1>1, ExactMatch
<1>3. ~InstanceHandler
  <2> SUFFICES ASSUME r.to = "dynamic" PROVE ~(Len(req.url.path) > 1)
    BY <1>2 DEF InstanceHandler, Asks
  <2>1. r \in FixedSet
    BY FirstSegments
  <2>2. Len(r.path) <= 1 /\ Len(r.path) \in Nat
    BY <2>1, FixedPaths, ReadyFacts, LenProperties
  <2> QED BY <2>2
<1> QED BY <1>2, <1>3 DEF AddSlash

\* What a step with a request does to the count.
LEMMA AnswerEnds ==
  ASSUME ReqTypes, HopsInv, NEW page \in Pages, Answer(page)
  PROVE  HopsInv'
  BY AnswerIs DEF HopsInv, First, RedirectsEnd

\* An address gets its slash.
LEMMA SlashAdded ==
  ASSUME Ready
  PROVE  \E url \in Urls : /\ url = [req.url EXCEPT !.slash = TRUE]
                          /\ url.path = req.url.path /\ url.slash = TRUE
<1>1. PICK u \in Urls : u = req.url
  BY ReadyFacts
<1>2. PICK url : url = [u EXCEPT !.slash = TRUE]
  OBVIOUS
<1>3. url \in Urls /\ url.path = u.path /\ url.slash = TRUE
  BY <1>2 DEF Urls
<1> QED BY <1>1, <1>2, <1>3

\* An address that is not clean is redirected, for the first time.
LEMMA HopsClean ==
  ASSUME Ready, HopsInv, Handle, ~Clean
  PROVE  HopsInv'
<1>1. ReqTypes /\ req.hops = 0 /\ ~req.clean
  BY DEF Ready, ReqTypes, ReqType, Clean
<1>2. PICK url \in Urls : Redirect(NoText, url)
  <2>1. AddSlash \/ CleanPath
    BY HandlerOf DEF Handle, LogHandler, ArchiveHandler, DynamicArchiveHandler, InstanceList,
       InstanceHandler, HomeHandler, IndexHandler, ServeWs, ServeResource, Asks
  <2>2. req.url \in Urls
    BY ReadyFacts
  <2> QED BY <2>1, <2>2, SlashAdded DEF AddSlash, CleanPath
<1>3. req'.hops = 1 /\ req'.clean = req.clean /\ (req'.pc = req.pc \/ req'.pc = "done")
  <2>1. 0 + 1 = 1
    OBVIOUS
  <2> QED BY <1>1, <1>2, <2>1, RedirectIs
<1>4. req'.pc # "none"
  BY <1>3, HandleAsks
<1> QED BY <1>1, <1>3, <1>4 DEF HopsInv, First, RedirectsEnd

\* A handler redirects to the home page, to a tree or to the list of instances; after
\* two of these, it answers.
LEMMA HopsHandle ==
  ASSUME Ready, HopsInv, Handle, Clean
  PROVE  HopsInv'
<1>1. ReqTypes /\ req.pc = "ask" /\ req.hops \in Nat /\ req.clean \in BOOLEAN
  BY HandleAsks DEF Ready, ReqTypes, ReqType
<1>2. ASSUME NEW page \in Pages, Answer(page) PROVE HopsInv'
  BY <1>1, <1>2, AnswerEnds
<1>3. PICK n \in {0, 1} : n = First
  BY DEF First
<1>4. ~CleanPath /\ (req.hops = 0 => n = 0)
  BY <1>3 DEF CleanPath, Clean, First
<1>5. ASSUME req'.clean = req.clean PROVE First' = n /\ (RedirectsEnd' <=> req'.hops <= n + 2)
  BY <1>3, <1>5 DEF First, RedirectsEnd
<1>6. CASE req.url = Root
  <2>1. Answer(Other("index")) /\ Other("index") \in Pages
    BY <1>6, IndexAnswers, OtherType
  <2> QED BY <1>2, <2>1
<1>7. CASE req.url.path = <<"dynamic">> /\ req.url.slash
  <2>1. InstanceList
    BY <1>7, ListAnswers
  <2>2. PICK page : Answer(page) /\ (page = Page("json", req.url.only, NoText, <<>>) \/ page = Other("not found"))
    BY <2>1 DEF InstanceList
  <2>3. page \in Pages
    <3>1. req.url.only \in Seq(STRING)
      BY ReadyFacts DEF Urls
    <3> QED BY <2>2, <3>1, PageType, OtherType, DataTypes
  <2> QED BY <1>2, <2>2, <2>3
<1>8. CASE req.url.path = <<"dynamic">> /\ ~req.url.slash
  <2>1. Redirect(NoText, [req.url EXCEPT !.slash = TRUE])
    BY <1>8, ListGetsSlash DEF AddSlash
  <2>2. PICK url \in Urls : url = [req.url EXCEPT !.slash = TRUE] /\ url.path = <<"dynamic">> /\ url.slash = TRUE
    BY <1>8, SlashAdded
  <2>3. req.hops = n \/ req.hops = n + 1
    <3>1. req.url # Root
      BY <1>8 DEF Root, Url
    <3> QED BY <1>1, <1>3, <1>4, <1>8, <3>1 DEF HopsInv
  <2>4. /\ req'.hops = req.hops + 1 /\ req'.clean = req.clean /\ routes' = routes
        /\ \/ req'.pc = req.pc /\ req'.url = url
           \/ req'.pc = "done"
    BY <1>1, <2>1, <2>2, RedirectIs
  <2>5. req'.hops = n + 1 \/ req'.hops = n + 2
    BY <2>3, <2>4
  <2>6. \E r \in routes : r.tree /\ r.path = url.path
    BY <2>2, FixedAre, ZenonT(60)
  <2>7. RedirectsEnd' /\ First' = n
    BY <1>5, <2>4, <2>5
  <2>8. CASE req'.pc = "done"
    BY <2>7, <2>8 DEF HopsInv
  <2>9. CASE req'.pc = "ask" /\ req'.url = url
    BY <2>2, <2>4, <2>5, <2>6, <2>7, <2>9 DEF HopsInv
  <2> QED BY <1>1, <2>4, <2>8, <2>9
<1>9. CASE req.url # Root /\ req.url.path # <<"dynamic">>
  <2>1. CASE req.hops = n
    <3>1. ASSUME NEW url \in Urls, NEW prefix, Redirect(prefix, url)
          PROVE  /\ req'.hops = n + 1 /\ req'.clean = req.clean /\ routes' = routes
                 /\ ((req'.pc = "ask" /\ req'.url = url) \/ req'.pc = "done")
                 /\ RedirectsEnd' /\ First' = n
      <4>1. /\ req'.hops = n + 1 /\ req'.clean = req.clean /\ routes' = routes
            /\ ((req'.pc = "ask" /\ req'.url = url) \/ req'.pc = "done")
        BY <1>1, <2>1, <3>1, RedirectIs
      <4> QED BY <1>5, <4>1
    <3>2. ASSUME Redirect(NoText, Root) \/ Redirect(config.prefix, Root) PROVE HopsInv'
      <4>1. /\ req'.hops = n + 1 /\ ((req'.pc = "ask" /\ req'.url = Root) \/ req'.pc = "done")
            /\ RedirectsEnd' /\ First' = n
        BY <3>1, <3>2, DataTypes
      <4>2. Root' = Root
        BY DEF Root, Url
      <4> QED BY <4>1, <4>2 DEF HopsInv
    <3>3. ASSUME AddSlash PROVE HopsInv'
      <4>1. PICK url \in Urls : url = [req.url EXCEPT !.slash = TRUE] /\ url.path = req.url.path /\ url.slash = TRUE
        BY SlashAdded
      <4>2. PICK r \in routes : r.tree /\ r.path = req.url.path
        BY <3>3 DEF AddSlash, MuxRedirects
      <4>3. /\ req'.hops = n + 1 /\ routes' = routes /\ ((req'.pc = "ask" /\ req'.url = url) \/ req'.pc = "done")
            /\ RedirectsEnd' /\ First' = n
        <5>1. Redirect(NoText, url)
          BY <3>3, <4>1 DEF AddSlash
        <5> QED BY <3>1, <5>1
      <4>4. CASE req'.pc = "done"
        BY <4>3, <4>4 DEF HopsInv
      <4>5. CASE req'.pc = "ask" /\ req'.url = url
        BY <4>1, <4>2, <4>3, <4>5 DEF HopsInv
      <4> QED BY <4>3, <4>4, <4>5
    <3>4. ASSUME Redirect(NoText, Url(<<"dynamic">>, FALSE, <<ServerGroup>>)) PROVE HopsInv'
      <4>1. PICK url \in Urls : url = Url(<<"dynamic">>, FALSE, <<ServerGroup>>)
        BY GroupType, SingleIsPath, UrlType, LiteralsAreStrings
      <4>2. url.path = <<"dynamic">> /\ ~url.slash
        BY <4>1 DEF Url
      <4>3. /\ req'.hops = n + 1 /\ ((req'.pc = "ask" /\ req'.url = url) \/ req'.pc = "done")
            /\ RedirectsEnd' /\ First' = n
        BY <3>1, <3>4, <4>1
      <4> QED BY <4>2, <4>3 DEF HopsInv
    <3> QED BY <1>2, <1>4, <3>2, <3>3, <3>4, HandleCases
  <2>2. CASE req.hops # n
    <3>1. req.hops = n + 1 /\ req.url.slash /\ \E r \in routes : r.tree /\ r.path = req.url.path
      BY <1>1, <1>3, <1>4, <1>9, <2>2 DEF HopsInv
    <3>2. ~AddSlash /\ ~InstanceHandler
      BY <3>1, TreeAnswers
    <3>3. ASSUME Redirect(NoText, Root) \/ Redirect(config.prefix, Root) PROVE HopsInv'
      <4>1. /\ req'.hops = n + 2 /\ req'.clean = req.clean
            /\ ((req'.pc = "ask" /\ req'.url = Root) \/ req'.pc = "done")
        <5>1. (n + 1) + 1 = n + 2
          OBVIOUS
        <5> QED BY <1>1, <3>1, <3>3, <5>1, RedirectIs, DataTypes
      <4>2. RedirectsEnd' /\ First' = n
        BY <1>5, <4>1
      <4>3. Root' = Root
        BY DEF Root, Url
      <4> QED BY <4>1, <4>2, <4>3 DEF HopsInv
    <3> QED BY <1>2, <1>4, <3>2, <3>3, HandleCases
  <2> QED BY <2>1, <2>2
<1> QED BY <1>6, <1>7, <1>8, <1>9

\* Every step keeps the count of redirections.
LEMMA HopsNext == StartInv /\ ReqTypes /\ Unasked /\ HopsInv /\ [Next]_vars => HopsInv'
<1> SUFFICES ASSUME StartInv, ReqTypes, Unasked, HopsInv, [Next]_vars PROVE HopsInv'
  OBVIOUS
<1>1. CASE Starts
  <2>1. CASE UNCHANGED routes
    BY <1>1, <2>1, StartsLeaveRequests DEF HopsInv, First, RedirectsEnd
  <2>2. CASE ~UNCHANGED routes
    <3>1. req.pc = "none" /\ UNCHANGED req
      BY <1>1, <2>2, StartsLeaveRequests DEF Unasked
    <3> QED BY <3>1 DEF HopsInv, First, RedirectsEnd
  <2> QED BY <2>1, <2>2
<1>2. CASE Follow
  BY <1>2, FollowIs DEF HopsInv, First, RedirectsEnd
<1>3. CASE Type
  BY <1>3, TypeIs DEF HopsInv, First, RedirectsEnd
<1>4. CASE Handle
  <2>1. Ready
    BY <1>4, HandleAsks DEF Ready
  <2> QED BY <1>4, <2>1, HopsClean, HopsHandle
<1>5. ASSUME NEW x \in Files, Instance(x) PROVE HopsInv'
  BY <1>5, InstanceIs DEF HopsInv, First, RedirectsEnd
<1>6. CASE UNCHANGED vars
  BY <1>6 DEF vars, HopsInv, First, RedirectsEnd
<1> QED BY <1>1, <1>2, <1>3, <1>4, <1>5, <1>6, NextCases

\* There are no requests before they are served.
LEMMA UnaskedNext == StartInv /\ ReqTypes /\ Unasked /\ [Next]_vars => Unasked'
<1> SUFFICES ASSUME StartInv, ReqTypes, Unasked, [Next]_vars PROVE Unasked'
  OBVIOUS
<1>1. CASE Starts
  BY <1>1, StartsLeaveRequests DEF Unasked
<1>2. CASE Follow
  BY <1>2, FollowIs DEF Unasked
<1>3. CASE Type
  BY <1>3, TypeIs DEF Unasked
<1>4. CASE Handle
  <2>1. Ready
    BY <1>4, HandleAsks DEF Ready
  <2>2. status' = status /\ status = "serving"
    BY <1>4, <2>1, HandleAsks, HandleUrls, AnswerIs, RedirectIs DEF Ready
  <2> QED BY <2>2 DEF Unasked
<1>5. ASSUME NEW x \in Files, Instance(x) PROVE Unasked'
  BY <1>5, InstanceIs DEF Unasked
<1>6. CASE UNCHANGED vars
  BY <1>6 DEF vars, Unasked
<1> QED BY <1>1, <1>2, <1>3, <1>4, <1>5, <1>6, NextCases

\* RedirectsEnd, for any tags and any address: the redirections of ServeMux and of the
\* handlers end after two, or three when ServeMux cleans the address first
\* (web_server.go:84, 101, 140-159, 265-278).
THEOREM StartupRedirectsEnd == Spec => []RedirectsEnd
<1>1. Init => ReqTypes /\ Unasked /\ HopsInv
  <2>1. Init => Unasked /\ HopsInv
    BY DEF Init, Unasked, HopsInv, First, RedirectsEnd
  <2> QED BY <2>1, ReqTypesInit
<1>2. StartInv /\ (ReqTypes /\ Unasked /\ HopsInv) /\ [Next]_vars => (ReqTypes /\ Unasked /\ HopsInv)'
  BY ReqTypesNext, HopsNext, UnaskedNext
<1>3. HopsInv => RedirectsEnd
  BY DEF HopsInv
<1> QED BY <1>1, <1>2, <1>3, StartupInvariant, PTL DEF Spec

-----------------------------------------------------------------------------
(* Links lead to their page *)

\* A path with a segment more.
LEMMA OneLonger ==
  \A p, a \in Seq(STRING) : Len(a) = 1 =>
    /\ p \o a \in Seq(STRING) /\ Len(p \o a) = Len(p) + 1 /\ (p \o a)[Len(p) + 1] = a[1]
    /\ \A k \in 1 .. Len(p) : (p \o a)[k] = p[k]
<1> TAKE p \in Seq(STRING), a \in Seq(STRING)
<1> HAVE Len(a) = 1
<1>1. PICK w : w = p \o a
  OBVIOUS
<1>2. PICK n \in Nat : n = Len(p)
  BY LenProperties
<1>3. w \in Seq(STRING) /\ Len(w) = n + 1
      /\ \A k \in 1 .. n + 1 : w[k] = IF k <= n THEN p[k] ELSE a[k - n]
  <2>1. w \in Seq(STRING) /\ Len(w) = n + Len(a)
        /\ \A k \in 1 .. n + Len(a) : w[k] = IF k <= n THEN p[k] ELSE a[k - n]
    BY <1>1, <1>2, ConcatProperties
  <2> QED BY <2>1
<1>4. n + 1 \in 1 .. n + 1 /\ ~(n + 1 <= n) /\ (n + 1) - n = 1 /\ \A k \in 1 .. n : k \in 1 .. n + 1 /\ k <= n
  BY <1>2
<1> QED BY <1>1, <1>2, <1>3, <1>4

\* A path of one segment.
LEMMA OneSegment ==
  \A a \in Seq(STRING) : Len(a) = 1 => a = <<a[1]>> /\ a[1] \in STRING
<1> TAKE a \in Seq(STRING)
<1> HAVE Len(a) = 1
<1>1. 1 \in 1 .. Len(a) /\ a[1] \in STRING
  BY ElementOfSeq
<1>2. PICK b \in Seq(STRING) : b = <<a[1]>>
  BY <1>1, SingleIsPath
<1>3. Len(b) = 1 /\ b[1] = a[1]
  BY <1>2
<1>4. \A k \in 1 .. Len(a) : a[k] = b[k]
  <2>1. \A k \in 1 .. 1 : k = 1
    OBVIOUS
  <2> QED BY <1>3, <2>1
<1>5. a = b
  BY <1>3, <1>4, SeqEqual
<1> QED BY <1>1, <1>2, <1>5

\* A path of three segments, and of four.
LEMMA Three ==
  \A x \in STRING, t, a \in Seq(STRING) : Len(t) = 1 /\ Len(a) = 1 =>
    /\ <<x>> \o t \o a \in Seq(STRING) /\ Len(<<x>> \o t \o a) = 3
    /\ (<<x>> \o t \o a)[1] = x /\ (<<x>> \o t \o a)[2] = t[1] /\ (<<x>> \o t \o a)[3] = a[1]
<1> TAKE x \in STRING, t \in Seq(STRING), a \in Seq(STRING)
<1> HAVE Len(t) = 1 /\ Len(a) = 1
<1>1. PICK p \in Seq(STRING) : p = <<x>> \o t
  BY PathBehind
<1>2. 1 \in 1 .. 1 /\ 1 + 1 = 2 /\ 2 + 1 = 3 /\ 1 \in 1 .. 2 /\ 2 \in 1 .. 2
  OBVIOUS
<1>3. Len(p) = 2 /\ p[1] = x /\ p[2] = t[1]
  <2>1. Len(p) = Len(t) + 1 /\ p[1] = x /\ \A k \in 1 .. Len(t) : p[k + 1] = t[k]
    <3>1. /\ Len(<<x>> \o t) = Len(t) + 1 /\ (<<x>> \o t)[1] = x
          /\ \A k \in 1 .. Len(t) : (<<x>> \o t)[k + 1] = t[k]
      BY PathBehind
    <3> QED BY <1>1, <3>1
  <2> QED BY <1>2, <2>1
<1>4. PICK w : w = p \o a
  OBVIOUS
<1>5. /\ w \in Seq(STRING) /\ Len(w) = Len(p) + 1 /\ w[Len(p) + 1] = a[1]
      /\ \A k \in 1 .. Len(p) : w[k] = p[k]
  BY <1>4, OneLonger
<1> QED BY <1>1, <1>2, <1>3, <1>4, <1>5

\* A path of four segments, as the links to the archives of an instance have.
LEMMA Four ==
  \A x \in STRING, t, a, b \in Seq(STRING) : Len(t) = 1 /\ Len(a) = 1 /\ Len(b) = 1 =>
    /\ <<x>> \o t \o a \o b \in Seq(STRING) /\ Len(<<x>> \o t \o a \o b) = 4
    /\ (<<x>> \o t \o a \o b)[1] = x /\ (<<x>> \o t \o a \o b)[2] = t[1]
    /\ (<<x>> \o t \o a \o b)[3] = a[1] /\ (<<x>> \o t \o a \o b)[4] = b[1]
<1> TAKE x \in STRING, t \in Seq(STRING), a \in Seq(STRING), b \in Seq(STRING)
<1> HAVE Len(t) = 1 /\ Len(a) = 1 /\ Len(b) = 1
<1>1. PICK p \in Seq(STRING) : /\ p = <<x>> \o t \o a /\ Len(p) = 3
                               /\ p[1] = x /\ p[2] = t[1] /\ p[3] = a[1]
  <2>1. /\ <<x>> \o t \o a \in Seq(STRING) /\ Len(<<x>> \o t \o a) = 3
        /\ (<<x>> \o t \o a)[1] = x /\ (<<x>> \o t \o a)[2] = t[1] /\ (<<x>> \o t \o a)[3] = a[1]
    BY Three, ZenonT(60)
  <2> QED BY <2>1
<1>2. 3 + 1 = 4 /\ 1 \in 1 .. 3 /\ 2 \in 1 .. 3 /\ 3 \in 1 .. 3
  OBVIOUS
<1>3. PICK w : w = p \o b
  OBVIOUS
<1>4. /\ w \in Seq(STRING) /\ Len(w) = Len(p) + 1 /\ w[Len(p) + 1] = b[1]
      /\ \A k \in 1 .. Len(p) : w[k] = p[k]
  BY <1>3, OneLonger
<1> QED BY <1>1, <1>2, <1>3, <1>4

\* The segments of a pattern with a tag.
LEMMA TagSegments ==
  ASSUME Ready, NEW r \in routes, r \notin FixedSet
  PROVE  \E s \in ToSet(config.classic) \cup ToSet(config.dynamic) :
           /\ s.tag \in Seq(STRING) /\ Len(s.tag) \in Nat \ {0} /\ Len(r.path) = Len(s.tag) + 1
           /\ \A k \in 1 .. Len(s.tag) : r.path[k + 1] = s.tag[k]
           /\ r.path[1] \in {"server", "archive", "dyn-archive"}
<1>1. PICK s \in ToSet(config.classic) \cup ToSet(config.dynamic) :
        r = LiveRoute(s.tag) \/ r = ArchiveRoute(s.tag) \/ r = DynamicRoute(s.tag)
  BY FirstSegments
<1>2. s.tag \in Seq(STRING) /\ Len(s.tag) \in Nat \ {0}
  BY ReadyFacts, ServerTypes
<1>3. PICK x \in {"server", "archive", "dyn-archive"} : r.path = <<x>> \o s.tag
  BY <1>1 DEF LiveRoute, ArchiveRoute, DynamicRoute, Route
<1>4. Len(<<x>> \o s.tag) = Len(s.tag) + 1 /\ (<<x>> \o s.tag)[1] = x
      /\ \A k \in 1 .. Len(s.tag) : (<<x>> \o s.tag)[k + 1] = s.tag[k]
  BY <1>2, PathBehind, LiteralsAreStrings
<1> QED BY <1>2, <1>3, <1>4

\* Behind the tag of a server that no other one continues, its own tree is found.
LEMMA TagMatch ==
  ASSUME Ready, NEW tag \in Seq(STRING), Len(tag) = 1, Alone(tag), NEW p, p = req.url.path,
         Len(p) >= 3, p[2] = tag[1], NEW r \in routes, r.tree, Len(r.path) = 2, r.path[1] = p[1],
         r.path[2] = tag[1]
  PROVE  ~MuxRedirects /\ Matched = r
<1>1. p \in Seq(STRING) /\ Len(p) \in Nat /\ r.path \in Seq(STRING)
  BY ReadyFacts, LenProperties
<1>2. (1 .. 2) = {1, 2} /\ 1 \in 1 .. 1 /\ (1 .. 1) = {1} /\ 1 + 1 = 2
  OBVIOUS
<1>3. IsPrefix(r.path, p) /\ r.path # p
  <2>1. \A n \in Nat : n >= 3 => 2 <= n /\ n # 2
    OBVIOUS
  <2>2. 2 <= Len(p) /\ Len(p) # 2
    BY <1>1, <2>1
  <2>3. \A k \in 1 .. Len(r.path) : r.path[k] = p[k]
    BY <1>2
  <2>4. IsPrefix(r.path, p)
    BY <1>1, <2>2, <2>3, PrefixFacts, ZenonT(60)
  <2> QED BY <2>2, <2>4
<1>4. ASSUME NEW q \in routes, q \notin FixedSet, IsPrefix(q.path, p) PROVE q.path = r.path
  <2>1. PICK s \in ToSet(config.classic) \cup ToSet(config.dynamic) :
          /\ s.tag \in Seq(STRING) /\ Len(s.tag) \in Nat \ {0} /\ Len(q.path) = Len(s.tag) + 1
          /\ \A k \in 1 .. Len(s.tag) : q.path[k + 1] = s.tag[k]
    BY <1>4, TagSegments
  <2>2. q.path \in Seq(STRING) /\ \A k \in 1 .. Len(q.path) : q.path[k] = p[k]
    BY <1>1, <1>4, ReadyFacts, PrefixFacts
  <2>3. 1 \in 1 .. Len(q.path) /\ 2 \in 1 .. Len(q.path) /\ 1 \in 1 .. Len(s.tag) /\ 1 <= Len(s.tag)
    BY <2>1
  <2>4. s.tag[1] = tag[1]
    BY <1>2, <2>1, <2>2, <2>3
  <2>5. IsPrefix(tag, s.tag)
    BY <1>2, <2>1, <2>3, <2>4, PrefixFacts
  <2>6. s.tag = tag
    BY <2>5 DEF Alone
  <2>7. Len(q.path) = 2
    BY <1>2, <2>1, <2>6
  <2>8. \A k \in 1 .. Len(q.path) : q.path[k] = r.path[k]
    BY <1>2, <2>2, <2>3, <2>7
  <2> QED BY <1>1, <2>2, <2>7, <2>8, SeqEqual, ZenonT(60)
<1>5. \A q \in FixedSet : Len(q.path) < 2 /\ q.path # p
  <2> TAKE q \in FixedSet
  <2>1. Len(q.path) <= 1 /\ Len(q.path) \in Nat
    <3>1. q \in routes
      BY ReadyFacts, RouteCases
    <3> QED BY <3>1, FixedPaths, ReadyFacts, LenProperties
  <2> QED BY <1>1, <2>1
<1>6. IsPrefix(p, p)
  <2>1. Len(p) <= Len(p)
    BY <1>1
  <2> QED BY <1>1, <2>1, PrefixFacts
<1>7. \A q \in routes : q.path # p
  BY <1>3, <1>4, <1>5, <1>6
<1>8. \A q \in routes : q.tree /\ IsPrefix(q.path, p) /\ q # r => Len(q.path) < Len(r.path)
  <2> SUFFICES ASSUME NEW q \in routes, q.tree, IsPrefix(q.path, p), q # r PROVE q \in FixedSet
    BY <1>5
  <2>1. ~Same(q, r)
    BY ReadyFacts
  <2>2. q.tree = r.tree
    BY ReadyFacts
  <2> QED BY <1>4, <2>1, <2>2 DEF Same
<1> QED BY <1>3, <1>7, <1>8, TreeMatch

\* Behind a first segment that no server has, the tree of that segment.
LEMMA FixedMatch ==
  ASSUME Ready, NEW p, p = req.url.path, Len(p) >= 2, p[1] \in {"dynamic", "res"},
         NEW r \in routes, r.tree, r.path = <<p[1]>>
  PROVE  ~MuxRedirects /\ Matched = r
<1>1. p \in Seq(STRING) /\ Len(p) \in Nat /\ r.path \in Seq(STRING)
  BY ReadyFacts, LenProperties
<1>2. Len(r.path) = 1 /\ r.path[1] = p[1] /\ (1 .. 1) = {1} /\ 1 \in 1 .. 1
  OBVIOUS
<1>3. IsPrefix(r.path, p) /\ r.path # p
  <2>1. \A n \in Nat : n >= 2 => 1 <= n /\ n # 1
    OBVIOUS
  <2>2. 1 <= Len(p) /\ Len(p) # 1
    BY <1>1, <2>1
  <2>3. \A k \in 1 .. Len(r.path) : r.path[k] = p[k]
    BY <1>2
  <2>4. Len(r.path) <= Len(p)
    BY <1>2, <2>2
  <2>5. IsPrefix(r.path, p)
    BY <1>1, <2>3, <2>4, PrefixFacts, ZenonT(60)
  <2> QED BY <1>2, <2>2, <2>5
<1>4. ASSUME NEW q \in routes, IsPrefix(q.path, p) PROVE Len(q.path) \in Nat /\ Len(q.path) <= 1
  <2>1. q.path \in Seq(STRING) /\ \A k \in 1 .. Len(q.path) : q.path[k] = p[k]
    BY <1>1, <1>4, ReadyFacts, PrefixFacts
  <2>2. q \in FixedSet
    <3> SUFFICES ASSUME q \notin FixedSet PROVE FALSE
      OBVIOUS
    <3>1. q.path[1] \in {"server", "archive", "dyn-archive"} /\ 1 \in 1 .. Len(q.path)
      <4>1. PICK n \in Nat \ {0} : Len(q.path) = n + 1 /\ q.path[1] \in {"server", "archive", "dyn-archive"}
        BY TagSegments
      <4>2. 1 \in 1 .. n + 1
        OBVIOUS
      <4> QED BY <4>1, <4>2
    <3> QED BY <2>1, <3>1
  <2> QED BY <2>1, <2>2, FixedPaths, LenProperties
<1>5. IsPrefix(p, p)
  <2>1. Len(p) <= Len(p)
    BY <1>1
  <2> QED BY <1>1, <2>1, PrefixFacts
<1>6. \A q \in routes : q.path # p
  <2>1. ~(Len(p) <= 1)
    BY <1>1
  <2> QED BY <1>4, <1>5, <2>1
<1>7. \A q \in routes : q.tree /\ IsPrefix(q.path, p) /\ q # r => Len(q.path) < Len(r.path)
  <2> SUFFICES ASSUME NEW q \in routes, q.tree, IsPrefix(q.path, p), q # r PROVE Len(q.path) < 1
    BY <1>2
  <2>1. ~Same(q, r) /\ q.tree = r.tree
    BY ReadyFacts
  <2>2. q.path # r.path /\ q.path \in Seq(STRING) /\ \A k \in 1 .. Len(q.path) : q.path[k] = p[k]
    BY <1>1, <2>1, ReadyFacts, PrefixFacts DEF Same
  <2>3. Len(q.path) # 1
    <3> SUFFICES ASSUME Len(q.path) = 1 PROVE FALSE
      OBVIOUS
    <3>1. \A k \in 1 .. Len(q.path) : q.path[k] = r.path[k]
      BY <1>2, <2>2
    <3> QED BY <1>1, <1>2, <2>2, <3>1, SeqEqual
  <2>4. Len(q.path) \in Nat /\ Len(q.path) <= 1
    BY <1>4
  <2>5. \A n \in Nat : n <= 1 /\ n # 1 => n < 1
    OBVIOUS
  <2> QED BY <2>3, <2>4, <2>5, Zenon
<1> QED BY <1>3, <1>6, <1>7, TreeMatch

\* The links one kind after the other, asked for as they are.
LEMMA WsAnswers ==
  ASSUME Ready, Clean, Handle, NEW l, WsLink(l), req.url = l.url
  PROVE  Answer(l.leads)
<1>1. req.url.path = <<"ws">> /\ req.url.slash = FALSE /\ l.leads = Other("ws")
  BY DEF WsLink, Link, Url
<1>2. PICK r \in routes : r.path = <<"ws">> /\ r.tree = FALSE /\ r.to = "ws"
  BY FixedAre
<1>3. ~MuxRedirects /\ Matched.to = "ws"
  BY <1>1, <1>2, ExactMatch
<1>4. ServeWs
  BY <1>3, HandlerOf
<1> QED BY <1>1, <1>4 DEF ServeWs

\* A link to a resource gets it (web_server.go, "/res/").
LEMMA ResAnswers ==
  ASSUME Ready, Clean, Handle, NEW l, ResLink(l), req.url = l.url
  PROVE  Answer(l.leads)
<1>1. PICK r \in Resources : l = Link(<<"res", r>>, Page("res", <<>>, NoText, <<r>>))
  BY DEF ResLink
<1>2. PICK p : p = <<"res", r>>
  OBVIOUS
<1>3. req.url.path = p /\ req.url.slash = FALSE /\ l.leads = Page("res", <<>>, NoText, <<r>>)
  BY <1>1, <1>2 DEF Link, Url
<1>4. p[1] = "res" /\ p[2] = r /\ Len(p) = 2 /\ 2 >= 2
  BY <1>2
<1>5. PICK q \in routes : q.path = <<"res">> /\ q.tree = TRUE /\ q.to = "res"
  BY FixedAre
<1>6. ~MuxRedirects /\ Matched.to = "res"
  BY <1>3, <1>4, <1>5, FixedMatch
<1>7. ServeResource
  BY <1>6, HandlerOf
<1>8. Answer(IF Len(req.url.path) = 2 /\ ~req.url.slash /\ req.url.path[2] \in Resources
             THEN Page("res", <<>>, NoText, <<req.url.path[2]>>) ELSE Other("not found"))
  BY <1>7 DEF ServeResource
<1> QED BY <1>3, <1>4, <1>8

\* The link to a classic server gets its page.
LEMMA LiveAnswers ==
  ASSUME Ready, Clean, Handle, NEW l, NEW s \in ToSet(config.classic), LiveLink(l, s), req.url = l.url
  PROVE  Answer(l.leads)
<1>1. /\ req.url.path = <<"server">> \o s.tag /\ req.url.slash = FALSE
      /\ l.leads = Page("live", s.tag, NoText, <<>>)
  BY DEF LiveLink, Link, Url
<1>2. LiveRoute(s.tag) \in routes
  BY ReadyFacts, RouteCases
<1>3. /\ LiveRoute(s.tag).path = <<"server">> \o s.tag /\ LiveRoute(s.tag).tree = FALSE
      /\ LiveRoute(s.tag).to = "live" /\ LiveRoute(s.tag).tag = s.tag
  BY DEF LiveRoute, Route
<1>4. ~MuxRedirects /\ Matched = LiveRoute(s.tag)
  BY <1>1, <1>2, <1>3, ExactMatch
<1>5. LogHandler
  BY <1>3, <1>4, HandlerOf
<1>6. Answer(Page("live", Matched.tag, NoText, <<>>))
  BY <1>5 DEF LogHandler
<1> QED BY <1>1, <1>3, <1>4, <1>6

\* The link to a dynamic server gets the list of its instances.
LEMMA JsonAnswers ==
  ASSUME Ready, Clean, Handle, NEW l, NEW s \in ToSet(config.dynamic), JsonLink(l, s), req.url = l.url
  PROVE  Answer(l.leads)
<1>1. /\ req.url.path = <<"dynamic">> /\ req.url.slash /\ req.url.only = s.tag
      /\ l.leads = Page("json", s.tag, NoText, <<>>)
  BY DEF JsonLink, Url
<1>2. InstanceList
  BY <1>1, ListAnswers
<1>3. s.tag \in ServersListed(s.tag)
  BY DEF ServersListed
<1>4. Answer(IF req.url.only \in {<<>>} \cup ServersListed(req.url.only)
             THEN Page("json", req.url.only, NoText, <<>>) ELSE Other("not found"))
  BY <1>2 DEF InstanceList
<1> QED BY <1>1, <1>3, <1>4

\* The tag of a server whose page is plain.
LEMMA PlainTag ==
  ASSUME Ready, NEW s \in ToSet(config.classic) \cup ToSet(config.dynamic), NEW page,
         page.tag = s.tag, Plain(page)
  PROVE  /\ s.tag \in Seq(STRING) /\ Len(s.tag) = 1 /\ s.tag = <<s.tag[1]>>
         /\ Allowed(s.tag[1]) = s.tag[1] /\ s.tag[1] # NoText /\ Alone(s.tag)
<1>1. s.tag \in Seq(STRING) /\ Len(s.tag) # 0
  BY ReadyFacts, ServerTypes
<1>2. s.tag # <<>>
  BY <1>1
<1>3. Len(s.tag) = 1 /\ Allowed(s.tag[1]) = s.tag[1] /\ Alone(s.tag)
  BY <1>2 DEF Plain
<1>4. s.tag[1] # NoText
  <2>1. 1 \in DOMAIN s.tag
    BY <1>1, <1>3, ElementOfSeq
  <2>2. NoText \notin ToSet(s.tag)
    BY ReadyFacts, ServerTypes, StartupAssumption
  <2> QED BY <2>1, <2>2 DEF ToSet
<1> QED BY <1>1, <1>3, <1>4, OneSegment

\* The name of an archive whose page is plain.
LEMMA PlainName ==
  ASSUME NEW a \in Archives, NEW page, page.name = a, Plain(page)
  PROVE  a \in Seq(STRING) /\ Len(a) = 1 /\ a = <<a[1]>> /\ Unescaped(a[1]) = a
<1>1. a \in Seq(STRING) /\ a # <<>>
  BY DataTypes, StartupAssumption
<1>2. PICK n \in Nat : n = Len(a)
  BY <1>1, LenProperties
<1>3. n # 0
  BY <1>1, <1>2, EmptySeq
<1>4. n <= 1 /\ \A k \in DOMAIN a : a[k] \notin Undecodable
  BY <1>2 DEF Plain
<1>5. Len(a) = 1
  BY <1>2, <1>3, <1>4
<1>6. 1 \in DOMAIN a
  BY <1>1, <1>5, ElementOfSeq
<1> QED BY <1>1, <1>4, <1>5, <1>6, OneSegment DEF Unescaped

\* A path of a segment and a tag of one segment.
LEMMA TwoSegments ==
  \A x \in STRING, t \in Seq(STRING) : Len(t) = 1 =>
    Len(<<x>> \o t) = 2 /\ (<<x>> \o t)[1] = x /\ (<<x>> \o t)[2] = t[1]
<1> TAKE x \in STRING, t \in Seq(STRING)
<1> HAVE Len(t) = 1
<1>1. /\ Len(<<x>> \o t) = Len(t) + 1 /\ (<<x>> \o t)[1] = x
      /\ \A k \in 1 .. Len(t) : (<<x>> \o t)[k + 1] = t[k]
  BY PathBehind
<1>2. 1 \in 1 .. 1 /\ 1 + 1 = 2
  OBVIOUS
<1> QED BY <1>1, <1>2

\* A link to an archive of a classic server gets that archive.
LEMMA ArchiveAnswers ==
  ASSUME Ready, Clean, Handle, NEW l, NEW s \in ToSet(config.classic), ArchiveLink(l, s), req.url = l.url,
         Plain(l.leads)
  PROVE  Answer(l.leads)
<1>1. PICK a \in Archives : l = Link(<<"archive">> \o s.tag \o <<>> \o a, Page("archive", s.tag, NoText, a))
  BY DEF ArchiveLink
<1>2. PICK page : page = Page("archive", s.tag, NoText, a)
  OBVIOUS
<1>3. l.leads = page /\ page.tag = s.tag /\ page.name = a /\ Plain(page)
  BY <1>1, <1>2 DEF Link, Page
<1>4. s.tag \in Seq(STRING) /\ Len(s.tag) = 1 /\ Alone(s.tag)
  BY <1>3, PlainTag
<1>5. a \in Seq(STRING) /\ Len(a) = 1 /\ Unescaped(a[1]) = a
  BY <1>3, PlainName
<1>6. PICK p : /\ p = req.url.path /\ Len(p) = 3 /\ p[1] = "archive" /\ p[2] = s.tag[1]
               /\ p[3] = a[1]
  <2>1. PICK w \in Seq(STRING) : w = <<"archive">> \o s.tag
    BY <1>4, PathBehind, LiteralsAreStrings
  <2>2. <<"archive">> \o s.tag \o <<>> = <<"archive">> \o s.tag
    BY <2>1, ConcatEmptySeq
  <2>3. req.url.path = <<"archive">> \o s.tag \o <<>> \o a
    BY <1>1 DEF Link, Url
  <2>4. req.url.path = <<"archive">> \o s.tag \o a
    BY <2>2, <2>3
  <2>5. /\ Len(<<"archive">> \o s.tag \o a) = 3 /\ (<<"archive">> \o s.tag \o a)[1] = "archive"
        /\ (<<"archive">> \o s.tag \o a)[2] = s.tag[1] /\ (<<"archive">> \o s.tag \o a)[3] = a[1]
    BY <1>4, <1>5, Three, LiteralsAreStrings
  <2> QED BY <2>4, <2>5
<1>7. PICK r : r = ArchiveRoute(s.tag)
  OBVIOUS
<1>8. /\ r \in routes /\ r.tree /\ r.tag = s.tag /\ r.to = "archive"
      /\ Len(r.path) = 2 /\ r.path[1] = "archive" /\ r.path[2] = s.tag[1]
  <2>1. r \in routes
    BY <1>7, ReadyFacts, RouteCases
  <2>2. r.path = <<"archive">> \o s.tag /\ r.tree /\ r.tag = s.tag /\ r.to = "archive"
    BY <1>7 DEF ArchiveRoute, Route
  <2>3. /\ Len(<<"archive">> \o s.tag) = 2 /\ (<<"archive">> \o s.tag)[1] = "archive"
        /\ (<<"archive">> \o s.tag)[2] = s.tag[1]
    BY <1>4, TwoSegments, LiteralsAreStrings
  <2> QED BY <2>1, <2>2, <2>3
<1>9. ~MuxRedirects /\ Matched = r
  <2>1. Len(p) >= 3
    BY <1>6
  <2> QED BY <1>4, <1>6, <1>8, <2>1, TagMatch
<1>10. Len(Parts) = 1 /\ Parts[1] = a[1]
  <2>1. 3 >= 2 /\ 3 - 2 = 1 /\ 1 \in 1 .. 1 /\ 1 + 2 = 3
    OBVIOUS
  <2>2. Len(Parts) = 1
    BY <1>6, <2>1, PartsAre
  <2> QED BY <1>6, <2>1, <2>2, PartsAre
<1>11. ArchiveHandler
  BY <1>8, <1>9, HandlerOf
<1>12. Answer(Page("archive", Matched.tag, NoText, Unescaped(Parts[1])))
  <2>1. Len(Parts) # 0 /\ ~(Len(Parts) > 1)
    BY <1>10
  <2> QED BY <1>11, <2>1, Zenon DEF ArchiveHandler
<1> QED BY <1>2, <1>3, <1>5, <1>8, <1>9, <1>10, <1>12

\* A link to an archive of an instance gets that archive.
LEMMA InstanceArchiveAnswers ==
  ASSUME Ready, Clean, Handle, NEW l, NEW s \in ToSet(config.dynamic), InstanceArchiveLink(l, s),
         req.url = l.url, Plain(l.leads)
  PROVE  Answer(l.leads)
<1>1. PICK id \in Ids, a \in Archives :
        l = Link(<<"dyn-archive">> \o s.tag \o <<id>> \o a, Page("archive", s.tag, id, a))
  BY DEF InstanceArchiveLink
<1>2. PICK page : page = Page("archive", s.tag, id, a)
  OBVIOUS
<1>3. l.leads = page /\ page.tag = s.tag /\ page.name = a /\ Plain(page)
  BY <1>1, <1>2 DEF Link, Page
<1>4. s.tag \in Seq(STRING) /\ Len(s.tag) = 1 /\ Alone(s.tag)
  BY <1>3, PlainTag
<1>5. a \in Seq(STRING) /\ Len(a) = 1 /\ Unescaped(a[1]) = a
  BY <1>3, PlainName
<1>6. PICK p : /\ p = req.url.path /\ Len(p) = 4 /\ p[1] = "dyn-archive" /\ p[2] = s.tag[1]
               /\ p[3] = id /\ p[4] = a[1]
  <2>1. PICK w \in Seq(STRING) : w = <<id>>
    BY DataTypes, SingleIsPath
  <2>2. Len(w) = 1 /\ w[1] = id
    BY <2>1
  <2>3. req.url.path = <<"dyn-archive">> \o s.tag \o w \o a
    BY <1>1, <2>1 DEF Link, Url
  <2>4. PICK u : u = <<"dyn-archive">> \o s.tag \o w \o a
    OBVIOUS
  <2>5. Len(u) = 4 /\ u[1] = "dyn-archive" /\ u[2] = s.tag[1] /\ u[3] = w[1] /\ u[4] = a[1]
    BY <1>4, <1>5, <2>2, <2>4, Four, LiteralsAreStrings
  <2> QED BY <2>2, <2>3, <2>4, <2>5
<1>7. PICK r : r = DynamicRoute(s.tag)
  OBVIOUS
<1>8. /\ r \in routes /\ r.tree /\ r.tag = s.tag /\ r.to = "dyn-archive"
      /\ Len(r.path) = 2 /\ r.path[1] = "dyn-archive" /\ r.path[2] = s.tag[1]
  <2>1. r \in routes
    BY <1>7, ReadyFacts, RouteCases
  <2>2. r.path = <<"dyn-archive">> \o s.tag /\ r.tree /\ r.tag = s.tag /\ r.to = "dyn-archive"
    BY <1>7 DEF DynamicRoute, Route
  <2>3. /\ Len(<<"dyn-archive">> \o s.tag) = 2 /\ (<<"dyn-archive">> \o s.tag)[1] = "dyn-archive"
        /\ (<<"dyn-archive">> \o s.tag)[2] = s.tag[1]
    BY <1>4, TwoSegments, LiteralsAreStrings
  <2> QED BY <2>1, <2>2, <2>3
<1>9. ~MuxRedirects /\ Matched = r
  <2>1. Len(p) >= 3
    BY <1>6
  <2> QED BY <1>4, <1>6, <1>8, <2>1, TagMatch
<1>10. Len(Parts) = 2 /\ Parts[1] = id /\ Parts[2] = a[1]
  <2>1. 4 >= 2 /\ 4 - 2 = 2 /\ 1 \in 1 .. 2 /\ 1 + 2 = 3 /\ 2 \in 1 .. 2 /\ 2 + 2 = 4
    OBVIOUS
  <2>2. Len(Parts) = 2
    BY <1>6, <2>1, PartsAre
  <2> QED BY <1>6, <2>1, <2>2, PartsAre
<1>11. DynamicArchiveHandler
  BY <1>8, <1>9, HandlerOf
<1>12. Answer(Page("archive", Matched.tag, Parts[1], Unescaped(Parts[2])))
  <2>1. Len(Parts) # 1 /\ Len(Parts) \in {1, 2}
    BY <1>10
  <2> QED BY <1>11, <2>1, Zenon DEF DynamicArchiveHandler
<1> QED BY <1>2, <1>3, <1>5, <1>8, <1>9, <1>10, <1>12

\* The link to an instance: its page, or the home page when it has stopped.
LEMMA InstanceAnswers ==
  ASSUME Ready, Clean, Handle, NEW s \in ToSet(config.dynamic), NEW id \in Ids, NEW l,
         l = Link(<<"dynamic">> \o s.tag \o <<id>>, Page("live", s.tag, id, <<>>)),
         req.url = l.url, Plain(l.leads)
  PROVE  Answer(l.leads) \/ (Redirect(NoText, Root) /\ <<s.tag, id>> \notin here)
<1>1. PICK page : page = Page("live", s.tag, id, <<>>)
  OBVIOUS
<1>2. l.leads = page /\ page.tag = s.tag /\ page.id = id /\ Plain(page)
  BY <1>1 DEF Link, Page
<1>3. /\ s.tag \in Seq(STRING) /\ Len(s.tag) = 1 /\ s.tag = <<s.tag[1]>>
      /\ Allowed(s.tag[1]) = s.tag[1] /\ s.tag[1] # NoText
  BY <1>2, PlainTag
<1>4. Allowed(id) = id /\ id # NoText
  BY <1>2, DataTypes DEF Plain
<1>5. PICK p : p = req.url.path /\ Len(p) = 3 /\ p[1] = "dynamic" /\ p[2] = s.tag[1] /\ p[3] = id
  <2>1. PICK w \in Seq(STRING) : w = <<id>>
    BY DataTypes, SingleIsPath
  <2>2. Len(w) = 1 /\ w[1] = id
    BY <2>1
  <2>3. req.url.path = <<"dynamic">> \o s.tag \o w
    BY <2>1 DEF Link, Url
  <2>4. PICK u : u = <<"dynamic">> \o s.tag \o w
    OBVIOUS
  <2>5. Len(u) = 3 /\ u[1] = "dynamic" /\ u[2] = s.tag[1] /\ u[3] = w[1]
    BY <1>3, <2>2, <2>4, Three, LiteralsAreStrings
  <2> QED BY <2>2, <2>3, <2>4, <2>5
<1>6. ~MuxRedirects /\ Matched.to = "dynamic"
  <2>1. PICK r \in routes : r.path = <<"dynamic">> /\ r.tree = TRUE /\ r.to = "dynamic"
    BY FixedAre
  <2>2. Len(p) >= 2
    BY <1>5
  <2> QED BY <1>5, <2>1, <2>2, FixedMatch
<1>7. InstanceHandler
  <2>1. Len(req.url.path) # 1
    BY <1>5
  <2>2. ~InstanceList
    BY <2>1 DEF InstanceList
  <2> QED BY <1>6, <2>2, HandlerOf
<1>8. ServerGroup = s.tag[1] /\ InstanceGroup = id
  <2>1. req.url.path \in Seq(STRING)
    BY ReadyFacts
  <2>2. DOMAIN p = 1 .. 3 /\ DOMAIN Tail(p) = 1 .. 2
    <3>1. p # <<>>
      BY <1>5, EmptySeq
    <3>2. Len(Tail(p)) = Len(p) - 1 /\ Tail(p) \in Seq(STRING)
      BY <1>5, <2>1, <3>1, HeadTailProperties
    <3>3. 3 - 1 = 2
      OBVIOUS
    <3> QED BY <1>5, <2>1, <3>2, <3>3, LenProperties
  <2>3. 1 \in Matches /\ Matches \subseteq 1 .. 2
    <3>1. 1 \in 1 .. 2 /\ 1 + 1 = 2
      OBVIOUS
    <3>2. p[1] = "dynamic" /\ Allowed(p[1 + 1]) # NoText
      BY <1>3, <1>5, <3>1
    <3> QED BY <1>5, <2>2, <3>1, <3>2 DEF Matches
  <2>4. Match = 1
    <3>1. \A j \in Matches : 1 <= j
      BY <2>3
    <3>2. \A k \in Matches : (\A j \in Matches : k <= j) => k = 1
      BY <2>3
    <3> QED BY <2>3, <3>1, <3>2 DEF Match
  <2>5. Match + 1 = 2 /\ Match + 2 = 3 /\ 3 \in 1 .. 3
    BY <2>4
  <2>6. Matches # {} /\ Match + 2 \in DOMAIN req.url.path
    BY <1>5, <2>2, <2>3, <2>5
  <2>7. ServerGroup = Allowed(p[2])
    BY <1>5, <2>5, <2>6 DEF ServerGroup
  <2>8. ServerGroup = req.url.path[Match + 1] /\ Allowed(req.url.path[Match + 2]) = id
    BY <1>3, <1>4, <1>5, <2>5, <2>7
  <2> QED BY <1>3, <1>5, <2>6, <2>7, <2>8 DEF InstanceGroup
<1>9. IF Present(<<ServerGroup>>, InstanceGroup)
      THEN Answer(Page("live", <<ServerGroup>>, InstanceGroup, <<>>)) ELSE Redirect(NoText, Root)
  <2>1. ServerGroup # NoText /\ InstanceGroup # NoText
    BY <1>3, <1>4, <1>8
  <2> QED BY <1>7, <2>1, Zenon DEF InstanceHandler, ShowInstance
<1>10. IF Present(s.tag, id) THEN Answer(page) ELSE Redirect(NoText, Root)
  BY <1>1, <1>3, <1>8, <1>9
<1>11. <<s.tag, id>> \in here => Present(s.tag, id)
  BY DEF Present, ToSet
<1> QED BY <1>2, <1>10, <1>11

\* What is said of a link depends on the configuration and on the instances alone.
LEMMA LinkStays ==
  ASSUME UNCHANGED config, NEW CONSTANT l
  PROVE  /\ KnownLink(l) => KnownLink(l)'
         /\ Plain(l.leads)' => Plain(l.leads)
         /\ UNCHANGED here /\ Fresh(l) => Fresh(l)'
<1>1. KnownLink(l) => KnownLink(l)'
  BY DEF KnownLink
<1>2. Plain(l.leads)' => Plain(l.leads)
  BY DEF Plain, Alone
<1>3. UNCHANGED here /\ Fresh(l) => Fresh(l)'
  BY DEF Fresh
<1> QED BY <1>1, <1>2, <1>3

\* A link that is asked for is answered, or redirected because it is stale.
LEMMA LinkAnswers ==
  ASSUME Ready, Clean, Handle, NEW l, KnownLink(l), Plain(l.leads), req.url = l.url, req.stale \/ Fresh(l)
  PROVE  Answer(l.leads) \/ (Redirect(NoText, Root) /\ req.stale)
<1>1. CASE IndexLink(l)
  BY <1>1, IndexAnswers DEF IndexLink
<1>2. CASE WsLink(l)
  BY <1>2, WsAnswers
<1>3. CASE ResLink(l)
  BY <1>3, ResAnswers
<1>4. ASSUME NEW s \in ToSet(config.classic), LiveLink(l, s) \/ ArchiveLink(l, s)
      PROVE  Answer(l.leads)
  BY <1>4, LiveAnswers, ArchiveAnswers
<1>5. ASSUME NEW s \in ToSet(config.dynamic), JsonLink(l, s) \/ InstanceArchiveLink(l, s)
      PROVE  Answer(l.leads)
  BY <1>5, JsonAnswers, InstanceArchiveAnswers
<1>6. ASSUME NEW s \in ToSet(config.dynamic), InstanceLink(l, s)
      PROVE  Answer(l.leads) \/ (Redirect(NoText, Root) /\ req.stale)
  <2>1. PICK id \in Ids : l = Link(<<"dynamic">> \o s.tag \o <<id>>, Page("live", s.tag, id, <<>>))
    BY <1>6 DEF InstanceLink
  <2>2. Answer(l.leads) \/ (Redirect(NoText, Root) /\ <<s.tag, id>> \notin here)
    BY <2>1, InstanceAnswers
  <2>3. Fresh(l) => <<s.tag, id>> \in here
    BY <2>1 DEF Fresh
  <2> QED BY <2>2, <2>3
<1> QED BY <1>1, <1>2, <1>3, <1>4, <1>5, <1>6 DEF KnownLink

\* A link that is not stale is answered with its page; one that is leads to the home
\* page or out of url-prefix.
LEMMA LinkHandle ==
  ASSUME Ready, LinkInv, Handle
  PROVE  LinkInv'
<1> PICK l : l = req.link
  OBVIOUS
<1>1. req.pc = "ask" /\ ReqTypes
  BY HandleAsks DEF Ready
<1>2. /\ req'.link = l /\ req'.stale = req.stale /\ UNCHANGED <<config, here>>
      /\ req'.clean = req.clean
      /\ req'.pc \in {"ask", "done"}
  BY <1>1, HandleUrls, AnswerIs, RedirectIs
<1>3. l # NoLink => KnownLink(l) /\ req.clean
  BY <1>1 DEF LinkInv
<1>4. /\ KnownLink(l) => KnownLink(l)'
      /\ Plain(l.leads)' => Plain(l.leads)
      /\ Fresh(l) => Fresh(l)'
  BY <1>2, LinkStays
<1>5. CASE l = NoLink \/ ~Plain(l.leads)
  <2>1. l = NoLink \/ ~Plain(l.leads)'
    BY <1>4, <1>5
  <2>2. req'.pc # "none"
    BY <1>2
  <2> QED BY <1>2, <1>3, <1>4, <2>1, <2>2 DEF LinkInv, LinksLeadToTheirPage
<1>6. CASE l # NoLink /\ Plain(l.leads)
  <2>1. l.leads \in Pages /\ Other("index") \in Pages /\ Root \in Urls
    <3>1. l \in [url : Urls, leads : Pages]
      BY <1>3, <1>6, LinkType, ReadyFacts
    <3> QED BY <3>1, OtherType, DataTypes
  <2>2. \/ Answer(l.leads) \/ (Redirect(NoText, Root) /\ req.stale)
        \/ (Answer(Other("index")) /\ req.stale)
    <3>1. \/ req.url = l.url /\ (req.stale \/ Fresh(l))
          \/ req.url = Root /\ req.stale
      BY <1>1, <1>6 DEF LinkInv
    <3>2. Clean
      BY <1>3, <1>6 DEF Clean
    <3> QED BY <1>3, <1>6, <3>1, <3>2, LinkAnswers, IndexAnswers
  <2>3. \/ req'.pc = "done" /\ (req'.page = l.leads \/ (req'.stale /\ req'.page.kind \in {"index", "outside"}))
        \/ req'.pc = "ask" /\ req'.url = Root /\ req'.stale
    <3>1. CASE Answer(l.leads)
      BY <1>1, <2>1, <3>1, AnswerIs
    <3>2. CASE Redirect(NoText, Root) /\ req.stale
      BY <1>1, <1>2, <2>1, <3>2, RedirectIs
    <3>3. CASE Answer(Other("index")) /\ req.stale
      <4>1. req'.pc = "done" /\ req'.page = Other("index")
        BY <1>1, <2>1, <3>3, AnswerIs
      <4>2. req'.page.kind = "index"
        BY <4>1 DEF Other, Page
      <4> QED BY <1>2, <3>3, <4>1, <4>2
    <3> QED BY <2>2, <3>1, <3>2, <3>3
  <2> QED BY <1>2, <1>3, <1>4, <2>3 DEF LinkInv, LinksLeadToTheirPage
<1> QED BY <1>5, <1>6

\* An instance starts or stops while a link is asked for.
LEMMA LinkInstance ==
  ASSUME ReqTypes, LinkInv, NEW x \in Files, Instance(x)
  PROVE  LinkInv'
<1> PICK l : l = req.link
  OBVIOUS
<1>1. /\ UNCHANGED config /\ req.pc # "done" /\ req'.pc = req.pc /\ req'.link = l /\ req'.url = req.url
      /\ req'.clean = req.clean
      /\ req'.stale = (req.stale \/ x = <<l.leads.tag, l.leads.id>>)
      /\ \A y : y # x /\ y \in here => y \in here'
  BY InstanceIs
<1>2. /\ KnownLink(l) => KnownLink(l)'
      /\ Plain(l.leads)' => Plain(l.leads)
  BY <1>1, LinkStays
<1>3. req.stale \in BOOLEAN /\ req'.stale \in BOOLEAN
  BY InstanceIs DEF ReqTypes, ReqType
<1>4. (req.stale \/ Fresh(l)) => (req'.stale \/ Fresh(l)')
  <2>1. req.stale => req'.stale
    BY <1>1
  <2>2. ASSUME Fresh(l), x # <<l.leads.tag, l.leads.id>> PROVE Fresh(l)'
    <3> SUFFICES ASSUME NEW s \in ToSet(config.dynamic), NEW id \in Ids,
                        l = Link(<<"dynamic">> \o s.tag \o <<id>>, Page("live", s.tag, id, <<>>))
                 PROVE  <<s.tag, id>> \in here'
      BY <1>1 DEF Fresh
    <3>1. <<s.tag, id>> \in here
      BY <2>2 DEF Fresh
    <3>2. l.leads.tag = s.tag /\ l.leads.id = id
      BY DEF Link, Page
    <3> QED BY <1>1, <2>2, <3>1, <3>2
  <2> QED BY <1>1, <2>1, <2>2
<1>5. req.stale => req'.stale
  BY <1>1
<1> QED BY <1>1, <1>2, <1>4, <1>5 DEF LinkInv, LinksLeadToTheirPage

\* Every step keeps what is known of the link.
LEMMA LinkNext == StartInv /\ ReqTypes /\ Unasked /\ HopsInv /\ LinkInv /\ [Next]_vars => LinkInv'
<1> SUFFICES ASSUME StartInv, ReqTypes, Unasked, HopsInv, LinkInv, [Next]_vars PROVE LinkInv'
  OBVIOUS
<1>1. CASE Starts
  <2>1. UNCHANGED <<here, req>>
    BY <1>1, StartsLeaveRequests
  <2>2. CASE UNCHANGED config
    BY <2>1, <2>2 DEF LinkInv, LinksLeadToTheirPage, KnownLink, Fresh, Plain, Alone
  <2>3. CASE ~UNCHANGED config
    <3>1. req.pc = "none" /\ req'.pc = "none" /\ req'.link = req.link
      BY <1>1, <2>1, <2>3, StartsLeaveRequests DEF Unasked
    <3> QED BY <3>1 DEF LinkInv, LinksLeadToTheirPage
  <2> QED BY <2>2, <2>3
<1>2. CASE Follow
  <2>1. PICK l \in Links : /\ UNCHANGED <<config, here>> /\ req'.pc = "ask" /\ req'.link = l /\ req'.url = l.url
                           /\ req'.clean
    BY <1>2, FollowIs DEF HopsInv
  <2>2. KnownLink(l) /\ Fresh(l)
    BY LinksAreKnown
  <2>3. KnownLink(l)' /\ Fresh(l)'
    BY <2>1, <2>2, LinkStays
  <2> QED BY <2>1, <2>3 DEF LinkInv, LinksLeadToTheirPage
<1>3. CASE Type
  <2>1. req.pc = "none" /\ req'.pc = "ask" /\ req'.link = req.link
    BY <1>3, TypeIs
  <2>2. req'.link = NoLink
    BY <2>1 DEF LinkInv
  <2>3. NoLink' = NoLink
    BY DEF NoLink, Root, Url, Other, Page
  <2> QED BY <2>1, <2>2, <2>3 DEF LinkInv, LinksLeadToTheirPage
<1>4. CASE Handle
  <2>1. Ready
    BY <1>4, HandleAsks DEF Ready
  <2> QED BY <1>4, <2>1, LinkHandle
<1>5. ASSUME NEW x \in Files, Instance(x) PROVE LinkInv'
  BY <1>5, LinkInstance
<1>6. CASE UNCHANGED vars
  BY <1>6 DEF vars, loadVars, LinkInv, LinksLeadToTheirPage, KnownLink, Fresh, Plain, Alone
<1> QED BY <1>1, <1>2, <1>3, <1>4, <1>5, <1>6, NextCases

\* LinksLeadToTheirPage, for any tags, identifiers, archives and instances: a link of a
\* page leads to the page it is for through url-prefix, ServeMux and the splitting of
\* the path (web_server.go:81-178, 245-300; resources/*.tmpl).
THEOREM StartupLinksLeadToTheirPage == Spec => []LinksLeadToTheirPage
<1>1. Init => ReqTypes /\ Unasked /\ HopsInv /\ LinkInv
  <2>1. Init => Unasked /\ HopsInv /\ LinkInv
    BY DEF Init, Unasked, HopsInv, First, RedirectsEnd, LinkInv, LinksLeadToTheirPage
  <2> QED BY <2>1, ReqTypesInit
<1>2. StartInv /\ (ReqTypes /\ Unasked /\ HopsInv /\ LinkInv) /\ [Next]_vars
        => (ReqTypes /\ Unasked /\ HopsInv /\ LinkInv)'
  BY ReqTypesNext, HopsNext, LinkNext, UnaskedNext
<1>3. LinkInv => LinksLeadToTheirPage
  BY DEF LinkInv
<1> QED BY <1>1, <1>2, <1>3, StartupInvariant, PTL DEF Spec
=============================================================================
