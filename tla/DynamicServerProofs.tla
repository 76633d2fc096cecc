------------------------ MODULE DynamicServerProofs ------------------------
(***************************************************************************)
(* Proofs about the passes of watchForInstances and the tails they start,  *)
(* for any number of paths and files, whatever identifiers they hold.      *)
(***************************************************************************)
EXTENDS DynamicServer, DataLemmas

-----------------------------------------------------------------------------
(* The inductive invariant *)

\* One path at most holds this identifier.
Sole(id) == \A i, j \in DOMAIN Paths : IdOf[Paths[i]] = id /\ IdOf[Paths[j]] = id => i = j

\* A pass leaves no tail out that still runs.
LiveListed == \A t \in Live : \E k \in DOMAIN instances : instances[k] = t

\* The first loop of a pass recorded every instance it went past.
PrunedSeen ==
  pass.pc = "prune" =>
    \A k \in DOMAIN instances : k < pass.i => tails[instances[k]].id \in pass.running

\* In the second loop a tail that runs was recorded by the first or started since.
LiveSeen ==
  pass.pc = "start" =>
    \A t \in Live :
      \/ tails[t].id \in pass.running
      \/ \E k \in DOMAIN pass.latest : k < pass.i /\ pass.latest[k].id = tails[t].id

\* Glob finds an identifier that one path holds once.
SoleFoundOnce ==
  \A k, l \in DOMAIN pass.latest :
    pass.latest[k].id = pass.latest[l].id /\ Sole(pass.latest[k].id) => k = l

\* A tail of an instance starts after every earlier one ended.
OnlyLastLives ==
  \A t, n \in DOMAIN tails :
    t < n /\ tails[t].id = tails[n].id /\ Sole(tails[t].id) => tails[t].pc = "ended"

TailsOf(id) == {t \in DOMAIN tails : tails[t].id = id}

\* Each start of an instance but the first was announced.
StartsCounted ==
  \A id \in AnyId :
    IF id \in known THEN resets[id] + 1 = Cardinality(TailsOf(id))
                    ELSE resets[id] = 0 /\ TailsOf(id) = {}

PassInv == LiveListed /\ PrunedSeen /\ LiveSeen /\ SoleFoundOnce /\ OnlyLastLives

DynamicInv == TypeOK /\ PassInv /\ StartsCounted

-----------------------------------------------------------------------------
(* The operators of the model *)

\* What a pass finds at a path, by its identifier.
LEMMA FoundType ==
  ASSUME NEW f \in File
  PROVE  Found(f) \in FoundState /\ Found(f).id = IdOf[f] /\ IdOf[f] \in AnyId
BY DEF Found, FoundState, AnyId, AnyPath, Id

\* The k-th match is the file at a place of its own.
LEMMA MatchPlace ==
  ASSUME NEW k \in 1 .. Cardinality(Matching)
  PROVE  \E i \in DOMAIN Paths : Match(k) = Paths[i] /\ Rank(Matching, i) = k
<1>1. Paths \in Seq(File) /\ Len(Paths) \in Nat /\ DOMAIN Paths = 1 .. Len(Paths)
  BY DynamicAssumption, LenProperties
<1>2. Matching \subseteq 1 .. Len(Paths)
  BY <1>1 DEF Matching
<1>3. \E i \in Matching : Rank(Matching, i) = k
  BY <1>1, <1>2, RankTaken
<1> DEFINE i == CHOOSE i \in Matching : Rank(Matching, i) = k
<1>4. i \in Matching /\ Rank(Matching, i) = k
  BY <1>3
<1>5. Match(k) = Paths[i]
  BY DEF Match, Rank
<1> QED BY <1>1, <1>2, <1>4, <1>5

\* filepath.Glob finds finitely many paths.
LEMMA MatchingFinite == Cardinality(Matching) \in Nat
<1>1. Len(Paths) \in Nat /\ DOMAIN Paths = 1 .. Len(Paths)
  BY DynamicAssumption, LenProperties
<1> QED BY <1>1, BoundedFinite DEF Matching

\* The files a pass finds: an identifier that one path holds is there once.
LEMMA FoundOnce ==
  ASSUME NEW k \in 1 .. Cardinality(Matching), NEW l \in 1 .. Cardinality(Matching)
  PROVE  /\ Found(Match(k)) \in FoundState
         /\ Found(Match(k)).id = Found(Match(l)).id /\ Sole(Found(Match(k)).id) => k = l
<1>1. PICK i \in DOMAIN Paths : Match(k) = Paths[i] /\ Rank(Matching, i) = k
  BY MatchPlace
<1>2. PICK j \in DOMAIN Paths : Match(l) = Paths[j] /\ Rank(Matching, j) = l
  BY MatchPlace
<1>3. Paths[i] \in File /\ Paths[j] \in File
  BY DEF File
<1>4. Found(Match(k)) \in FoundState
  BY <1>1, <1>3, FoundType
<1>5. Found(Match(k)).id = IdOf[Paths[i]] /\ Found(Match(l)).id = IdOf[Paths[j]]
  BY <1>1, <1>2, <1>3, FoundType
<1> QED BY <1>1, <1>2, <1>4, <1>5 DEF Sole

\* append(s[:i], s[i+1:]...) takes one element out.
LEMMA WithoutOne ==
  ASSUME NEW S, NEW s \in Seq(S), NEW i \in 1 .. Len(s)
  PROVE  /\ Without(s, i) \in Seq(S)
         /\ Len(Without(s, i)) = Len(s) - 1
         /\ \A k \in 1 .. Len(s) - 1 :
              Without(s, i)[k] = IF k < i THEN s[k] ELSE s[k + 1]
<1> DEFINE a == SubSeq(s, 1, i - 1)
           b == SubSeq(s, i + 1, Len(s))
<1>0. Len(s) \in Nat /\ i \in Nat /\ \A k \in 1 .. Len(s) : s[k] \in S
  BY ElementOfSeq
<1>1. /\ a \in Seq(S) /\ Len(a) = i - 1
      /\ \A k \in 1 .. i - 1 : a[k] = s[k]
  <2>1. /\ a \in Seq(S) /\ Len(a) = IF 1 <= i - 1 THEN (i - 1) - 1 + 1 ELSE 0
        /\ \A k \in 1 .. (i - 1) - 1 + 1 : a[k] = s[1 + k - 1]
    <3>1. \A k \in 1 .. i - 1 : s[k] \in S
      BY <1>0
    <3> QED BY <1>0, <3>1, SubSeqProperties
  <2> HIDE DEF a
  <2> QED BY <1>0, <2>1
<1>2. /\ b \in Seq(S) /\ Len(b) = Len(s) - i
      /\ \A k \in 1 .. Len(s) - i : b[k] = s[i + k]
  <2>1. /\ b \in Seq(S) /\ Len(b) = IF i + 1 <= Len(s) THEN Len(s) - (i + 1) + 1 ELSE 0
        /\ \A k \in 1 .. Len(s) - (i + 1) + 1 : b[k] = s[(i + 1) + k - 1]
    <3>1. \A k \in i + 1 .. Len(s) : s[k] \in S
      BY <1>0
    <3> QED BY <1>0, <3>1, SubSeqProperties
  <2> HIDE DEF b
  <2> QED BY <1>0, <2>1
<1> HIDE DEF a, b
<1>3. /\ a \o b \in Seq(S) /\ Len(a \o b) = Len(a) + Len(b)
      /\ \A k \in 1 .. Len(a) + Len(b) :
           (a \o b)[k] = IF k <= Len(a) THEN a[k] ELSE b[k - Len(a)]
  BY <1>1, <1>2, ConcatProperties
<1>4. Len(a) + Len(b) = Len(s) - 1
  BY <1>0, <1>1, <1>2
<1>5. ASSUME NEW k \in 1 .. Len(s) - 1
      PROVE  (a \o b)[k] = IF k < i THEN s[k] ELSE s[k + 1]
  <2>1. CASE k < i
    BY <1>0, <1>1, <1>3, <1>4, <2>1
  <2>2. CASE ~(k < i)
    <3>1. k - (i - 1) \in 1 .. Len(s) - i /\ i + (k - (i - 1)) = k + 1
      BY <1>0, <2>2
    <3>2. ~(k <= Len(a)) /\ k - Len(a) = k - (i - 1)
      BY <1>0, <1>1, <2>2
    <3> QED BY <1>2, <1>3, <1>4, <2>2, <3>1, <3>2, SMTT(60)
  <2> QED BY <2>1, <2>2
<1> QED BY <1>3, <1>4, <1>5 DEF Without, a, b

-----------------------------------------------------------------------------
(* Types *)

\* In the beginning every variable has its type.
LEMMA TypeInit == Init => TypeOK
<1> SUFFICES ASSUME Init PROVE TypeOK
  OBVIOUS
<1>1. pass \in PassState
  BY DEF Init, PassState
<1>2. tails \in Seq(TailState) /\ instances \in Seq(DOMAIN tails)
  BY DEF Init
<1>3. resets \in [AnyId -> Nat] /\ present \in [File -> Nat]
  BY DEF Init, AnyId
<1> QED BY <1>1, <1>2, <1>3 DEF Init, TypeOK

\* A step of a tail changes the state of that tail alone, and an ended tail stays
\* ended.
LEMMA TailEffect ==
  ASSUME TypeOK, NEW t \in DOMAIN tails, TailStep(t)
  PROVE  /\ tails' \in Seq(TailState) /\ DOMAIN tails' = DOMAIN tails
         /\ \A u \in DOMAIN tails :
              /\ tails'[u].id = tails[u].id
              /\ tails[u].pc = "ended" => tails'[u].pc = "ended"
         /\ status' \in {"up", "fatal"}
         /\ UNCHANGED <<fileVars, instances, known, pass, resets>>
<1>0. /\ tails \in Seq(TailState) /\ tails[t] \in TailState /\ t \in 1 .. Len(tails)
      /\ status \in {"up", "fatal"} /\ DOMAIN tails = 1 .. Len(tails)
  BY LenProperties, ElementOfSeq DEF TypeOK
<1>1. \/ UNCHANGED tails
      \/ \E r \in TailState :
           /\ tails' = [tails EXCEPT ![t] = r]
           /\ r.id = tails[t].id /\ tails[t].pc # "ended"
  <2>1. CASE TailFails(t)
    BY <2>1 DEF TailFails
  <2>2. CASE TailWatches(t)
    <3>1. FileAt(tails[t].path) \in Nat
      BY DEF TypeOK, FileAt
    <3> DEFINE r == [tails[t] EXCEPT !.pc = "watch", !.file = FileAt(tails[t].path)]
    <3>2. r \in TailState /\ r.id = tails[t].id
      BY <1>0, <3>1 DEF TailState
    <3>3. tails' = [tails EXCEPT ![t] = r] /\ tails[t].pc # "ended"
      BY <2>2 DEF TailWatches
    <3> HIDE DEF r
    <3> QED BY <3>2, <3>3
  <2>3. CASE TailReturns(t) \/ TailEnds(t)
    <3>1. PICK p \in {"returned", "ended"} : tails' = [tails EXCEPT ![t].pc = p]
      BY <2>3 DEF TailReturns, TailEnds
    <3>2. tails[t].pc # "ended"
      BY <2>3 DEF TailReturns, TailEnds
    <3> DEFINE r == [tails[t] EXCEPT !.pc = p]
    <3>3. r \in TailState /\ r.id = tails[t].id
      BY <1>0 DEF TailState
    <3>4. tails' = [tails EXCEPT ![t] = r]
      BY <3>1
    <3> HIDE DEF r
    <3> QED BY <3>2, <3>3, <3>4
  <2> QED BY <2>1, <2>2, <2>3 DEF TailStep
<1>2. UNCHANGED <<fileVars, instances, known, pass, resets>> /\ status' \in {"up", "fatal"}
  BY <1>0 DEF TailStep, TailFails, TailWatches, TailReturns, TailEnds
<1>3. CASE UNCHANGED tails
  BY <1>0, <1>2, <1>3
<1>4. ASSUME NEW r \in TailState, tails' = [tails EXCEPT ![t] = r],
             r.id = tails[t].id, tails[t].pc # "ended"
      PROVE  /\ tails' \in Seq(TailState) /\ DOMAIN tails' = DOMAIN tails
             /\ \A u \in DOMAIN tails :
                  /\ tails'[u].id = tails[u].id
                  /\ tails[u].pc = "ended" => tails'[u].pc = "ended"
  BY <1>0, <1>4, ExceptSeq
<1> QED BY <1>1, <1>2, <1>3, <1>4

\* A tail that starts is the last of the tails and of the instances.
LEMMA StartEffect ==
  ASSUME TypeOK, StartTail
  PROVE  LET n == Len(tails) + 1 IN
         /\ n \in Nat /\ DOMAIN tails = 1 .. Len(tails) /\ DOMAIN tails' = 1 .. n
         /\ tails' \in Seq(TailState)
         /\ \A t \in DOMAIN tails : tails'[t] = tails[t]
         /\ tails'[n].id = Instance.id /\ tails'[n].pc = "stat"
         /\ instances' \in Seq(DOMAIN tails')
         /\ DOMAIN instances' = 1 .. Len(instances) + 1
         /\ \A k \in DOMAIN instances : instances'[k] = instances[k]
         /\ instances'[Len(instances) + 1] = n
         /\ Instance \in FoundState /\ pass.i \in DOMAIN pass.latest
         /\ pass.pc = "start" /\ pass' = [pass EXCEPT !.i = @ + 1]
         /\ Instance.id \notin pass.running
<1>1. /\ tails \in Seq(TailState) /\ instances \in Seq(DOMAIN tails) /\ pass \in PassState
      /\ Len(tails) \in Nat /\ DOMAIN tails = 1 .. Len(tails)
      /\ Len(instances) \in Nat /\ DOMAIN instances = 1 .. Len(instances)
  BY LenProperties DEF TypeOK
<1>2. /\ pass.pc = "start" /\ pass.i \in Nat \ {0} /\ pass.i <= Len(pass.latest)
      /\ pass.latest \in Seq(FoundState) /\ Instance.id \notin pass.running
      /\ pass' = [pass EXCEPT !.i = @ + 1]
  BY <1>1 DEF StartTail, InStart, PassState
<1>3. pass.i \in DOMAIN pass.latest /\ Instance \in FoundState
  BY <1>2, LenProperties, ElementOfSeq DEF Instance
<1> DEFINE r == [id |-> Instance.id, path |-> Instance.path, file |-> 0, pc |-> "stat"]
<1>4. r \in TailState /\ r.id = Instance.id /\ r.pc = "stat"
  BY <1>3 DEF TailState, FoundState
<1>5. tails' = Append(tails, r) /\ instances' = Append(instances, Len(tails) + 1)
  BY DEF StartTail
<1> HIDE DEF r
<1>6. /\ tails' \in Seq(TailState) /\ DOMAIN tails' = 1 .. Len(tails) + 1
      /\ \A t \in DOMAIN tails : tails'[t] = tails[t]
      /\ tails'[Len(tails) + 1] = r
  BY <1>1, <1>4, <1>5, AppendProperties, LenProperties
<1>7. instances \in Seq(1 .. Len(tails) + 1)
  <2>1. 1 .. Len(tails) \subseteq 1 .. Len(tails) + 1
    BY <1>1
  <2> QED BY <1>1, <2>1, SeqMonotonic
<1>8. /\ instances' \in Seq(1 .. Len(tails) + 1)
      /\ DOMAIN instances' = 1 .. Len(instances) + 1
      /\ \A k \in DOMAIN instances : instances'[k] = instances[k]
      /\ instances'[Len(instances) + 1] = Len(tails) + 1
  <2>1. Len(tails) + 1 \in 1 .. Len(tails) + 1
    BY <1>1
  <2> QED BY <1>1, <1>5, <1>7, <2>1, AppendProperties, LenProperties
<1> QED BY <1>1, <1>2, <1>3, <1>4, <1>6, <1>8

\* The next round of a loop of the pass.
LEMMA RoundType ==
  ASSUME NEW p \in PassState, NEW r \in SUBSET AnyId
  PROVE  /\ [p EXCEPT !.i = @ + 1] \in PassState
         /\ [p EXCEPT !.i = p.i + 1, !.running = r] \in PassState
<1>1. p.i + 1 \in Nat \ {0}
  BY DEF PassState
<1>2. [p EXCEPT !.i = @ + 1] \in PassState
  BY <1>1 DEF PassState
<1>3. ASSUME NEW i \in Nat \ {0} PROVE [p EXCEPT !.i = i, !.running = r] \in PassState
  BY DEF PassState
<1> QED BY <1>1, <1>2, <1>3

\* Every step keeps the types.
LEMMA TypeStep == TypeOK /\ [Next]_vars => TypeOK'
<1> SUFFICES ASSUME TypeOK, [Next]_vars PROVE TypeOK'
  OBVIOUS
<1> USE DEF fileVars
<1>a. /\ tails \in Seq(TailState) /\ instances \in Seq(DOMAIN tails) /\ pass \in PassState
      /\ present \in [File -> Nat] /\ appeared \in Nat /\ known \subseteq AnyId
      /\ resets \in [AnyId -> Nat] /\ status \in {"up", "fatal"}
  BY DEF TypeOK
<1>1. ASSUME NEW f \in File, Appear(f) \/ Disappear(f) PROVE TypeOK'
  <2>1. appeared' \in Nat /\ \E n \in Nat : present' = [present EXCEPT ![f] = n]
    BY <1>1, <1>a DEF Appear, Disappear
  <2>2. UNCHANGED <<status, tails, instances, known, pass, resets>>
    BY <1>1 DEF Appear, Disappear
  <2> QED BY <1>a, <2>1, <2>2 DEF TypeOK
\* A step of the pass that leaves the rest alone.
<1>b. ASSUME pass' \in PassState, instances' \in Seq(DOMAIN tails),
             UNCHANGED <<status, fileVars, tails, known, resets>>
      PROVE  TypeOK'
  BY <1>a, <1>b DEF TypeOK
<1>2. ASSUME PruneOne PROVE TypeOK'
  <2>1. pass.i \in 1 .. Len(instances) /\ Len(instances) \in Nat
    BY <1>2, <1>a DEF PruneOne, PassState
  <2>2. instances[pass.i] \in DOMAIN tails
    BY <1>a, <2>1, ElementOfSeq
  <2>3. tails[instances[pass.i]].id \in AnyId
    <3>1. tails[instances[pass.i]] \in TailState
      BY <1>a, <2>2, LenProperties, ElementOfSeq
    <3> QED BY <3>1 DEF TailState
  <2>4. /\ pass.running \cup {tails[instances[pass.i]].id} \in SUBSET AnyId
        /\ pass \in PassState
    BY <1>a, <2>3 DEF PassState
  <2>5. Without(instances, pass.i) \in Seq(DOMAIN tails)
    BY <1>a, <2>1, WithoutOne
  <2>6. UNCHANGED <<status, fileVars, tails, known, resets>>
    BY <1>2 DEF PruneOne
  <2>7. CASE tails[instances[pass.i]].pc = "ended"
    BY <1>2, <1>a, <1>b, <2>5, <2>6, <2>7 DEF PruneOne
  <2>8. CASE tails[instances[pass.i]].pc # "ended"
    <3>1. /\ pass' = [pass EXCEPT !.i = pass.i + 1,
                   !.running = pass.running \cup {tails[instances[pass.i]].id}]
          /\ UNCHANGED instances
      BY <1>2, <2>8 DEF PruneOne
    <3>2. pass' \in PassState
      BY <2>4, <3>1, RoundType
    <3> QED BY <1>a, <1>b, <2>6, <3>1, <3>2
  <2> QED BY <2>7, <2>8
<1>3. ASSUME Glob PROVE TypeOK'
  <2> DEFINE found == [k \in 1 .. Cardinality(Matching) |-> Found(Match(k))]
  <2>1. found \in Seq(FoundState)
    <3>1. \A k \in 1 .. Cardinality(Matching) : Found(Match(k)) \in FoundState
      BY FoundOnce
    <3>2. found \in [1 .. Cardinality(Matching) -> FoundState]
      BY <3>1
    <3> HIDE DEF found
    <3> QED BY <3>2, MatchingFinite
  <2>2. pass' = [pc |-> "start", i |-> 1, running |-> pass.running, latest |-> found]
    BY <1>3 DEF Glob
  <2> HIDE DEF found
  <2>3. pass' \in PassState
    BY <1>a, <2>1, <2>2 DEF PassState
  <2> QED BY <1>3, <1>a, <1>b, <2>3 DEF Glob
<1>4. ASSUME SkipRunning PROVE TypeOK'
  <2>1. pass' \in PassState
    BY <1>4, <1>a, RoundType DEF SkipRunning
  <2> QED BY <1>4, <1>a, <1>b, <2>1 DEF SkipRunning
<1>5. ASSUME StartTail PROVE TypeOK'
  <2>1. /\ tails' \in Seq(TailState) /\ instances' \in Seq(DOMAIN tails')
        /\ Instance \in FoundState /\ pass' = [pass EXCEPT !.i = @ + 1]
    BY <1>5, StartEffect
  <2>2. pass' \in PassState
    BY <1>a, <2>1, RoundType
  <2>3. known' \subseteq AnyId /\ resets' \in [AnyId -> Nat]
    <3>1. Instance.id \in AnyId
      BY <2>1 DEF FoundState
    <3> QED BY <1>5, <1>a, <3>1 DEF StartTail
  <2>4. UNCHANGED <<status, present, appeared>>
    BY <1>5 DEF StartTail
  <2> QED BY <1>a, <2>1, <2>2, <2>3, <2>4 DEF TypeOK
<1>6. ASSUME EndPass PROVE TypeOK'
  <2>1. pass' \in PassState
    BY <1>6 DEF EndPass, PassState
  <2> QED BY <1>6, <1>a, <1>b, <2>1 DEF EndPass
<1>7. ASSUME NEW t \in DOMAIN tails, TailStep(t) PROVE TypeOK'
  <2>1. /\ tails' \in Seq(TailState) /\ DOMAIN tails' = DOMAIN tails
        /\ status' \in {"up", "fatal"}
        /\ UNCHANGED <<present, appeared, instances, known, pass, resets>>
    BY <1>7, TailEffect
  <2> QED BY <1>a, <2>1 DEF TypeOK
<1>8. ASSUME UNCHANGED vars PROVE TypeOK'
  BY <1>8, <1>a DEF TypeOK, vars
<1> QED
  BY <1>1, <1>2, <1>3, <1>4, <1>5, <1>6, <1>7, <1>8 DEF Next, PassStep

-----------------------------------------------------------------------------
(* Passes and tails *)

\* In the beginning nothing is tailed and no pass looks.
LEMMA PassInit == Init => PassInv
BY DEF Init, PassInv, LiveListed, PrunedSeen, LiveSeen, SoleFoundOnce, OnlyLastLives,
   Live

\* A step that leaves the pass alone, keeps who is a tail of whom and revives
\* no tail.
LEMMA PassFrame ==
  ASSUME TypeOK, PassInv, DOMAIN tails' = DOMAIN tails, UNCHANGED <<instances, pass>>,
         \A u \in DOMAIN tails :
           /\ tails'[u].id = tails[u].id
           /\ tails[u].pc = "ended" => tails'[u].pc = "ended"
  PROVE  PassInv'
<1>1. Live' \subseteq Live
  BY DEF Live
<1>2. \A k \in DOMAIN instances : instances[k] \in DOMAIN tails
  BY LenProperties, ElementOfSeq DEF TypeOK
<1>3. LiveListed' /\ SoleFoundOnce'
  BY <1>1 DEF PassInv, LiveListed, SoleFoundOnce
<1>4. PrunedSeen'
  BY <1>2 DEF PassInv, PrunedSeen
<1>5. LiveSeen'
  BY <1>1 DEF PassInv, LiveSeen, Live
<1>6. OnlyLastLives'
  BY DEF PassInv, OnlyLastLives
<1> QED BY <1>3, <1>4, <1>5, <1>6 DEF PassInv

\* Every step keeps the passes and tails in order.
LEMMA PassStepKeeps == TypeOK /\ PassInv /\ [Next]_vars => PassInv'
<1> SUFFICES ASSUME TypeOK, PassInv, [Next]_vars PROVE PassInv'
  OBVIOUS
<1>a. /\ instances \in Seq(DOMAIN tails) /\ pass \in PassState /\ pass.i \in Nat \ {0}
      /\ Len(instances) \in Nat /\ DOMAIN instances = 1 .. Len(instances)
      /\ pass.latest \in Seq(FoundState)
  BY LenProperties DEF TypeOK, PassState
<1>b. LiveListed /\ PrunedSeen /\ LiveSeen /\ SoleFoundOnce /\ OnlyLastLives
  BY DEF PassInv
<1>1. ASSUME UNCHANGED <<tails, instances, pass>> PROVE PassInv'
  BY <1>1, PassFrame
<1>2. ASSUME PruneOne PROVE PassInv'
  <2> DEFINE n == instances[pass.i]
  <2>1. /\ pass.pc = "prune" /\ pass.i \in 1 .. Len(instances) /\ UNCHANGED tails
        /\ n \in DOMAIN tails
    BY <1>2, <1>a, ElementOfSeq DEF PruneOne
  <2>2. Live' = Live
    BY <2>1 DEF Live
  <2>3. CASE tails[n].pc = "ended"
    <3>1. instances' = Without(instances, pass.i) /\ UNCHANGED pass
      BY <1>2, <2>3 DEF PruneOne
    <3>2. /\ DOMAIN instances' = 1 .. Len(instances) - 1
          /\ \A k \in 1 .. Len(instances) - 1 :
               instances'[k] = IF k < pass.i THEN instances[k] ELSE instances[k + 1]
      BY <1>a, <2>1, <3>1, WithoutOne, LenProperties
    <3>3. LiveListed'
      <4> SUFFICES ASSUME NEW t \in Live PROVE \E k \in DOMAIN instances' : instances'[k] = t
        BY <2>2 DEF LiveListed
      <4>1. PICK k \in DOMAIN instances : instances[k] = t
        BY <1>b DEF LiveListed
      <4>2. k # pass.i
        BY <2>3, <4>1 DEF Live
      <4>3. CASE k < pass.i
        <5>1. k \in 1 .. Len(instances) - 1
          BY <1>a, <2>1, <4>3
        <5> QED BY <3>2, <4>1, <4>3, <5>1
      <4>4. CASE k > pass.i
        <5>1. k - 1 \in 1 .. Len(instances) - 1 /\ ~(k - 1 < pass.i) /\ (k - 1) + 1 = k
          BY <1>a, <2>1, <4>4
        <5> QED BY <3>2, <4>1, <5>1
      <4> QED BY <1>a, <4>2, <4>3, <4>4
    <3>4. PrunedSeen'
      BY <1>a, <1>b, <2>1, <3>1, <3>2 DEF PrunedSeen
    <3>5. LiveSeen' /\ SoleFoundOnce' /\ OnlyLastLives'
      BY <1>b, <2>1, <3>1 DEF LiveSeen, SoleFoundOnce, OnlyLastLives
    <3> QED BY <3>3, <3>4, <3>5 DEF PassInv
  <2>4. CASE tails[n].pc # "ended"
    <3>1. /\ pass' = [pass EXCEPT !.i = pass.i + 1,
                                  !.running = pass.running \cup {tails[n].id}]
          /\ UNCHANGED instances
      BY <1>2, <2>4 DEF PruneOne
    <3>2. /\ pass'.pc = pass.pc /\ pass'.i = pass.i + 1 /\ pass'.latest = pass.latest
          /\ pass'.running = pass.running \cup {tails[n].id}
      BY <1>a, <3>1 DEF PassState
    <3>3. LiveListed' /\ SoleFoundOnce' /\ OnlyLastLives' /\ LiveSeen'
      BY <1>b, <2>1, <2>2, <3>1, <3>2
      DEF LiveListed, SoleFoundOnce, OnlyLastLives, LiveSeen
    <3>4. PrunedSeen'
      <4> SUFFICES ASSUME NEW k \in DOMAIN instances, k < pass.i + 1
                   PROVE  tails[instances[k]].id \in pass.running \cup {tails[n].id}
        BY <2>1, <3>1, <3>2 DEF PrunedSeen
      <4>1. k < pass.i \/ k = pass.i
        BY <1>a
      <4> QED BY <1>b, <2>1, <4>1 DEF PrunedSeen
    <3> QED BY <3>3, <3>4 DEF PassInv
  <2> QED BY <2>3, <2>4
<1>3. ASSUME Glob PROVE PassInv'
  <2> DEFINE found == [k \in 1 .. Cardinality(Matching) |-> Found(Match(k))]
  <2>1. /\ pass' = [pc |-> "start", i |-> 1, running |-> pass.running, latest |-> found]
        /\ pass.pc = "prune" /\ pass.i > Len(instances) /\ UNCHANGED <<tails, instances>>
    BY <1>3 DEF Glob
  <2>2. Live' = Live
    BY <2>1 DEF Live
  <2>3. \A k, l \in DOMAIN found :
          found[k].id = found[l].id /\ Sole(found[k].id) => k = l
    BY FoundOnce
  <2> HIDE DEF found
  <2>4. SoleFoundOnce'
    BY <2>1, <2>3 DEF SoleFoundOnce
  <2>5. \A t \in Live : tails[t].id \in pass.running
    BY <1>a, <1>b, <2>1 DEF LiveListed, PrunedSeen
  <2>6. LiveListed' /\ PrunedSeen' /\ OnlyLastLives'
    BY <1>b, <2>1, <2>2 DEF LiveListed, PrunedSeen, OnlyLastLives
  <2>7. LiveSeen'
    BY <2>1, <2>2, <2>5 DEF LiveSeen
  <2> QED BY <2>4, <2>6, <2>7 DEF PassInv
<1>4. ASSUME SkipRunning PROVE PassInv'
  <2>1. /\ pass' = [pass EXCEPT !.i = @ + 1] /\ pass.pc = "start"
        /\ UNCHANGED <<tails, instances>>
    BY <1>4 DEF SkipRunning, InStart
  <2>2. /\ pass'.pc = "start" /\ pass'.i = pass.i + 1 /\ pass'.latest = pass.latest
        /\ pass'.running = pass.running /\ Live' = Live
    BY <1>a, <2>1 DEF PassState, Live
  <2>3. LiveListed' /\ PrunedSeen' /\ SoleFoundOnce' /\ OnlyLastLives'
    BY <1>b, <2>1, <2>2 DEF LiveListed, PrunedSeen, SoleFoundOnce, OnlyLastLives
  <2>4. LiveSeen'
    BY <1>a, <1>b, <2>1, <2>2, LenProperties DEF LiveSeen
  <2> QED BY <2>3, <2>4 DEF PassInv
<1>5. ASSUME StartTail PROVE PassInv'
  <2> DEFINE n == Len(tails) + 1
             m == Len(instances) + 1
             x == Instance.id
  <2>1. /\ n \in Nat /\ DOMAIN tails = 1 .. Len(tails) /\ DOMAIN tails' = 1 .. n
        /\ Len(tails) \in Nat
        /\ \A t \in DOMAIN tails : tails'[t] = tails[t]
        /\ tails'[n].id = x
        /\ DOMAIN instances' = 1 .. m
        /\ \A k \in DOMAIN instances : instances'[k] = instances[k]
        /\ instances'[m] = n
        /\ pass.i \in DOMAIN pass.latest
        /\ pass.pc = "start" /\ pass' = [pass EXCEPT !.i = @ + 1]
        /\ x \notin pass.running
    BY <1>5, StartEffect, LenProperties DEF TypeOK
  <2>2. /\ pass'.pc = "start" /\ pass'.i = pass.i + 1 /\ pass'.latest = pass.latest
        /\ pass'.running = pass.running
    BY <1>a, <2>1 DEF PassState
  <2>3. x = pass.latest[pass.i].id
    BY DEF Instance
  <2> HIDE DEF x
  <2>4. \A t \in Live' : t \in Live \/ t = n
    BY <2>1 DEF Live
  <2>5. LiveListed'
    <3> SUFFICES ASSUME NEW t \in Live'
                 PROVE  \E k \in DOMAIN instances' : instances'[k] = t
      BY DEF LiveListed
    <3>1. CASE t = n
      <4>1. m \in DOMAIN instances'
        BY <1>a, <2>1
      <4> QED BY <2>1, <3>1, <4>1
    <3>2. CASE t \in Live
      <4>1. PICK k \in DOMAIN instances : instances[k] = t
        BY <1>b, <3>2 DEF LiveListed
      <4>2. k \in DOMAIN instances'
        BY <1>a, <2>1
      <4> QED BY <2>1, <4>1, <4>2
    <3> QED BY <2>4, <3>1, <3>2
  <2>6. PrunedSeen' /\ SoleFoundOnce'
    BY <1>b, <2>2 DEF PrunedSeen, SoleFoundOnce
  <2>7. LiveSeen'
    <3> SUFFICES ASSUME NEW t \in Live'
                 PROVE  \/ tails'[t].id \in pass.running
                        \/ \E k \in DOMAIN pass.latest :
                             k < pass.i + 1 /\ pass.latest[k].id = tails'[t].id
      BY <2>2 DEF LiveSeen
    <3>1. CASE t = n
      <4>1. pass.i < pass.i + 1
        BY <1>a
      <4> QED BY <2>1, <2>3, <3>1, <4>1
    <3>2. CASE t \in Live
      <4>1. tails'[t].id = tails[t].id
        BY <2>1, <3>2 DEF Live
      <4>2. \A k \in DOMAIN pass.latest : k < pass.i => k < pass.i + 1
        BY <1>a, LenProperties
      <4> QED BY <1>b, <2>1, <3>2, <4>1, <4>2 DEF LiveSeen
    <3> QED BY <2>4, <3>1, <3>2
  \* No tail of an instance that one path holds still runs when its next starts.
  <2>8. ASSUME NEW t \in Live, tails[t].id = x, Sole(x) PROVE FALSE
    <3>1. PICK k \in DOMAIN pass.latest : k < pass.i /\ pass.latest[k].id = x
      BY <1>b, <2>1, <2>8 DEF LiveSeen
    <3>2. k = pass.i
      BY <1>b, <2>1, <2>3, <2>8, <3>1 DEF SoleFoundOnce
    <3> QED BY <1>a, <3>1, <3>2
  <2>9. OnlyLastLives'
    <3> SUFFICES ASSUME NEW t \in DOMAIN tails', NEW u \in DOMAIN tails', t < u,
                        tails'[t].id = tails'[u].id, Sole(tails'[t].id)
                 PROVE  tails'[t].pc = "ended"
      BY DEF OnlyLastLives
    <3>1. t \in DOMAIN tails /\ (u \in DOMAIN tails \/ u = n)
      BY <2>1
    <3>2. CASE u \in DOMAIN tails
      BY <1>b, <2>1, <3>1, <3>2 DEF OnlyLastLives
    <3>3. CASE u = n
      BY <2>1, <2>8, <3>1, <3>3 DEF Live
    <3> QED BY <3>1, <3>2, <3>3
  <2> QED BY <2>5, <2>6, <2>7, <2>9 DEF PassInv
<1>6. ASSUME EndPass PROVE PassInv'
  <2>1. /\ pass' = [pc |-> "prune", i |-> 1, running |-> {}, latest |-> <<>>]
        /\ UNCHANGED <<tails, instances>>
    BY <1>6 DEF EndPass
  <2>2. Live' = Live
    BY <2>1 DEF Live
  <2>3. LiveListed' /\ LiveSeen' /\ SoleFoundOnce' /\ OnlyLastLives'
    BY <1>b, <2>1, <2>2 DEF LiveListed, LiveSeen, SoleFoundOnce, OnlyLastLives
  <2>4. PrunedSeen'
    BY <1>a, <2>1 DEF PrunedSeen
  <2> QED BY <2>3, <2>4 DEF PassInv
<1>7. ASSUME NEW t \in DOMAIN tails, TailStep(t) PROVE PassInv'
  BY <1>7, TailEffect, PassFrame
<1>8. ASSUME NEW f \in File, Appear(f) \/ Disappear(f) PROVE PassInv'
  BY <1>1, <1>8 DEF Appear, Disappear
<1>9. ASSUME UNCHANGED vars PROVE PassInv'
  BY <1>1, <1>9 DEF vars
<1> QED
  BY <1>2, <1>3, <1>4, <1>5, <1>6, <1>7, <1>8, <1>9 DEF Next, PassStep

-----------------------------------------------------------------------------
(* Announced starts *)

\* In the beginning no instance was started or announced.
LEMMA StartsInit == Init => StartsCounted
<1> SUFFICES ASSUME Init PROVE StartsCounted
  OBVIOUS
<1>1. known = {} /\ DOMAIN tails = {} /\ \A id \in AnyId : resets[id] = 0
  BY DEF Init, AnyId
<1> QED BY <1>1 DEF StartsCounted, TailsOf

\* A step that starts no tail and announces nothing.
LEMMA StartsFrame ==
  ASSUME StartsCounted, UNCHANGED <<known, resets>>, DOMAIN tails' = DOMAIN tails,
         \A t \in DOMAIN tails : tails'[t].id = tails[t].id
  PROVE  StartsCounted'
<1>1. \A id : TailsOf(id)' = TailsOf(id)
  BY DEF TailsOf
<1> QED BY <1>1 DEF StartsCounted

\* Every step counts: only the start of a tail adds to the starts, and it announces
\* all but the first (dynamic.go:53-58).
LEMMA StartsStep == TypeOK /\ StartsCounted /\ [Next]_vars => StartsCounted'
<1> SUFFICES ASSUME TypeOK, StartsCounted, [Next]_vars PROVE StartsCounted'
  OBVIOUS
<1>1. ASSUME UNCHANGED <<tails, known, resets>> PROVE StartsCounted'
  BY <1>1, StartsFrame
<1>2. ASSUME StartTail PROVE StartsCounted'
  <2>0. PICK x : x = Instance.id
    OBVIOUS
  <2>9. PICK n : n = Len(tails) + 1
    OBVIOUS
  <2>1. /\ n \in Nat /\ DOMAIN tails = 1 .. Len(tails) /\ DOMAIN tails' = 1 .. n
        /\ Len(tails) \in Nat
        /\ \A t \in DOMAIN tails : tails'[t] = tails[t]
        /\ tails'[n].id = x
        /\ x \in AnyId
    BY <1>2, <2>0, <2>9, StartEffect, LenProperties DEF TypeOK, FoundState
  <2>2. IF x \in known THEN resets' = [resets EXCEPT ![x] = @ + 1] /\ known' = known
                       ELSE known' = known \cup {x} /\ resets' = resets
    BY <1>2, <2>0 DEF StartTail
  <2>3. resets \in [AnyId -> Nat]
    BY DEF TypeOK
  <2>4. TailsOf(x)' = TailsOf(x) \cup {n} /\ n \notin TailsOf(x)
    <3>1. \A t \in DOMAIN tails' : t \in DOMAIN tails \/ t = n
      BY <2>1, <2>9
    <3>2. n \in DOMAIN tails' /\ DOMAIN tails \subseteq DOMAIN tails'
      BY <2>1, <2>9
    <3>3. n \notin 1 .. Len(tails)
      BY <2>9, <2>1
    <3>4. n \notin DOMAIN tails
      BY <2>1, <3>3
    <3>5. n \notin TailsOf(x)
      BY <3>4 DEF TailsOf
    <3>6. ASSUME NEW t PROVE t \in TailsOf(x)' <=> t \in TailsOf(x) \/ t = n
      BY <2>1, <3>1, <3>2 DEF TailsOf
    <3> QED BY <3>5, <3>6
  <2>5. \A id : id # x => TailsOf(id)' = TailsOf(id)
    <3>1. \A t \in DOMAIN tails' : t \in DOMAIN tails \/ t = n
      BY <2>1, <2>9
    <3>2. DOMAIN tails \subseteq DOMAIN tails'
      BY <2>1, <2>9
    <3> QED BY <2>1, <3>1, <3>2 DEF TailsOf
  <2>6. /\ IsFiniteSet(TailsOf(x)) /\ Cardinality(TailsOf(x)) \in Nat
        /\ Cardinality(TailsOf(x)') = Cardinality(TailsOf(x)) + 1
    <3>1. TailsOf(x) \subseteq 1 .. Len(tails)
      BY <2>1 DEF TailsOf
    <3>2. IsFiniteSet(TailsOf(x)) /\ Cardinality(TailsOf(x)) \in Nat
      BY <2>1, <3>1, BoundedFinite
    <3> QED BY <2>4, <3>2, FS_AddElement
  <2>7. ASSUME NEW id \in AnyId
        PROVE  IF id \in known' THEN resets'[id] + 1 = Cardinality(TailsOf(id)')
                                ELSE resets'[id] = 0 /\ TailsOf(id)' = {}
    <3>1. IF id \in known THEN resets[id] + 1 = Cardinality(TailsOf(id))
                          ELSE resets[id] = 0 /\ TailsOf(id) = {}
      BY DEF StartsCounted
    <3>2. CASE id # x
      <4>1. resets'[id] = resets[id] /\ (id \in known' <=> id \in known)
        BY <2>2, <2>3, <3>2
      <4> QED BY <2>5, <3>1, <3>2, <4>1
    <3>3. CASE id = x /\ x \in known
      <4>0. resets' = [resets EXCEPT ![x] = @ + 1] /\ known' = known /\ x \in AnyId
        BY <2>1, <2>2, <3>3
      <4>1. resets'[x] = resets[x] + 1 /\ x \in known' /\ resets[x] \in Nat
        BY <2>3, <3>3, <4>0
      <4> QED BY <2>6, <3>1, <3>3, <4>1
    <3>4. CASE id = x /\ x \notin known
      <4>0. TailsOf(x) = {} /\ resets[x] = 0
        BY <3>1, <3>4
      <4>1. Cardinality(TailsOf(x)) = 0
        BY <4>0, FS_EmptySet
      <4>2. resets'[x] = 0 /\ x \in known'
        BY <2>2, <3>4, <4>0
      <4>3. Cardinality(TailsOf(x)') = 1
        BY <2>6, <4>1
      <4> QED BY <3>4, <4>2, <4>3
    <3> QED BY <3>2, <3>3, <3>4
  <2> QED BY <2>7 DEF StartsCounted
<1>3. ASSUME NEW t \in DOMAIN tails, TailStep(t) PROVE StartsCounted'
  BY <1>3, TailEffect, StartsFrame
<1>4. ASSUME PruneOne \/ Glob \/ SkipRunning \/ EndPass PROVE StartsCounted'
  BY <1>1, <1>4 DEF PruneOne, Glob, SkipRunning, EndPass
<1>5. ASSUME NEW f \in File, Appear(f) \/ Disappear(f) PROVE StartsCounted'
  BY <1>1, <1>5 DEF Appear, Disappear
<1>6. ASSUME UNCHANGED vars PROVE StartsCounted'
  BY <1>1, <1>6 DEF vars
<1> QED BY <1>2, <1>3, <1>4, <1>5, <1>6 DEF Next, PassStep

-----------------------------------------------------------------------------
(* Theorems *)

\* DynamicInv holds in every reachable state, whatever identifiers the paths hold.
THEOREM DynamicInvariant == Spec => []DynamicInv
<1>1. Init => DynamicInv
  BY TypeInit, PassInit, StartsInit DEF DynamicInv
<1>2. DynamicInv /\ [Next]_vars => DynamicInv'
  BY TypeStep, PassStepKeeps, StartsStep DEF DynamicInv
<1> QED BY <1>1, <1>2, PTL DEF Spec

\* Every variable keeps its type.
THEOREM DynamicTypeOK == Spec => []TypeOK
<1>1. DynamicInv => TypeOK
  BY DEF DynamicInv
<1> QED BY <1>1, DynamicInvariant, PTL

\* An instance whose identifier one path holds has one tail that runs, the last
\* that was started.
SoleTail ==
  \A t, n \in Live : tails[t].id = tails[n].id /\ Sole(tails[t].id) => t = n

\* The last tail of an instance is the only one that runs.
LEMMA OneLast == DynamicInv => SoleTail
<1> SUFFICES ASSUME DynamicInv, NEW t \in Live, NEW n \in Live,
                    tails[t].id = tails[n].id, Sole(tails[t].id)
             PROVE  t = n
  BY DEF SoleTail
<1>1. t \in Nat /\ n \in Nat /\ t \in DOMAIN tails /\ n \in DOMAIN tails
  BY LenProperties DEF DynamicInv, TypeOK, Live
<1>2. ~(t < n) /\ ~(n < t)
  BY <1>1 DEF DynamicInv, PassInv, OnlyLastLives, Live
<1> QED BY <1>1, <1>2

\* Two goroutines never tail one instance, whatever ends while a pass looks,
\* unless two paths hold its identifier.
THEOREM DynamicSoleTail == Spec => []SoleTail
BY OneLast, DynamicInvariant, PTL

\* ... so that with identifiers that differ, no instance has two.
THEOREM DynamicOneTail ==
  ASSUME \A id \in AnyId : Sole(id)
  PROVE  Spec => []OneTailPerInstance
<1>1. DynamicInv => OneTailPerInstance
  <2> SUFFICES ASSUME DynamicInv, NEW t \in Live, NEW n \in Live,
                      tails[t].id = tails[n].id
               PROVE  t = n
    BY DEF OneTailPerInstance
  <2>1. tails[t].id \in AnyId
    <3>1. tails \in Seq(TailState) /\ t \in DOMAIN tails
      BY DEF DynamicInv, TypeOK, Live
    <3>2. tails[t] \in TailState
      BY <3>1, LenProperties, ElementOfSeq
    <3> QED BY <3>2 DEF TailState
  <2> QED BY <2>1, OneLast DEF SoleTail
<1> QED BY <1>1, DynamicInvariant, PTL

\* Each start of the tail of an instance but the first is announced to its
\* clients, once.
THEOREM DynamicRebootsAreAnnounced == Spec => []RebootsAreAnnounced
<1>1. DynamicInv => RebootsAreAnnounced
  <2>1. DynamicInv => known \subseteq AnyId /\ StartsCounted
    BY DEF DynamicInv, TypeOK
  <2> QED BY <2>1 DEF RebootsAreAnnounced, StartsCounted, TailsOf
<1> QED BY <1>1, DynamicInvariant, PTL
=============================================================================
