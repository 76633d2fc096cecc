-------------------------- MODULE ServerPageProofs --------------------------
(***************************************************************************)
(* Theorems about ServerPage: the list of archives is in order, the number *)
(* of rows stays bounded, a reset without separator spoils one event, the  *)
(* page becomes what showing each event at once would have made of it, a   *)
(* page that was cleared is the end of what the tail told, and of the log  *)
(* when that was all of it, and one that was not lacks no line told but    *)
(* those no event of which could reach it.                                 *)
(***************************************************************************)
EXTENDS ServerPage, DataLemmas, FunctionTheorems

Line == 0 .. MaxLines
Text == Seq(Line)

\* Events and messages are about lines that were written.
ThisEvent == [type : {"ADD", "RESET"}, line : Line]
ThisMessage == [form : {"event", "reset", "error"}, event : ThisEvent]
Frame == Seq(ThisMessage)

Archive == [name : 1 .. MaxArchives, time : 1 .. MaxTime]
Wanted == Cookies \cup {<<>>}

LogTypes ==
  /\ server \in [dynamic : Kinds, known : BOOLEAN, boots : 0 .. MaxBoots]
  /\ log \in [lines : Seq(1 .. MaxLines), ends : BOOLEAN, truncs : 0 .. MaxTruncs]
  /\ last \in 0 .. MaxLines
  /\ tail \in [on : BOOLEAN, pos : 0 .. MaxLines, stale : BOOLEAN, cuts : 0 .. MaxCuts,
               whole : BOOLEAN]
  /\ events \in Seq(ThisEvent) /\ told \in Seq(1 .. MaxLines)

ReqTypes ==
  req \in [pc : {"idle", "stat", "done", "failed"}, view : {"live", "archive", "list"},
           cookie : Wanted, changed : BOOLEAN, left : Seq(1 .. MaxArchives),
           archives : Seq(Archive), seen : SUBSET (1 .. MaxArchives)]

ConnTypes ==
  /\ conn \in {"none", "up", "closing", "closed"}
  /\ asked \in BOOLEAN /\ listed \in BOOLEAN
  /\ send \in Frame /\ Len(send) <= SendCap
  /\ batch \in Frame /\ frames \in Seq(Frame)

RowTypes ==
  /\ rows \in Text /\ ideal \in Text
  /\ missed \subseteq Line /\ cleared \in BOOLEAN /\ lost \in Nat

Types == LogTypes /\ ReqTypes /\ ConnTypes /\ RowTypes

\* The tail is in the log, unless that was truncated behind it; one that is off waits at
\* the start.  As long as it cut no line and passed over none, it told the log up to it.
TailInv ==
  /\ Len(log.lines) <= last
  /\ ~tail.stale => tail.pos <= Len(log.lines)
  /\ ~tail.on => ~tail.stale /\ tail.pos = 0 /\ told = <<>>
  /\ (tail.whole /\ ~tail.stale) =>
        Len(told) = tail.pos /\ \A k \in 1 .. tail.pos : told[k] = log.lines[k]

\* Steps of the log and of its tail: the tail takes no part, makes an event of a line,
\* or makes a reset.
LogAlone == WriteLine \/ Truncate \/ NewInstance \/ TailStarts
TailTells == TailReads \/ TailReadsRest \/ TailReadsOver
LogStep == LogAlone \/ TailTells \/ TailResets

\* What PageAssumption says of the bounds.
LEMMA Bounds ==
  /\ MaxLines \in Nat /\ MaxTruncs \in Nat /\ MaxBoots \in Nat /\ MaxCuts \in Nat
  /\ MaxArchives \in Nat /\ MaxTime \in Nat
  /\ DefaultMax \in Nat \ {0} /\ SendCap \in Nat \ {0} /\ NoLine \in Line
  /\ 1 .. MaxLines \subseteq Line /\ Seq(1 .. MaxLines) \subseteq Text
<1>1. /\ MaxLines \in Nat /\ MaxTruncs \in Nat /\ MaxBoots \in Nat /\ MaxCuts \in Nat
      /\ MaxArchives \in Nat /\ MaxTime \in Nat
      /\ DefaultMax \in Nat \ {0} /\ SendCap \in Nat \ {0}
  BY PageAssumption
<1>2. NoLine \in Line /\ 1 .. MaxLines \subseteq Line
  BY <1>1 DEF NoLine, Line
<1>3. Seq(1 .. MaxLines) \subseteq Text
  BY <1>2, SeqMonotonic DEF Text
<1> QED BY <1>1, <1>2, <1>3

\* A number of lines wanted is one number, or none.
LEMMA WantedIs ==
  ASSUME NEW c \in Wanted
  PROVE  c = <<>> \/ (Len(c) = 1 /\ c = <<c[1]>> /\ c[1] \in Int)
<1>1. CASE c = <<>>
  BY <1>1
<1>2. CASE c # <<>>
  <2>1. c \in Seq(Int) /\ Len(c) <= 1
    BY <1>2, PageAssumption DEF Wanted
  <2>2. PICK n \in Nat : n = Len(c)
    BY <2>1, LenProperties
  <2>3. n # 0
    BY <1>2, <2>1, <2>2, EmptySeq
  <2>4. Len(c) = 1
    BY <2>1, <2>2, <2>3
  <2>5. 1 \in DOMAIN c /\ c[1] \in Int
    BY <2>1, <2>4, ElementOfSeq, SMTT(60)
  <2>6. c = <<c[1]>>
    <3>1. PICK b : b = <<c[1]>>
      OBVIOUS
    <3>2. b \in Seq(Int) /\ Len(b) = 1 /\ b[1] = c[1]
      BY <2>5, <3>1
    <3>3. \A k \in 1 .. 1 : k = 1
      OBVIOUS
    <3>4. \A k \in 1 .. Len(c) : c[k] = b[k]
      BY <2>4, <3>2, <3>3
    <3> QED BY <2>1, <2>4, <3>1, <3>2, <3>4, SeqEqual
  <2> QED BY <2>4, <2>5, <2>6
<1> QED BY <1>1, <1>2

\* PageMax is a number, and the number the handler takes when it limits.
LEMMA PageMaxIs ==
  ASSUME ReqTypes
  PROVE  PageMax \in Nat /\ (PageMax > 0 => MaxLinesCount(req.cookie) = PageMax)
<1>1. req.cookie \in Wanted
  BY DEF ReqTypes
<1>2. CASE req.cookie = <<>>
  BY <1>2 DEF PageMax
<1>3. CASE req.cookie # <<>>
  <2>1. PICK c \in Int : c = req.cookie[1] /\ req.cookie = <<c>>
    BY <1>1, <1>3, WantedIs
  <2>2. PageMax = IF c < 0 THEN 0 ELSE c
    BY <1>3, <2>1 DEF PageMax
  <2>3. c # 0 => req.cookie # <<0>>
    BY <2>1
  <2> QED BY <1>3, <2>1, <2>2, <2>3 DEF MaxLinesCount
<1> QED BY <1>2, <1>3

MaxOf(c) == IF c = <<>> \/ c[1] < 0 THEN 0 ELSE c[1]

\* The page wants a number of rows.
LEMMA MaxOfIsNat ==
  ASSUME NEW c \in Wanted
  PROVE  MaxOf(c) \in Nat
BY WantedIs DEF MaxOf

\* The handler wants a number of lines, which a cookie may make negative.
LEMMA CountIsInt ==
  ASSUME NEW c \in Wanted
  PROVE  MaxLinesCount(c) \in Int
BY Bounds, WantedIs DEF MaxLinesCount

-----------------------------------------------------------------------------
(* The window of lines *)

\* The window holds all the lines, or one more than the limit.
LEMMA WindowIs ==
  ASSUME NEW lines \in Text, NEW limit \in Int
  PROVE  /\ Window(lines, limit) \in Text
         /\ limit > 0 => Len(Window(lines, limit)) <= limit + 1
<1>1. PICK n \in Nat : n = Len(lines)
  BY LenProperties DEF Text
<1>2. CASE limit > 0 /\ n > limit
  <2>1. PICK w : w = SubSeq(lines, n - limit, n)
    OBVIOUS
  <2>2. n - limit \in 1 .. n /\ n - limit <= n + 1 /\ n \in 1 .. n /\ (n - (n - limit)) + 1 = limit + 1
    BY <1>2
  <2>3. w \in Text /\ Len(w) = limit + 1
    BY <1>1, <2>1, <2>2, SubSeqProperties DEF Text
  <2>4. Window(lines, limit) = w
    BY <1>1, <1>2, <2>1 DEF Window
  <2> QED BY <1>2, <2>3, <2>4
<1>3. CASE ~(limit > 0 /\ n > limit)
  <2>1. Window(lines, limit) = lines
    BY <1>1, <1>3 DEF Window
  <2> QED BY <1>1, <1>3, <2>1
<1> QED BY <1>2, <1>3

\* The lines of a log, split at line breaks, are rows.
LEMMA SplitIsText ==
  ASSUME NEW lines \in Text, NEW ends
  PROVE  SplitLines(lines, ends) \in Text
BY Bounds, AppendProperties DEF SplitLines, Text

\* One row that is no line.
LEMMA NoLineIsText == <<NoLine>> \in Text /\ Len(<<NoLine>>) = 1 /\ <<>> \in Text /\ Len(<<>>) = 0
<1>1. PICK x \in Line : x = NoLine
  BY Bounds
<1>2. <<x>> \in Seq(Line) /\ Len(<<x>>) = 1
  OBVIOUS
<1> QED BY <1>1, <1>2, EmptySeq DEF Text

\* The text of an archive (uncompress), or of its error, is rows.
LEMMA UncompressedIsText ==
  ASSUME NEW form, NEW n \in 0 .. MaxLines, NEW ends
  PROVE  Uncompressed(form, n, ends) \in Text
<1>1. PICK s : s = [k \in 1 .. n |-> k]
  OBVIOUS
<1>2. s \in Text
  <2>1. n \in Nat /\ \A k \in 1 .. n : k \in Line
    BY Bounds DEF Line
  <2> QED BY <1>1, <2>1, SeqDef DEF Text
<1> QED BY <1>1, <1>2, NoLineIsText, SplitIsText DEF Uncompressed

-----------------------------------------------------------------------------
(* The list of archives *)

Newer(a, b) == a.time > b.time \/ (a.time = b.time /\ a.name < b.name)
Sorted(a) == \A i, j \in DOMAIN a : i < j => Newer(a[i], a[j])

Names(a) == {a[i].name : i \in DOMAIN a}

\* An entry inserted at a place.
LEMMA InsertIs ==
  ASSUME NEW a \in Seq(Archive), NEW e \in Archive, NEW p \in 1 .. Len(a) + 1
  PROVE  /\ InsertAt(a, p, e) \in Seq(Archive) /\ Len(InsertAt(a, p, e)) = Len(a) + 1
         /\ \A k \in 1 .. Len(a) + 1 :
              InsertAt(a, p, e)[k] = IF k < p THEN a[k] ELSE IF k = p THEN e ELSE a[k - 1]
<1>1. PICK n \in Nat : n = Len(a)
  BY LenProperties
<1>2. p \in 1 .. n + 1 /\ \A k \in 1 .. n : a[k] \in Archive
  BY <1>1, ElementOfSeq
<1>3. PICK r : r = SubSeq(a, 1, p - 1)
  OBVIOUS
<1>4. r \in Seq(Archive) /\ Len(r) = p - 1 /\ \A k \in 1 .. p - 1 : r[k] = a[k]
  <2>1. p - 1 \in Nat /\ ((p - 1) - 1) + 1 = p - 1 /\ \A k \in 1 .. p - 1 : k \in 1 .. n /\ (k + 1) - 1 = k
    BY <1>2
  <2>2. r = [k \in 1 .. p - 1 |-> a[k]]
    <3>1. CASE p = 1
      BY <1>1, <1>3, <2>1, <3>1, SubSeqProperties
    <3>2. CASE p # 1
      <4>1. 1 \in 1 .. n /\ p - 1 \in 1 .. n /\ 1 <= (p - 1) + 1
        BY <1>2, <3>2
      <4> QED BY <1>1, <1>3, <2>1, <4>1, SubSeqProperties
    <3> QED BY <3>1, <3>2
  <2> QED BY <1>2, <2>1, <2>2, SeqDef
<1>5. PICK t : t = SubSeq(a, p, n)
  OBVIOUS
<1>6. t \in Seq(Archive) /\ Len(t) = n - (p - 1) /\ \A k \in 1 .. n - (p - 1) : t[k] = a[k + (p - 1)]
  <2>1. /\ n - (p - 1) \in Nat /\ (n - p) + 1 = n - (p - 1)
        /\ \A k \in 1 .. n - (p - 1) : k + (p - 1) \in 1 .. n /\ (k + p) - 1 = k + (p - 1)
    BY <1>2
  <2>2. t = [k \in 1 .. n - (p - 1) |-> a[k + (p - 1)]]
    <3>1. CASE p = n + 1
      BY <1>1, <1>5, <2>1, <3>1, SubSeqProperties
    <3>2. CASE p # n + 1
      <4>1. p \in 1 .. n /\ n \in 1 .. n /\ p <= n + 1
        BY <1>2, <3>2
      <4> QED BY <1>1, <1>5, <2>1, <4>1, SubSeqProperties
    <3> QED BY <3>1, <3>2
  <2> QED BY <1>2, <2>1, <2>2, SeqDef
<1>7. PICK s : /\ s = r \o <<e>> /\ s \in Seq(Archive) /\ Len(s) = p
               /\ \A k \in 1 .. p : s[k] = IF k < p THEN a[k] ELSE e
  <2>1. PICK one : one = <<e>>
    OBVIOUS
  <2>2. one \in Seq(Archive) /\ Len(one) = 1 /\ one[1] = e
    BY <2>1
  <2>3. PICK s : s = r \o one
    OBVIOUS
  <2>4. s \in Seq(Archive) /\ Len(s) = Len(r) + Len(one)
        /\ \A k \in 1 .. Len(r) + Len(one) : s[k] = IF k <= Len(r) THEN r[k] ELSE one[k - Len(r)]
    BY <1>4, <2>2, <2>3, ConcatProperties
  <2>5. PICK m \in Nat : m = p - 1 /\ m + 1 = p
    BY <1>2
  <2>6. s \in Seq(Archive) /\ Len(s) = m + 1
        /\ \A k \in 1 .. m + 1 : s[k] = IF k <= m THEN r[k] ELSE one[k - m]
    BY <1>4, <2>2, <2>4, <2>5
  <2>7. ASSUME NEW k \in 1 .. p
        PROVE  s[k] = IF k < p THEN a[k] ELSE e
    <3>1. CASE k < p
      <4>1. k \in 1 .. m + 1 /\ k <= m /\ k \in 1 .. p - 1
        BY <1>2, <2>5, <3>1
      <4> QED BY <1>4, <2>6, <3>1, <4>1
    <3>2. CASE ~(k < p)
      <4>1. k \in 1 .. m + 1 /\ ~(k <= m) /\ k - m = 1
        BY <1>2, <2>5, <3>2
      <4> QED BY <2>2, <2>6, <3>2, <4>1
    <3> QED BY <3>1, <3>2
  <2> QED BY <2>1, <2>3, <2>5, <2>6, <2>7
<1>8. PICK w : w = s \o t
  OBVIOUS
<1>9. w \in Seq(Archive) /\ Len(w) = n + 1
      /\ \A k \in 1 .. n + 1 : w[k] = IF k <= p THEN s[k] ELSE t[k - p]
  <2>1. w \in Seq(Archive) /\ Len(w) = Len(s) + Len(t)
        /\ \A k \in 1 .. Len(s) + Len(t) : w[k] = IF k <= Len(s) THEN s[k] ELSE t[k - Len(s)]
    <3>1. s \in Seq(Archive) /\ t \in Seq(Archive)
      BY <1>6, <1>7
    <3> QED BY <1>8, <3>1, ConcatProperties
  <2>2. Len(s) + Len(t) = n + 1 /\ Len(s) = p
    <3>1. Len(s) = p
      BY <1>7
    <3>2. Len(t) = n - (p - 1)
      BY <1>6
    <3>3. p + (n - (p - 1)) = n + 1
      BY <1>2
    <3> QED BY <3>1, <3>2, <3>3
  <2> QED BY <2>1, <2>2
<1>10. ASSUME NEW k \in 1 .. n + 1
       PROVE  w[k] = IF k < p THEN a[k] ELSE IF k = p THEN e ELSE a[k - 1]
  <2>1. CASE k <= p
    <3>1. k \in 1 .. p /\ (k = p <=> ~(k < p))
      BY <1>2, <2>1
    <3> QED BY <1>7, <1>9, <2>1, <3>1
  <2>2. CASE ~(k <= p)
    <3>1. k - p \in 1 .. n - (p - 1) /\ (k - p) + (p - 1) = k - 1 /\ ~(k < p) /\ k # p
      BY <1>2, <2>2
    <3> QED BY <1>6, <1>9, <2>2, <3>1
  <2> QED BY <2>1, <2>2
<1>11. InsertAt(a, p, e) = w
  BY <1>1, <1>3, <1>5, <1>7, <1>8 DEF InsertAt
<1> QED BY <1>1, <1>9, <1>10, <1>11

IsInserted(s, a, e, p) ==
  /\ s \in Seq(Archive) /\ Len(s) = Len(a) + 1
  /\ \A k \in 1 .. Len(a) + 1 : s[k] = IF k < p THEN a[k] ELSE IF k = p THEN e ELSE a[k - 1]

\* The place is before the first older entry, or the end.
LEMMA InsertedIs ==
  ASSUME NEW a \in Seq(Archive), NEW e \in Archive
  PROVE  \E p \in 1 .. Len(a) + 1 :
           /\ IsInserted(Inserted(a, e), a, e, p)
           /\ \A k \in 1 .. Len(a) : k < p => ~(a[k].time < e.time)
           /\ p \in 1 .. Len(a) => a[p].time < e.time
<1>1. PICK n \in Nat : n = Len(a) /\ DOMAIN a = 1 .. n
  BY LenProperties
<1>2. PICK older : older = {k \in DOMAIN a : a[k].time < e.time}
  OBVIOUS
<1>3. CASE older = {}
  <2>1. Inserted(a, e) = Append(a, e)
    BY <1>2, <1>3 DEF Inserted
  <2>2. PICK s : s = Append(a, e)
    OBVIOUS
  <2>3. s \in Seq(Archive) /\ Len(s) = n + 1 /\ (\A k \in 1 .. n : s[k] = a[k]) /\ s[n + 1] = e
    BY <1>1, <2>2, AppendProperties
  <2>4. \A k \in 1 .. n + 1 : (k < n + 1 => k \in 1 .. n) /\ (k = n + 1 <=> ~(k < n + 1))
    OBVIOUS
  <2>5. IsInserted(s, a, e, n + 1)
    BY <1>1, <2>3, <2>4 DEF IsInserted
  <2>6. n + 1 \in 1 .. n + 1 /\ n + 1 \notin 1 .. n
    OBVIOUS
  <2> QED BY <1>1, <1>2, <1>3, <2>1, <2>2, <2>5, <2>6
<1>4. CASE older # {}
  <2>1. older \subseteq 1 .. n
    BY <1>1, <1>2
  <2>2. \E k \in older : \A j \in older : k <= j
    <3>1. older \subseteq Nat
      BY <2>1
    <3> QED BY <1>4, <3>1, LeastNumber
  <2>3. PICK p : p = CHOOSE k \in older : \A j \in older : k <= j
    OBVIOUS
  <2>4. p \in older /\ \A j \in older : p <= j
    BY <2>2, <2>3
  <2>5. p \in 1 .. n + 1 /\ p \in 1 .. n
    BY <2>1, <2>4
  <2>6. Inserted(a, e) = InsertAt(a, p, e)
    BY <1>2, <1>4, <2>3 DEF Inserted
  <2>7. IsInserted(InsertAt(a, p, e), a, e, p)
    BY <1>1, <2>5, InsertIs, ZenonT(60) DEF IsInserted
  <2>8. \A k \in 1 .. n : k < p => ~(a[k].time < e.time)
    <3>1. SUFFICES ASSUME NEW k \in 1 .. n, k < p, a[k].time < e.time PROVE FALSE
      OBVIOUS
    <3>2. k \in older
      BY <1>1, <1>2, <3>1
    <3>3. p <= k
      BY <2>4, <3>2
    <3> QED BY <2>5, <3>1, <3>3
  <2>9. a[p].time < e.time
    BY <1>2, <2>4
  <2> QED BY <1>1, <2>5, <2>6, <2>7, <2>8, <2>9
<1> QED BY <1>3, <1>4

\* A file that comes after those listed is inserted where it belongs.
LEMMA InsertedSorted ==
  ASSUME NEW a \in Seq(Archive), NEW e \in Archive,
         Sorted(a), \A k \in DOMAIN a : a[k].name < e.name
  PROVE  /\ Inserted(a, e) \in Seq(Archive) /\ Len(Inserted(a, e)) = Len(a) + 1
         /\ Sorted(Inserted(a, e)) /\ Names(Inserted(a, e)) = Names(a) \cup {e.name}
<1>1. PICK n \in Nat : n = Len(a) /\ DOMAIN a = 1 .. n
  BY LenProperties
<1>2. PICK p \in 1 .. n + 1 :
        /\ IsInserted(Inserted(a, e), a, e, p)
        /\ \A k \in 1 .. n : k < p => ~(a[k].time < e.time)
        /\ p \in 1 .. n => a[p].time < e.time
  BY <1>1, InsertedIs
<1>3. PICK s : s = Inserted(a, e)
  OBVIOUS
<1>4. s \in Seq(Archive) /\ Len(s) = n + 1
      /\ \A k \in 1 .. n + 1 : s[k] = IF k < p THEN a[k] ELSE IF k = p THEN e ELSE a[k - 1]
  BY <1>1, <1>2, <1>3 DEF IsInserted
<1>5. DOMAIN s = 1 .. n + 1
  BY <1>4, LenProperties
<1>6. e.name \in Nat /\ e.time \in Nat
      /\ \A k \in 1 .. n : a[k] \in Archive /\ a[k].name \in Nat /\ a[k].time \in Nat /\ a[k].name < e.name
  <2>1. \A x \in Archive : x.name \in Nat /\ x.time \in Nat
    BY Bounds DEF Archive
  <2>2. \A k \in 1 .. n : a[k] \in Archive
    BY <1>1, ElementOfSeq
  <2> QED BY <1>1, <2>1, <2>2
<1>7. \A k \in 1 .. n : p <= k => a[k].time < e.time
  <2>1. SUFFICES ASSUME NEW k \in 1 .. n, p <= k PROVE a[k].time < e.time
    OBVIOUS
  <2>2. p \in 1 .. n /\ a[p].time < e.time
    BY <1>2, <2>1
  <2>3. CASE p = k
    BY <2>2, <2>3
  <2>4. CASE p # k
    <3>1. p < k
      BY <2>1, <2>2, <2>4
    <3>2. Newer(a[p], a[k])
      BY <1>1, <2>2, <3>1 DEF Sorted
    <3>3. a[p].time > a[k].time \/ a[p].time = a[k].time
      BY <3>2 DEF Newer
    <3> QED BY <1>6, <2>2, <3>3
  <2> QED BY <2>3, <2>4
<1>8. ASSUME NEW i \in 1 .. n + 1, NEW j \in 1 .. n + 1, i < j
      PROVE  Newer(s[i], s[j])
  <2>1. CASE j < p
    <3>1. i < p /\ i \in 1 .. n /\ j \in 1 .. n
      BY <1>2, <1>8, <2>1
    <3>2. s[i] = a[i] /\ s[j] = a[j]
      BY <1>4, <2>1, <3>1
    <3> QED BY <1>1, <1>8, <3>1, <3>2 DEF Sorted
  <2>2. CASE j = p
    <3>1. i < p /\ i \in 1 .. n /\ ~(j < p)
      BY <1>2, <1>8, <2>2
    <3>2. s[i] = a[i] /\ s[j] = e /\ ~(a[i].time < e.time)
      BY <1>2, <1>4, <2>2, <3>1
    <3>3. a[i].time > e.time \/ (a[i].time = e.time /\ a[i].name < e.name)
      BY <1>6, <3>1, <3>2
    <3> QED BY <3>2, <3>3 DEF Newer
  <2>3. CASE j > p /\ i < p
    <3>1. i \in 1 .. n /\ j - 1 \in 1 .. n /\ i < j - 1 /\ ~(j < p) /\ j # p
      BY <1>2, <2>3
    <3>2. s[i] = a[i] /\ s[j] = a[j - 1]
      BY <1>4, <2>3, <3>1
    <3> QED BY <1>1, <3>1, <3>2 DEF Sorted
  <2>4. CASE j > p /\ i = p
    <3>1. j - 1 \in 1 .. n /\ p <= j - 1 /\ ~(j < p) /\ j # p /\ ~(i < p)
      BY <1>2, <2>4
    <3>2. s[i] = e /\ s[j] = a[j - 1] /\ a[j - 1].time < e.time
      BY <1>4, <1>7, <2>4, <3>1
    <3>3. e.time > a[j - 1].time
      BY <1>6, <3>1, <3>2
    <3> QED BY <3>2, <3>3 DEF Newer
  <2>5. CASE j > p /\ i > p
    <3>1. i - 1 \in 1 .. n /\ j - 1 \in 1 .. n /\ i - 1 < j - 1 /\ ~(j < p) /\ j # p /\ ~(i < p) /\ i # p
      BY <1>2, <1>8, <2>5
    <3>2. s[i] = a[i - 1] /\ s[j] = a[j - 1]
      BY <1>4, <3>1
    <3> QED BY <1>1, <3>1, <3>2 DEF Sorted
  <2>6. j < p \/ j = p \/ (j > p /\ (i < p \/ i = p \/ i > p))
    BY <1>2, <1>8
  <2> QED BY <2>1, <2>2, <2>3, <2>4, <2>5, <2>6
<1>9. Sorted(s)
  BY <1>5, <1>8 DEF Sorted
<1>10. Names(s) = Names(a) \cup {e.name}
  <2>1. ASSUME NEW x \in Names(s) PROVE x \in Names(a) \cup {e.name}
    <3>1. PICK k \in 1 .. n + 1 : x = s[k].name
      BY <1>5, <2>1 DEF Names
    <3>2. (k < p => k \in 1 .. n) /\ (k < p \/ k = p \/ k - 1 \in 1 .. n)
      BY <1>2
    <3> QED BY <1>1, <1>4, <3>1, <3>2 DEF Names
  <2>2. ASSUME NEW x \in Names(a) PROVE x \in Names(s)
    <3>1. PICK k \in 1 .. n : x = a[k].name
      BY <1>1, <2>2 DEF Names
    <3>2. k \in 1 .. n + 1 /\ k + 1 \in 1 .. n + 1 /\ (k + 1) - 1 = k
          /\ (k < p \/ (~(k + 1 < p) /\ k + 1 # p))
      BY <1>2
    <3>3. s[k] = a[k] \/ s[k + 1] = a[k]
      BY <1>4, <3>2
    <3> QED BY <1>5, <3>1, <3>2, <3>3 DEF Names
  <2>3. e.name \in Names(s)
    <3>1. p \in 1 .. n + 1 /\ ~(p < p) /\ s[p] = e
      BY <1>4
    <3> QED BY <1>5, <3>1 DEF Names
  <2> QED BY <2>1, <2>2, <2>3
<1> QED BY <1>1, <1>3, <1>4, <1>9, <1>10

-----------------------------------------------------------------------------
(* What the page makes of a frame *)

\* HandleEvent and Shown, with the number of lines wanted as a parameter.
Handled(max, text, event) ==
  LET more == Append(text, event.line)
  IN IF event.type = "RESET" THEN <<>>
     ELSE IF max > 0 /\ Len(more) > max THEN Tail(more) ELSE more

ShownWith(max, text, frame, parts) ==
  LET after[k \in 0 .. Len(frame)] ==
        IF k = 0 THEN text
        ELSE IF k \in parts THEN Handled(max, after[k - 1], frame[k].event) ELSE after[k - 1]
  IN after[Len(frame)]

\* What the page shows, with the number of rows it wants as a parameter.
LEMMA ShownIsWith ==
  ASSUME NEW text, NEW frame, NEW parts
  PROVE  Shown(text, frame, parts) = ShownWith(PageMax, text, frame, parts)
BY DEF Shown, ShownWith, HandleEvent, Handled

\* What an event makes of the rows, with that parameter.
LEMMA HandleEventIs ==
  ASSUME NEW text, NEW event
  PROVE  HandleEvent(text, event) = Handled(PageMax, text, event)
BY DEF HandleEvent, Handled

\* An event is shown: one row more, or as many as before when there are too many.
LEMMA HandledIs ==
  ASSUME NEW max \in Nat, NEW text \in Text, NEW e \in ThisEvent
  PROVE  /\ Handled(max, text, e) \in Text
         /\ e.type = "RESET" => Handled(max, text, e) = <<>>
         /\ e.type # "RESET" =>
              \/ /\ Handled(max, text, e) = Append(text, e.line)
                 /\ ~(max > 0 /\ Len(text) + 1 > max) /\ Len(Handled(max, text, e)) = Len(text) + 1
              \/ /\ Handled(max, text, e) = Tail(Append(text, e.line))
                 /\ max > 0 /\ Len(text) + 1 > max /\ Len(Handled(max, text, e)) = Len(text)
<1>1. PICK n \in Nat : n = Len(text)
  BY LenProperties DEF Text
<1>2. e.line \in Line
  BY DEF ThisEvent
<1>3. PICK more : more = Append(text, e.line)
  OBVIOUS
<1>4. more \in Text /\ Len(more) = n + 1 /\ more # <<>>
  BY <1>1, <1>2, <1>3, AppendProperties DEF Text
<1>5. PICK rest : rest = Tail(more)
  OBVIOUS
<1>6. rest \in Text /\ Len(rest) = n
  <2>1. rest \in Text /\ Len(rest) = Len(more) - 1
    BY <1>4, <1>5, HeadTailProperties DEF Text
  <2> QED BY <1>1, <1>4, <2>1
<1>7. Handled(max, text, e) = IF e.type = "RESET" THEN <<>>
                              ELSE IF max > 0 /\ n + 1 > max THEN rest ELSE more
  BY <1>3, <1>4, <1>5 DEF Handled
<1> QED BY <1>1, <1>3, <1>4, <1>5, <1>6, <1>7, EmptySeq DEF Text

\* f goes through the parts of the frame.
Shows(f, max, text, frame, parts) ==
  /\ f[0] = text
  /\ \A k \in 1 .. Len(frame) :
       f[k] = IF k \in parts THEN Handled(max, f[k - 1], frame[k].event) ELSE f[k - 1]

\* Showing a frame is showing its parts one after the other.
LEMMA ShownIs ==
  ASSUME NEW max \in Nat, NEW text \in Text, NEW frame \in Frame, NEW parts
  PROVE  \E f \in [0 .. Len(frame) -> Text] :
           /\ Shows(f, max, text, frame, parts)
           /\ ShownWith(max, text, frame, parts) = f[Len(frame)]
<1>1. PICK n \in Nat : n = Len(frame)
  BY LenProperties DEF Frame
<1>2. \A k \in 1 .. n : frame[k] \in ThisMessage /\ frame[k].event \in ThisEvent
  <2>1. \A k \in 1 .. n : frame[k] \in ThisMessage
    BY <1>1, ElementOfSeq DEF Frame
  <2> QED BY <2>1 DEF ThisMessage
<1> DEFINE Step(t, k) == IF k \in parts THEN Handled(max, t, frame[k].event) ELSE t
<1>3. \A t \in Text, k \in 1 .. n : Step(t, k) \in Text
  BY <1>2, HandledIs
<1> HIDE DEF Step
<1>4. PICK step : step = [x \in Text \X (1 .. n) |-> Step(x[1], x[2])]
  OBVIOUS
<1>5. step \in [Text \X (1 .. n) -> Text]
  BY <1>3, <1>4
<1>6. PICK f \in [0 .. n -> Text] : IsRun(f, n, text, step)
  BY <1>5, RunExists
<1>7. f[0] = text /\ \A k \in 1 .. n : f[k - 1] \in Text /\ f[k] = Step(f[k - 1], k)
  <2>1. f[0] = text
    <3>1. 0 \in 0 .. n
      OBVIOUS
    <3> QED BY <1>6, <3>1 DEF IsRun
  <2>2. ASSUME NEW k \in 1 .. n PROVE f[k - 1] \in Text /\ f[k] = Step(f[k - 1], k)
    <3>1. k - 1 \in 0 .. n /\ k \in 0 .. n /\ k # 0
      BY <2>2
    <3>2. f[k - 1] \in Text /\ f[k] = step[<<f[k - 1], k>>]
      BY <1>6, <3>1 DEF IsRun
    <3>3. <<f[k - 1], k>> \in Text \X (1 .. n)
      BY <3>2
    <3> QED BY <1>4, <3>2, <3>3
  <2> QED BY <2>1, <2>2
<1> DEFINE F(x) == [k \in 0 .. n |-> IF k = 0 THEN text ELSE Step(x[k - 1], k)]
           after == CHOOSE x : x = F(x)
<1>8. ShownWith(max, text, frame, parts) = after[n]
  BY <1>1 DEF ShownWith, Step
<1>9. f = F(f)
  <2>1. \A k \in 0 .. n : k # 0 => k \in 1 .. n
    OBVIOUS
  <2>2. \A k \in 0 .. n : f[k] = IF k = 0 THEN text ELSE Step(f[k - 1], k)
    BY <1>7, <2>1
  <2> QED BY <2>2
<1>10. after = F(after)
  BY <1>9
<1>11. \A k \in 0 .. n : after[k] = IF k = 0 THEN text ELSE Step(after[k - 1], k)
  <2> HIDE DEF after
  <2>1. PICK a : a = after
    OBVIOUS
  <2>2. a = [k \in 0 .. n |-> IF k = 0 THEN text ELSE Step(a[k - 1], k)]
    BY <1>10, <2>1
  <2>3. \A k \in 0 .. n : a[k] = IF k = 0 THEN text ELSE Step(a[k - 1], k)
    BY <2>2
  <2> QED BY <2>1, <2>3
<1>12. \A k \in 0 .. n : after[k] = f[k]
  <2> DEFINE P == {k \in 0 .. n : after[k] = f[k]}
  <2> HIDE DEF after
  <2>1. 0 \in P
    <3>1. 0 \in 0 .. n
      OBVIOUS
    <3> QED BY <1>7, <1>11, <3>1
  <2>2. ASSUME NEW k \in 1 .. n, k - 1 \in P PROVE k \in P
    <3>1. k \in 0 .. n /\ k # 0 /\ after[k - 1] = f[k - 1]
      BY <2>2
    <3> QED BY <1>7, <1>11, <3>1
  <2>3. \A k \in 0 .. n : k \in P
    <3> HIDE DEF P
    <3> QED BY <2>1, <2>2, CountUp
  <2> QED BY <2>3
<1>13. Shows(f, max, text, frame, parts)
  BY <1>1, <1>7 DEF Shows, Step
<1>14. n \in 0 .. n
  OBVIOUS
<1> HIDE DEF after
<1> QED BY <1>1, <1>8, <1>12, <1>13, <1>14

-----------------------------------------------------------------------------
(* Types *)

\* In the beginning every variable has its type.
LEMMA TypesInit == ASSUME Init PROVE Types
<1>1. PICK d \in Kinds : server = [dynamic |-> d, known |-> ~d, boots |-> 0]
  BY DEF Init
<1>2. PICK e \in BOOLEAN : log = [lines |-> <<>>, ends |-> e, truncs |-> 0]
  BY DEF Init
<1>3. 0 \in 0 .. MaxBoots /\ 0 \in 0 .. MaxTruncs /\ 0 \in 0 .. MaxLines /\ 0 \in Nat
  BY Bounds
<1>4. server \in [dynamic : Kinds, known : BOOLEAN, boots : 0 .. MaxBoots]
  <2>1. d = TRUE \/ d = FALSE
    BY PageAssumption
  <2>2. CASE d = TRUE
    <3>1. (~d) = FALSE
      BY <2>2
    <3>2. server = [dynamic |-> d, known |-> FALSE, boots |-> 0]
      BY <1>1, <3>1
    <3> QED BY <1>3, <3>2
  <2>3. CASE d = FALSE
    <3>1. (~d) = TRUE
      BY <2>3
    <3>2. server = [dynamic |-> d, known |-> TRUE, boots |-> 0]
      BY <1>1, <3>1
    <3> QED BY <1>3, <3>2
  <2> QED BY <2>1, <2>2, <2>3
<1>5. log \in [lines : Seq(1 .. MaxLines), ends : BOOLEAN, truncs : 0 .. MaxTruncs]
  <2>1. <<>> \in Seq(1 .. MaxLines)
    BY EmptySeq
  <2> QED BY <1>2, <1>3, <2>1
<1>6. last \in 0 .. MaxLines /\ events \in Seq(ThisEvent) /\ told \in Seq(1 .. MaxLines)
  BY <1>3, EmptySeq DEF Init
<1>10. tail \in [on : BOOLEAN, pos : 0 .. MaxLines, stale : BOOLEAN, cuts : 0 .. MaxCuts,
                 whole : BOOLEAN]
  <2>1. 0 \in 0 .. MaxCuts
    BY Bounds
  <2> QED BY <1>3, <2>1 DEF Init
<1>7. ReqTypes
  <2>1. <<>> \in Wanted
    BY DEF Wanted
  <2>2. <<>> \in Seq(1 .. MaxArchives) /\ <<>> \in Seq(Archive)
    BY EmptySeq
  <2>3. PICK r : r = [pc |-> "idle", view |-> "live", cookie |-> <<>>, changed |-> FALSE,
                      left |-> <<>>, archives |-> <<>>, seen |-> {}]
    OBVIOUS
  <2>4. r \in [pc : {"idle", "stat", "done", "failed"}, view : {"live", "archive", "list"},
               cookie : Wanted, changed : BOOLEAN, left : Seq(1 .. MaxArchives),
               archives : Seq(Archive), seen : SUBSET (1 .. MaxArchives)]
    BY <2>1, <2>2, <2>3
  <2>5. req = r
    BY <2>3 DEF Init
  <2> QED BY <2>4, <2>5 DEF ReqTypes
<1>8. ConnTypes
  <2>1. <<>> \in Frame /\ <<>> \in Seq(Frame) /\ Len(<<>>) <= SendCap
    BY Bounds, EmptySeq DEF Frame
  <2> QED BY <2>1 DEF Init, ConnTypes
<1>9. RowTypes
  BY <1>3, EmptySeq DEF Init, RowTypes, Text
<1> QED BY <1>4, <1>5, <1>6, <1>7, <1>8, <1>9, <1>10 DEF Types, LogTypes

\* What is counted is counted in numbers.
LEMMA CountsAre ==
  ASSUME Types
  PROVE  server.boots \in Nat /\ log.truncs \in Nat /\ last \in Nat /\ tail.pos \in Nat /\ lost \in Nat
<1>1. server.boots \in Nat
  BY Bounds DEF Types, LogTypes
<1>2. log.truncs \in Nat
  BY Bounds DEF Types, LogTypes
<1>3. last \in Nat
  BY Bounds DEF Types, LogTypes
<1>4. tail.pos \in Nat
  BY Bounds DEF Types, LogTypes
<1> QED BY <1>1, <1>2, <1>3, <1>4 DEF Types, RowTypes

\* Events and what is sent of them have their types.
LEMMA MessagesAre ==
  /\ \A n \in Line : AddEvent(n) \in ThisEvent
  /\ ResetEvent \in ThisEvent
  /\ \A e \in ThisEvent : Encoded(e) \in ThisMessage
  /\ RawReset \in ThisMessage /\ UnknownServer \in ThisMessage
<1>1. /\ \A n \in Line : AddEvent(n) \in ThisEvent
      /\ ResetEvent \in ThisEvent
  BY Bounds DEF AddEvent, ResetEvent, ThisEvent
<1> QED BY <1>1 DEF Encoded, RawReset, UnknownServer, ThisMessage

\* Before a step of the log or its tail and after, the page and its wire are the same.
LEMMA LogStepIs ==
  ASSUME Types, LogStep
  PROVE  /\ UNCHANGED <<req, rows, connVars, conn, asked, listed, send, batch, frames>>
         /\ UNCHANGED <<ideal, missed, cleared, lost>>
         /\ server'.boots = server.boots
<1>1. UNCHANGED <<send, missed>> /\ PageUnchanged
  BY ZenonT(60) DEF LogStep, LogAlone, TailTells, WriteLine, Truncate, NewInstance, TailStarts, TailReads, TailReadsRest,
     TailReadsOver, TailResets, Tell
<1>2. server' = server \/ server' = [server EXCEPT !.known = TRUE]
  BY DEF LogStep, LogAlone, TailTells, WriteLine, Truncate, NewInstance, TailStarts, TailReads, TailReadsRest,
     TailReadsOver, TailResets, Tell
<1>3. server'.boots = server.boots
  BY <1>2 DEF Types, LogTypes
<1> QED BY <1>1, <1>3, SMTT(60) DEF PageUnchanged, connVars

\* The next line has the next number.
LEMMA NextLine ==
  ASSUME LogTypes, WriteLine
  PROVE  /\ last \in Nat /\ last' = last + 1
         /\ last + 1 \in 1 .. MaxLines /\ last + 1 \in Line
<1>1. PICK max \in Nat : max = MaxLines
  BY Bounds
<1>2. PICK l \in 0 .. max : l = last
  BY <1>1 DEF LogTypes
<1>3. l < max /\ last' = l + 1
  BY <1>1, <1>2 DEF WriteLine
<1>4. l \in Nat /\ l + 1 \in 1 .. max /\ l + 1 \in 0 .. max
  BY <1>3
<1> QED BY <1>1, <1>2, <1>3, <1>4 DEF Line

\* A line that is written keeps the types.
LEMMA TypesWriteLine ==
  ASSUME LogTypes, WriteLine
  PROVE  LogTypes'
<1>1. last + 1 \in 1 .. MaxLines /\ last + 1 \in Line /\ last' = last + 1
  BY NextLine
<1>2. PICK n \in 1 .. MaxLines : n = last + 1
  BY <1>1
<1>3. log' \in [lines : Seq(1 .. MaxLines), ends : BOOLEAN, truncs : 0 .. MaxTruncs]
  <2>1. log.lines \in Seq(1 .. MaxLines)
    BY DEF LogTypes
  <2>2. PICK l \in Seq(1 .. MaxLines) : l = Append(log.lines, n)
    BY <2>1, AppendProperties
  <2>3. log' = [log EXCEPT !.lines = l]
    BY <1>2, <2>2 DEF WriteLine
  <2> QED BY <2>2, <2>3 DEF LogTypes
<1>4. last' \in 0 .. MaxLines
  BY <1>1, Bounds
<1>5. UNCHANGED <<server, tail, events, told>>
  BY DEF WriteLine, TailUnchanged
<1> QED BY <1>3, <1>4, <1>5 DEF LogTypes

\* So does a truncation.
LEMMA TypesTruncate ==
  ASSUME LogTypes, Truncate
  PROVE  LogTypes'
<1>1. log' \in [lines : Seq(1 .. MaxLines), ends : BOOLEAN, truncs : 0 .. MaxTruncs]
  <2>1. PICK l \in Seq(1 .. MaxLines) : l = <<>>
    BY EmptySeq
  <2>2. PICK t \in 0 .. MaxTruncs : t = log.truncs + 1
    <3>1. log.truncs \in 0 .. MaxTruncs
      BY DEF LogTypes
    <3>2. log.truncs < MaxTruncs
      BY DEF Truncate
    <3> QED BY <3>1, <3>2, Bounds
  <2>3. log' = [log EXCEPT !.lines = l, !.truncs = t]
    BY <2>1, <2>2 DEF Truncate, LogTypes
  <2> QED BY <2>3 DEF LogTypes
<1>2. tail' \in [on : BOOLEAN, pos : 0 .. MaxLines, stale : BOOLEAN, cuts : 0 .. MaxCuts, whole : BOOLEAN]
  <2>1. PICK b \in BOOLEAN : b = (tail.stale \/ tail.pos > 0)
    OBVIOUS
  <2>2. tail' = [tail EXCEPT !.stale = b]
    BY <2>1 DEF Truncate, LogTypes
  <2> QED BY <2>2 DEF LogTypes
<1>3. UNCHANGED <<server, last, events, told>>
  BY DEF Truncate
<1> QED BY <1>1, <1>2, <1>3 DEF LogTypes

\* So do an instance that the pass finds and a tail that starts.
LEMMA TypesStarts ==
  ASSUME LogTypes, TailInv, NewInstance \/ TailStarts
  PROVE  LogTypes'
<1>1. CASE NewInstance
  <2>1. server' = [server EXCEPT !.known = TRUE] /\ UNCHANGED <<log, last, tail, events, told>>
    BY <1>1 DEF NewInstance, TailUnchanged
  <2> QED BY <2>1 DEF LogTypes
<1>2. CASE TailStarts
  <2>1. PICK n \in 0 .. MaxLines : n = Len(log.lines)
    <3>1. PICK n \in Nat : n = Len(log.lines)
      BY LenProperties DEF LogTypes
    <3> QED BY <3>1, Bounds DEF TailInv, LogTypes
  <2>2. PICK b \in BOOLEAN : b = (log.lines = <<>>)
    OBVIOUS
  <2>3. tail' = [tail EXCEPT !.on = TRUE, !.pos = n, !.whole = b] /\ UNCHANGED <<server, log, last, events, told>>
    BY <1>2, <2>1, <2>2 DEF TailStarts
  <2> QED BY <2>3 DEF LogTypes
<1> QED BY <1>1, <1>2

\* The tail makes an event of a line of the log and is in that line then: in the next
\* one or the same one, if the log was not truncated behind it.
LEMMA TellsAre ==
  ASSUME LogTypes, TailInv, TailTells
  PROVE  \E k \in 1 .. Len(log.lines), n \in 1 .. MaxLines :
           /\ n = log.lines[k] /\ events' = Append(events, AddEvent(n)) /\ told' = Append(told, n)
           /\ UNCHANGED <<server, log, last>> /\ tail.on
           /\ tail' \in [on : BOOLEAN, pos : 0 .. MaxLines, stale : BOOLEAN, cuts : 0 .. MaxCuts, whole : BOOLEAN]
           /\ tail'.on /\ tail'.pos = k /\ ~tail'.stale
           /\ ~tail.stale => k \in {tail.pos, tail.pos + 1}
           /\ tail'.whole => tail.whole /\ ~tail.stale /\ k = tail.pos + 1
<1>1. PICK len \in Nat : len = Len(log.lines) /\ len <= MaxLines /\ DOMAIN log.lines = 1 .. len
  <2>1. PICK l \in Nat : l = Len(log.lines) /\ DOMAIN log.lines = 1 .. l
    BY LenProperties DEF LogTypes
  <2> QED BY <2>1, Bounds DEF TailInv, LogTypes
<1>2. ASSUME NEW k \in 1 .. len, Tell(k)
      PROVE  \E n \in 1 .. MaxLines :
           /\ n = log.lines[k] /\ events' = Append(events, AddEvent(n)) /\ told' = Append(told, n)
           /\ UNCHANGED <<server, log, last>> /\ tail.on
  <2>1. PICK n \in 1 .. MaxLines : n = log.lines[k]
    BY <1>1, ElementOfSeq DEF LogTypes
  <2> QED BY <1>2, <2>1 DEF Tell
<1>3. PICK p \in Nat, c \in Nat : p = tail.pos /\ c = tail.cuts /\ c \in 0 .. MaxCuts
  BY Bounds DEF LogTypes
<1>4. \A k \in 1 .. len : k \in 0 .. MaxLines
  BY <1>1, Bounds
<1>5. CASE TailReads
  <2>1. ~tail.stale /\ p < len /\ Tell(p + 1) /\ tail' = [tail EXCEPT !.pos = p + 1]
    BY <1>1, <1>3, <1>5 DEF TailReads
  <2>2. p + 1 \in 1 .. len
    BY <2>1
  <2>3. tail.on
    BY <2>1 DEF Tell
  <2>4. /\ tail' \in [on : BOOLEAN, pos : 0 .. MaxLines, stale : BOOLEAN, cuts : 0 .. MaxCuts, whole : BOOLEAN]
        /\ tail'.on /\ tail'.pos = p + 1 /\ ~tail'.stale /\ tail'.whole = tail.whole
    BY <1>4, <2>1, <2>2, <2>3 DEF LogTypes
  <2> QED BY <1>1, <1>2, <1>3, <2>1, <2>2, <2>4
<1>6. CASE TailReadsRest
  <2>1. ~tail.stale /\ p > 0 /\ c < MaxCuts /\ Tell(p) /\ tail' = [tail EXCEPT !.cuts = c + 1, !.whole = FALSE]
    BY <1>3, <1>6 DEF TailReadsRest
  <2>2. p \in 1 .. len /\ c + 1 \in 0 .. MaxCuts
    <3>1. p <= len
      BY <1>1, <1>3, <2>1 DEF TailInv
    <3>2. PICK max \in Nat : max = MaxCuts
      BY Bounds
    <3>3. c < max /\ c + 1 \in 0 .. max
      BY <2>1, <3>2
    <3> QED BY <2>1, <3>1, <3>2, <3>3
  <2>3. tail.on
    BY <2>1 DEF Tell
  <2>4. /\ tail' \in [on : BOOLEAN, pos : 0 .. MaxLines, stale : BOOLEAN, cuts : 0 .. MaxCuts, whole : BOOLEAN]
        /\ tail'.on /\ tail'.pos = p /\ ~tail'.stale /\ ~tail'.whole
    BY <1>3, <2>1, <2>2, <2>3 DEF LogTypes
  <2> QED BY <1>1, <1>2, <1>3, <2>1, <2>2, <2>4
<1>7. CASE TailReadsOver
  <2>1. PICK k \in 1 .. len : /\ tail.stale /\ Tell(k)
                             /\ tail' = [tail EXCEPT !.pos = k, !.stale = FALSE, !.whole = FALSE]
    BY <1>1, <1>7 DEF TailReadsOver
  <2>2. tail.on
    BY <2>1 DEF Tell
  <2>3. /\ tail' \in [on : BOOLEAN, pos : 0 .. MaxLines, stale : BOOLEAN, cuts : 0 .. MaxCuts, whole : BOOLEAN]
        /\ tail'.on /\ tail'.pos = k /\ ~tail'.stale /\ ~tail'.whole
    BY <1>4, <2>1, <2>2 DEF LogTypes
  <2> QED BY <1>1, <1>2, <2>1, <2>3
<1> QED BY <1>5, <1>6, <1>7 DEF TailTells

\* What the tail tells has its type.
LEMMA TypesTells ==
  ASSUME LogTypes, TailInv, TailTells
  PROVE  LogTypes'
<1>1. PICK k \in 1 .. Len(log.lines), n \in 1 .. MaxLines :
        /\ n = log.lines[k] /\ events' = Append(events, AddEvent(n)) /\ told' = Append(told, n)
        /\ UNCHANGED <<server, log, last>>
        /\ tail' \in [on : BOOLEAN, pos : 0 .. MaxLines, stale : BOOLEAN, cuts : 0 .. MaxCuts, whole : BOOLEAN]
  BY TellsAre
<1>2. PICK e \in ThisEvent : e = AddEvent(n)
  BY MessagesAre, Bounds
<1>3. events' \in Seq(ThisEvent) /\ told' \in Seq(1 .. MaxLines)
  BY <1>1, <1>2, AppendProperties DEF LogTypes
<1> QED BY <1>1, <1>3 DEF LogTypes

\* So has a reset.
LEMMA TypesTailResets ==
  ASSUME LogTypes, TailResets
  PROVE  LogTypes'
<1>1. PICK e \in ThisEvent : e = ResetEvent
  BY MessagesAre
<1>2. PICK none \in Seq(1 .. MaxLines) : none = <<>>
  BY EmptySeq
<1>3. /\ tail' = [tail EXCEPT !.pos = 0, !.stale = FALSE, !.whole = TRUE]
      /\ events' = Append(events, e) /\ told' = none /\ UNCHANGED <<server, log, last>>
  BY <1>1, <1>2 DEF TailResets
<1>4. 0 \in 0 .. MaxLines
  BY Bounds
<1>5. tail' \in [on : BOOLEAN, pos : 0 .. MaxLines, stale : BOOLEAN, cuts : 0 .. MaxCuts, whole : BOOLEAN]
  BY <1>3, <1>4 DEF LogTypes
<1>6. events' \in Seq(ThisEvent)
  BY <1>3, AppendProperties DEF LogTypes
<1> QED BY <1>3, <1>5, <1>6 DEF LogTypes

\* The steps of the log and its tail keep the types.
LEMMA TypesLogStep ==
  ASSUME Types, TailInv, LogStep
  PROVE  Types'
<1>1. LogTypes'
  BY TypesWriteLine, TypesTruncate, TypesStarts, TypesTells, TypesTailResets DEF LogStep, LogAlone, Types
<1>2. ReqTypes' /\ ConnTypes' /\ RowTypes'
  BY LogStepIs DEF Types, ReqTypes, ConnTypes, RowTypes
<1> QED BY <1>1, <1>2 DEF Types

\* An instance that starts again keeps them too.
LEMMA TypesReboot ==
  ASSUME Types, Reboot
  PROVE  Types'
<1>1. log' \in [lines : Seq(1 .. MaxLines), ends : BOOLEAN, truncs : 0 .. MaxTruncs]
  <2>1. PICK l \in Seq(1 .. MaxLines) : l = <<>>
    BY EmptySeq
  <2>2. log' = [log EXCEPT !.lines = l]
    BY <2>1 DEF Reboot, Restarts
  <2> QED BY <2>2 DEF Types, LogTypes
<1>2. server' \in [dynamic : Kinds, known : BOOLEAN, boots : 0 .. MaxBoots]
  <2>1. PICK b \in 0 .. MaxBoots : b = server.boots + 1
    BY Bounds, SMTT(60) DEF Types, LogTypes, Reboot, Restarts
  <2>2. server' = [server EXCEPT !.boots = b]
    BY <2>1 DEF Types, LogTypes, Reboot, Restarts
  <2> QED BY <2>2 DEF Types, LogTypes
<1>3. events' \in Seq(ThisEvent)
  <2>1. PICK n \in 0 .. Len(events) : events' = SubSeq(events, 1, n)
    BY DEF Reboot
  <2>2. PICK m \in Nat : m = Len(events)
    BY LenProperties DEF Types, LogTypes
  <2>3. CASE n = 0
    BY <2>1, <2>2, <2>3, SubSeqProperties DEF Types, LogTypes
  <2>4. CASE n # 0
    <3>1. 1 \in 1 .. m /\ n \in 1 .. m /\ 1 <= n + 1
      BY <2>1, <2>2, <2>4
    <3> QED BY <2>1, <2>2, <3>1, SubSeqProperties DEF Types, LogTypes
  <2> QED BY <2>3, <2>4
<1>4. tail' \in [on : BOOLEAN, pos : 0 .. MaxLines, stale : BOOLEAN, cuts : 0 .. MaxCuts, whole : BOOLEAN]
  <2>1. 0 \in 0 .. MaxLines
    BY Bounds
  <2>2. tail' = [tail EXCEPT !.on = FALSE, !.pos = 0, !.stale = FALSE, !.whole = FALSE]
    BY DEF Reboot, Restarts
  <2> QED BY <2>1, <2>2 DEF Types, LogTypes
<1>5. told' \in Seq(1 .. MaxLines)
  BY EmptySeq DEF Reboot, Restarts
<1>6. LogTypes'
  BY <1>1, <1>2, <1>3, <1>4, <1>5 DEF Types, LogTypes, Reboot, Restarts
<1>7. send' \in Frame /\ Len(send') <= SendCap
  <2>1. PICK n \in Nat : n = Len(send)
    BY LenProperties DEF Types, ConnTypes, Frame
  <2>2. PICK m \in ThisMessage : m = RawReset
    BY MessagesAre
  <2>3. PICK s : s = Append(send, m)
    OBVIOUS
  <2>4. s \in Frame /\ Len(s) = n + 1
    BY <2>1, <2>3, AppendProperties DEF Types, ConnTypes, Frame
  <2>5. (n < SendCap /\ send' = s) \/ send' = send
    BY <2>1, <2>2, <2>3 DEF Reboot
  <2>6. n < SendCap => n + 1 <= SendCap
    BY Bounds
  <2> QED BY <2>4, <2>5, <2>6 DEF Types, ConnTypes
<1> QED BY <1>6, <1>7 DEF Types, Reboot, Restarts, PageUnchanged, ReqTypes, ConnTypes, RowTypes, connVars

\* What the handlers leave alone.
LEMMA TypesHandler ==
  ASSUME Types, HandlerUnchanged, ReqTypes', rows' \in Text, ideal' \in Text
  PROVE  Types'
<1>1. LogTypes'
  BY DEF Types, LogTypes, HandlerUnchanged, logVars
<1>2. ConnTypes'
  BY DEF Types, ConnTypes, HandlerUnchanged, connVars, wireVars
<1>3. RowTypes'
  BY DEF Types, RowTypes, HandlerUnchanged
<1> QED BY <1>1, <1>2, <1>3 DEF Types

\* A request starts with the archives found and none listed.
LEMMA TypesRequest ==
  ASSUME Types, Request
  PROVE  Types'
<1>1. PICK view \in {"live", "archive", "list"}, c \in Cookies, n \in 0 .. MaxArchives :
        req' = [pc |-> "stat", view |-> view, cookie |-> c, changed |-> FALSE,
                left |-> [k \in 1 .. n |-> k], archives |-> <<>>, seen |-> {}]
  BY DEF Request
<1>2. PICK l \in Seq(1 .. MaxArchives) : l = [k \in 1 .. n |-> k]
  <2>1. n \in Nat /\ \A k \in 1 .. n : k \in 1 .. MaxArchives
    BY Bounds
  <2>2. PICK l : l = [k \in 1 .. n |-> k]
    OBVIOUS
  <2>3. l \in [1 .. n -> 1 .. MaxArchives]
    BY <2>1, <2>2
  <2>4. l \in Seq(1 .. MaxArchives)
    BY <2>1, <2>3, SeqDef, ZenonT(60)
  <2> QED BY <2>2, <2>4
<1>3. <<>> \in Seq(Archive) /\ c \in Wanted
  BY EmptySeq DEF Wanted
<1>4. ReqTypes'
  <2>1. req' = [pc |-> "stat", view |-> view, cookie |-> c, changed |-> FALSE,
                left |-> l, archives |-> <<>>, seen |-> {}]
    BY <1>1, <1>2
  <2> QED BY <1>3, <2>1 DEF ReqTypes
<1> QED BY <1>4, TypesHandler DEF Request, Types, RowTypes

\* The first archive left, and the ones behind it.
LEMMA LeftIs ==
  ASSUME ReqTypes, Stat
  PROVE  /\ Head(req.left) \in 1 .. MaxArchives /\ Tail(req.left) \in Seq(1 .. MaxArchives)
         /\ 1 \in DOMAIN req.left /\ req.left[1] = Head(req.left)
         /\ \A k \in DOMAIN Tail(req.left) : k + 1 \in DOMAIN req.left /\ k + 1 > 1
                                             /\ Tail(req.left)[k] = req.left[k + 1]
<1>1. PICK l \in Seq(1 .. MaxArchives) : l = req.left
  BY DEF ReqTypes
<1>2. PICK n \in Nat : n = Len(l) /\ DOMAIN l = 1 .. n
  BY LenProperties
<1>3. n # 0
  BY <1>1, <1>2, EmptySeq DEF Stat
<1>4. /\ Head(l) \in 1 .. MaxArchives /\ Tail(l) \in Seq(1 .. MaxArchives) /\ Head(l) = l[1]
      /\ Len(Tail(l)) = n - 1 /\ \A k \in 1 .. n - 1 : Tail(l)[k] = l[k + 1]
  <2>1. l # <<>>
    BY <1>1 DEF Stat
  <2>2. Head(l) = l[1]
    OBVIOUS
  <2>3. Head(l) \in 1 .. MaxArchives /\ Tail(l) \in Seq(1 .. MaxArchives) /\ Len(Tail(l)) = Len(l) - 1
        /\ \A k \in 1 .. Len(Tail(l)) : Tail(l)[k] = l[k + 1]
    BY <2>1, HeadTailProperties
  <2> QED BY <1>2, <2>2, <2>3
<1>5. DOMAIN Tail(l) = 1 .. n - 1
  BY <1>4, LenProperties
<1>6. 1 \in 1 .. n /\ \A k \in 1 .. n - 1 : k + 1 \in 1 .. n /\ k + 1 > 1
  BY <1>3
<1> QED BY <1>1, <1>2, <1>4, <1>5, <1>6

\* A directory is passed over.
LEMMA TypesStatDir ==
  ASSUME Types, StatDir
  PROVE  Types'
<1>1. PICK l \in Seq(1 .. MaxArchives) : l = Tail(req.left)
  BY LeftIs DEF StatDir, Types
<1>2. req' = [req EXCEPT !.left = l]
  BY <1>1 DEF StatDir
<1>3. ReqTypes'
  BY <1>2 DEF Types, ReqTypes
<1> QED BY <1>3, TypesHandler DEF StatDir, Types, RowTypes

\* An archive that cannot be read ends the request.
LEMMA TypesStatFails ==
  ASSUME Types, StatFails
  PROVE  Types'
<1>1. <<>> \in Seq(1 .. MaxArchives) /\ <<>> \in Seq(Archive)
  BY EmptySeq
<1>2. ReqTypes'
  BY <1>1 DEF StatFails, Types, ReqTypes
<1> QED BY <1>2, TypesHandler DEF StatFails, Types, RowTypes

\* A handler shows rows.
LEMMA TypesShow ==
  ASSUME Types, NEW text \in Text, Show(text)
  PROVE  Types'
<1>1. <<>> \in Seq(Archive)
  BY EmptySeq
<1>2. ReqTypes'
  BY <1>1 DEF Show, Types, ReqTypes
<1> QED BY <1>2, TypesHandler DEF Show, Types, RowTypes

\* What each view shows.
LEMMA ShownTexts ==
  ASSUME Types, ReadLogs \/ ReadArchive \/ ReadDynamicArchive \/ ListArchives \/ ListDynamicArchives
  PROVE  \E text \in Text :
           /\ Show(text)
           /\ Len(text) = 1 \/ Len(text) = 0
              \/ (MaxLinesCount(req.cookie) > 0 => Len(text) <= MaxLinesCount(req.cookie) + 1)
<1>1. PICK limit \in Int : limit = MaxLinesCount(req.cookie)
  BY CountIsInt DEF Types, ReqTypes
<1>2. CASE ReadLogs
  <2>1. PICK whole \in Text : whole = SplitLines(log.lines, log.ends)
    <3>1. log.lines \in Text
      BY Bounds DEF Types, LogTypes
    <3> QED BY <3>1, SplitIsText
  <2>2. Show(Window(whole, limit)) \/ Show(<<NoLine>>)
    BY <1>1, <1>2, <2>1 DEF ReadLogs
  <2> QED BY <1>1, <2>1, <2>2, WindowIs, NoLineIsText
<1>3. CASE ReadArchive \/ ReadDynamicArchive
  <2>1. PICK form \in {"text", "gzip", "damaged", "gone"}, n \in 0 .. MaxLines, ends \in BOOLEAN :
          Show(Window(Uncompressed(form, n, ends), MaxLinesCount(req.cookie)))
    BY <1>3 DEF ReadArchive, ReadDynamicArchive, ShowArchive
  <2>2. PICK whole \in Text : whole = Uncompressed(form, n, ends)
    BY UncompressedIsText
  <2> QED BY <1>1, <2>1, <2>2, WindowIs
<1>4. CASE ListArchives \/ ListDynamicArchives
  <2>1. Show(<<>>)
    BY <1>4 DEF ListArchives, ListDynamicArchives
  <2> QED BY <2>1, NoLineIsText
<1> QED BY <1>2, <1>3, <1>4

\* A file is inserted in the list of archives.
LEMMA TypesStatFile ==
  ASSUME Types, StatFile
  PROVE  Types'
<1>1. PICK t \in 1 .. MaxTime :
        req' = [req EXCEPT !.left = Tail(@), !.seen = @ \cup {Head(req.left)},
                  !.archives = Inserted(@, [name |-> Head(req.left), time |-> t])]
  BY DEF StatFile
<1>2. PICK h \in 1 .. MaxArchives, l \in Seq(1 .. MaxArchives) : h = Head(req.left) /\ l = Tail(req.left)
  BY LeftIs DEF StatFile, Types
<1>3. PICK e \in Archive : e = [name |-> h, time |-> t]
  BY DEF Archive
<1>4. PICK a \in Seq(Archive) : a = Inserted(req.archives, e)
  <2>1. req.archives \in Seq(Archive)
    BY DEF Types, ReqTypes
  <2> QED BY <2>1, InsertedIs DEF IsInserted
<1>5. req' = [req EXCEPT !.left = l, !.seen = req.seen \cup {h}, !.archives = a]
  BY <1>1, <1>2, <1>3, <1>4 DEF Types, ReqTypes
<1>6. ReqTypes'
  BY <1>5 DEF Types, ReqTypes
<1> QED BY <1>6, TypesHandler DEF StatFile, Types, RowTypes

\* The page connects.
LEMMA TypesConnect ==
  ASSUME Types, Connect
  PROVE  Types'
BY DEF Types, LogTypes, ReqTypes, ConnTypes, RowTypes, Connect, ServerUnchanged, wireVars, auxVars

\* A message is sent when there is room.
LEMMA SendIs ==
  ASSUME Types, NEW m \in ThisMessage, Len(send) < SendCap
  PROVE  Append(send, m) \in Frame /\ Len(Append(send, m)) <= SendCap
<1>1. PICK n \in Nat : n = Len(send)
  BY LenProperties DEF Types, ConnTypes, Frame
<1>2. Append(send, m) \in Frame /\ Len(Append(send, m)) = n + 1
  BY <1>1, AppendProperties DEF Types, ConnTypes, Frame
<1>3. n + 1 <= SendCap
  BY <1>1, Bounds
<1> QED BY <1>2, <1>3

\* The page asks for its server.
LEMMA TypesSubscribe ==
  ASSUME Types, Subscribe
  PROVE  Types'
<1>1. send' \in Frame /\ Len(send') <= SendCap
  <2>1. UnknownServer \in ThisMessage
    BY MessagesAre
  <2>2. send' = send \/ (Len(send) < SendCap /\ send' = Append(send, UnknownServer))
    BY DEF Subscribe
  <2> QED BY <2>1, <2>2, SendIs DEF Types, ConnTypes
<1>2. asked' \in BOOLEAN /\ listed' \in BOOLEAN
  BY DEF Subscribe, Types, ConnTypes
<1>3. UNCHANGED <<server, log, last, tail, events, told, req, rows, conn, batch, frames, auxVars>>
  BY DEF Subscribe, ServerUnchanged
<1>4. LogTypes' /\ ReqTypes' /\ RowTypes'
  BY <1>3 DEF Types, LogTypes, ReqTypes, RowTypes, auxVars
<1>5. ConnTypes'
  BY <1>1, <1>2, <1>3 DEF Types, ConnTypes
<1> QED BY <1>4, <1>5 DEF Types

\* The connection breaks.
LEMMA TypesBreak ==
  ASSUME Types, Break
  PROVE  Types'
<1>1. <<>> \in Frame /\ Len(<<>>) <= SendCap
  BY Bounds, EmptySeq DEF Frame
<1>2. /\ UNCHANGED <<server, log, last, tail, events, told, req, rows, asked, frames, auxVars>>
      /\ conn' = "closed" /\ listed' = FALSE /\ send' = <<>> /\ batch' = <<>>
  BY DEF Break, ServerUnchanged
<1>3. LogTypes' /\ ReqTypes' /\ RowTypes'
  BY <1>2 DEF Types, LogTypes, ReqTypes, RowTypes, auxVars
<1>4. ConnTypes'
  BY <1>1, <1>2 DEF Types, ConnTypes
<1> QED BY <1>3, <1>4 DEF Types

\* Another number of lines is wanted.
LEMMA TypesChangeMax ==
  ASSUME Types, ChangeMax
  PROVE  Types'
<1>1. PICK c \in Wanted : req' = [req EXCEPT !.cookie = c, !.changed = TRUE]
  BY DEF ChangeMax, Wanted
<1>2. ReqTypes'
  BY <1>1 DEF Types, ReqTypes
<1>3. LogTypes' /\ ConnTypes'
  BY DEF Types, LogTypes, ConnTypes, ChangeMax, logVars, connVars, wireVars
<1>4. RowTypes'
  BY DEF Types, RowTypes, ChangeMax
<1> QED BY <1>2, <1>3, <1>4 DEF Types

\* The first event on its way to the hub, and the ones behind it.
LEMMA EventsAre ==
  ASSUME LogTypes, events # <<>>
  PROVE  Head(events) \in ThisEvent /\ Tail(events) \in Seq(ThisEvent)
BY HeadTailProperties DEF LogTypes

\* The hub sends an event to the client, or evicts it.
LEMMA TypesBroadcast ==
  ASSUME Types, Broadcast
  PROVE  Types'
<1>1. PICK e \in ThisEvent, rest \in Seq(ThisEvent) : e = Head(events) /\ rest = Tail(events)
  BY EventsAre DEF Broadcast, Types
<1>2. events' = rest
  BY <1>1 DEF Broadcast
<1>3. e.line \in Line
  BY DEF ThisEvent
<1>4. LogTypes' /\ ReqTypes'
  BY <1>2 DEF Types, LogTypes, ReqTypes, Broadcast, ServerUnchanged
<1>5. send' \in Frame /\ Len(send') <= SendCap
  <2>1. Encoded(e) \in ThisMessage
    BY MessagesAre
  <2>2. send' = send \/ (Len(send) < SendCap /\ send' = Append(send, Encoded(e)))
    BY <1>1 DEF Broadcast
  <2> QED BY <2>1, <2>2, SendIs DEF Types, ConnTypes
<1>6. ideal' \in Text
  <2>1. PICK max \in Nat : max = PageMax
    BY PageMaxIs DEF Types
  <2>2. ideal' = ideal \/ ideal' = Handled(max, ideal, e)
    BY <1>1, <2>1, HandleEventIs DEF Broadcast
  <2> QED BY <2>2, HandledIs DEF Types, RowTypes
<1>7. missed' \subseteq Line
  BY <1>1, <1>3 DEF Broadcast, Types, RowTypes
<1>8. conn' \in {"none", "up", "closing", "closed"} /\ listed' \in BOOLEAN
  BY DEF Broadcast, Types, ConnTypes
<1>9. UNCHANGED <<rows, asked, batch, frames, cleared, lost>>
  BY DEF Broadcast
<1>10. ConnTypes'
  BY <1>5, <1>8, <1>9 DEF Types, ConnTypes
<1>11. RowTypes'
  BY <1>6, <1>7, <1>9 DEF Types, RowTypes
<1> QED BY <1>4, <1>10, <1>11 DEF Types

\* The writer takes, flushes and closes.
LEMMA TypesWriter ==
  ASSUME Types, WriterTake \/ WriterFlush \/ WriterClose
  PROVE  Types'
<1>1. UNCHANGED <<server, log, last, tail, events, told, req, rows, asked, listed, auxVars>>
  BY DEF WriterTake, WriterFlush, WriterClose, ServerUnchanged, connVars
<1>2. LogTypes' /\ ReqTypes' /\ RowTypes'
  BY <1>1 DEF Types, LogTypes, ReqTypes, RowTypes, auxVars
<1>3. conn' \in {"none", "up", "closing", "closed"}
  BY DEF Types, ConnTypes, WriterTake, WriterFlush, WriterClose, connVars
<1>4. PICK n \in Nat : n = Len(send)
  BY LenProperties DEF Types, ConnTypes, Frame
<1>5. send' \in Frame /\ Len(send') <= SendCap /\ batch' \in Frame
  <2>1. <<>> \in Frame /\ Len(<<>>) = 0 /\ 0 <= SendCap
    BY Bounds, EmptySeq DEF Frame
  <2>2. CASE WriterTake
    <3>1. PICK m \in ThisMessage, rest \in Frame : m = Head(send) /\ rest = Tail(send) /\ Len(rest) = n - 1
      BY <1>4, <2>2, HeadTailProperties DEF WriterTake, Types, ConnTypes, Frame
    <3>2. <<m>> \in Seq(ThisMessage)
      OBVIOUS
    <3>3. n - 1 <= SendCap
      BY <1>4, Bounds DEF Types, ConnTypes
    <3> QED BY <2>2, <3>1, <3>2, <3>3 DEF WriterTake, Frame
  <2>3. CASE WriterFlush
    BY <2>1, <2>3 DEF WriterFlush
  <2>4. CASE WriterClose
    BY <2>4 DEF WriterClose, wireVars, Types, ConnTypes
  <2> QED BY <2>2, <2>3, <2>4
<1>6. frames' \in Seq(Frame)
  <2>1. PICK frame \in Frame : frame = batch \o send
    BY ConcatProperties DEF Types, ConnTypes, Frame
  <2>2. Append(frames, frame) \in Seq(Frame)
    BY AppendProperties DEF Types, ConnTypes
  <2>3. frames' = frames \/ frames' = Append(frames, frame)
    BY <2>1 DEF WriterTake, WriterFlush, WriterClose, wireVars
  <2> QED BY <2>2, <2>3 DEF Types, ConnTypes
<1>7. ConnTypes'
  BY <1>1, <1>3, <1>5, <1>6 DEF Types, ConnTypes
<1> QED BY <1>2, <1>7 DEF Types

\* The part of a frame that is text, and what is not.
LEMMA FrameIs ==
  ASSUME NEW frame \in Frame
  PROVE  /\ DOMAIN frame = 1 .. Len(frame) /\ Len(frame) \in Nat
         /\ Decoded(frame) \subseteq 1 .. Len(frame)
         /\ \A k \in 1 .. Len(frame) : frame[k] \in ThisMessage /\ frame[k].event \in ThisEvent
<1>1. DOMAIN frame = 1 .. Len(frame) /\ Len(frame) \in Nat
  BY LenProperties DEF Frame
<1>2. \A k \in 1 .. Len(frame) : frame[k] \in ThisMessage
  BY ElementOfSeq DEF Frame
<1> QED BY <1>1, <1>2 DEF ThisMessage, Decoded

\* What is shown of a frame is rows.
LEMMA ShownIsText ==
  ASSUME NEW max \in Nat, NEW text \in Text, NEW frame \in Frame, NEW parts
  PROVE  ShownWith(max, text, frame, parts) \in Text
<1>1. Len(frame) \in 0 .. Len(frame)
  BY FrameIs
<1> QED BY <1>1, ShownIs

\* The page takes the first frame.
LEMMA TypesHandleFrame ==
  ASSUME Types, HandleFrame
  PROVE  Types'
<1>1. PICK frame \in Frame, rest \in Seq(Frame) : frame = Head(frames) /\ rest = Tail(frames)
  BY HeadTailProperties DEF HandleFrame, ShowFrame, Types, ConnTypes
<1>2. frames' = rest /\ rows' = Shown(rows, frame, Decoded(frame))
  BY <1>1 DEF HandleFrame, ShowFrame
<1>3. rows' \in Text
  <2>1. PICK max \in Nat : max = PageMax
    BY PageMaxIs DEF Types
  <2>2. rows' = ShownWith(max, rows, frame, Decoded(frame))
    BY <1>2, <2>1, ShownIsWith
  <2> QED BY <2>2, ShownIsText DEF Types, RowTypes
<1>4. lost' \in Nat
  <2>1. PICK some : some = {k \in DOMAIN frame \ Decoded(frame) : frame[k].form = "event"}
    OBVIOUS
  <2>2. Cardinality(some) \in Nat
    BY <2>1, FrameIs, BoundedFinite
  <2>3. lost' = lost + Cardinality(some)
    BY <1>1, <2>1 DEF HandleFrame, ShowFrame
  <2> QED BY <2>2, <2>3 DEF Types, RowTypes
<1>5. cleared' \in BOOLEAN
  BY DEF HandleFrame, ShowFrame
<1>6. UNCHANGED <<server, log, last, tail, events, told, req, connVars, send, batch, ideal, missed>>
  BY DEF HandleFrame, ShowFrame, ServerUnchanged
<1>7. LogTypes' /\ ReqTypes'
  BY <1>6 DEF Types, LogTypes, ReqTypes
<1>8. ConnTypes'
  BY <1>2, <1>6 DEF Types, ConnTypes, connVars
<1>9. RowTypes'
  BY <1>3, <1>4, <1>5, <1>6 DEF Types, RowTypes
<1> QED BY <1>7, <1>8, <1>9 DEF Types

\* Every step keeps the types.
LEMMA TypesNext ==
  ASSUME Types, TailInv, [Next]_vars
  PROVE  Types'
<1>1. CASE ReadLogs \/ ReadArchive \/ ReadDynamicArchive \/ ListArchives \/ ListDynamicArchives
  BY <1>1, ShownTexts, TypesShow
<1>2. CASE UNCHANGED vars
  BY <1>2 DEF vars, logVars, connVars, wireVars, auxVars, Types, LogTypes, ReqTypes, ConnTypes, RowTypes
<1>3. CASE LogStep
  BY <1>3, TypesLogStep
<1> QED BY <1>1, <1>2, <1>3, TypesReboot, TypesRequest, TypesStatFile, TypesStatDir, TypesStatFails,
           TypesConnect, TypesSubscribe, TypesBreak, TypesChangeMax, TypesBroadcast, TypesWriter,
           TypesHandleFrame DEF Next, LogStep, LogAlone, TailTells

\* The types of the events and messages of this log are those of all events.
LEMMA TypesAreTypes ==
  ASSUME Types
  PROVE  TypeOK
<1>1. ThisEvent \subseteq Event
  BY Bounds DEF ThisEvent, Event, Line
<1>2. ThisMessage \subseteq Message
  BY <1>1 DEF ThisMessage, Message
<1>3. Frame \subseteq Seq(Message)
  BY <1>2, SeqMonotonic DEF Frame
<1>4. events \in Seq(Event)
  BY <1>1, SeqMonotonic DEF Types, LogTypes
<1>5. send \in Seq(Message) /\ batch \in Seq(Message) /\ frames \in Seq(Seq(Message))
  BY <1>3, SeqMonotonic DEF Types, ConnTypes
<1> QED BY <1>4, <1>5 DEF TypeOK, Types, LogTypes, ReqTypes, ConnTypes, RowTypes, Wanted, Archive, Text, Line

-----------------------------------------------------------------------------
(* The tail and its log *)

\* In the beginning the tail is off.
LEMMA TailInit == ASSUME Init PROVE TailInv
<1>1. /\ log.lines = <<>> /\ last = 0 /\ told = <<>> /\ Len(<<>>) = 0
      /\ ~tail.on /\ ~tail.stale /\ ~tail.whole /\ tail.pos = 0
  BY DEF Init
<1> QED BY <1>1 DEF TailInv

\* What leaves log and tail alone.
LEMMA TailSame ==
  ASSUME TailInv, UNCHANGED <<log, last, tail, told>>
  PROVE  TailInv'
BY DEF TailInv

\* A line is written behind the tail.
LEMMA TailWriteLine ==
  ASSUME LogTypes, TailInv, WriteLine
  PROVE  TailInv'
<1>1. PICK lines \in Seq(1 .. MaxLines), n \in 1 .. MaxLines, len \in Nat, l \in Nat, p \in Nat :
        lines = log.lines /\ n = last + 1 /\ len = Len(lines) /\ l = last /\ p = tail.pos
  <2>1. PICK lines \in Seq(1 .. MaxLines) : lines = log.lines
    BY DEF LogTypes
  <2>2. Len(lines) \in Nat
    BY LenProperties
  <2>3. tail.pos \in Nat
    BY Bounds DEF LogTypes
  <2> QED BY <2>1, <2>2, <2>3, NextLine
<1>2. log'.lines = Append(lines, n) /\ last' = l + 1 /\ UNCHANGED <<tail, told>>
  BY <1>1 DEF WriteLine, TailUnchanged, LogTypes
<1>3. PICK more : more = Append(lines, n)
  OBVIOUS
<1>4. Len(more) = len + 1 /\ \A k \in 1 .. len : more[k] = lines[k]
  BY <1>1, <1>3, AppendProperties
<1>5. len <= l /\ (~tail.stale => p <= len) /\ (~tail.on => ~tail.stale /\ p = 0 /\ told = <<>>)
  BY <1>1 DEF TailInv
<1>6. len + 1 <= l + 1 /\ (p <= len => p <= len + 1 /\ \A k \in 1 .. p : k \in 1 .. len)
  BY <1>5
<1>7. (tail.whole /\ ~tail.stale) => Len(told) = p /\ \A k \in 1 .. p : told[k] = more[k]
  BY <1>1, <1>4, <1>5, <1>6 DEF TailInv
<1> QED BY <1>1, <1>2, <1>3, <1>4, <1>5, <1>6, <1>7 DEF TailInv

\* A truncation leaves a tail that read something behind its end.
LEMMA TailTruncate ==
  ASSUME LogTypes, TailInv, Truncate
  PROVE  TailInv'
<1>1. PICK p \in Nat, l \in Nat : p = tail.pos /\ l = last
  BY Bounds DEF LogTypes
<1>2. log'.lines = <<>> /\ Len(<<>>) = 0 /\ UNCHANGED <<last, told>>
  BY DEF Truncate, LogTypes
<1>3. tail' = [tail EXCEPT !.stale = (tail.stale \/ p > 0)]
  BY <1>1 DEF Truncate, LogTypes
<1>4. tail'.on = tail.on /\ tail'.pos = p /\ tail'.whole = tail.whole
  BY <1>1, <1>3 DEF LogTypes
<1>9. tail'.stale <=> (tail.stale \/ p > 0)
  BY <1>1, <1>3 DEF LogTypes
<1>5. ~tail'.stale => ~tail.stale /\ p = 0
  BY <1>1, <1>9
<1>6. ~tail.on => ~tail'.stale /\ p = 0 /\ told = <<>>
  <2>1. ~tail.on => ~tail.stale /\ p = 0 /\ told = <<>>
    BY <1>1 DEF TailInv
  <2>2. ~(0 > 0)
    OBVIOUS
  <2>3. p = 0 /\ ~tail.stale => ~tail'.stale
    BY <1>1, <1>9
  <2> QED BY <2>1, <2>3
<1>7. (tail'.whole /\ ~tail'.stale) => Len(told) = 0
  BY <1>1, <1>4, <1>5 DEF TailInv
<1>8. \A k \in 1 .. 0 : FALSE
  OBVIOUS
<1> QED BY <1>1, <1>2, <1>4, <1>5, <1>6, <1>7, <1>8 DEF TailInv

\* A tail starts behind the last line.
LEMMA TailStartsIn ==
  ASSUME LogTypes, TailInv, TailStarts
  PROVE  TailInv'
<1>1. PICK len \in Nat : len = Len(log.lines)
  BY LenProperties DEF LogTypes
<1>2. UNCHANGED <<log, last, told>> /\ ~tail.on /\ ~tail.stale /\ told = <<>> /\ Len(<<>>) = 0
  BY DEF TailStarts, TailInv
<1>3. tail' = [tail EXCEPT !.on = TRUE, !.pos = len, !.whole = (log.lines = <<>>)]
  BY <1>1 DEF TailStarts
<1>4. tail'.on /\ tail'.pos = len /\ tail'.whole = (log.lines = <<>>)
  BY <1>3 DEF LogTypes
<1>5. log.lines = <<>> => len = 0
  BY <1>1, EmptySeq
<1>6. \A k \in 1 .. 0 : FALSE
  OBVIOUS
<1>7. tail'.stale = tail.stale
  BY <1>3 DEF LogTypes
<1>8. Len(log.lines) <= last
  BY DEF TailInv
<1>9. tail'.whole => len = 0 /\ Len(told) = len
  BY <1>2, <1>4, <1>5
<1>10. (tail'.whole /\ ~tail'.stale) =>
         Len(told) = tail'.pos /\ \A k \in 1 .. tail'.pos : told[k] = log.lines[k]
  BY <1>4, <1>6, <1>9
<1>11. len <= len
  BY <1>1
<1> QED BY <1>1, <1>2, <1>4, <1>8, <1>10, <1>11 DEF TailInv

\* A tail that makes an event of a line is in it.
LEMMA TailTellsIn ==
  ASSUME LogTypes, TailInv, TailTells
  PROVE  TailInv'
<1>1. PICK k \in 1 .. Len(log.lines), n \in 1 .. MaxLines :
        /\ n = log.lines[k] /\ told' = Append(told, n) /\ UNCHANGED <<log, last>>
        /\ tail'.on /\ tail'.pos = k /\ ~tail'.stale
        /\ tail'.whole => tail.whole /\ ~tail.stale /\ k = tail.pos + 1
  BY TellsAre
<1>2. PICK len \in Nat, j \in Nat, t \in Seq(1 .. MaxLines) : len = Len(log.lines) /\ j = Len(told) /\ t = told
  BY LenProperties DEF LogTypes
<1>3. k \in 1 .. len /\ k <= len
  BY <1>2
<1>4. PICK more : more = Append(t, n)
  OBVIOUS
<1>5. Len(more) = j + 1 /\ more[j + 1] = n /\ \A i \in 1 .. j : more[i] = t[i]
  BY <1>2, <1>4, AppendProperties
<1>6. ASSUME tail'.whole PROVE Len(more) = k /\ \A i \in 1 .. k : more[i] = log.lines[i]
  <2>1. j = tail.pos /\ (\A i \in 1 .. j : t[i] = log.lines[i]) /\ k = j + 1
    BY <1>1, <1>2, <1>6 DEF TailInv
  <2>2. \A i \in 1 .. j + 1 : i \in 1 .. j \/ i = j + 1
    BY <1>2
  <2> QED BY <1>1, <1>5, <2>1, <2>2
<1>7. Len(log.lines) <= last
  BY DEF TailInv
<1> QED BY <1>1, <1>2, <1>3, <1>4, <1>6, <1>7 DEF TailInv

\* A reset takes it to the start of its log.
LEMMA TailResetsIn ==
  ASSUME LogTypes, TailInv, TailResets
  PROVE  TailInv'
<1>1. PICK len \in Nat : len = Len(log.lines)
  BY LenProperties DEF LogTypes
<1>2. UNCHANGED <<log, last>> /\ tail.on /\ told' = <<>> /\ Len(<<>>) = 0
  BY DEF TailResets
<1>3. tail' = [tail EXCEPT !.pos = 0, !.stale = FALSE, !.whole = TRUE]
  BY DEF TailResets
<1>4. tail'.on /\ tail'.pos = 0 /\ ~tail'.stale
  BY <1>2, <1>3 DEF LogTypes
<1>5. 0 <= len /\ \A k \in 1 .. 0 : FALSE
  BY <1>1
<1> QED BY <1>1, <1>2, <1>4, <1>5 DEF TailInv

\* The tail of an instance that starts again is off.
LEMMA TailReboot ==
  ASSUME LogTypes, TailInv, Reboot
  PROVE  TailInv'
<1>1. PICK l \in Nat : l = last
  BY Bounds DEF LogTypes
<1>2. log'.lines = <<>> /\ told' = <<>> /\ Len(<<>>) = 0 /\ last' = last
  BY DEF Reboot, Restarts, LogTypes
<1>3. ~tail'.on /\ tail'.pos = 0 /\ ~tail'.stale /\ ~tail'.whole
  BY DEF Reboot, Restarts, LogTypes
<1>4. 0 <= l /\ 0 <= 0
  BY <1>1
<1> QED BY <1>1, <1>2, <1>3, <1>4 DEF TailInv

\* The steps of the page and its wire leave log and tail alone.
LEMMA PageStepIs ==
  ASSUME Types, [Next]_vars, ~LogStep, ~Reboot
  PROVE  UNCHANGED <<server, log, last, tail, told>>
<1>1. CASE ReadLogs \/ ReadArchive \/ ReadDynamicArchive \/ ListArchives \/ ListDynamicArchives
  <2>1. PICK text : Show(text)
    BY <1>1, ShownTexts, SMTT(60)
  <2> QED BY <2>1 DEF Show, HandlerUnchanged, logVars
<1>2. CASE \/ Request \/ StatFile \/ StatDir \/ StatFails \/ Connect \/ Subscribe \/ Break \/ ChangeMax
           \/ Broadcast \/ WriterTake \/ WriterFlush \/ WriterClose \/ HandleFrame \/ UNCHANGED vars
  BY <1>2 DEF Request, StatFile, StatDir, StatFails, HandlerUnchanged, logVars, Connect, Subscribe, Break,
     ChangeMax, Broadcast, WriterTake, WriterFlush, WriterClose, HandleFrame, ShowFrame, ServerUnchanged, vars
<1> QED BY <1>1, <1>2 DEF Next, LogStep, LogAlone, TailTells

\* Every step keeps the tail in its log.
LEMMA TailNext ==
  ASSUME Types, TailInv, [Next]_vars
  PROVE  TailInv'
<1>1. CASE NewInstance
  BY <1>1, TailSame DEF NewInstance, TailUnchanged
<1>2. CASE ~LogStep /\ ~Reboot
  BY <1>2, PageStepIs, TailSame
<1> QED BY <1>1, <1>2, TailWriteLine, TailTruncate, TailStartsIn, TailTellsIn, TailResetsIn, TailReboot
        DEF LogStep, LogAlone, Types

-----------------------------------------------------------------------------
(* The list of archives *)

\* The files that are left come after those seen, in the order of their names.
LeftInOrder ==
  /\ \A k \in DOMAIN req.left : \A m \in req.seen : m < req.left[k]
  /\ \A i, j \in DOMAIN req.left : i < j => req.left[i] < req.left[j]

ListInOrder ==
  /\ Sorted(req.archives) /\ Names(req.archives) = req.seen
  /\ Len(req.archives) = Cardinality(req.seen)

ArchivesInv == LeftInOrder /\ ListInOrder

\* No archives are in order.
LEMMA EmptyListInOrder ==
  ASSUME NEW r, r.archives = <<>>, r.seen = {}
  PROVE  Sorted(r.archives) /\ Names(r.archives) = r.seen /\ Len(r.archives) = Cardinality(r.seen)
BY FS_EmptySet DEF Sorted, Names

\* In the beginning no archive was listed.
LEMMA ArchivesInit == ASSUME Init PROVE ArchivesInv
<1>1. req.archives = <<>> /\ req.seen = {} /\ req.left = <<>>
  BY DEF Init
<1>2. ListInOrder
  BY <1>1, EmptyListInOrder DEF ListInOrder
<1> QED BY <1>1, <1>2 DEF ArchivesInv, LeftInOrder

\* A step that leaves the archives of the request alone.
LEMMA ArchivesSame ==
  ASSUME ArchivesInv, req'.archives = req.archives, req'.seen = req.seen, req'.left = req.left
  PROVE  ArchivesInv'
BY DEF ArchivesInv, LeftInOrder, ListInOrder

\* An archive is inserted before the first one that is older, or at the end
\* (log_utils.go:57-68): the list stays in order.
LEMMA ArchivesStatFile ==
  ASSUME ReqTypes, ArchivesInv, StatFile
  PROVE  ArchivesInv'
<1>1. PICK t \in 1 .. MaxTime :
        req' = [req EXCEPT !.left = Tail(@), !.seen = @ \cup {Head(req.left)},
                  !.archives = Inserted(@, [name |-> Head(req.left), time |-> t])]
  BY DEF StatFile
<1>2. PICK h \in 1 .. MaxArchives, l \in Seq(1 .. MaxArchives) :
        /\ h = Head(req.left) /\ l = Tail(req.left)
        /\ 1 \in DOMAIN req.left /\ req.left[1] = h
        /\ \A k \in DOMAIN l : k + 1 \in DOMAIN req.left /\ k + 1 > 1 /\ l[k] = req.left[k + 1]
  BY LeftIs DEF StatFile
<1>3. PICK e \in Archive : e = [name |-> h, time |-> t]
  BY DEF Archive
<1>4. PICK a \in Seq(Archive) : a = req.archives
  BY DEF ReqTypes
<1>5. \A m \in req.seen : m < h
  BY <1>2 DEF ArchivesInv, LeftInOrder
<1>6. \A k \in DOMAIN a : a[k].name < e.name
  BY <1>3, <1>4, <1>5 DEF ArchivesInv, ListInOrder, Names
<1>7. PICK b \in Seq(Archive) : /\ b = Inserted(a, e) /\ Len(b) = Len(a) + 1
                                /\ Sorted(b) /\ Names(b) = Names(a) \cup {e.name}
  BY <1>4, <1>6, InsertedSorted DEF ArchivesInv, ListInOrder
<1>8. req'.left = l /\ req'.seen = req.seen \cup {h} /\ req'.archives = b
  BY <1>1, <1>2, <1>3, <1>4, <1>7 DEF ReqTypes
<1>9. ListInOrder'
  <2>1. h \notin req.seen
    BY <1>2, <1>5
  <2>2. IsFiniteSet(req.seen)
    <3>1. req.seen \subseteq 1 .. MaxArchives
      BY DEF ReqTypes
    <3> QED BY <3>1, Bounds, BoundedFinite
  <2>3. Cardinality(req.seen \cup {h}) = Cardinality(req.seen) + 1
    BY <2>1, <2>2, FS_AddElement
  <2>4. Names(b) = req.seen \cup {h}
    BY <1>3, <1>4, <1>7 DEF ArchivesInv, ListInOrder
  <2>5. Len(b) = Cardinality(req.seen \cup {h})
    BY <1>4, <1>7, <2>3 DEF ArchivesInv, ListInOrder
  <2> QED BY <1>7, <1>8, <2>4, <2>5 DEF ListInOrder
<1>10. LeftInOrder'
  <2>1. ASSUME NEW k \in DOMAIN l PROVE h < l[k] /\ \A m \in req.seen : m < l[k]
    <3>1. req.left[1] < req.left[k + 1]
      BY <1>2 DEF ArchivesInv, LeftInOrder
    <3> QED BY <1>2, <3>1 DEF ArchivesInv, LeftInOrder
  <2>2. ASSUME NEW i \in DOMAIN l, NEW j \in DOMAIN l, i < j PROVE l[i] < l[j]
    <3>1. i \in Int /\ j \in Int
      BY <1>2, LenProperties
    <3>2. i + 1 < j + 1
      BY <2>2, <3>1
    <3> QED BY <1>2, <3>2 DEF ArchivesInv, LeftInOrder
  <2>3. \A k \in DOMAIN l : \A m \in req.seen \cup {h} : m < l[k]
    BY <2>1
  <2> QED BY <1>8, <2>2, <2>3 DEF LeftInOrder
<1> QED BY <1>9, <1>10 DEF ArchivesInv

\* A directory is not listed.
LEMMA ArchivesStatDir ==
  ASSUME ReqTypes, ArchivesInv, StatDir
  PROVE  ArchivesInv'
<1>1. PICK l \in Seq(1 .. MaxArchives) :
        /\ l = Tail(req.left)
        /\ \A k \in DOMAIN l : k + 1 \in DOMAIN req.left /\ l[k] = req.left[k + 1]
  BY LeftIs DEF StatDir
<1>2. req'.left = l /\ req'.seen = req.seen /\ req'.archives = req.archives
  BY <1>1 DEF StatDir, ReqTypes
<1>3. ASSUME NEW i \in DOMAIN l, NEW j \in DOMAIN l, i < j PROVE l[i] < l[j]
  <2>1. i \in Int /\ j \in Int
    BY <1>1, LenProperties
  <2>2. i + 1 < j + 1
    BY <1>3, <2>1
  <2> QED BY <1>1, <2>2 DEF ArchivesInv, LeftInOrder
<1>4. \A k \in DOMAIN l : \A m \in req.seen : m < l[k]
  BY <1>1 DEF ArchivesInv, LeftInOrder
<1> QED BY <1>2, <1>3, <1>4 DEF ArchivesInv, LeftInOrder, ListInOrder

\* A request starts with an empty list.
LEMMA ArchivesRequest ==
  ASSUME ReqTypes, Request
  PROVE  ArchivesInv'
<1>1. PICK n \in 0 .. MaxArchives :
        req'.left = [k \in 1 .. n |-> k] /\ req'.archives = <<>> /\ req'.seen = {}
  BY DEF Request
<1>2. ListInOrder'
  BY <1>1, EmptyListInOrder DEF ListInOrder
<1> QED BY <1>1, <1>2 DEF ArchivesInv, LeftInOrder

\* The end of a request leaves its list as it is.
LEMMA ArchivesEnd ==
  ASSUME ReqTypes, ArchivesInv, StatFails \/ (\E text \in Text : Show(text))
  PROVE  ArchivesInv'
<1>1. req'.left = <<>> /\ req'.archives = <<>> /\ req'.seen = {}
  BY DEF StatFails, Show, ReqTypes
<1>2. ListInOrder'
  BY <1>1, EmptyListInOrder DEF ListInOrder
<1> QED BY <1>1, <1>2 DEF ArchivesInv, LeftInOrder

\* Every step keeps the list in order.
LEMMA ArchivesNext ==
  ASSUME Types, ArchivesInv, [Next]_vars
  PROVE  ArchivesInv'
<1>1. CASE ReadLogs \/ ReadArchive \/ ReadDynamicArchive \/ ListArchives \/ ListDynamicArchives
  BY <1>1, ShownTexts, ArchivesEnd DEF Types
<1>2. CASE ChangeMax
  <2>1. req'.archives = req.archives /\ req'.seen = req.seen /\ req'.left = req.left
    BY <1>2 DEF ChangeMax, Types, ReqTypes
  <2> QED BY <2>1, ArchivesSame
<1>3. CASE \/ Reboot \/ Connect \/ Subscribe \/ Break \/ Broadcast
           \/ WriterTake \/ WriterFlush \/ WriterClose \/ HandleFrame \/ UNCHANGED vars
  <2>1. req' = req
    BY <1>3 DEF Reboot, Restarts, PageUnchanged, Connect, Subscribe, Break,
       Broadcast, WriterTake, WriterFlush, WriterClose, HandleFrame, ShowFrame, ServerUnchanged, vars
  <2> QED BY <2>1, ArchivesSame
<1>4. CASE LogStep
  BY <1>4, LogStepIs, ArchivesSame
<1> QED BY <1>1, <1>2, <1>3, <1>4, ArchivesRequest, ArchivesStatFile, ArchivesStatDir, ArchivesEnd
        DEF Next, Types, LogStep, LogAlone, TailTells

\* A list in order has the newest archive first, and each one once.
LEMMA ArchivesAreNewestFirst ==
  ASSUME ArchivesInv
  PROVE  ArchivesNewestFirst
BY DEF ArchivesInv, ListInOrder, ArchivesNewestFirst, Sorted, Newer, Names

-----------------------------------------------------------------------------
(* The number of rows *)

\* An event keeps the bound, a reset establishes it.
LEMMA HandledBounded ==
  ASSUME NEW max \in Nat \ {0}, NEW text \in Text, NEW e \in ThisEvent,
         Len(text) <= max + 1 \/ e.type = "RESET"
  PROVE  Len(Handled(max, text, e)) <= max + 1
<1>1. PICK n \in Nat : n = Len(text)
  BY LenProperties DEF Text
<1>2. CASE e.type = "RESET"
  <2>1. Handled(max, text, e) = <<>>
    BY <1>2, HandledIs
  <2> QED BY <2>1
<1>3. CASE e.type # "RESET"
  <2>1. \/ ~(max > 0 /\ n + 1 > max) /\ Len(Handled(max, text, e)) = n + 1
        \/ Len(Handled(max, text, e)) = n
    BY <1>1, <1>3, HandledIs, ZenonT(60)
  <2>2. n <= max + 1
    BY <1>1, <1>3
  <2> QED BY <2>1, <2>2
<1> QED BY <1>2, <1>3

\* A row added to a full page removes one, and a reset removes them all
\* (server.tmpl:58-94).
LEMMA ShownBounded ==
  ASSUME NEW max \in Nat \ {0}, NEW text \in Text, NEW frame \in Frame, NEW parts \in SUBSET DOMAIN frame,
         Len(text) <= max + 1 \/ \E k \in parts : frame[k].event.type = "RESET"
  PROVE  Len(ShownWith(max, text, frame, parts)) <= max + 1
<1>1. PICK n \in Nat : n = Len(frame) /\ DOMAIN frame = 1 .. n
  BY FrameIs
<1>2. PICK f \in [0 .. n -> Text] :
        Shows(f, max, text, frame, parts) /\ ShownWith(max, text, frame, parts) = f[n]
  BY <1>1, ShownIs
<1> DEFINE Due(k) == Len(text) <= max + 1 \/ \E j \in parts : j <= k /\ frame[j].event.type = "RESET"
           P == {k \in 0 .. n : Due(k) => Len(f[k]) <= max + 1}
<1>3. 0 \in P
  <2>1. \A j \in parts : ~(j <= 0)
    BY <1>1
  <2>2. f[0] = text /\ 0 \in 0 .. n
    BY <1>2 DEF Shows
  <2> QED BY <2>1, <2>2
<1>4. ASSUME NEW k \in 1 .. n, k - 1 \in P PROVE k \in P
  <2>1. f[k - 1] \in Text /\ k \in 0 .. n
    <3>1. k - 1 \in 0 .. n
      OBVIOUS
    <3> QED BY <3>1
  <2>2. frame[k].event \in ThisEvent
    BY <1>1, FrameIs
  <2>3. f[k] = IF k \in parts THEN Handled(max, f[k - 1], frame[k].event) ELSE f[k - 1]
    BY <1>1, <1>2 DEF Shows
  <2>4. SUFFICES ASSUME Due(k) PROVE Len(f[k]) <= max + 1
    BY <2>1
  <2>5. CASE k \in parts /\ frame[k].event.type = "RESET"
    BY <2>1, <2>2, <2>3, <2>5, HandledBounded
  <2>6. CASE ~(k \in parts /\ frame[k].event.type = "RESET")
    <3>1. Due(k - 1)
      <4>1. \A j \in parts : j <= k /\ j # k => j <= k - 1
        BY <1>1
      <4> QED BY <2>4, <2>6, <4>1
    <3>2. Len(f[k - 1]) <= max + 1
      BY <1>4, <3>1
    <3> QED BY <2>1, <2>2, <2>3, <3>2, HandledBounded
  <2> QED BY <2>5, <2>6
<1>5. n \in P
  <2>1. n \in 0 .. n
    OBVIOUS
  <2> HIDE DEF P
  <2> QED BY <1>3, <1>4, <2>1, CountUp
<1>6. Due(n)
  <2>1. \A j \in parts : j <= n
    BY <1>1
  <2> QED BY <2>1
<1> QED BY <1>2, <1>5, <1>6

\* Before the page is there it has no rows.
RowsInv ==
  /\ req.pc # "done" => rows = <<>>
  /\ RowsBounded

\* In the beginning the page has no rows.
LEMMA RowsInit == ASSUME Init PROVE RowsInv
<1>1. rows = <<>> /\ req.cookie = <<>>
  BY DEF Init
<1> QED BY <1>1 DEF RowsInv, RowsBounded, PageMax

\* A step that leaves the page alone.
LEMMA RowsSame ==
  ASSUME RowsInv, rows' = rows, cleared' = cleared, req'.pc = req.pc, req'.cookie = req.cookie,
         req'.changed = req.changed
  PROVE  RowsInv'
BY DEF RowsInv, RowsBounded, PageMax

\* A frame that is shown keeps the number of rows.
LEMMA RowsHandleFrame ==
  ASSUME Types, RowsInv, req.pc = "done", HandleFrame
  PROVE  RowsInv'
<1>1. PICK frame \in Frame : frame = Head(frames)
  BY HeadTailProperties DEF HandleFrame, ShowFrame, Types, ConnTypes
<1>2. PICK max \in Nat : max = PageMax
  BY PageMaxIs DEF Types
<1>3. /\ rows' = ShownWith(max, rows, frame, Decoded(frame))
      /\ cleared' = (cleared \/ \E k \in Decoded(frame) : frame[k].event.type = "RESET")
      /\ req' = req
  BY <1>1, <1>2, ShownIsWith DEF HandleFrame, ShowFrame, ServerUnchanged
<1>4. PageMax' = max
  BY <1>2, <1>3 DEF PageMax
<1>5. ASSUME max > 0, req.changed => cleared'
      PROVE  Len(rows') <= max + 1
  <2>1. max \in Nat \ {0} /\ Decoded(frame) \in SUBSET DOMAIN frame /\ rows \in Text
    BY <1>5 DEF Decoded, Types, RowTypes
  <2>2. Len(rows) <= max + 1 \/ \E k \in Decoded(frame) : frame[k].event.type = "RESET"
    BY <1>2, <1>3, <1>5 DEF RowsInv, RowsBounded
  <2> QED BY <1>3, <2>1, <2>2, ShownBounded
<1>6. RowsBounded'
  BY <1>3, <1>4, <1>5 DEF RowsBounded
<1> QED BY <1>3, <1>6 DEF RowsInv

\* A page that is loaded keeps the bound too: the window and the page count alike.
LEMMA RowsShow ==
  ASSUME Types, ReadLogs \/ ReadArchive \/ ReadDynamicArchive \/ ListArchives \/ ListDynamicArchives
  PROVE  RowsInv'
<1>1. PICK text \in Text :
        /\ Show(text)
        /\ Len(text) = 1 \/ Len(text) = 0
           \/ (MaxLinesCount(req.cookie) > 0 => Len(text) <= MaxLinesCount(req.cookie) + 1)
  BY ShownTexts
<1>2. rows' = text /\ req'.pc = "done" /\ req'.cookie = req.cookie
  BY <1>1 DEF Show, Types, ReqTypes
<1>3. PICK max \in Nat : max = PageMax /\ (max > 0 => MaxLinesCount(req.cookie) = max)
  BY PageMaxIs DEF Types
<1>4. PageMax' = max
  BY <1>2, <1>3 DEF PageMax
<1>5. max > 0 => Len(text) <= max + 1
  BY <1>1, <1>3
<1> QED BY <1>2, <1>4, <1>5 DEF RowsInv, RowsBounded

\* Another number of lines: the bound is claimed again once the page was cleared.
LEMMA RowsChangeMax ==
  ASSUME Types, RowsInv, ChangeMax
  PROVE  RowsInv'
<1>1. req'.changed /\ ~cleared' /\ req'.pc = "done"
  BY DEF ChangeMax, Types, ReqTypes, Loaded
<1> QED BY <1>1 DEF RowsInv, RowsBounded

\* Only a page that was loaded connects, and nothing is on the wire before.
WireInv ==
  /\ conn # "none" => Loaded
  /\ conn = "none" =>
       /\ send = <<>> /\ batch = <<>> /\ frames = <<>>
       /\ ~asked /\ ~listed /\ rows = ideal

\* In the beginning nothing is on the wire.
LEMMA WireInit == ASSUME Init PROVE WireInv
BY DEF Init, WireInv

\* Only a page that was loaded connects, and only then is something on the wire.
LEMMA WireNext ==
  ASSUME Types, WireInv, [Next]_vars
  PROVE  WireInv'
<1>1. CASE LogStep \/ Reboot
  <2>1. UNCHANGED <<req, rows, conn, asked, listed, batch, frames, ideal>>
    BY <1>1, LogStepIs DEF Reboot, Restarts, PageUnchanged, connVars
  <2>2. conn = "none" => send' = send
    BY <1>1, LogStepIs DEF Reboot
  <2> QED BY <2>1, <2>2 DEF WireInv, Loaded
<1>2. CASE Request \/ StatFile \/ StatDir \/ StatFails
  <2>1. req.pc # "done"
    BY <1>2 DEF Request, StatFile, StatDir, StatFails, Stat
  <2>2. UNCHANGED <<rows, conn, asked, listed, send, batch, frames, ideal>>
    BY <1>2 DEF Request, StatFile, StatDir, StatFails, HandlerUnchanged, connVars, wireVars
  <2> QED BY <2>1, <2>2 DEF WireInv, Loaded
<1>3. CASE ReadLogs \/ ReadArchive \/ ReadDynamicArchive \/ ListArchives \/ ListDynamicArchives
  <2>1. PICK text : Show(text)
    BY <1>3, ShownTexts
  <2>2. req.pc # "done" /\ rows' = ideal'
    BY <2>1 DEF Show
  <2>3. UNCHANGED <<conn, asked, listed, send, batch, frames>>
    BY <2>1 DEF Show, HandlerUnchanged, connVars, wireVars
  <2> QED BY <2>2, <2>3 DEF WireInv, Loaded
<1>4. CASE Connect
  BY <1>4 DEF Connect, WireInv, Loaded, ServerUnchanged
<1>5. CASE Subscribe \/ Break \/ WriterTake \/ WriterFlush \/ WriterClose
  <2>1. conn # "none" /\ conn' # "none" /\ req' = req
    BY <1>5 DEF Subscribe, Break, WriterTake, WriterFlush, WriterClose, connVars, ServerUnchanged
  <2> QED BY <2>1 DEF WireInv, Loaded
<1>6. CASE ChangeMax
  <2>1. req'.pc = req.pc /\ req'.view = req.view
    BY <1>6 DEF ChangeMax, Types, ReqTypes
  <2>2. UNCHANGED <<rows, conn, asked, listed, send, batch, frames, ideal>>
    BY <1>6 DEF ChangeMax, connVars, wireVars
  <2> QED BY <2>1, <2>2 DEF WireInv, Loaded
<1>7. CASE Broadcast
  <2>1. req' = req /\ UNCHANGED <<rows, asked, batch, frames>>
    BY <1>7 DEF Broadcast, ServerUnchanged
  <2>2. conn # "none" => conn' # "none"
    BY <1>7 DEF Broadcast
  <2>3. conn = "none" => UNCHANGED <<conn, listed, send, ideal>>
    BY <1>7 DEF Broadcast
  <2> QED BY <2>1, <2>2, <2>3 DEF WireInv, Loaded
<1>8. CASE HandleFrame
  <2>1. frames # <<>> /\ UNCHANGED <<req, conn>>
    BY <1>8 DEF HandleFrame, ShowFrame, ServerUnchanged, connVars
  <2> QED BY <2>1 DEF WireInv, Loaded
<1>9. CASE UNCHANGED vars
  BY <1>9 DEF vars, connVars, wireVars, auxVars, WireInv, Loaded
<1> QED BY <1>1, <1>2, <1>3, <1>4, <1>5, <1>6, <1>7, <1>8, <1>9 DEF Next, LogStep, LogAlone,
           TailTells

\* Every step keeps the number of rows.
LEMMA RowsNext ==
  ASSUME Types, TailInv, WireInv, RowsInv, [Next]_vars
  PROVE  RowsInv'
<1>1. CASE Request \/ StatFile \/ StatDir \/ StatFails
  <2>1. req.pc # "done" /\ rows' = rows
    BY <1>1 DEF Request, StatFile, StatDir, StatFails, Stat
  <2>2. rows' = <<>>
    BY <2>1 DEF RowsInv
  <2>3. ReqTypes'
    BY TypesNext DEF Types
  <2>4. PageMax' \in Nat
    <3>1. PICK c \in Wanted : c = req'.cookie
      BY <2>3 DEF ReqTypes
    <3>2. PageMax' = IF c = <<>> \/ c[1] < 0 THEN 0 ELSE c[1]
      BY <3>1 DEF PageMax
    <3>3. MaxOf(c) \in Nat
      BY MaxOfIsNat
    <3> QED BY <3>2, <3>3 DEF MaxOf
  <2>5. \A m \in Nat : 0 <= m + 1
    OBVIOUS
  <2>6. Len(rows') <= PageMax' + 1
    BY <2>2, <2>4, <2>5
  <2> QED BY <2>2, <2>6 DEF RowsInv, RowsBounded
<1>2. CASE HandleFrame
  <2>1. req.pc = "done"
    BY <1>2 DEF HandleFrame, ShowFrame, WireInv, Loaded
  <2> QED BY <1>2, <2>1, RowsHandleFrame
<1>3. CASE \/ Reboot \/ Connect \/ Subscribe \/ Break \/ Broadcast
           \/ WriterTake \/ WriterFlush \/ WriterClose \/ UNCHANGED vars
  <2>1. UNCHANGED <<rows, req, cleared>>
    BY <1>3 DEF Reboot, Restarts, PageUnchanged, Connect, Subscribe, Break,
       Broadcast, WriterTake, WriterFlush, WriterClose, ServerUnchanged, vars, auxVars
  <2> QED BY <2>1, RowsSame
<1>4. CASE LogStep
  BY <1>4, LogStepIs, RowsSame
<1> QED BY <1>1, <1>2, <1>3, <1>4, RowsShow, RowsChangeMax DEF Next, LogStep, LogAlone, TailTells

-----------------------------------------------------------------------------
(* What is on its way to the page *)

\* What the next frame will hold, and all frames.
Queued == batch \o send
Coming == Append(frames, Queued)

\* What is on its way to the page is a sequence of frames.
LEMMA ComingIs ==
  ASSUME Types
  PROVE  /\ Queued \in Frame /\ Coming \in Seq(Frame) /\ frames \in Seq(Frame)
         /\ batch \in Frame /\ send \in Frame
<1>1. batch \in Frame /\ send \in Frame /\ frames \in Seq(Frame)
  BY DEF Types, ConnTypes
<1>2. Queued \in Frame
  BY <1>1, ConcatProperties DEF Frame, Queued
<1>3. Coming \in Seq(Frame)
  BY <1>1, <1>2, AppendProperties DEF Coming
<1> QED BY <1>1, <1>2, <1>3

\* A message goes to the end.
LEMMA QueuedMore ==
  ASSUME Types, NEW m \in ThisMessage, UNCHANGED <<batch, frames>>, send' = Append(send, m)
  PROVE  Queued' = Append(Queued, m) /\ Coming' = Append(frames, Append(Queued, m))
<1>1. PICK one : one = <<m>>
  OBVIOUS
<1>2. one \in Seq(ThisMessage)
  BY <1>1
<1>3. Append(send, m) = send \o one
  BY <1>1, AppendIsConcat, ComingIs DEF Frame
<1>4. PICK q \in Seq(ThisMessage) : q = batch \o send
  BY ConcatProperties, ComingIs DEF Frame
<1>5. Append(q, m) = q \o one
  BY <1>1, AppendIsConcat
<1>6. (batch \o send) \o one = batch \o (send \o one)
  <2>1. batch \in Seq(ThisMessage) /\ send \in Seq(ThisMessage)
    BY ComingIs DEF Frame
  <2> QED BY <1>2, <2>1, ConcatAssociative, SMTT(60)
<1>7. batch' \o send' = Append(q, m)
  BY <1>3, <1>4, <1>5, <1>6
<1> QED BY <1>4, <1>7 DEF Queued, Coming

\* A step that leaves writer and channel alone.
LEMMA QueuedSame ==
  ASSUME UNCHANGED <<batch, send>>
  PROVE  Queued' = Queued
BY DEF Queued

\* The writer moves the front of the channel into its batch.
LEMMA QueuedTaken ==
  ASSUME Types, WriterTake
  PROVE  Queued' = Queued /\ Coming' = Coming
<1>1. PICK s \in Seq(ThisMessage) : s = send
  BY ComingIs DEF Frame
<1>2. s # <<>> /\ batch = <<>> /\ batch' = <<Head(s)>> /\ send' = Tail(s) /\ frames' = frames
  BY <1>1 DEF WriterTake
<1>3. PICK n \in Nat : n = Len(s)
  BY LenProperties
<1>4. n # 0
  BY <1>2, <1>3, EmptySeq
<1>5. PICK h \in ThisMessage, rest \in Seq(ThisMessage) :
        /\ h = Head(s) /\ rest = Tail(s) /\ h = s[1]
        /\ Len(rest) = n - 1 /\ \A k \in 1 .. n - 1 : rest[k] = s[k + 1]
  <2>1. Head(s) = s[1]
    OBVIOUS
  <2>2. Head(s) \in ThisMessage /\ Tail(s) \in Seq(ThisMessage) /\ Len(Tail(s)) = Len(s) - 1
        /\ \A k \in 1 .. Len(Tail(s)) : Tail(s)[k] = s[k + 1]
    BY <1>2, HeadTailProperties
  <2> QED BY <1>3, <2>1, <2>2
<1>6. PICK one : one = <<h>>
  OBVIOUS
<1>7. one \in Seq(ThisMessage) /\ Len(one) = 1 /\ one[1] = h
  BY <1>6
<1>8. PICK all : all = one \o rest
  OBVIOUS
<1>9. /\ all \in Seq(ThisMessage) /\ Len(all) = 1 + (n - 1)
      /\ \A k \in 1 .. 1 + (n - 1) : all[k] = IF k <= 1 THEN one[k] ELSE rest[k - 1]
  <2>1. /\ all \in Seq(ThisMessage) /\ Len(all) = Len(one) + Len(rest)
        /\ \A k \in 1 .. Len(one) + Len(rest) : all[k] = IF k <= Len(one) THEN one[k] ELSE rest[k - Len(one)]
    BY <1>7, <1>8, ConcatProperties
  <2> QED BY <1>5, <1>7, <2>1
<1>10. \A k \in 1 .. n : all[k] = s[k]
  <2>1. \A k \in 1 .. n : k \in 1 .. 1 + (n - 1) /\ (k <= 1 => k = 1)
                          /\ (~(k <= 1) => k - 1 \in 1 .. n - 1 /\ (k - 1) + 1 = k)
    BY <1>4
  <2> QED BY <1>5, <1>7, <1>9, <2>1
<1>11. all = s
  <2>1. 1 + (n - 1) = n
    OBVIOUS
  <2> QED BY <1>3, <1>9, <1>10, <2>1, SeqEqual
<1>12. <<>> \o s = s
  BY ConcatEmptySeq
<1>13. batch' \o send' = s /\ batch \o send = s
  BY <1>1, <1>2, <1>5, <1>6, <1>8, <1>11, <1>12
<1> QED BY <1>2, <1>13 DEF Queued, Coming

\* Once the batch was sent and the channel is empty, nothing is queued.
LEMMA QueuedEmpty ==
  ASSUME Types, batch' = <<>>, send' = <<>>
  PROVE  Queued' = <<>>
<1>1. <<>> \o <<>> = <<>>
  <2>1. PICK e \in Frame : e = <<>>
    BY EmptySeq DEF Frame
  <2> QED BY <2>1, ConcatEmptySeq DEF Frame
<1> QED BY <1>1 DEF Queued

\* The first frame goes.
LEMMA ComingShifts ==
  ASSUME Types, HandleFrame
  PROVE  /\ frames # <<>> /\ Coming # <<>> /\ Queued' = Queued
         /\ Coming' = Tail(Coming) /\ Head(frames) = Head(Coming)
<1>1. frames # <<>> /\ frames' = Tail(frames) /\ UNCHANGED <<send, batch>>
  BY DEF HandleFrame, ShowFrame
<1>2. Tail(Coming) = Append(Tail(frames), Queued) /\ Head(Coming) = Head(frames)
  BY <1>1, ComingIs, HeadTailAppend DEF Coming
<1>3. Coming # <<>>
  BY ComingIs, AppendProperties DEF Coming
<1> QED BY <1>1, <1>2, <1>3, QueuedSame DEF Coming

\* All the other steps leave it as it is.
LEMMA ComingSame ==
  ASSUME Types,
         \/ LogStep
         \/ Request \/ StatFile \/ StatDir \/ StatFails \/ \E text : Show(text)
         \/ Connect \/ ChangeMax \/ WriterClose \/ UNCHANGED vars
  PROVE  Queued' = Queued /\ Coming' = Coming
<1>1. UNCHANGED <<send, batch, frames>>
  BY LogStepIs DEF Request, StatFile, StatDir, StatFails, Show, HandlerUnchanged, Connect, ChangeMax,
     WriterClose, wireVars, vars
<1> QED BY <1>1, QueuedSame DEF Coming

-----------------------------------------------------------------------------
(* What a reset without separator spoils *)

\* The places of such resets in these frames.
Raw(c) == {p \in (1 .. Len(c)) \X Nat : p[2] \in DOMAIN c[p[1]] /\ c[p[1]][p[2]].form = "reset"}

\* One of a finite number of places that may be more, or that are fewer.
LEMMA FewerPlaces ==
  ASSUME NEW A, NEW B, IsFiniteSet(B), A \subseteq B
  PROVE  IsFiniteSet(A) /\ Cardinality(A) \in Nat /\ Cardinality(B) \in Nat /\ Cardinality(A) <= Cardinality(B)
BY FS_Subset, FS_CardinalityType

\* Frames but for their last one.
LEMMA RawOfAppend ==
  ASSUME NEW fs \in Seq(Frame), NEW s \in Frame
  PROVE  Raw(Append(fs, s)) =
           Raw(fs) \cup {p \in {Len(fs) + 1} \X Nat : p[2] \in DOMAIN s /\ s[p[2]].form = "reset"}
<1>1. PICK n \in Nat : n = Len(fs)
  BY LenProperties
<1>2. PICK c : c = Append(fs, s)
  OBVIOUS
<1>3. Len(c) = n + 1 /\ (\A k \in 1 .. n : c[k] = fs[k]) /\ c[n + 1] = s
  BY <1>1, <1>2, AppendProperties
<1>4. \A k : k \in 1 .. n + 1 <=> (k \in 1 .. n \/ k = n + 1)
  BY <1>1
<1>5. \A p : p \in Raw(c) <=> p \in Raw(fs)
                              \/ p \in {q \in {n + 1} \X Nat : q[2] \in DOMAIN s /\ s[q[2]].form = "reset"}
  BY <1>1, <1>3, <1>4 DEF Raw
<1> QED BY <1>1, <1>2, <1>5

\* A message more is one place more at most, and none if it is no reset.
LEMMA RawOfMore ==
  ASSUME NEW fs \in Seq(Frame), NEW s \in Frame, NEW m \in ThisMessage
  PROVE  /\ Raw(Append(fs, Append(s, m))) \subseteq Raw(Append(fs, s)) \cup {<<Len(fs) + 1, Len(s) + 1>>}
         /\ m.form # "reset" => Raw(Append(fs, Append(s, m))) \subseteq Raw(Append(fs, s))
<1>1. PICK k \in Nat : k = Len(s) /\ DOMAIN s = 1 .. k
  BY FrameIs
<1>2. PICK t : t = Append(s, m)
  OBVIOUS
<1>3. t \in Frame /\ Len(t) = k + 1 /\ (\A i \in 1 .. k : t[i] = s[i]) /\ t[k + 1] = m
  BY <1>1, <1>2, AppendProperties DEF Frame
<1>4. DOMAIN t = 1 .. k + 1
  BY <1>3, FrameIs
<1>5. \A i : i \in 1 .. k + 1 <=> (i \in 1 .. k \/ i = k + 1)
  BY <1>1
<1>6. PICK n : n = Len(fs) + 1
  OBVIOUS
<1>7. /\ Raw(Append(fs, s)) = Raw(fs) \cup {p \in {n} \X Nat : p[2] \in DOMAIN s /\ s[p[2]].form = "reset"}
      /\ Raw(Append(fs, t)) = Raw(fs) \cup {p \in {n} \X Nat : p[2] \in DOMAIN t /\ t[p[2]].form = "reset"}
  BY <1>3, <1>6, RawOfAppend
<1>8. ASSUME NEW p \in {n} \X Nat, p[2] \in DOMAIN t, t[p[2]].form = "reset"
      PROVE  (p[2] \in DOMAIN s /\ s[p[2]].form = "reset") \/ (p = <<n, k + 1>> /\ m.form = "reset")
  BY <1>1, <1>3, <1>4, <1>5, <1>8
<1> QED BY <1>1, <1>2, <1>6, <1>7, <1>8

\* An empty frame holds no bare reset, and a frame more takes none away.
LEMMA RawOfEmpty ==
  ASSUME NEW fs \in Seq(Frame), NEW s \in Frame
  PROVE  /\ Raw(Append(fs, <<>>)) \subseteq Raw(fs)
         /\ Raw(fs) \subseteq Raw(Append(fs, s))
<1>1. <<>> \in Frame
  BY EmptySeq DEF Frame
<1>2. Raw(Append(fs, <<>>)) =
           Raw(fs) \cup {p \in {Len(fs) + 1} \X Nat : p[2] \in DOMAIN <<>> /\ <<>>[p[2]].form = "reset"}
  BY <1>1, RawOfAppend
<1> QED BY <1>2, RawOfAppend

\* Each event of the first frame that is not shown stands behind such a reset.
LEMMA RawOfTail ==
  ASSUME NEW c \in Seq(Frame), c # <<>>, IsFiniteSet(Raw(c)),
         NEW L, L \subseteq DOMAIN c[1], \A k \in L : k > 1 /\ c[1][k - 1].form = "reset"
  PROVE  /\ IsFiniteSet(Raw(Tail(c))) /\ Cardinality(Raw(Tail(c))) \in Nat /\ Cardinality(L) \in Nat
         /\ Cardinality(Raw(c)) \in Nat
         /\ Cardinality(L) + Cardinality(Raw(Tail(c))) <= Cardinality(Raw(c))
<1>1. PICK n \in Nat : n = Len(c)
  BY LenProperties
<1>2. n # 0
  BY <1>1, EmptySeq
<1>3. PICK d : d = Tail(c)
  OBVIOUS
<1>4. Len(d) = n - 1 /\ \A k \in 1 .. n - 1 : d[k] = c[k + 1]
  <2>1. Len(Tail(c)) = Len(c) - 1 /\ \A k \in 1 .. Len(Tail(c)) : Tail(c)[k] = c[k + 1]
    BY HeadTailProperties
  <2> QED BY <1>1, <1>3, <2>1
<1>5. PICK s \in Frame : s = c[1]
  <2>1. 1 \in 1 .. n
    BY <1>2
  <2> QED BY <1>1, <2>1, ElementOfSeq
<1>6. DOMAIN s = 1 .. Len(s) /\ Len(s) \in Nat
  BY FrameIs
<1>7. \A k \in L : k \in 1 .. Len(s) /\ k - 1 \in 1 .. Len(s) /\ k - 1 \in Nat /\ s[k - 1].form = "reset"
  <2>1. \A k \in L : k \in 1 .. Len(s) /\ k > 1 /\ s[k - 1].form = "reset"
    BY <1>5, <1>6
  <2>2. \A k \in 1 .. Len(s) : k > 1 => k - 1 \in 1 .. Len(s) /\ k - 1 \in Nat
    BY <1>6
  <2> QED BY <2>1, <2>2
<1>8. IsFiniteSet(L) /\ Cardinality(L) \in Nat
  BY <1>6, <1>7, BoundedFinite
<1> DEFINE First == {<<1, k - 1>> : k \in L}
           Other == {p \in Raw(c) : p[1] # 1}
           f == [k \in L |-> <<1, k - 1>>]
           g == [p \in Raw(d) |-> <<p[1] + 1, p[2]>>]
<1>9. First \subseteq Raw(c)
  <2>1. ASSUME NEW k \in L PROVE <<1, k - 1>> \in Raw(c)
    <3>1. 1 \in 1 .. n /\ k - 1 \in Nat /\ k - 1 \in DOMAIN c[1] /\ c[1][k - 1].form = "reset"
      BY <1>2, <1>5, <1>6, <1>7
    <3> QED BY <1>1, <3>1 DEF Raw
  <2> QED BY <2>1
<1>10. Other \subseteq Raw(c) /\ First \cap Other = {} /\ First \cup Other \subseteq Raw(c)
  BY <1>9
<1>11. IsFiniteSet(First) /\ Cardinality(First) = Cardinality(L)
  <2>1. f \in Bijection(L, First)
    <3>1. f \in [L -> First] /\ \A y \in First : \E k \in L : f[k] = y
      OBVIOUS
    <3>2. ASSUME NEW i \in L, NEW j \in L, f[i] = f[j] PROVE i = j
      <4>1. i - 1 = j - 1 /\ i \in Int /\ j \in Int
        BY <1>7, <3>2
      <4> QED BY <4>1
    <3> QED BY <3>1, <3>2 DEF Bijection, Injection, Surjection, IsInjective
  <2>2. ExistsBijection(L, First)
    BY <2>1 DEF ExistsBijection
  <2> HIDE DEF First
  <2> QED BY <1>8, <2>2, FS_Bijection
<1>12. IsFiniteSet(Other)
  BY <1>10, FewerPlaces
<1>13. IsFiniteSet(Raw(d)) /\ Cardinality(Raw(d)) = Cardinality(Other)
  <2>1. \A p \in Raw(d) : /\ p[1] \in 1 .. n - 1 /\ p[1] + 1 \in 1 .. n /\ p[1] + 1 # 1
                          /\ p = <<p[1], p[2]>> /\ p[2] \in Nat
                          /\ p[2] \in DOMAIN c[p[1] + 1] /\ c[p[1] + 1][p[2]].form = "reset"
    BY <1>4 DEF Raw
  <2>2. \A p \in Raw(d) : <<p[1] + 1, p[2]>> \in Other
    BY <1>1, <2>1 DEF Raw
  <2>3. \A q \in Other : /\ q[1] - 1 \in 1 .. n - 1 /\ (q[1] - 1) + 1 = q[1]
                         /\ q = <<q[1], q[2]>> /\ q[2] \in Nat
                         /\ q[2] \in DOMAIN c[q[1]] /\ c[q[1]][q[2]].form = "reset"
    BY <1>1 DEF Raw
  <2>4. \A q \in Other : <<q[1] - 1, q[2]>> \in Raw(d)
    <3>1. SUFFICES ASSUME NEW q \in Other PROVE <<q[1] - 1, q[2]>> \in Raw(d)
      OBVIOUS
    <3>2. d[q[1] - 1] = c[q[1]]
      BY <1>4, <2>3
    <3> HIDE DEF Other
    <3> QED BY <1>4, <2>3, <3>2 DEF Raw
  <2>5. g \in Bijection(Raw(d), Other)
    <3>1. g \in [Raw(d) -> Other]
      BY <2>2
    <3>2. ASSUME NEW p \in Raw(d), NEW q \in Raw(d), g[p] = g[q] PROVE p = q
      <4>1. p[1] + 1 = q[1] + 1 /\ p[2] = q[2]
        BY <3>2
      <4>2. p[1] = q[1]
        BY <2>1, <4>1
      <4> QED BY <2>1, <4>1, <4>2
    <3>3. ASSUME NEW q \in Other PROVE \E p \in Raw(d) : g[p] = q
      <4>1. PICK p \in Raw(d) : p = <<q[1] - 1, q[2]>>
        BY <2>4
      <4>2. p[1] + 1 = q[1] /\ p[2] = q[2] /\ q = <<q[1], q[2]>>
        BY <2>3, <4>1
      <4>3. g[p] = <<p[1] + 1, p[2]>>
        OBVIOUS
      <4>4. g[p] = q
        BY <4>2, <4>3
      <4> QED BY <4>4
    <3> HIDE DEF g, Other
    <3> QED BY <3>1, <3>2, <3>3 DEF Bijection, Injection, Surjection, IsInjective
  <2>6. ExistsBijection(Other, Raw(d))
    <3>1. ExistsBijection(Raw(d), Other)
      BY <2>5 DEF ExistsBijection
    <3> QED BY <3>1, Fun_ExistsBijSymmetric
  <2> HIDE DEF Other
  <2> QED BY <1>12, <2>6, FS_Bijection
<1>14. Cardinality(First \cup Other) = Cardinality(First) + Cardinality(Other)
  <2>1. Cardinality(First \cap Other) = 0
    BY <1>10, FS_EmptySet
  <2>2. Cardinality(First) \in Nat /\ Cardinality(Other) \in Nat
    BY <1>11, <1>12, FS_CardinalityType
  <2>3. Cardinality(First \cup Other) = Cardinality(First) + Cardinality(Other) - Cardinality(First \cap Other)
    <3> HIDE DEF First, Other
    <3> QED BY <1>11, <1>12, FS_Union
  <2> HIDE DEF First, Other
  <2> QED BY <2>1, <2>2, <2>3
<1>15. /\ Cardinality(First \cup Other) <= Cardinality(Raw(c)) /\ Cardinality(Raw(c)) \in Nat
       /\ Cardinality(Other) \in Nat
  <2> HIDE DEF First, Other
  <2> QED BY <1>10, FewerPlaces
<1> HIDE DEF First, Other
<1> QED BY <1>3, <1>8, <1>11, <1>13, <1>14, <1>15

ResetInv ==
  /\ IsFiniteSet(Raw(Coming))
  /\ lost + Cardinality(Raw(Coming)) <= server.boots

\* In the beginning there is no bare reset.
LEMMA ResetInit == ASSUME Init PROVE ResetInv
<1>1. <<>> \in Frame /\ <<>> \in Seq(Frame) /\ <<>> \o <<>> = <<>> /\ Len(<<>>) = 0
  <2>1. PICK e \in Frame : e = <<>>
    BY EmptySeq DEF Frame
  <2>2. e \o <<>> = e
    BY ConcatEmptySeq DEF Frame
  <2> QED BY <2>1, <2>2, EmptySeq
<1>2. Coming = Append(<<>>, <<>>)
  BY <1>1 DEF Init, Coming, Queued
<1>3. Raw(<<>>) = {}
  BY <1>1 DEF Raw
<1>4. Raw(Coming) = {}
  BY <1>1, <1>2, <1>3, RawOfEmpty
<1>5. server.boots = 0 /\ lost = 0
  BY DEF Init
<1> QED BY <1>4, <1>5, FS_EmptySet DEF ResetInv

\* Nothing is lost, and no place is new.
LEMMA ResetFewer ==
  ASSUME Types, ResetInv, lost' = lost, server'.boots = server.boots, Raw(Coming') \subseteq Raw(Coming)
  PROVE  ResetInv'
<1>1. PICK l \in Nat, b \in Nat : l = lost /\ b = server.boots
  BY CountsAre
<1>2. PICK r \in Nat, s \in Nat : r = Cardinality(Raw(Coming)) /\ s = Cardinality(Raw(Coming')) /\ s <= r
  BY FewerPlaces DEF ResetInv
<1>3. l + s <= b
  BY <1>1, <1>2 DEF ResetInv
<1>4. IsFiniteSet(Raw(Coming'))
  BY FewerPlaces DEF ResetInv
<1> QED BY <1>1, <1>2, <1>3, <1>4 DEF ResetInv

\* A boot sends one bare reset.
LEMMA ResetReboot ==
  ASSUME Types, ResetInv, Reboot
  PROVE  ResetInv'
<1>1. PICK l \in Nat, b \in Nat : l = lost /\ b = server.boots
  BY CountsAre
<1>2. lost' = l /\ server'.boots = b + 1 /\ UNCHANGED <<batch, frames>>
  BY <1>1 DEF Reboot, Restarts, PageUnchanged, Types, LogTypes
<1>3. PICK p : Raw(Coming') \subseteq Raw(Coming) \cup {p}
  <2>1. CASE send' = send
    BY <1>2, <2>1, QueuedSame DEF Coming
  <2>2. CASE send' = Append(send, RawReset)
    <3>1. Coming' = Append(frames, Append(Queued, RawReset))
      BY <1>2, <2>2, QueuedMore, MessagesAre
    <3> QED BY <3>1, RawOfMore, ComingIs, MessagesAre DEF Coming
  <2> QED BY <2>1, <2>2 DEF Reboot
<1>4. PICK r \in Nat : r = Cardinality(Raw(Coming))
  BY FS_CardinalityType DEF ResetInv
<1>5. PICK more : more = Raw(Coming) \cup {p}
  OBVIOUS
<1>6. IsFiniteSet(more) /\ (Cardinality(more) = r \/ Cardinality(more) = r + 1)
  BY <1>4, <1>5, FS_AddElement DEF ResetInv
<1>7. PICK s \in Nat : s = Cardinality(Raw(Coming')) /\ s <= Cardinality(more) /\ IsFiniteSet(Raw(Coming'))
  BY <1>3, <1>5, <1>6, FewerPlaces
<1>8. l + r <= b
  BY <1>1, <1>4 DEF ResetInv
<1>9. l + s <= b + 1
  BY <1>6, <1>7, <1>8
<1> QED BY <1>2, <1>7, <1>9 DEF ResetInv

\* A frame that is shown loses an event for each bare reset in it at most.
LEMMA ResetHandleFrame ==
  ASSUME Types, ResetInv, HandleFrame
  PROVE  ResetInv'
<1>1. PICK c \in Seq(Frame) : c = Coming
  BY ComingIs
<1>2. c # <<>> /\ Coming' = Tail(c) /\ Head(frames) = Head(c)
  BY <1>1, ComingShifts
<1>3. Head(c) = c[1] /\ Head(c) \in Frame
  BY <1>2, HeadTailProperties
<1>4. PICK frame \in Frame : frame = c[1] /\ frame = Head(frames)
  BY <1>2, <1>3
<1>5. PICK L : L = {k \in DOMAIN frame \ Decoded(frame) : frame[k].form = "event"}
  OBVIOUS
<1>6. L \subseteq DOMAIN frame /\ \A k \in L : k > 1 /\ frame[k - 1].form = "reset"
  BY <1>5 DEF Decoded, Decodes
<1>7. /\ IsFiniteSet(Raw(Tail(c))) /\ Cardinality(Raw(Tail(c))) \in Nat /\ Cardinality(L) \in Nat
      /\ Cardinality(Raw(c)) \in Nat
      /\ Cardinality(L) + Cardinality(Raw(Tail(c))) <= Cardinality(Raw(c))
  BY <1>1, <1>2, <1>4, <1>6, RawOfTail DEF ResetInv
<1>8. lost' = lost + Cardinality(L) /\ server' = server
  BY <1>4, <1>5 DEF HandleFrame, ShowFrame, ServerUnchanged
<1>9. PICK l \in Nat, b \in Nat : l = lost /\ b = server.boots /\ l + Cardinality(Raw(c)) <= b
  BY <1>1, Bounds DEF Types, LogTypes, RowTypes, ResetInv
<1>10. (l + Cardinality(L)) + Cardinality(Raw(Tail(c))) <= b
  BY <1>7, <1>9
<1> QED BY <1>2, <1>7, <1>8, <1>9, <1>10 DEF ResetInv

\* Every step keeps events lost and bare resets within the boots.
LEMMA ResetNext ==
  ASSUME Types, ResetInv, [Next]_vars
  PROVE  ResetInv'
<1>1. CASE \/ LogStep
           \/ Request \/ StatFile \/ StatDir \/ StatFails
           \/ ReadLogs \/ ReadArchive \/ ReadDynamicArchive \/ ListArchives \/ ListDynamicArchives
           \/ Connect \/ ChangeMax \/ WriterClose \/ UNCHANGED vars
  <2>1. \/ LogStep
        \/ Request \/ StatFile \/ StatDir \/ StatFails \/ (\E text : Show(text))
        \/ Connect \/ ChangeMax \/ WriterClose \/ UNCHANGED vars
    BY <1>1, ShownTexts
  <2>2. Coming' = Coming
    BY <2>1, ComingSame
  <2>3. lost' = lost /\ server'.boots = server.boots
    BY <2>1, LogStepIs DEF Request, StatFile, StatDir, StatFails, Show,
       HandlerUnchanged, Connect, ChangeMax, WriterClose, vars, auxVars, logVars, ServerUnchanged, Types, LogTypes
  <2> QED BY <2>2, <2>3, ResetFewer
<1>2. CASE Subscribe \/ Broadcast
  <2>1. UNCHANGED <<lost, server, batch, frames>>
    BY <1>2 DEF Subscribe, Broadcast, ServerUnchanged, auxVars
  <2>2. send' = send \/ \E m \in ThisMessage : m.form # "reset" /\ send' = Append(send, m)
    <3>1. CASE Subscribe
      BY <3>1, MessagesAre DEF Subscribe, UnknownServer
    <3>2. CASE Broadcast
      <4>1. PICK e \in ThisEvent : e = Head(events)
        BY <3>2, EventsAre DEF Broadcast, Types
      <4>2. send' = send \/ send' = Append(send, Encoded(e))
        BY <3>2, <4>1 DEF Broadcast
      <4> QED BY <4>2, MessagesAre DEF Encoded
    <3> QED BY <1>2, <3>1, <3>2
  <2>3. CASE send' = send
    <3>1. Coming' = Coming
      BY <2>1, <2>3, QueuedSame DEF Coming
    <3> QED BY <2>1, <3>1, ResetFewer
  <2>4. ASSUME NEW m \in ThisMessage, m.form # "reset", send' = Append(send, m)
        PROVE  ResetInv'
    <3>1. Coming' = Append(frames, Append(Queued, m))
      BY <2>1, <2>4, QueuedMore
    <3>2. Raw(Coming') \subseteq Raw(Coming)
      BY <2>4, <3>1, RawOfMore, ComingIs DEF Coming
    <3> QED BY <2>1, <3>2, ResetFewer
  <2> QED BY <2>2, <2>3, <2>4
<1>3. CASE Break
  <2>1. UNCHANGED <<lost, server, frames>> /\ batch' = <<>> /\ send' = <<>>
    BY <1>3 DEF Break, ServerUnchanged, auxVars
  <2>2. Coming' = Append(frames, <<>>)
    BY <2>1, QueuedEmpty DEF Coming
  <2>3. Raw(Coming') \subseteq Raw(Coming)
    BY <2>2, RawOfEmpty, ComingIs DEF Coming
  <2> QED BY <2>1, <2>3, ResetFewer
<1>4. CASE WriterTake
  <2>1. UNCHANGED <<lost, server>>
    BY <1>4 DEF WriterTake, ServerUnchanged, auxVars
  <2> QED BY <1>4, <2>1, QueuedTaken, ResetFewer
<1>5. CASE WriterFlush
  <2>1. UNCHANGED <<lost, server>> /\ batch' = <<>> /\ send' = <<>> /\ frames' = Coming
    BY <1>5 DEF WriterFlush, ServerUnchanged, auxVars, Coming, Queued
  <2>2. Coming' = Append(Coming, <<>>)
    BY <2>1, QueuedEmpty DEF Coming
  <2>3. Raw(Coming') \subseteq Raw(Coming)
    <3>1. PICK c \in Seq(Frame) : c = Coming
      BY ComingIs
    <3>2. PICK e \in Frame : e = <<>>
      BY EmptySeq DEF Frame
    <3> QED BY <2>2, <3>1, <3>2, RawOfEmpty
  <2> QED BY <2>1, <2>3, ResetFewer
<1> QED BY <1>1, <1>2, <1>3, <1>4, <1>5, ResetReboot, ResetHandleFrame
        DEF Next, LogStep, LogAlone, TailTells

\* Then no more events are lost than there were boots.
LEMMA ResetDropsAtMostOne ==
  ASSUME Types, ResetInv
  PROVE  ResetDropsOne
<1>1. PICK l \in Nat, b \in Nat : l = lost /\ b = server.boots
  BY CountsAre
<1>2. PICK r \in Nat : r = Cardinality(Raw(Coming))
  BY FS_CardinalityType DEF ResetInv
<1>3. l + r <= b
  BY <1>1, <1>2 DEF ResetInv
<1> QED BY <1>1, <1>3 DEF ResetDropsOne

-----------------------------------------------------------------------------
(* Frames and messages taken in one after the other *)

\* A message is shown when it is an event.
ToldOne(max, text, m) == IF m.form = "event" THEN Handled(max, text, m.event) ELSE text
TellOne(max) == [x \in Text \X ThisMessage |-> ToldOne(max, x[1], x[2])]
Told(max, text, s) == Folded(TellOne(max), text, s)

\* A frame is shown as the page shows it.
FrameShown(max, text, s) == ShownWith(max, text, s, Decoded(s))
ShowOne(max) == [x \in Text \X Frame |-> FrameShown(max, x[1], x[2])]
Through(max, text, c) == Folded(ShowOne(max), text, c)

\* A message of the wire makes rows of rows.
LEMMA ToldOneIs ==
  ASSUME NEW max \in Nat, NEW text \in Text, NEW m \in ThisMessage
  PROVE  ToldOne(max, text, m) \in Text /\ TellOne(max)[<<text, m>>] = ToldOne(max, text, m)
<1>1. m.event \in ThisEvent
  BY DEF ThisMessage
<1>2. ToldOne(max, text, m) \in Text
  BY <1>1, HandledIs DEF ToldOne
<1> QED BY <1>2 DEF TellOne

\* Messages can be folded over.
LEMMA TellTakesIn ==
  ASSUME NEW max \in Nat
  PROVE  TakesIn(TellOne(max), Text, ThisMessage)
<1>1. \A x \in Text \X ThisMessage : ToldOne(max, x[1], x[2]) \in Text
  BY ToldOneIs
<1> QED BY <1>1 DEF TakesIn, TellOne

\* A frame makes rows of rows.
LEMMA FrameShownIs ==
  ASSUME NEW max \in Nat, NEW text \in Text, NEW s \in Frame
  PROVE  FrameShown(max, text, s) \in Text /\ ShowOne(max)[<<text, s>>] = FrameShown(max, text, s)
<1>1. FrameShown(max, text, s) \in Text
  BY ShownIsText DEF FrameShown
<1> QED BY <1>1 DEF ShowOne

\* Frames can be folded over.
LEMMA ShowTakesIn ==
  ASSUME NEW max \in Nat
  PROVE  TakesIn(ShowOne(max), Text, Frame)
<1>1. \A x \in Text \X Frame : FrameShown(max, x[1], x[2]) \in Text
  BY FrameShownIs
<1> QED BY <1>1 DEF TakesIn, ShowOne

\* The rows after some messages, from either end.
LEMMA ToldIs ==
  ASSUME NEW max \in Nat, NEW text \in Text, NEW s \in Frame
  PROVE  /\ Told(max, text, s) \in Text /\ Told(max, text, <<>>) = text
         /\ \A m \in ThisMessage : Told(max, text, Append(s, m)) = ToldOne(max, Told(max, text, s), m)
         /\ s # <<>> => Told(max, text, s) = Told(max, ToldOne(max, text, Head(s)), Tail(s))
<1>1. TakesIn(TellOne(max), Text, ThisMessage) /\ s \in Seq(ThisMessage)
  BY TellTakesIn DEF Frame
<1>2. Told(max, text, s) \in Text
  BY <1>1, FoldedIs DEF Told
<1>3. Told(max, text, <<>>) = text
  BY <1>1, FoldedEmpty DEF Told
<1>4. ASSUME NEW m \in ThisMessage
      PROVE  Told(max, text, Append(s, m)) = ToldOne(max, Told(max, text, s), m)
  <2>1. Told(max, text, Append(s, m)) = TellOne(max)[<<Told(max, text, s), m>>]
    BY <1>1, FoldedAppend DEF Told
  <2> QED BY <1>2, <2>1, ToldOneIs
<1>5. ASSUME s # <<>>
      PROVE  Told(max, text, s) = Told(max, ToldOne(max, text, Head(s)), Tail(s))
  <2>1. Told(max, text, s) = Told(max, TellOne(max)[<<text, Head(s)>>], Tail(s))
    BY <1>1, <1>5, FoldedHead DEF Told
  <2>2. Head(s) \in ThisMessage
    BY <1>1, <1>5, HeadTailProperties
  <2> QED BY <2>1, <2>2, ToldOneIs
<1> QED BY <1>2, <1>3, <1>4, <1>5

\* The rows after some frames, from either end.
LEMMA ThroughIs ==
  ASSUME NEW max \in Nat, NEW text \in Text, NEW c \in Seq(Frame)
  PROVE  /\ Through(max, text, c) \in Text /\ Through(max, text, <<>>) = text
         /\ \A s \in Frame : Through(max, text, Append(c, s)) = FrameShown(max, Through(max, text, c), s)
         /\ c # <<>> => Through(max, text, c) = Through(max, FrameShown(max, text, Head(c)), Tail(c))
<1>1. TakesIn(ShowOne(max), Text, Frame)
  BY ShowTakesIn
<1>2. Through(max, text, c) \in Text
  BY <1>1, FoldedIs DEF Through
<1>3. Through(max, text, <<>>) = text
  BY <1>1, FoldedEmpty DEF Through
<1>4. ASSUME NEW s \in Frame
      PROVE  Through(max, text, Append(c, s)) = FrameShown(max, Through(max, text, c), s)
  <2>1. Through(max, text, Append(c, s)) = ShowOne(max)[<<Through(max, text, c), s>>]
    BY <1>1, FoldedAppend DEF Through
  <2> QED BY <1>2, <2>1, FrameShownIs
<1>5. ASSUME c # <<>>
      PROVE  Through(max, text, c) = Through(max, FrameShown(max, text, Head(c)), Tail(c))
  <2>1. Through(max, text, c) = Through(max, ShowOne(max)[<<text, Head(c)>>], Tail(c))
    BY <1>1, <1>5, FoldedHead DEF Through
  <2>2. Head(c) \in Frame
    BY <1>5, HeadTailProperties
  <2> QED BY <2>1, <2>2, FrameShownIs
<1> QED BY <1>2, <1>3, <1>4, <1>5

\* A frame without bare resets is its events, one after the other.
Plain(s) == \A k \in DOMAIN s : s[k].form # "reset"

\* A frame without bare resets is shown as its messages, one after the other.
LEMMA PlainFrameIsTold ==
  ASSUME NEW max \in Nat, NEW text \in Text, NEW s \in Frame, Plain(s)
  PROVE  FrameShown(max, text, s) = Told(max, text, s)
<1>1. PICK n \in Nat : n = Len(s) /\ DOMAIN s = 1 .. n
  BY FrameIs
<1>2. PICK f \in [0 .. n -> Text] :
        Shows(f, max, text, s, Decoded(s)) /\ ShownWith(max, text, s, Decoded(s)) = f[n]
  BY <1>1, ShownIs
<1>3. ASSUME NEW k \in 1 .. n PROVE f[k] = TellOne(max)[<<f[k - 1], s[k]>>]
  <2>1. k - 1 \in 0 .. n /\ f[k - 1] \in Text
    <3>1. k - 1 \in 0 .. n
      OBVIOUS
    <3> QED BY <3>1
  <2>2. s[k] \in ThisMessage
    BY <1>1, FrameIs
  <2>3. k > 1 => k - 1 \in DOMAIN s
    BY <1>1
  <2>4. k \in Decoded(s) <=> s[k].form = "event"
    BY <1>1, <2>3 DEF Decoded, Decodes, Plain
  <2>5. f[k] = ToldOne(max, f[k - 1], s[k])
    BY <1>1, <1>2, <2>4 DEF Shows, ToldOne
  <2> QED BY <2>1, <2>2, <2>5, ToldOneIs
<1>4. IsFold(f, TellOne(max), text, s)
  BY <1>1, <1>2, <1>3 DEF Shows, IsFold
<1>5. TakesIn(TellOne(max), Text, ThisMessage) /\ s \in Seq(ThisMessage)
  BY TellTakesIn DEF Frame
<1>6. Folded(TellOne(max), text, s) = f[n]
  BY <1>1, <1>4, <1>5, FoldedBy
<1> QED BY <1>2, <1>6 DEF FrameShown, Told

\* Pending, with its state as parameters.
PendingWith(max, text, c) ==
  LET after[k \in 0 .. Len(c)] ==
        IF k = 0 THEN text ELSE ShownWith(max, after[k - 1], c[k], Decoded(c[k]))
  IN after[Len(c)]

\* What is still to come, as the model has it, is such a fold.
LEMMA PendingWithIs ==
  ASSUME NEW max \in Nat, NEW text \in Text, NEW c \in Seq(Frame)
  PROVE  PendingWith(max, text, c) = Through(max, text, c)
<1>1. PICK n \in Nat : n = Len(c) /\ \A k \in 1 .. n : c[k] \in Frame
  BY LenProperties, ElementOfSeq
<1>2. PICK f \in [0 .. n -> Text] : IsFold(f, ShowOne(max), text, c) /\ Through(max, text, c) = f[n]
  BY <1>1, ShowTakesIn, FoldedIs DEF Through
<1>3. f[0] = text /\ \A k \in 1 .. n : f[k - 1] \in Text /\ f[k] = FrameShown(max, f[k - 1], c[k])
  <2>1. \A k \in 1 .. n : k - 1 \in 0 .. n
    OBVIOUS
  <2>2. \A k \in 1 .. n : f[k - 1] \in Text /\ f[k] = ShowOne(max)[<<f[k - 1], c[k]>>]
    BY <1>1, <1>2, <2>1 DEF IsFold
  <2> QED BY <1>1, <1>2, <2>2, FrameShownIs DEF IsFold
<1> DEFINE F(x) == [k \in 0 .. n |-> IF k = 0 THEN text ELSE FrameShown(max, x[k - 1], c[k])]
           after == CHOOSE x : x = F(x)
<1>4. PendingWith(max, text, c) = after[n]
  BY <1>1 DEF PendingWith, FrameShown
<1>5. f = F(f)
  <2>1. \A k \in 0 .. n : k # 0 => k \in 1 .. n
    OBVIOUS
  <2>2. \A k \in 0 .. n : f[k] = IF k = 0 THEN text ELSE FrameShown(max, f[k - 1], c[k])
    BY <1>3, <2>1
  <2> QED BY <2>2
<1>6. after = F(after)
  BY <1>5
<1>7. PICK g : g = after
  OBVIOUS
<1>8. \A k \in 0 .. n : g[k] = IF k = 0 THEN text ELSE FrameShown(max, g[k - 1], c[k])
  <2> HIDE DEF after
  <2>1. g = [k \in 0 .. n |-> IF k = 0 THEN text ELSE FrameShown(max, g[k - 1], c[k])]
    BY <1>6, <1>7
  <2> QED BY <2>1
<1> HIDE DEF after
<1> DEFINE P == {k \in 0 .. n : g[k] = f[k]}
<1>9. 0 \in P
  <2>1. 0 \in 0 .. n
    OBVIOUS
  <2> QED BY <1>3, <1>8, <2>1
<1>10. ASSUME NEW k \in 1 .. n, k - 1 \in P PROVE k \in P
  <2>1. k \in 0 .. n /\ k # 0 /\ g[k - 1] = f[k - 1]
    BY <1>10
  <2> QED BY <1>3, <1>8, <2>1
<1>11. n \in P
  <2>1. n \in 0 .. n
    OBVIOUS
  <2> HIDE DEF P
  <2> QED BY <1>9, <1>10, <2>1, CountUp
<1> QED BY <1>2, <1>4, <1>7, <1>11

\* One message more in the last frame.
LEMMA ThroughMore ==
  ASSUME NEW max \in Nat, NEW text \in Text, NEW fs \in Seq(Frame), NEW s \in Frame, Plain(s),
         NEW m \in ThisMessage, m.form # "reset"
  PROVE  /\ Plain(Append(s, m)) /\ Append(s, m) \in Frame
         /\ Through(max, text, Append(fs, Append(s, m))) = ToldOne(max, Through(max, text, Append(fs, s)), m)
<1>1. PICK k \in Nat : k = Len(s) /\ DOMAIN s = 1 .. k
  BY FrameIs
<1>2. PICK t \in Frame : t = Append(s, m) /\ Len(t) = k + 1 /\ t[k + 1] = m /\ \A i \in 1 .. k : t[i] = s[i]
  <2>1. /\ Append(s, m) \in Frame /\ Len(Append(s, m)) = Len(s) + 1 /\ Append(s, m)[Len(s) + 1] = m
        /\ \A i \in 1 .. Len(s) : Append(s, m)[i] = s[i]
    BY AppendProperties DEF Frame
  <2> QED BY <1>1, <2>1
<1>3. Plain(t)
  <2>1. DOMAIN t = 1 .. k + 1 /\ \A i \in 1 .. k + 1 : i \in 1 .. k \/ i = k + 1
    BY <1>2, FrameIs
  <2> QED BY <1>1, <1>2, <2>1 DEF Plain
<1>4. PICK before \in Text : before = Through(max, text, fs)
  BY ThroughIs
<1>5. Through(max, text, Append(fs, t)) = Told(max, before, t)
  BY <1>3, <1>4, ThroughIs, PlainFrameIsTold
<1>6. Through(max, text, Append(fs, s)) = Told(max, before, s)
  BY <1>4, ThroughIs, PlainFrameIsTold
<1>7. Told(max, before, t) = ToldOne(max, Told(max, before, s), m)
  BY <1>2, ToldIs
<1> QED BY <1>2, <1>3, <1>5, <1>6, <1>7

\* An empty frame shows nothing.
LEMMA ThroughEmpty ==
  ASSUME NEW max \in Nat, NEW text \in Text, NEW c \in Seq(Frame)
  PROVE  Through(max, text, Append(c, <<>>)) = Through(max, text, c)
<1>1. PICK e \in Frame : e = <<>>
  BY EmptySeq DEF Frame
<1>2. Plain(e)
  BY <1>1 DEF Plain
<1>3. PICK before \in Text : before = Through(max, text, c)
  BY ThroughIs
<1>4. Through(max, text, Append(c, e)) = Told(max, before, e)
  BY <1>2, <1>3, ThroughIs, PlainFrameIsTold
<1> QED BY <1>1, <1>3, <1>4, ToldIs

\* While no instance booted again there is no bare reset.
LEMMA ComingIsPlain ==
  ASSUME Types, ResetInv, server.boots = 0
  PROVE  /\ Plain(Queued) /\ \A k \in DOMAIN frames : Plain(frames[k])
         /\ \A m \in DOMAIN Coming : Plain(Coming[m])
<1>1. PICK c \in Seq(Frame) : c = Coming
  BY ComingIs
<1>2. PICK l \in Nat, r \in Nat : l = lost /\ r = Cardinality(Raw(c)) /\ l + r <= 0
  <2>1. PICK r \in Nat : r = Cardinality(Raw(c))
    BY <1>1, FS_CardinalityType DEF ResetInv
  <2>2. lost \in Nat
    BY DEF Types, RowTypes
  <2> QED BY <1>1, <2>1, <2>2 DEF ResetInv
<1>3. Raw(c) = {}
  <2>1. r = 0
    BY <1>2
  <2> QED BY <1>1, <1>2, <2>1, FS_EmptySet DEF ResetInv
<1>4. ASSUME NEW i \in 1 .. Len(c) PROVE Plain(c[i])
  <2>1. PICK s \in Frame : s = c[i]
    BY ElementOfSeq
  <2>2. \A k \in DOMAIN s : k \in Nat
    BY FrameIs
  <2>3. ASSUME NEW k \in DOMAIN s, s[k].form = "reset" PROVE FALSE
    <3>1. <<i, k>> \in Raw(c)
      BY <2>1, <2>2, <2>3 DEF Raw
    <3> QED BY <1>3, <3>1
  <2> QED BY <2>1, <2>3 DEF Plain
<1>5. PICK n \in Nat : n = Len(frames) /\ DOMAIN frames = 1 .. n
  BY LenProperties, ComingIs
<1>6. Len(c) = n + 1 /\ (\A k \in 1 .. n : c[k] = frames[k]) /\ c[n + 1] = Queued /\ DOMAIN c = 1 .. n + 1
  <2>1. Len(c) = n + 1 /\ (\A k \in 1 .. n : c[k] = frames[k]) /\ c[n + 1] = Queued
    BY <1>1, <1>5, AppendProperties, ComingIs DEF Coming
  <2> QED BY <2>1, LenProperties
<1>7. n + 1 \in 1 .. n + 1 /\ \A k \in 1 .. n : k \in 1 .. n + 1
  OBVIOUS
<1> QED BY <1>1, <1>4, <1>5, <1>6, <1>7

-----------------------------------------------------------------------------
(* The page catches up *)

CatchInv ==
  (conn \in {"up", "closing"} /\ server.boots = 0 /\ ~req.changed) => Through(PageMax, rows, Coming) = ideal

\* CatchInv is PageCatchesUp.
LEMMA CatchUp ==
  ASSUME Types
  PROVE  CatchInv <=> PageCatchesUp
<1>1. Pending = PendingWith(PageMax, rows, Coming)
  BY DEF Pending, PendingWith, Shown, ShownWith, HandleEvent, Handled, Coming, Queued
<1>2. Pending = Through(PageMax, rows, Coming)
  BY <1>1, PendingWithIs, ComingIs, PageMaxIs DEF Types, RowTypes
<1> QED BY <1>2 DEF CatchInv, PageCatchesUp

\* In the beginning the page is the ideal one.
LEMMA CatchInit == ASSUME Init PROVE CatchInv
BY DEF Init, CatchInv

\* A page that is loaded, and nothing more.
LEMMA CatchConnect ==
  ASSUME Types, WireInv, Connect
  PROVE  CatchInv'
<1>1. UNCHANGED <<server, req, rows, send, batch, frames, ideal>> /\ conn = "none"
  BY DEF Connect, ServerUnchanged, wireVars, auxVars
<1>2. send = <<>> /\ batch = <<>> /\ frames = <<>> /\ rows = ideal
  BY <1>1 DEF WireInv
<1>3. Queued = <<>>
  <2>1. PICK e \in Frame : e = <<>>
    BY EmptySeq DEF Frame
  <2> QED BY <1>2, <2>1, ConcatEmptySeq DEF Queued, Frame
<1>4. Coming' = Append(<<>>, <<>>)
  BY <1>1, <1>2, <1>3 DEF Coming, Queued
<1>5. PICK max \in Nat : max = PageMax
  BY PageMaxIs DEF Types
<1>6. PageMax' = max
  BY <1>1, <1>5 DEF PageMax
<1>7. Through(max, rows, Append(<<>>, <<>>)) = rows
  <2>1. PICK e \in Seq(Frame) : e = <<>>
    BY EmptySeq
  <2>2. rows \in Text
    BY DEF Types, RowTypes
  <2>3. Through(max, rows, Append(e, <<>>)) = Through(max, rows, e)
    BY <2>2, ThroughEmpty
  <2>4. Through(max, rows, <<>>) = rows
    BY <2>1, <2>2, ThroughIs
  <2> QED BY <2>1, <2>3, <2>4
<1> QED BY <1>1, <1>2, <1>4, <1>6, <1>7 DEF CatchInv

\* What a step of the same page leaves alone.
LEMMA CatchSame ==
  ASSUME CatchInv, Coming' = Coming, rows' = rows, ideal' = ideal, req'.cookie = req.cookie,
         req'.changed = req.changed, conn' = conn, server'.boots = server.boots
  PROVE  CatchInv'
BY DEF CatchInv, PageMax

\* A message that is sent is shown in the end as the ideal page shows it at once.
LEMMA CatchMore ==
  ASSUME Types, ResetInv, CatchInv, NEW m \in ThisMessage, m.form # "reset", send' = Append(send, m),
         UNCHANGED <<server, req, rows, conn, batch, frames>>, ideal' = ToldOne(PageMax, ideal, m)
  PROVE  CatchInv'
<1>1. PICK max \in Nat : max = PageMax
  BY PageMaxIs DEF Types
<1>2. PageMax' = max
  BY <1>1 DEF PageMax
<1>3. SUFFICES ASSUME conn \in {"up", "closing"}, server.boots = 0, ~req.changed
               PROVE  Through(max, rows, Coming') = ideal'
  BY <1>2 DEF CatchInv
<1>4. Coming' = Append(frames, Append(Queued, m))
  BY QueuedMore
<1>5. Through(max, rows, Coming') = ToldOne(max, Through(max, rows, Coming), m)
  <2>1. rows \in Text
    BY DEF Types, RowTypes
  <2>2. PICK fs \in Seq(Frame), s \in Frame : fs = frames /\ s = Queued /\ Plain(s) /\ Coming = Append(fs, s)
    BY <1>3, ComingIs, ComingIsPlain DEF Coming
  <2> QED BY <1>4, <2>1, <2>2, ThroughMore
<1> QED BY <1>1, <1>3, <1>5 DEF CatchInv

\* A frame that is shown is no longer to come.
LEMMA CatchHandleFrame ==
  ASSUME Types, CatchInv, HandleFrame
  PROVE  CatchInv'
<1>1. PICK max \in Nat : max = PageMax
  BY PageMaxIs DEF Types
<1>2. PICK c \in Seq(Frame) : c = Coming /\ c # <<>> /\ Coming' = Tail(c) /\ Head(frames) = Head(c)
  BY ComingIs, ComingShifts
<1>3. UNCHANGED <<server, req, conn, ideal>> /\ rows' = FrameShown(max, rows, Head(c))
  BY <1>1, <1>2, ShownIsWith DEF HandleFrame, ShowFrame, ServerUnchanged, connVars, FrameShown
<1>4. PageMax' = max
  BY <1>1, <1>3 DEF PageMax
<1>5. Through(max, rows', Coming') = Through(max, rows, c)
  BY <1>2, <1>3, ThroughIs DEF Types, RowTypes
<1> QED BY <1>1, <1>2, <1>3, <1>4, <1>5 DEF CatchInv

\* Every step keeps the page on its way to the ideal one.
LEMMA CatchNext ==
  ASSUME Types, WireInv, ResetInv, CatchInv, [Next]_vars
  PROVE  CatchInv'
<1>1. CASE LogStep \/ UNCHANGED vars
  <2>1. UNCHANGED <<rows, ideal, req, conn>>
    BY <1>1, LogStepIs DEF connVars, vars, auxVars
  <2>2. server'.boots = server.boots
    BY <1>1, LogStepIs DEF vars, logVars
  <2> QED BY <1>1, <2>1, <2>2, ComingSame, CatchSame
<1>2. CASE Reboot
  <2>1. server'.boots # 0
    <3>1. PICK b \in Nat : b = server.boots
      BY Bounds DEF Types, LogTypes
    <3>2. server'.boots = b + 1
      BY <1>2, <3>1 DEF Reboot, Restarts, Types, LogTypes
    <3> QED BY <3>2
  <2> QED BY <2>1 DEF CatchInv
<1>3. CASE \/ Request \/ StatFile \/ StatDir \/ StatFails
           \/ ReadLogs \/ ReadArchive \/ ReadDynamicArchive \/ ListArchives \/ ListDynamicArchives
  <2>1. \/ Request \/ StatFile \/ StatDir \/ StatFails \/ \E text : Show(text)
    BY <1>3, ShownTexts
  <2>2. req.pc # "done" /\ conn' = conn
    BY <2>1 DEF Request, StatFile, StatDir, StatFails, Stat, Show, HandlerUnchanged, connVars
  <2>3. conn' = "none"
    BY <2>2 DEF WireInv, Loaded
  <2> QED BY <2>3 DEF CatchInv
<1>4. CASE Subscribe
  <2>1. UNCHANGED <<server, req, rows, conn, batch, frames, ideal>>
    BY <1>4 DEF Subscribe, ServerUnchanged, auxVars
  <2>2. CASE send' = send
    <3>1. Coming' = Coming
      BY <2>1, <2>2, QueuedSame DEF Coming
    <3> QED BY <2>1, <3>1, CatchSame
  <2>3. CASE send' = Append(send, UnknownServer)
    <3>1. UnknownServer.form = "error" /\ ToldOne(PageMax, ideal, UnknownServer) = ideal
      BY DEF UnknownServer, ToldOne
    <3> QED BY <2>1, <2>3, <3>1, MessagesAre, CatchMore
  <2> QED BY <1>4, <2>2, <2>3 DEF Subscribe
<1>5. CASE Broadcast
  <2>1. UNCHANGED <<server, req, rows, batch, frames>>
    BY <1>5 DEF Broadcast, ServerUnchanged
  <2>2. PICK e \in ThisEvent : e = Head(events)
    BY <1>5, EventsAre DEF Broadcast, Types
  <2>3. CASE send' = Append(send, Encoded(e)) /\ ideal' = HandleEvent(ideal, e) /\ conn' = conn
    <3>1. PICK max \in Nat : max = PageMax
      BY PageMaxIs DEF Types
    <3>2. Encoded(e) \in ThisMessage /\ Encoded(e).form = "event" /\ Encoded(e).event = e
      BY MessagesAre DEF Encoded
    <3>3. ideal' = ToldOne(PageMax, ideal, Encoded(e))
      BY <2>3, <3>2, HandleEventIs DEF ToldOne
    <3> QED BY <2>1, <2>3, <3>2, <3>3, CatchMore
  <2>4. CASE UNCHANGED <<send, ideal>> /\ conn' \in {"closing", conn} /\ (conn' # conn => conn = "up")
    <3>1. Coming' = Coming
      BY <2>1, <2>4, QueuedSame DEF Coming
    <3>2. CASE conn' = conn
      BY <2>1, <2>4, <3>1, <3>2, CatchSame
    <3>3. CASE conn' # conn
      BY <2>1, <2>4, <3>1, <3>3 DEF CatchInv, PageMax
    <3> QED BY <3>2, <3>3
  <2> QED BY <1>5, <2>2, <2>3, <2>4 DEF Broadcast
<1>6. CASE Break
  BY <1>6 DEF Break, CatchInv
<1>7. CASE ChangeMax
  <2>1. req'.changed
    BY <1>7 DEF ChangeMax, Types, ReqTypes
  <2> QED BY <2>1 DEF CatchInv
<1>8. CASE WriterTake
  <2>1. UNCHANGED <<server, req, rows, conn, ideal>>
    BY <1>8 DEF WriterTake, ServerUnchanged, connVars, auxVars
  <2> QED BY <1>8, <2>1, QueuedTaken, CatchSame
<1>9. CASE WriterFlush
  <2>1. UNCHANGED <<server, req, rows, conn, ideal>> /\ batch' = <<>> /\ send' = <<>> /\ frames' = Coming
    BY <1>9 DEF WriterFlush, ServerUnchanged, connVars, auxVars, Coming, Queued
  <2>2. Coming' = Append(Coming, <<>>)
    BY <2>1, QueuedEmpty DEF Coming
  <2>3. PICK max \in Nat : max = PageMax
    BY PageMaxIs DEF Types
  <2>4. PageMax' = max
    BY <2>1, <2>3 DEF PageMax
  <2>5. Through(max, rows, Coming') = Through(max, rows, Coming)
    BY <2>2, ComingIs, ThroughEmpty DEF Types, RowTypes
  <2> QED BY <2>1, <2>3, <2>4, <2>5 DEF CatchInv
<1>10. CASE WriterClose
  <2>1. conn' = "closed"
    BY <1>10 DEF WriterClose
  <2> QED BY <2>1 DEF CatchInv
<1> QED BY <1>1, <1>2, <1>3, <1>4, <1>5, <1>6, <1>7, <1>8, <1>9, <1>10, CatchConnect, CatchHandleFrame
        DEF Next, LogStep, LogAlone, TailTells

-----------------------------------------------------------------------------
(* A page that was cleared is the end of the log *)

\* Another line: the end of the log moves on by one.
LEMMA HandledLast ==
  ASSUME NEW max \in Nat, NEW lines \in Seq(1 .. MaxLines), NEW n \in 1 .. MaxLines
  PROVE  Handled(max, LastOf(lines, max), AddEvent(n)) = LastOf(Append(lines, n), max)
<1>1. PICK l \in Nat : l = Len(lines) /\ \A k \in 1 .. l : lines[k] \in 1 .. MaxLines
  BY LenProperties, ElementOfSeq
<1>2. PICK more \in Seq(1 .. MaxLines) :
        /\ more = Append(lines, n) /\ Len(more) = l + 1 /\ more # <<>>
        /\ more[l + 1] = n /\ \A k \in 1 .. l : more[k] = lines[k]
  <2>1. /\ Append(lines, n) \in Seq(1 .. MaxLines) /\ Len(Append(lines, n)) = Len(lines) + 1
        /\ Append(lines, n) # <<>>
        /\ Append(lines, n)[Len(lines) + 1] = n /\ \A k \in 1 .. Len(lines) : Append(lines, n)[k] = lines[k]
    BY AppendProperties
  <2> QED BY <1>1, <2>1
<1>3. \A text : Handled(max, text, AddEvent(n)) =
        IF max > 0 /\ Len(Append(text, n)) > max THEN Tail(Append(text, n)) ELSE Append(text, n)
  BY DEF Handled, AddEvent
<1>4. LastOf(lines, max) = IF max > 0 /\ l > max THEN SubSeq(lines, (l - max) + 1, l) ELSE lines
  BY <1>1 DEF LastOf
<1>5. LastOf(more, max) = IF max > 0 /\ l + 1 > max THEN SubSeq(more, ((l + 1) - max) + 1, l + 1) ELSE more
  BY <1>2 DEF LastOf
<1>6. CASE max = 0
  BY <1>2, <1>3, <1>4, <1>5, <1>6
<1>7. CASE max > 0 /\ l + 1 <= max
  <2>1. ~(l > max) /\ ~(l + 1 > max)
    BY <1>7
  <2> QED BY <1>2, <1>3, <1>4, <1>5, <2>1
<1>8. CASE max > 0 /\ l = max
  <2>1. ~(l > max) /\ l + 1 > max /\ ((l + 1) - max) + 1 = 2
    BY <1>8
  <2>2. Tail(more) = SubSeq(more, 2, Len(more))
    BY <1>2, TailIsSubSeq
  <2> QED BY <1>2, <1>3, <1>4, <1>5, <1>8, <2>1, <2>2
<1>9. CASE max > 0 /\ l > max
  <2>1. PICK end : end = SubSeq(lines, (l - max) + 1, l)
    OBVIOUS
  <2>2. /\ end \in Seq(1 .. MaxLines) /\ Len(end) = max
        /\ \A i \in 1 .. max : end[i] = lines[(l - max) + i]
    <3>1. /\ (l - max) + 1 \in Int /\ l \in Int /\ (l - max) + 1 <= l
          /\ (l - ((l - max) + 1)) + 1 = max
          /\ \A i \in ((l - max) + 1) .. l : i \in 1 .. l
          /\ \A i \in 1 .. max : (((l - max) + 1) + i) - 1 = (l - max) + i
      BY <1>9
    <3>2. \A i \in ((l - max) + 1) .. l : lines[i] \in 1 .. MaxLines
      BY <1>1, <3>1
    <3>3. /\ SubSeq(lines, (l - max) + 1, l) \in Seq(1 .. MaxLines)
          /\ Len(SubSeq(lines, (l - max) + 1, l)) = (l - ((l - max) + 1)) + 1
          /\ \A i \in 1 .. (l - ((l - max) + 1)) + 1 :
               SubSeq(lines, (l - max) + 1, l)[i] = lines[(((l - max) + 1) + i) - 1]
      BY <3>1, <3>2, SubSeqProperties
    <3> QED BY <2>1, <3>1, <3>3
  <2>3. PICK ext : ext = Append(end, n)
    OBVIOUS
  <2>4. /\ ext \in Seq(1 .. MaxLines) /\ Len(ext) = max + 1 /\ ext # <<>>
        /\ ext[max + 1] = n /\ \A i \in 1 .. max : ext[i] = end[i]
    <3>1. /\ Append(end, n) \in Seq(1 .. MaxLines) /\ Len(Append(end, n)) = Len(end) + 1
          /\ Append(end, n) # <<>>
          /\ Append(end, n)[Len(end) + 1] = n /\ \A k \in 1 .. Len(end) : Append(end, n)[k] = end[k]
      <4>1. end \in Seq(1 .. MaxLines)
        BY <2>2
      <4> QED BY <4>1, AppendProperties, SMTT(60)
    <3> QED BY <2>2, <2>3, <3>1
  <2>5. PICK t : t = Tail(ext)
    OBVIOUS
  <2>6. t \in Seq(1 .. MaxLines) /\ Len(t) = max /\ \A i \in 1 .. max : t[i] = ext[i + 1]
    <3>1. Tail(ext) \in Seq(1 .. MaxLines) /\ Len(Tail(ext)) = Len(ext) - 1
          /\ \A i \in 1 .. Len(Tail(ext)) : Tail(ext)[i] = ext[i + 1]
      BY <2>4, HeadTailProperties
    <3>2. (max + 1) - 1 = max
      OBVIOUS
    <3> QED BY <2>4, <2>5, <3>1, <3>2
  <2>7. PICK u : u = SubSeq(more, ((l + 1) - max) + 1, l + 1)
    OBVIOUS
  <2>8. u \in Seq(1 .. MaxLines) /\ Len(u) = max /\ \A i \in 1 .. max : u[i] = more[((l + 1) - max) + i]
    <3>1. /\ ((l + 1) - max) + 1 \in Int /\ l + 1 \in Int /\ ((l + 1) - max) + 1 <= l + 1
          /\ ((l + 1) - (((l + 1) - max) + 1)) + 1 = max
          /\ \A i \in (((l + 1) - max) + 1) .. l + 1 : i \in 1 .. l + 1
          /\ \A i \in 1 .. max : ((((l + 1) - max) + 1) + i) - 1 = ((l + 1) - max) + i
      BY <1>9
    <3>2. \A i \in (((l + 1) - max) + 1) .. l + 1 : more[i] \in 1 .. MaxLines
      BY <1>2, <3>1, ElementOfSeq
    <3>3. /\ SubSeq(more, ((l + 1) - max) + 1, l + 1) \in Seq(1 .. MaxLines)
          /\ Len(SubSeq(more, ((l + 1) - max) + 1, l + 1)) = ((l + 1) - (((l + 1) - max) + 1)) + 1
          /\ \A i \in 1 .. ((l + 1) - (((l + 1) - max) + 1)) + 1 :
               SubSeq(more, ((l + 1) - max) + 1, l + 1)[i] = more[((((l + 1) - max) + 1) + i) - 1]
      BY <3>1, <3>2, SubSeqProperties
    <3> QED BY <2>7, <3>1, <3>3
  <2>9. ASSUME NEW i \in 1 .. max PROVE t[i] = u[i]
    <3>1. CASE i = max
      <4>1. ((l + 1) - max) + i = l + 1
        BY <1>9, <3>1
      <4> QED BY <1>2, <2>4, <2>6, <2>8, <3>1, <4>1
    <3>2. CASE i # max
      <4>1. i + 1 \in 1 .. max /\ (l - max) + (i + 1) = ((l + 1) - max) + i /\ ((l + 1) - max) + i \in 1 .. l
        BY <1>9, <3>2
      <4>2. t[i] = lines[(l - max) + (i + 1)]
        BY <2>2, <2>4, <2>6, <4>1
      <4> QED BY <1>2, <2>8, <4>1, <4>2
    <3> QED BY <3>1, <3>2
  <2>10. t = u
    BY <2>6, <2>8, <2>9, SeqEqual
  <2>11. l + 1 > max /\ max + 1 > max
    BY <1>9
  <2> QED BY <1>2, <1>3, <1>4, <1>5, <1>9, <2>1, <2>3, <2>4, <2>5, <2>7, <2>10, <2>11
<1>10. max = 0 \/ (max > 0 /\ (l + 1 <= max \/ l = max \/ l > max))
  OBVIOUS
<1> QED BY <1>6, <1>7, <1>8, <1>9, <1>10

HandleOne(max) == [x \in Text \X ThisEvent |-> Handled(max, x[1], x[2])]
HandleAll(max, text, es) == Folded(HandleOne(max), text, es)

\* Events can be folded over.
LEMMA HandleTakesIn ==
  ASSUME NEW max \in Nat
  PROVE  /\ TakesIn(HandleOne(max), Text, ThisEvent)
         /\ \A t \in Text, e \in ThisEvent : HandleOne(max)[<<t, e>>] = Handled(max, t, e)
<1>1. \A x \in Text \X ThisEvent : Handled(max, x[1], x[2]) \in Text
  BY HandledIs
<1> QED BY <1>1 DEF TakesIn, HandleOne

\* The rows after some events, from either end.
LEMMA HandleAllIs ==
  ASSUME NEW max \in Nat, NEW text \in Text, NEW es \in Seq(ThisEvent)
  PROVE  /\ HandleAll(max, text, es) \in Text /\ HandleAll(max, text, <<>>) = text
         /\ \A e \in ThisEvent : HandleAll(max, text, Append(es, e)) = Handled(max, HandleAll(max, text, es), e)
         /\ es # <<>> => HandleAll(max, text, es) = HandleAll(max, Handled(max, text, Head(es)), Tail(es))
<1>1. TakesIn(HandleOne(max), Text, ThisEvent)
  BY HandleTakesIn
<1>2. HandleAll(max, text, es) \in Text
  BY <1>1, FoldedIs DEF HandleAll
<1>3. HandleAll(max, text, <<>>) = text
  BY <1>1, FoldedEmpty DEF HandleAll
<1>4. ASSUME NEW e \in ThisEvent
      PROVE  HandleAll(max, text, Append(es, e)) = Handled(max, HandleAll(max, text, es), e)
  <2>1. HandleAll(max, text, Append(es, e)) = HandleOne(max)[<<HandleAll(max, text, es), e>>]
    BY <1>1, FoldedAppend DEF HandleAll
  <2> QED BY <1>2, <2>1, HandleTakesIn
<1>5. ASSUME es # <<>>
      PROVE  HandleAll(max, text, es) = HandleAll(max, Handled(max, text, Head(es)), Tail(es))
  <2>1. HandleAll(max, text, es) = HandleAll(max, HandleOne(max)[<<text, Head(es)>>], Tail(es))
    BY <1>1, <1>5, FoldedHead DEF HandleAll
  <2>2. Head(es) \in ThisEvent
    BY <1>5, HeadTailProperties
  <2> QED BY <2>1, <2>2, HandleTakesIn
<1> QED BY <1>2, <1>3, <1>4, <1>5

\* Whether there is a reset among events, in a frame, in frames.
EventsReset(es) == \E k \in DOMAIN es : es[k].type = "RESET"
Resets(s) == \E k \in DOMAIN s : s[k].form = "event" /\ s[k].event.type = "RESET"
HasReset(c) == \E i \in DOMAIN c : Resets(c[i])
AllPlain(c) == \A i \in DOMAIN c : Plain(c[i])

\* After a reset it does not matter which rows there were before: of events...
LEMMA HandleForgets ==
  ASSUME NEW max \in Nat, NEW t \in Text, NEW u \in Text, NEW es \in Seq(ThisEvent), EventsReset(es)
  PROVE  HandleAll(max, t, es) = HandleAll(max, u, es)
<1>1. PICK k \in 1 .. Len(es) : es[k].type = "RESET" /\ es[k] \in ThisEvent
  BY LenProperties, ElementOfSeq DEF EventsReset
<1>2. \A x, y \in Text : HandleOne(max)[<<x, es[k]>>] = HandleOne(max)[<<y, es[k]>>]
  <2>1. ASSUME NEW x \in Text PROVE HandleOne(max)[<<x, es[k]>>] = <<>>
    <3>1. Handled(max, x, es[k]) = <<>>
      BY <1>1 DEF Handled
    <3>2. \A e \in ThisEvent : HandleOne(max)[<<x, e>>] = Handled(max, x, e)
      BY HandleTakesIn
    <3> QED BY <1>1, <3>1, <3>2
  <2> QED BY <2>1
<1>3. TakesIn(HandleOne(max), Text, ThisEvent)
  BY HandleTakesIn
<1> QED BY <1>2, <1>3, FoldedForgets DEF HandleAll

\* ... of messages...
LEMMA ToldForgets ==
  ASSUME NEW max \in Nat, NEW t \in Text, NEW u \in Text, NEW s \in Frame, Resets(s)
  PROVE  Told(max, t, s) = Told(max, u, s)
<1>1. PICK k \in 1 .. Len(s) : /\ s[k].form = "event" /\ s[k].event.type = "RESET"
                               /\ s[k] \in ThisMessage /\ s[k].event \in ThisEvent
  BY FrameIs DEF Resets
<1>2. \A x \in Text : TellOne(max)[<<x, s[k]>>] = <<>>
  BY <1>1, ToldOneIs, HandledIs DEF ToldOne
<1>3. \A x, y \in Text : TellOne(max)[<<x, s[k]>>] = TellOne(max)[<<y, s[k]>>]
  BY <1>2
<1>4. TakesIn(TellOne(max), Text, ThisMessage) /\ s \in Seq(ThisMessage)
  BY TellTakesIn DEF Frame
<1> QED BY <1>3, <1>4, FoldedForgets DEF Told

\* ... and of frames.
LEMMA ThroughForgets ==
  ASSUME NEW max \in Nat, NEW t \in Text, NEW u \in Text, NEW c \in Seq(Frame), AllPlain(c), HasReset(c)
  PROVE  Through(max, t, c) = Through(max, u, c)
<1>1. PICK i \in 1 .. Len(c) : Resets(c[i]) /\ Plain(c[i]) /\ c[i] \in Frame
  BY LenProperties, ElementOfSeq DEF HasReset, AllPlain
<1>2. PICK s \in Frame : s = c[i] /\ Resets(s) /\ Plain(s)
  BY <1>1
<1>3. \A x, y \in Text : FrameShown(max, x, s) = FrameShown(max, y, s)
  BY <1>2, PlainFrameIsTold, ToldForgets
<1>4. \A x, y \in Text : ShowOne(max)[<<x, c[i]>>] = ShowOne(max)[<<y, c[i]>>]
  BY <1>2, <1>3, FrameShownIs
<1>5. TakesIn(ShowOne(max), Text, Frame)
  BY ShowTakesIn
<1> QED BY <1>4, <1>5, FoldedForgets DEF Through

\* Resets in frames that grow and go.
LEMMA HasResetIs ==
  ASSUME NEW fs \in Seq(Frame), NEW s \in Frame
  PROVE  /\ HasReset(Append(fs, s)) <=> (HasReset(fs) \/ Resets(s))
         /\ HasReset(Append(fs, <<>>)) => HasReset(fs)
         /\ \A m \in ThisMessage : Resets(Append(s, m)) <=>
              (Resets(s) \/ (m.form = "event" /\ m.event.type = "RESET"))
         /\ fs # <<>> => (Resets(Head(fs)) \/ HasReset(Tail(fs)) => HasReset(fs))
         /\ (fs # <<>> /\ AllPlain(fs)) => AllPlain(Tail(fs))
<1>1. PICK n \in Nat : n = Len(fs) /\ DOMAIN fs = 1 .. n
  BY LenProperties
<1>2. \A k : k \in 1 .. n + 1 <=> (k \in 1 .. n \/ k = n + 1)
  BY <1>1
<1>3. ASSUME NEW t \in Frame
      PROVE  HasReset(Append(fs, t)) <=> (HasReset(fs) \/ Resets(t))
  <2>1. PICK c \in Seq(Frame) : c = Append(fs, t) /\ Len(c) = n + 1 /\ c[n + 1] = t
                                /\ \A k \in 1 .. n : c[k] = fs[k]
    <3>1. /\ Append(fs, t) \in Seq(Frame) /\ Len(Append(fs, t)) = Len(fs) + 1 /\ Append(fs, t)[Len(fs) + 1] = t
          /\ \A k \in 1 .. Len(fs) : Append(fs, t)[k] = fs[k]
      BY AppendProperties
    <3> QED BY <1>1, <3>1
  <2>2. DOMAIN c = 1 .. n + 1
    BY <2>1, LenProperties
  <2> QED BY <1>1, <1>2, <2>1, <2>2 DEF HasReset
<1>4. HasReset(Append(fs, <<>>)) => HasReset(fs)
  <2>1. PICK e \in Frame : e = <<>>
    BY EmptySeq DEF Frame
  <2>2. ~Resets(e)
    BY <2>1 DEF Resets
  <2> QED BY <1>3, <2>1, <2>2
<1>5. ASSUME NEW m \in ThisMessage
      PROVE  Resets(Append(s, m)) <=> (Resets(s) \/ (m.form = "event" /\ m.event.type = "RESET"))
  <2>1. PICK k \in Nat : k = Len(s) /\ DOMAIN s = 1 .. k
    BY FrameIs
  <2>2. PICK t \in Frame : t = Append(s, m) /\ Len(t) = k + 1 /\ t[k + 1] = m /\ \A i \in 1 .. k : t[i] = s[i]
    <3>1. /\ Append(s, m) \in Frame /\ Len(Append(s, m)) = Len(s) + 1 /\ Append(s, m)[Len(s) + 1] = m
          /\ \A i \in 1 .. Len(s) : Append(s, m)[i] = s[i]
      BY AppendProperties DEF Frame
    <3> QED BY <2>1, <3>1
  <2>3. DOMAIN t = 1 .. k + 1 /\ \A i : i \in 1 .. k + 1 <=> (i \in 1 .. k \/ i = k + 1)
    BY <2>2, FrameIs
  <2> QED BY <2>1, <2>2, <2>3 DEF Resets
<1>6. ASSUME fs # <<>>
      PROVE  /\ Resets(Head(fs)) \/ HasReset(Tail(fs)) => HasReset(fs)
             /\ AllPlain(fs) => AllPlain(Tail(fs))
  <2>1. PICK t \in Seq(Frame) : t = Tail(fs) /\ Len(t) = n - 1 /\ \A k \in 1 .. n - 1 : t[k] = fs[k + 1]
    <3>1. Tail(fs) \in Seq(Frame) /\ Len(Tail(fs)) = Len(fs) - 1
          /\ \A k \in 1 .. Len(Tail(fs)) : Tail(fs)[k] = fs[k + 1]
      BY <1>6, HeadTailProperties
    <3> QED BY <1>1, <3>1
  <2>2. DOMAIN t = 1 .. n - 1 /\ n # 0 /\ Head(fs) = fs[1]
    <3>1. n # 0
      BY <1>1, <1>6, EmptySeq
    <3>2. DOMAIN t = 1 .. n - 1
      BY <2>1, LenProperties
    <3> QED BY <3>1, <3>2
  <2>3. 1 \in 1 .. n /\ \A k \in 1 .. n - 1 : k + 1 \in 1 .. n
    BY <2>2
  <2> QED BY <1>1, <2>1, <2>2, <2>3 DEF HasReset, AllPlain
<1> QED BY <1>3, <1>4, <1>5, <1>6

\* These events make the end of the log of any rows, or of the rows after some frames.
Follow(es, lines) == \A max \in Nat, t \in Text : HandleAll(max, t, es) = LastOf(lines, max)
ComingFollow(c, es, lines) ==
  \A max \in Nat, t \in Text : HandleAll(max, Through(max, t, c), es) = LastOf(lines, max)

\* An event more, while the log changes.
LEMMA EventsMore ==
  ASSUME NEW es \in Seq(ThisEvent), NEW e \in ThisEvent
  PROVE  /\ e.type # "RESET" => (EventsReset(Append(es, e)) => EventsReset(es))
         /\ EventsReset(Append(es, e)) => (EventsReset(es) \/ e.type = "RESET")
<1>1. PICK n \in Nat : n = Len(es) /\ DOMAIN es = 1 .. n
  BY LenProperties
<1>2. PICK s \in Seq(ThisEvent) : s = Append(es, e) /\ Len(s) = n + 1 /\ s[n + 1] = e
                                  /\ \A k \in 1 .. n : s[k] = es[k]
  <2>1. /\ Append(es, e) \in Seq(ThisEvent) /\ Len(Append(es, e)) = Len(es) + 1 /\ Append(es, e)[Len(es) + 1] = e
        /\ \A k \in 1 .. Len(es) : Append(es, e)[k] = es[k]
    BY AppendProperties
  <2> QED BY <1>1, <2>1
<1>3. DOMAIN s = 1 .. n + 1 /\ \A k \in 1 .. n + 1 : k \in 1 .. n \/ k = n + 1
  BY <1>2, LenProperties
<1> QED BY <1>1, <1>2, <1>3 DEF EventsReset

\* An event of a line adds it.
LEMMA HandleLine ==
  ASSUME NEW max \in Nat, NEW t \in Text, NEW es \in Seq(ThisEvent), NEW lines \in Seq(1 .. MaxLines),
         NEW n \in 1 .. MaxLines, HandleAll(max, t, es) = LastOf(lines, max)
  PROVE  HandleAll(max, t, Append(es, AddEvent(n))) = LastOf(Append(lines, n), max)
<1>1. AddEvent(n) \in ThisEvent
  BY MessagesAre, Bounds
<1>2. HandleAll(max, t, Append(es, AddEvent(n))) = Handled(max, HandleAll(max, t, es), AddEvent(n))
  BY <1>1, HandleAllIs
<1> QED BY <1>2, HandledLast

\* A reset empties the page.
LEMMA HandleReset ==
  ASSUME NEW max \in Nat, NEW t \in Text, NEW es \in Seq(ThisEvent)
  PROVE  HandleAll(max, t, Append(es, ResetEvent)) = LastOf(<<>>, max)
<1>1. ResetEvent \in ThisEvent /\ ResetEvent.type = "RESET"
  BY MessagesAre DEF ResetEvent
<1>2. HandleAll(max, t, Append(es, ResetEvent)) = Handled(max, HandleAll(max, t, es), ResetEvent)
  BY <1>1, HandleAllIs
<1>3. HandleAll(max, t, es) \in Text
  BY HandleAllIs
<1>4. HandleAll(max, t, Append(es, ResetEvent)) = <<>>
  BY <1>1, <1>2, <1>3, HandledIs
<1>5. LastOf(<<>>, max) = <<>>
  BY DEF LastOf
<1> QED BY <1>4, <1>5

\* An event goes from the queue of the hub into the last frame.
LEMMA HandleBroadcast ==
  ASSUME NEW max \in Nat, NEW t \in Text, NEW es \in Seq(ThisEvent), es # <<>>,
         NEW fs \in Seq(Frame), NEW s \in Frame, Plain(s)
  PROVE  HandleAll(max, Through(max, t, Append(fs, Append(s, Encoded(Head(es))))), Tail(es)) =
         HandleAll(max, Through(max, t, Append(fs, s)), es)
<1>1. PICK e \in ThisEvent : e = Head(es)
  BY HeadTailProperties
<1>2. PICK m \in ThisMessage : m = Encoded(e) /\ m.form = "event" /\ m.event = e
  BY MessagesAre DEF Encoded
<1>3. PICK now \in Text : now = Through(max, t, Append(fs, s))
  BY AppendProperties, ThroughIs
<1>4. Through(max, t, Append(fs, Append(s, m))) = Handled(max, now, e)
  BY <1>2, <1>3, ThroughMore DEF ToldOne
<1>5. HandleAll(max, now, es) = HandleAll(max, Handled(max, now, e), Tail(es))
  BY <1>1, HandleAllIs
<1> QED BY <1>1, <1>2, <1>3, <1>4, <1>5

\* With a reset among them, the events behind the first one do as well.
LEMMA FollowTail ==
  ASSUME NEW es \in Seq(ThisEvent), es # <<>>, NEW lines, EventsReset(es) => Follow(es, lines)
  PROVE  EventsReset(Tail(es)) => Follow(Tail(es), lines)
<1>1. PICK n \in Nat : n = Len(es) /\ DOMAIN es = 1 .. n
  BY LenProperties
<1>2. PICK r \in Seq(ThisEvent) : r = Tail(es) /\ DOMAIN r = 1 .. n - 1 /\ \A k \in 1 .. n - 1 : r[k] = es[k + 1]
  <2>1. Tail(es) \in Seq(ThisEvent) /\ Len(Tail(es)) = Len(es) - 1
        /\ \A k \in 1 .. Len(Tail(es)) : Tail(es)[k] = es[k + 1]
    BY HeadTailProperties
  <2>2. DOMAIN Tail(es) = 1 .. Len(Tail(es))
    BY <2>1, LenProperties
  <2> QED BY <1>1, <2>1, <2>2
<1>3. \A k \in 1 .. n - 1 : k + 1 \in 1 .. n
  BY <1>1
<1>4. SUFFICES ASSUME EventsReset(r), NEW max \in Nat, NEW t \in Text
               PROVE  HandleAll(max, t, r) = LastOf(lines, max)
  BY <1>2 DEF Follow
<1>5. EventsReset(es)
  BY <1>1, <1>2, <1>3, <1>4 DEF EventsReset
<1>6. Head(es) \in ThisEvent
  BY HeadTailProperties
<1>7. PICK u \in Text : u = Handled(max, t, Head(es))
  BY <1>6, HandledIs
<1>8. HandleAll(max, t, es) = HandleAll(max, u, r)
  BY <1>2, <1>7, HandleAllIs
<1>9. HandleAll(max, u, r) = HandleAll(max, t, r)
  BY <1>4, HandleForgets
<1>10. Follow(es, lines)
  BY <1>5
<1> QED BY <1>8, <1>9, <1>10 DEF Follow

\* Before the page asks, nothing reaches it.
SubscribedInv == ~asked => ~listed /\ ~cleared /\ send = <<>> /\ batch = <<>> /\ frames = <<>>

\* In the beginning nobody asks for the log.
LEMMA SubscribedInit == ASSUME Init PROVE SubscribedInv
BY DEF Init, SubscribedInv

\* Only a page that asked for a server the hub knows gets something of it.
LEMMA SubscribedNext ==
  ASSUME Types, WireInv, SubscribedInv, [Next]_vars
  PROVE  SubscribedInv'
<1>1. CASE LogStep
  BY <1>1, LogStepIs DEF SubscribedInv
<1>2. CASE Reboot
  <2>1. UNCHANGED <<asked, listed, cleared, batch, frames>> /\ (~listed => send' = send)
    BY <1>2 DEF Reboot, Restarts, PageUnchanged, connVars
  <2> QED BY <2>1 DEF SubscribedInv
<1>3. CASE \/ Request \/ StatFile \/ StatDir \/ StatFails
           \/ ReadLogs \/ ReadArchive \/ ReadDynamicArchive \/ ListArchives \/ ListDynamicArchives
  <2>1. \/ Request \/ StatFile \/ StatDir \/ StatFails \/ \E text : Show(text)
    BY <1>3, ShownTexts
  <2>2. UNCHANGED <<asked, listed, cleared, send, batch, frames>>
    BY <2>1 DEF Request, StatFile, StatDir, StatFails, Show, HandlerUnchanged, logVars, connVars, wireVars
  <2> QED BY <2>2 DEF SubscribedInv
<1>4. CASE Connect \/ WriterClose \/ UNCHANGED vars
  <2>1. UNCHANGED <<asked, listed, cleared, send, batch, frames>>
    BY <1>4 DEF Connect, WriterClose, ServerUnchanged, vars, logVars, connVars, wireVars, auxVars
  <2> QED BY <2>1 DEF SubscribedInv
<1>5. CASE Subscribe
  <2>1. asked'
    BY <1>5 DEF Subscribe
  <2> QED BY <2>1 DEF SubscribedInv
<1>6. CASE Break
  <2>1. /\ ~listed' /\ send' = <<>> /\ batch' = <<>>
        /\ UNCHANGED <<asked, cleared, frames>>
    BY <1>6 DEF Break, ServerUnchanged, auxVars
  <2> QED BY <2>1 DEF SubscribedInv
<1>7. CASE ChangeMax
  <2>1. ~cleared' /\ UNCHANGED <<asked, listed, send, batch, frames>>
    BY <1>7 DEF ChangeMax, logVars, connVars, wireVars
  <2> QED BY <2>1 DEF SubscribedInv
<1>8. CASE Broadcast
  <2>1. UNCHANGED <<asked, batch, frames, cleared>>
    BY <1>8 DEF Broadcast
  <2>2. (listed' => listed) /\ (~listed => send' = send)
    BY <1>8 DEF Broadcast
  <2> QED BY <2>1, <2>2 DEF SubscribedInv
<1>9. CASE WriterTake \/ WriterFlush
  <2>1. send # <<>> \/ batch # <<>>
    BY <1>9 DEF WriterTake, WriterFlush
  <2>2. UNCHANGED <<asked, listed>>
    BY <1>9 DEF WriterTake, WriterFlush, ServerUnchanged, connVars
  <2> QED BY <2>1, <2>2 DEF SubscribedInv
<1>10. CASE HandleFrame
  <2>1. frames # <<>> /\ UNCHANGED <<asked, listed>>
    BY <1>10 DEF HandleFrame, ShowFrame, ServerUnchanged, connVars
  <2> QED BY <2>1 DEF SubscribedInv
<1> QED BY <1>1, <1>2, <1>3, <1>4, <1>5, <1>6, <1>7, <1>8, <1>9, <1>10
        DEF Next, LogStep, LogAlone, TailTells

\* A reset in the queue of the hub, on the wire or in the page makes all that is before
\* it forgotten: from there on what is on its way makes the end of what the tail told.
ClearInv ==
  server.boots = 0 =>
    /\ EventsReset(events) => Follow(events, told)
    /\ (listed /\ conn = "up") =>
         /\ HasReset(Coming) => ComingFollow(Coming, events, told)
         /\ cleared => HandleAll(PageMax, Through(PageMax, rows, Coming), events) = LastOf(told, PageMax)

\* In the beginning there is no reset.
LEMMA ClearInit == ASSUME Init PROVE ClearInv
BY DEF Init, ClearInv, EventsReset

\* A step that changes nothing of this, or takes the client off the list.
LEMMA ClearSame ==
  ASSUME ClearInv, UNCHANGED <<events, told>>, server'.boots = server.boots,
         (listed' /\ conn' = "up") =>
            /\ listed /\ conn = "up" /\ Coming' = Coming /\ UNCHANGED rows
            /\ cleared' => cleared /\ PageMax' = PageMax
  PROVE  ClearInv'
BY DEF ClearInv

\* Steps of the log in which the tail takes no part.
LEMMA LogAloneIs ==
  ASSUME LogAlone
  PROVE  UNCHANGED <<events, told>>
BY DEF LogAlone, WriteLine, Truncate, NewInstance, TailStarts, TailUnchanged

\* A line told goes to the end of what the tail told and of what is on its way.
LEMMA ClearTells ==
  ASSUME Types, TailInv, ClearInv, TailTells
  PROVE  ClearInv'
<1>1. PICK n \in 1 .. MaxLines, lines \in Seq(1 .. MaxLines), es \in Seq(ThisEvent) :
        /\ lines = told /\ told' = Append(lines, n) /\ es = events /\ events' = Append(es, AddEvent(n))
        /\ server' = server
  BY TellsAre DEF Types, LogTypes
<1>2. LogStep
  BY DEF LogStep
<1>3. UNCHANGED <<rows, req, conn, listed, cleared>> /\ Coming' = Coming /\ PageMax' = PageMax
  BY <1>2, LogStepIs, ComingSame DEF PageMax
<1>4. AddEvent(n) \in ThisEvent /\ AddEvent(n).type # "RESET"
  BY MessagesAre, Bounds DEF AddEvent
<1>5. EventsReset(events') => EventsReset(es)
  BY <1>1, <1>4, EventsMore
<1>6. PICK c \in Seq(Frame) : c = Coming
  BY ComingIs
<1>7. PICK max \in Nat, t \in Text : max = PageMax /\ t = rows
  BY PageMaxIs DEF Types, RowTypes
<1>8. \A m \in Nat, u \in Text : HandleAll(m, u, es) = LastOf(lines, m) =>
         HandleAll(m, u, events') = LastOf(told', m)
  BY <1>1, HandleLine
<1>9. \A m \in Nat, u \in Text : Through(m, u, c) \in Text
  BY ThroughIs
<1>10. Follow(es, lines) => Follow(events', told')
  BY <1>8 DEF Follow
<1>11. ComingFollow(c, es, lines) => ComingFollow(c, events', told')
  BY <1>8, <1>9 DEF ComingFollow
<1>12. HandleAll(max, Through(max, t, c), es) = LastOf(lines, max) =>
         HandleAll(max, Through(max, t, c), events') = LastOf(told', max)
  BY <1>8, <1>9
<1> QED BY <1>1, <1>3, <1>5, <1>6, <1>7, <1>10, <1>11, <1>12 DEF ClearInv

\* After a reset the tail told nothing, and the page will be empty.
LEMMA ClearTailResets ==
  ASSUME Types, ClearInv, TailResets
  PROVE  ClearInv'
<1>1. PICK es \in Seq(ThisEvent) : es = events /\ events' = Append(es, ResetEvent) /\ told' = <<>>
  BY DEF TailResets, Types, LogTypes
<1>2. LogStep
  BY DEF LogStep
<1>3. UNCHANGED <<rows, req, conn, listed, cleared>> /\ Coming' = Coming /\ PageMax' = PageMax
  BY <1>2, LogStepIs, ComingSame DEF PageMax
<1>4. PICK c \in Seq(Frame) : c = Coming
  BY ComingIs
<1>5. PICK max \in Nat, t \in Text : max = PageMax /\ t = rows
  BY PageMaxIs DEF Types, RowTypes
<1>6. \A m \in Nat, u \in Text : HandleAll(m, u, events') = LastOf(told', m)
  BY <1>1, HandleReset
<1>7. \A m \in Nat, u \in Text : Through(m, u, c) \in Text
  BY ThroughIs
<1> QED BY <1>3, <1>4, <1>5, <1>6, <1>7 DEF ClearInv, Follow, ComingFollow

\* The hub moves an event from its queue to the wire.
LEMMA ClearBroadcast ==
  ASSUME Types, ResetInv, ClearInv, Broadcast
  PROVE  ClearInv'
<1>1. PICK es \in Seq(ThisEvent) : es = events /\ es # <<>> /\ events' = Tail(es)
  BY DEF Broadcast, Types, LogTypes
<1>2. UNCHANGED <<server, told, rows, req, batch, frames, cleared>>
  BY DEF Broadcast, ServerUnchanged
<1>3. PICK e \in ThisEvent : e = Head(es)
  BY <1>1, HeadTailProperties
<1>4. SUFFICES ASSUME server.boots = 0 PROVE ClearInv'
  BY <1>2 DEF ClearInv
<1>5. EventsReset(es) => Follow(es, told)
  BY <1>1, <1>4 DEF ClearInv
<1>6. EventsReset(Tail(es)) => Follow(Tail(es), told)
  BY <1>1, <1>5, FollowTail
<1>7. CASE ~(listed' /\ conn' = "up")
  BY <1>1, <1>2, <1>6, <1>7 DEF ClearInv
<1>8. CASE listed' /\ conn' = "up"
  <2>1. listed /\ conn = "up" /\ send' = Append(send, Encoded(e))
    BY <1>1, <1>3, <1>8 DEF Broadcast
  <2>2. PICK m \in ThisMessage : m = Encoded(e) /\ m.form = "event" /\ m.event = e
    BY MessagesAre DEF Encoded
  <2>3. PICK fs \in Seq(Frame), s \in Frame : fs = frames /\ s = Queued /\ Plain(s) /\ Coming = Append(fs, s)
    BY <1>4, ComingIs, ComingIsPlain DEF Coming
  <2>4. PICK t \in Frame : t = Append(s, m) /\ Coming' = Append(fs, t)
    <3>1. Append(s, m) \in Frame
      BY AppendProperties DEF Frame
    <3> QED BY <1>2, <2>1, <2>2, <2>3, <3>1, QueuedMore
  <2>5. ASSUME NEW max \in Nat, NEW u \in Text
        PROVE  HandleAll(max, Through(max, u, Append(fs, t)), Tail(es)) =
               HandleAll(max, Through(max, u, Append(fs, s)), es)
    BY <1>1, <1>3, <2>2, <2>3, <2>4, HandleBroadcast
  <2>6. ASSUME HasReset(Append(fs, t)) PROVE ComingFollow(Append(fs, t), Tail(es), told)
    <3>1. HasReset(Append(fs, s)) \/ e.type = "RESET"
      BY <2>2, <2>4, <2>6, HasResetIs
    <3>2. CASE HasReset(Append(fs, s))
      BY <1>1, <1>4, <2>1, <2>3, <2>5, <3>2 DEF ClearInv, ComingFollow
    <3>3. CASE e.type = "RESET"
      <4>1. EventsReset(es)
        <5>1. PICK n \in Nat : n = Len(es) /\ DOMAIN es = 1 .. n
          BY LenProperties
        <5>2. n # 0
          BY <1>1, <5>1, EmptySeq
        <5>3. 1 \in DOMAIN es /\ es[1] = e
          BY <1>3, <5>1, <5>2
        <5> QED BY <3>3, <5>3 DEF EventsReset
      <4>2. Append(fs, s) \in Seq(Frame)
        BY AppendProperties
      <4>3. \A max \in Nat, u \in Text : Through(max, u, Append(fs, s)) \in Text
        BY <4>2, ThroughIs
      <4> QED BY <1>5, <2>5, <4>1, <4>3 DEF ComingFollow, Follow
    <3> QED BY <3>1, <3>2, <3>3
  <2>7. PICK max \in Nat, u \in Text : max = PageMax /\ u = rows
    BY PageMaxIs DEF Types, RowTypes
  <2>8. max = PageMax' /\ u = rows'
    BY <1>2, <2>7 DEF PageMax
  <2>9. ASSUME cleared
        PROVE  HandleAll(max, Through(max, u, Append(fs, t)), Tail(es)) = LastOf(told, max)
    BY <1>1, <1>4, <2>1, <2>3, <2>5, <2>7, <2>9 DEF ClearInv
  <2> QED BY <1>1, <1>2, <1>6, <2>4, <2>6, <2>7, <2>8, <2>9 DEF ClearInv
<1> QED BY <1>7, <1>8

\* The page moves a frame from the wire to its rows.
LEMMA ClearHandleFrame ==
  ASSUME Types, ResetInv, ClearInv, HandleFrame
  PROVE  ClearInv'
<1>1. PICK max \in Nat, u \in Text : max = PageMax /\ u = rows
  BY PageMaxIs DEF Types, RowTypes
<1>2. PICK c \in Seq(Frame) : c = Coming /\ c # <<>> /\ Coming' = Tail(c) /\ Head(frames) = Head(c)
  BY ComingIs, ComingShifts
<1>3. PICK s \in Frame : s = Head(c)
  BY <1>2, HeadTailProperties
<1>4. /\ UNCHANGED <<server, told, events, req, conn, listed>> /\ rows' = FrameShown(max, u, s)
      /\ cleared' = (cleared \/ \E k \in Decoded(s) : s[k].event.type = "RESET")
  BY <1>1, <1>2, <1>3, ShownIsWith DEF HandleFrame, ShowFrame, ServerUnchanged, connVars, FrameShown
<1>5. PageMax' = max
  BY <1>1, <1>4 DEF PageMax
<1>6. SUFFICES ASSUME server.boots = 0, listed, conn = "up"
               PROVE  /\ HasReset(Tail(c)) => ComingFollow(Tail(c), events, told)
                      /\ cleared' => HandleAll(max, Through(max, rows', Tail(c)), events) = LastOf(told, max)
  BY <1>2, <1>4, <1>5 DEF ClearInv
<1>7. HasReset(c) => ComingFollow(c, events, told)
  BY <1>2, <1>6 DEF ClearInv
<1>8. AllPlain(c) /\ Tail(c) \in Seq(Frame)
  BY <1>2, <1>6, ComingIsPlain, HeadTailProperties DEF AllPlain
<1>9. AllPlain(Tail(c)) /\ (Resets(s) \/ HasReset(Tail(c)) => HasReset(c))
  <2>1. <<>> \in Frame
    BY EmptySeq DEF Frame
  <2> QED BY <1>2, <1>3, <1>8, <2>1, HasResetIs
<1>10. \A m \in Nat, t \in Text : Through(m, t, c) = Through(m, FrameShown(m, t, s), Tail(c))
  BY <1>2, <1>3, ThroughIs
<1>11. ASSUME HasReset(Tail(c)) PROVE ComingFollow(Tail(c), events, told)
  <2>1. \A m \in Nat, t \in Text : Through(m, FrameShown(m, t, s), Tail(c)) = Through(m, t, Tail(c))
    BY <1>8, <1>9, <1>11, FrameShownIs, ThroughForgets
  <2> QED BY <1>7, <1>9, <1>10, <1>11, <2>1 DEF ComingFollow
<1>12. ASSUME cleared' PROVE HandleAll(max, Through(max, rows', Tail(c)), events) = LastOf(told, max)
  <2>1. Through(max, u, c) = Through(max, rows', Tail(c))
    BY <1>4, <1>10
  <2>2. CASE cleared
    BY <1>1, <1>2, <1>6, <2>1, <2>2 DEF ClearInv
  <2>3. CASE ~cleared
    <3>1. PICK k \in Decoded(s) : s[k].event.type = "RESET"
      BY <1>4, <1>12, <2>3
    <3>2. Resets(s)
      BY <3>1 DEF Resets, Decoded, Decodes
    <3> QED BY <1>7, <1>9, <2>1, <3>2 DEF ComingFollow
  <2> QED BY <2>2, <2>3
<1> QED BY <1>11, <1>12

\* Every step keeps what follows a reset.
LEMMA ClearNext ==
  ASSUME Types, TailInv, WireInv, ResetInv, SubscribedInv, ClearInv, [Next]_vars
  PROVE  ClearInv'
<1>1. CASE LogAlone \/ WriterClose \/ UNCHANGED vars
  <2>1. CASE LogAlone
    <3>1. LogStep
      BY <2>1 DEF LogStep
    <3> QED BY <2>1, <3>1, LogAloneIs, LogStepIs, ComingSame, ClearSame DEF PageMax
  <2>2. CASE WriterClose \/ UNCHANGED vars
    <3>1. UNCHANGED <<server, events, told, rows, req, cleared>>
      BY <2>2 DEF WriterClose, ServerUnchanged, vars, logVars, auxVars
    <3>2. listed' /\ conn' = "up" => listed /\ conn = "up"
      BY <2>2 DEF WriterClose, connVars, vars
    <3> QED BY <2>2, <3>1, <3>2, ComingSame, ClearSame DEF PageMax
  <2> QED BY <1>1, <2>1, <2>2
<1>2. CASE Reboot
  <2>1. server'.boots # 0
    <3>1. PICK b \in Nat : b = server.boots
      BY Bounds DEF Types, LogTypes
    <3>2. server'.boots = b + 1
      BY <1>2, <3>1 DEF Reboot, Restarts, Types, LogTypes
    <3> QED BY <3>2
  <2> QED BY <2>1 DEF ClearInv
<1>3. CASE \/ Request \/ StatFile \/ StatDir \/ StatFails
           \/ ReadLogs \/ ReadArchive \/ ReadDynamicArchive \/ ListArchives \/ ListDynamicArchives
  <2>1. \/ Request \/ StatFile \/ StatDir \/ StatFails \/ \E text : Show(text)
    BY <1>3, ShownTexts
  <2>2. req.pc # "done" /\ UNCHANGED <<server, told, events, conn>>
    BY <2>1 DEF Request, StatFile, StatDir, StatFails, Stat, Show, HandlerUnchanged, logVars, connVars
  <2>3. conn' = "none"
    BY <2>2 DEF WireInv, Loaded
  <2> QED BY <2>2, <2>3, ClearSame
<1>4. CASE Connect
  <2>1. ~listed /\ UNCHANGED <<server, told, events, listed>>
    BY <1>4 DEF Connect, WireInv, ServerUnchanged
  <2> QED BY <2>1, ClearSame
<1>5. CASE Subscribe
  <2>1. UNCHANGED <<server, told, events, rows, conn, batch, frames, cleared>>
    BY <1>5 DEF Subscribe, ServerUnchanged, auxVars
  <2>2. ~listed /\ ~cleared /\ send = <<>> /\ batch = <<>> /\ frames = <<>>
    BY <1>5 DEF Subscribe, SubscribedInv
  <2>3. CASE listed' /\ send' = send
    <3>1. PICK none \in Seq(Frame) : none = <<>>
      BY EmptySeq
    <3>2. Queued' = <<>>
      BY <2>1, <2>2, <2>3, QueuedEmpty
    <3>3. Coming' = Append(none, <<>>)
      BY <2>1, <2>2, <3>1, <3>2 DEF Coming
    <3>4. ~HasReset(none)
      BY <3>1 DEF HasReset
    <3>5. <<>> \in Frame
      BY EmptySeq DEF Frame
    <3>6. ~HasReset(Coming')
      BY <3>3, <3>4, <3>5, HasResetIs
    <3> QED BY <2>1, <2>2, <3>6 DEF ClearInv
  <2>4. CASE UNCHANGED listed
    BY <2>1, <2>2, <2>4, ClearSame
  <2> QED BY <1>5, <2>3, <2>4 DEF Subscribe
<1>6. CASE Break
  <2>1. ~listed' /\ UNCHANGED <<server, told, events>>
    BY <1>6 DEF Break, ServerUnchanged
  <2> QED BY <2>1, ClearSame
<1>7. CASE ChangeMax
  <2>1. ~cleared' /\ UNCHANGED <<server, told, events, rows, listed, conn>>
    BY <1>7 DEF ChangeMax, logVars, connVars
  <2> QED BY <1>7, <2>1, ComingSame, ClearSame
<1>8. CASE WriterTake
  <2>1. UNCHANGED <<server, told, events, rows, req, listed, conn, cleared>>
    BY <1>8 DEF WriterTake, ServerUnchanged, connVars, auxVars
  <2> QED BY <1>8, <2>1, QueuedTaken, ClearSame DEF PageMax
<1>9. CASE WriterFlush
  <2>1. /\ UNCHANGED <<server, told, events, rows, req, listed, conn, cleared>>
        /\ batch' = <<>> /\ send' = <<>> /\ frames' = Coming
    BY <1>9 DEF WriterFlush, ServerUnchanged, connVars, auxVars, Coming, Queued
  <2>2. PICK c \in Seq(Frame) : c = Coming
    BY ComingIs
  <2>3. Coming' = Append(c, <<>>)
    BY <2>1, <2>2, QueuedEmpty DEF Coming
  <2>4. PICK max \in Nat, u \in Text : max = PageMax /\ u = rows
    BY PageMaxIs DEF Types, RowTypes
  <2>5. PageMax' = max
    BY <2>1, <2>4 DEF PageMax
  <2>6. \A m \in Nat, t \in Text : Through(m, t, Append(c, <<>>)) = Through(m, t, c)
    BY ThroughEmpty
  <2>7. HasReset(Append(c, <<>>)) => HasReset(c)
    <3>1. <<>> \in Frame
      BY EmptySeq DEF Frame
    <3> QED BY <3>1, HasResetIs
  <2>8. ComingFollow(c, events, told) => ComingFollow(Append(c, <<>>), events, told)
    BY <2>6 DEF ComingFollow
  <2> QED BY <2>1, <2>2, <2>3, <2>4, <2>5, <2>6, <2>7, <2>8 DEF ClearInv
<1> QED BY <1>1, <1>2, <1>3, <1>4, <1>5, <1>6, <1>7, <1>8, <1>9,
          ClearTells, ClearTailResets, ClearBroadcast, ClearHandleFrame DEF Next, LogStep, LogAlone, TailTells

\* At rest nothing is on its way.
LEMMA ClearedIsTold ==
  ASSUME Types, ClearInv, AtRest, cleared
  PROVE  rows = LastOf(told, PageMax)
<1>1. PICK max \in Nat, u \in Text : max = PageMax /\ u = rows
  BY PageMaxIs DEF Types, RowTypes
<1>2. events = <<>> /\ send = <<>> /\ batch = <<>> /\ frames = <<>>
  BY DEF AtRest
<1>3. PICK none \in Seq(Frame), e \in Frame : none = <<>> /\ e = <<>>
  BY EmptySeq DEF Frame
<1>4. Coming = Append(none, <<>>)
  BY <1>2, <1>3, ConcatEmptySeq DEF Coming, Queued, Frame
<1>5. Through(max, u, Append(none, <<>>)) = u
  <2>1. Through(max, u, Append(none, <<>>)) = Through(max, u, none)
    BY ThroughEmpty
  <2>2. Through(max, u, <<>>) = u
    BY <1>3, ThroughIs
  <2> QED BY <1>3, <2>1, <2>2
<1>6. HandleAll(max, u, <<>>) = u
  <2>1. <<>> \in Seq(ThisEvent)
    BY EmptySeq
  <2> QED BY <2>1, HandleAllIs
<1> QED BY <1>1, <1>2, <1>4, <1>5, <1>6 DEF ClearInv, AtRest

\* A tail that told all told the log.
LEMMA AllToldIsLog ==
  ASSUME Types, TailInv, AllTold
  PROVE  told = log.lines
<1>1. PICK t \in Seq(1 .. MaxLines), l \in Seq(1 .. MaxLines) : t = told /\ l = log.lines
  BY DEF Types, LogTypes
<1>2. Len(t) = Len(l) /\ \A k \in 1 .. Len(l) : t[k] = l[k]
  BY <1>1 DEF TailInv, AllTold
<1>3. t = l
  BY <1>2, SeqEqual
<1> QED BY <1>1, <1>3

\* The page is the end of what was told, and of the log when all of it was.
LEMMA ClearedIsLog ==
  ASSUME Types, TailInv, ClearInv
  PROVE  ClearedPageIsLog
BY ClearedIsTold, AllToldIsLog DEF ClearedPageIsLog

-----------------------------------------------------------------------------
(* Holes in what the page shows *)

\* t is the end of u.
Ends(t, u) == \E d \in Nat : Len(u) = Len(t) + d /\ \A k \in 1 .. Len(t) : t[k] = u[k + d]
EndsOf == {x \in Text \X Text : Ends(x[1], x[2])}

\* The end of a text, as a relation; a text is its own end.
LEMMA EndsIs ==
  ASSUME NEW t \in Text, NEW u \in Text
  PROVE  (<<t, u>> \in EndsOf <=> Ends(t, u)) /\ Ends(t, t)
<1>1. Ends(t, t)
  <2>1. PICK n \in Nat : n = Len(t)
    BY LenProperties DEF Text
  <2>2. n = n + 0 /\ \A k \in 1 .. n : k = k + 0
    OBVIOUS
  <2>3. 0 \in Nat /\ Len(t) = Len(t) + 0 /\ \A k \in 1 .. Len(t) : t[k] = t[k + 0]
    BY <2>1, <2>2
  <2> QED BY <2>3 DEF Ends
<1> QED BY <1>1, SMTT(60) DEF EndsOf

\* A text without its first row still is an end.
LEMMA TailEnds ==
  ASSUME NEW t \in Text, NEW u \in Text, Ends(t, u), t # <<>>
  PROVE  Ends(Tail(t), u)
<1>1. PICK n \in Nat : n = Len(t)
  BY LenProperties DEF Text
<1>2. n # 0
  BY <1>1, EmptySeq DEF Text
<1>3. PICK d \in Nat : Len(u) = n + d /\ \A k \in 1 .. n : t[k] = u[k + d]
  BY <1>1 DEF Ends
<1>4. PICK r \in Text : r = Tail(t) /\ Len(r) = n - 1 /\ \A k \in 1 .. n - 1 : r[k] = t[k + 1]
  <2>1. Tail(t) \in Text /\ Len(Tail(t)) = Len(t) - 1 /\ \A k \in 1 .. Len(Tail(t)) : Tail(t)[k] = t[k + 1]
    BY HeadTailProperties DEF Text
  <2> QED BY <1>1, <2>1
<1>5. n + d = (n - 1) + (d + 1) /\ \A k \in 1 .. n - 1 : k + 1 \in 1 .. n /\ (k + 1) + d = k + (d + 1)
  BY <1>2
<1>6. d + 1 \in Nat /\ Len(u) = Len(r) + (d + 1) /\ \A k \in 1 .. Len(r) : r[k] = u[k + (d + 1)]
  BY <1>3, <1>4, <1>5
<1>7. Ends(r, u)
  BY <1>6 DEF Ends
<1> QED BY <1>4, <1>7

\* With one row more behind both it still is one.
LEMMA AppendEnds ==
  ASSUME NEW t \in Text, NEW u \in Text, NEW x \in Line, Ends(t, u)
  PROVE  /\ Ends(Append(t, x), Append(u, x))
         /\ Append(t, x) \in Text /\ Append(u, x) \in Text /\ Append(t, x) # <<>>
<1>1. PICK n \in Nat, m \in Nat : n = Len(t) /\ m = Len(u)
  BY LenProperties DEF Text
<1>2. PICK d \in Nat : m = n + d /\ \A k \in 1 .. n : t[k] = u[k + d]
  BY <1>1 DEF Ends
<1>3. PICK a \in Text : a = Append(t, x) /\ a # <<>> /\ Len(a) = n + 1 /\ a[n + 1] = x /\ \A k \in 1 .. n : a[k] = t[k]
  <2>1. /\ Append(t, x) \in Text /\ Append(t, x) # <<>> /\ Len(Append(t, x)) = Len(t) + 1
        /\ Append(t, x)[Len(t) + 1] = x /\ \A k \in 1 .. Len(t) : Append(t, x)[k] = t[k]
    BY AppendProperties DEF Text
  <2> QED BY <1>1, <2>1
<1>4. PICK b \in Text : b = Append(u, x) /\ Len(b) = m + 1 /\ b[m + 1] = x /\ \A k \in 1 .. m : b[k] = u[k]
  <2>1. /\ Append(u, x) \in Text /\ Len(Append(u, x)) = Len(u) + 1
        /\ Append(u, x)[Len(u) + 1] = x /\ \A k \in 1 .. Len(u) : Append(u, x)[k] = u[k]
    BY AppendProperties DEF Text
  <2> QED BY <1>1, <2>1
<1>5. m + 1 = (n + 1) + d /\ \A k \in 1 .. n + 1 : (k \in 1 .. n /\ k + d \in 1 .. m) \/ (k = n + 1 /\ k + d = m + 1)
  BY <1>2
<1>6. Len(b) = Len(a) + d /\ \A k \in 1 .. Len(a) : a[k] = b[k + d]
  BY <1>2, <1>3, <1>4, <1>5, ZenonT(60)
<1>7. Ends(a, b)
  BY <1>6 DEF Ends
<1> QED BY <1>3, <1>4, <1>7

\* A page that removes rows shows the end of what one that removes none shows.
LEMMA HandledEnds ==
  ASSUME NEW max \in Nat, NEW t \in Text, NEW u \in Text, NEW e \in ThisEvent, Ends(t, u)
  PROVE  Ends(Handled(max, t, e), Handled(0, u, e))
<1>1. e.line \in Line
  BY DEF ThisEvent
<1>2. PICK a \in Text, b \in Text : a = Append(t, e.line) /\ b = Append(u, e.line) /\ a # <<>> /\ Ends(a, b)
  BY <1>1, AppendEnds
<1>3. Handled(0, u, e) = IF e.type = "RESET" THEN <<>> ELSE b
  BY <1>2 DEF Handled
<1>4. Handled(max, t, e) = IF e.type = "RESET" THEN <<>> ELSE IF max > 0 /\ Len(a) > max THEN Tail(a) ELSE a
  BY <1>2 DEF Handled
<1>5. Ends(Tail(a), b)
  BY <1>2, TailEnds
<1>6. Ends(<<>>, <<>>)
  BY NoLineIsText, EndsIs
<1> QED BY <1>2, <1>3, <1>4, <1>5, <1>6

\* A page that removes rows shows an end of what one shows that removes none: of
\* events...
LEMMA HandleAllEnds ==
  ASSUME NEW max \in Nat, NEW t \in Text, NEW u \in Text, NEW es \in Seq(ThisEvent), Ends(t, u)
  PROVE  Ends(HandleAll(max, t, es), HandleAll(0, u, es))
<1>1. TakesIn(HandleOne(max), Text, ThisEvent) /\ TakesIn(HandleOne(0), Text, ThisEvent)
  BY HandleTakesIn
<1>2. \A j \in 1 .. Len(es) : es[j] \in ThisEvent
  BY ElementOfSeq
<1>3. ASSUME NEW x \in Text, NEW y \in Text, NEW j \in 1 .. Len(es), <<x, y>> \in EndsOf
      PROVE  <<HandleOne(max)[<<x, es[j]>>], HandleOne(0)[<<y, es[j]>>]>> \in EndsOf
  <2>1. PICK e \in ThisEvent : e = es[j]
    BY <1>2
  <2>2. HandleOne(max)[<<x, e>>] = Handled(max, x, e) /\ HandleOne(0)[<<y, e>>] = Handled(0, y, e)
    BY HandleTakesIn
  <2>3. Handled(max, x, e) \in Text /\ Handled(0, y, e) \in Text
    BY HandledIs
  <2>4. Ends(Handled(max, x, e), Handled(0, y, e))
    BY <1>3, EndsIs, HandledEnds
  <2> QED BY <2>1, <2>2, <2>3, <2>4, EndsIs
<1>4. <<t, u>> \in EndsOf
  BY EndsIs
<1>5. <<HandleAll(max, t, es), HandleAll(0, u, es)>> \in EndsOf
  BY <1>1, <1>3, <1>4, FoldedRelated DEF HandleAll
<1> QED BY <1>5, HandleAllIs, EndsIs

\* ... of messages...
LEMMA ToldEnds ==
  ASSUME NEW max \in Nat, NEW t \in Text, NEW u \in Text, NEW s \in Frame, Ends(t, u)
  PROVE  Ends(Told(max, t, s), Told(0, u, s))
<1>1. TakesIn(TellOne(max), Text, ThisMessage) /\ TakesIn(TellOne(0), Text, ThisMessage)
      /\ s \in Seq(ThisMessage)
  BY TellTakesIn DEF Frame
<1>2. \A j \in 1 .. Len(s) : s[j] \in ThisMessage
  BY <1>1, ElementOfSeq
<1>3. ASSUME NEW x \in Text, NEW y \in Text, NEW j \in 1 .. Len(s), <<x, y>> \in EndsOf
      PROVE  <<TellOne(max)[<<x, s[j]>>], TellOne(0)[<<y, s[j]>>]>> \in EndsOf
  <2>1. PICK m \in ThisMessage : m = s[j]
    BY <1>2
  <2>2. /\ TellOne(max)[<<x, m>>] = ToldOne(max, x, m) /\ TellOne(0)[<<y, m>>] = ToldOne(0, y, m)
        /\ ToldOne(max, x, m) \in Text /\ ToldOne(0, y, m) \in Text
    BY ToldOneIs
  <2>3. m.event \in ThisEvent
    BY DEF ThisMessage
  <2>4. Ends(ToldOne(max, x, m), ToldOne(0, y, m))
    BY <1>3, <2>3, EndsIs, HandledEnds DEF ToldOne
  <2> QED BY <2>1, <2>2, <2>4, EndsIs
<1>4. <<t, u>> \in EndsOf
  BY EndsIs
<1>5. <<Told(max, t, s), Told(0, u, s)>> \in EndsOf
  BY <1>1, <1>3, <1>4, FoldedRelated DEF Told
<1> QED BY <1>5, ToldIs, EndsIs

\* ... and, for pages that remove none, of frames.
LEMMA ThroughEnds ==
  ASSUME NEW t \in Text, NEW u \in Text, NEW c \in Seq(Frame), AllPlain(c), Ends(t, u)
  PROVE  Ends(Through(0, t, c), Through(0, u, c))
<1>1. TakesIn(ShowOne(0), Text, Frame)
  BY ShowTakesIn
<1>2. \A j \in 1 .. Len(c) : c[j] \in Frame /\ Plain(c[j])
  BY LenProperties, ElementOfSeq DEF AllPlain
<1>3. ASSUME NEW x \in Text, NEW y \in Text, NEW j \in 1 .. Len(c), <<x, y>> \in EndsOf
      PROVE  <<ShowOne(0)[<<x, c[j]>>], ShowOne(0)[<<y, c[j]>>]>> \in EndsOf
  <2>1. PICK s \in Frame : s = c[j] /\ Plain(s)
    BY <1>2
  <2>2. /\ ShowOne(0)[<<x, s>>] = Told(0, x, s) /\ ShowOne(0)[<<y, s>>] = Told(0, y, s)
        /\ Told(0, x, s) \in Text /\ Told(0, y, s) \in Text
    <3>1. /\ ShowOne(0)[<<x, s>>] = FrameShown(0, x, s) /\ ShowOne(0)[<<y, s>>] = FrameShown(0, y, s)
      BY FrameShownIs
    <3>2. FrameShown(0, x, s) = Told(0, x, s) /\ FrameShown(0, y, s) = Told(0, y, s)
      BY <2>1, PlainFrameIsTold
    <3>3. Told(0, x, s) \in Text /\ Told(0, y, s) \in Text
      BY ToldIs
    <3> QED BY <3>1, <3>2, <3>3
  <2>3. Ends(Told(0, x, s), Told(0, y, s))
    BY <1>3, EndsIs, ToldEnds
  <2> QED BY <2>1, <2>2, <2>3, EndsIs
<1>4. <<t, u>> \in EndsOf
  BY EndsIs
<1>5. <<Through(0, t, c), Through(0, u, c)>> \in EndsOf
  BY <1>1, <1>3, <1>4, FoldedRelated DEF Through
<1> QED BY <1>5, ThroughIs, EndsIs

\* Behind each line in r come all the later ones of these lines, but those of m.
HoleFree(r, lines, m) ==
  \A p \in DOMAIN r : r[p] # NoLine =>
    \A n \in lines : n > r[p] => (n \in m \/ \E q \in DOMAIN r : q > p /\ r[q] = n)

\* The numbers do not fall.
Rises(lines) == \A i, j \in 1 .. Len(lines) : i < j => lines[i] <= lines[j]

\* The events of the last of these lines, and no resets.
Latest(es, lines) ==
  \E d \in Nat : /\ Len(lines) = Len(es) + d
                 /\ \A k \in 1 .. Len(es) : es[k].type = "ADD" /\ es[k].line = lines[k + d]

\* The end of rows without holes has none.
LEMMA EndIsHoleFree ==
  ASSUME NEW t \in Text, NEW u \in Text, Ends(t, u), NEW lines, NEW m, HoleFree(u, lines, m)
  PROVE  HoleFree(t, lines, m)
<1>1. PICK n \in Nat : n = Len(t) /\ DOMAIN t = 1 .. n
  BY LenProperties DEF Text
<1>2. PICK d \in Nat : Len(u) = n + d /\ \A k \in 1 .. n : t[k] = u[k + d]
  BY <1>1 DEF Ends
<1>3. DOMAIN u = 1 .. n + d
  BY <1>2, LenProperties DEF Text
<1>4. SUFFICES ASSUME NEW p \in 1 .. n, t[p] # NoLine, NEW k \in lines, k > t[p], k \notin m
               PROVE  \E q \in 1 .. n : q > p /\ t[q] = k
  BY <1>1 DEF HoleFree
<1>5. p + d \in DOMAIN u /\ u[p + d] = t[p]
  BY <1>2, <1>3
<1>6. PICK q \in 1 .. n + d : q > p + d /\ u[q] = k
  BY <1>3, <1>4, <1>5 DEF HoleFree
<1>7. q - d \in 1 .. n /\ q - d > p /\ (q - d) + d = q
  BY <1>6
<1>8. t[q - d] = k
  BY <1>2, <1>6, <1>7
<1> QED BY <1>7, <1>8

\* One more line, which is not before any other one.
LEMMA NextIsHoleFree ==
  ASSUME NEW t \in Text, NEW lines, NEW m, HoleFree(t, lines, m),
         NEW v \in Line, \A n \in lines : n \in Nat /\ n <= v
  PROVE  HoleFree(Append(t, v), lines \cup {v}, m)
<1>1. PICK n \in Nat : n = Len(t) /\ DOMAIN t = 1 .. n
  BY LenProperties DEF Text
<1>2. PICK a \in Text : a = Append(t, v) /\ Len(a) = n + 1 /\ a[n + 1] = v /\ \A k \in 1 .. n : a[k] = t[k]
  <2>1. /\ Append(t, v) \in Text /\ Len(Append(t, v)) = Len(t) + 1
        /\ Append(t, v)[Len(t) + 1] = v /\ \A k \in 1 .. Len(t) : Append(t, v)[k] = t[k]
    BY AppendProperties DEF Text
  <2> QED BY <1>1, <2>1
<1>3. DOMAIN a = 1 .. n + 1 /\ n + 1 \in 1 .. n + 1
  BY <1>2, LenProperties DEF Text
<1>4. v \in Nat
  BY Bounds DEF Line
<1>5. ASSUME NEW p \in 1 .. n + 1, a[p] # NoLine, NEW k \in lines \cup {v}, k > a[p], k \notin m
      PROVE  \E q \in 1 .. n + 1 : q > p /\ a[q] = k
  <2>1. p # n + 1
    <3>1. k <= v
      BY <1>4
    <3>2. ~(k > v)
      BY <1>4, <3>1
    <3> QED BY <1>2, <1>5, <3>2
  <2>2. p \in 1 .. n /\ n + 1 > p
    BY <2>1
  <2>3. a[p] = t[p]
    BY <1>2, <2>2
  <2>4. CASE k = v
    BY <1>2, <1>3, <2>2, <2>4
  <2>5. CASE k # v
    <3>1. k \in lines
      BY <2>5
    <3>2. PICK q \in 1 .. n : q > p /\ t[q] = k
      BY <1>1, <1>5, <2>2, <2>3, <3>1 DEF HoleFree
    <3>3. q \in 1 .. n + 1 /\ a[q] = k
      BY <1>2, <3>2
    <3> QED BY <3>2, <3>3
  <2> QED BY <2>4, <2>5
<1>6. HoleFree(a, lines \cup {v}, m)
  BY <1>3, <1>5 DEF HoleFree
<1> QED BY <1>2, <1>6

\* A page that removes no rows: the lines of the events, one after the other.
LEMMA HandleAllAdds ==
  ASSUME NEW t \in Text, NEW es \in Seq(ThisEvent), \A k \in 1 .. Len(es) : es[k].type = "ADD"
  PROVE  /\ HandleAll(0, t, es) \in Text /\ Len(HandleAll(0, t, es)) = Len(t) + Len(es)
         /\ \A i \in 1 .. Len(t) : HandleAll(0, t, es)[i] = t[i]
         /\ \A i \in 1 .. Len(es) : HandleAll(0, t, es)[Len(t) + i] = es[i].line
<1>1. PICK n \in Nat, w \in Nat : n = Len(es) /\ w = Len(t)
  BY LenProperties DEF Text
<1>2. PICK f \in [0 .. n -> Text] : IsFold(f, HandleOne(0), t, es) /\ HandleAll(0, t, es) = f[n]
  <2>1. TakesIn(HandleOne(0), Text, ThisEvent)
    BY HandleTakesIn
  <2>2. \E f \in [0 .. Len(es) -> Text] : IsFold(f, HandleOne(0), t, es) /\ Folded(HandleOne(0), t, es) = f[Len(es)]
    BY <2>1, FoldedIs
  <2> QED BY <1>1, <2>2 DEF HandleAll
<1>3. f[0] = t /\ \A k \in 1 .. n : f[k] = HandleOne(0)[<<f[k - 1], es[k]>>]
  BY <1>1, <1>2 DEF IsFold
<1> DEFINE Built(k) == /\ Len(f[k]) = w + k /\ \A i \in 1 .. w : f[k][i] = t[i]
                       /\ \A i \in 1 .. k : f[k][w + i] = es[i].line
           P == {k \in 0 .. n : Built(k)}
<1>4. 0 \in P
  <2>1. 0 \in 0 .. n /\ w + 0 = w /\ \A i \in 1 .. 0 : FALSE
    BY <1>1
  <2> QED BY <1>1, <1>3, <2>1
<1>5. ASSUME NEW k \in 1 .. n, k - 1 \in P PROVE k \in P
  <2>1. k \in 0 .. n /\ k - 1 \in 0 .. n
    OBVIOUS
  <2>2. PICK b \in Text : b = f[k - 1]
    BY <2>1
  <2>3. PICK e \in ThisEvent : e = es[k] /\ e.type = "ADD" /\ e.line \in Line
    <3>1. es[k] \in ThisEvent
      BY <1>1, ElementOfSeq
    <3>2. \A e \in ThisEvent : e.line \in Line
      BY DEF ThisEvent
    <3> QED BY <1>1, <3>1, <3>2
  <2>4. f[k] = Handled(0, b, e)
    BY <1>3, <2>2, <2>3, HandleTakesIn
  <2>5. f[k] = Append(b, e.line)
    BY <2>3, <2>4 DEF Handled
  <2>6. Len(b) = w + (k - 1) /\ (\A i \in 1 .. w : b[i] = t[i]) /\ \A i \in 1 .. k - 1 : b[w + i] = es[i].line
    BY <1>5, <2>2
  <2>7. PICK a : a = f[k]
    OBVIOUS
  <2>8. Len(a) = Len(b) + 1 /\ a[Len(b) + 1] = e.line /\ \A i \in 1 .. Len(b) : a[i] = b[i]
    BY <2>3, <2>5, <2>7, AppendProperties DEF Text
  <2>9. /\ (w + (k - 1)) + 1 = w + k /\ \A i \in 1 .. w : i \in 1 .. w + (k - 1)
        /\ \A i \in 1 .. k : (i \in 1 .. k - 1 /\ w + i \in 1 .. w + (k - 1)) \/ i = k
    BY <1>1
  <2>10. Len(a) = w + k /\ (\A i \in 1 .. w : a[i] = t[i]) /\ \A i \in 1 .. k : a[w + i] = es[i].line
    BY <2>3, <2>6, <2>8, <2>9
  <2> QED BY <2>1, <2>7, <2>10
<1>6. n \in P
  <2>1. n \in 0 .. n
    BY <1>1
  <2> HIDE DEF P
  <2> QED BY <1>4, <1>5, <2>1, CountUp
<1>7. n \in 0 .. n
  BY <1>1
<1> QED BY <1>1, <1>2, <1>6, <1>7

\* Rows without holes, and the events of the last lines behind them.
LEMMA LatestIsHoleFree ==
  ASSUME NEW t \in Text, NEW es \in Seq(ThisEvent), NEW lines \in Seq(1 .. MaxLines), NEW m,
         Latest(es, lines), Rises(lines), HoleFree(t, ToSet(lines), m)
  PROVE  HoleFree(HandleAll(0, t, es), ToSet(lines), m)
<1>1. PICK w \in Nat, n \in Nat, len \in Nat :
        w = Len(t) /\ n = Len(es) /\ len = Len(lines) /\ DOMAIN t = 1 .. w /\ DOMAIN lines = 1 .. len
  BY LenProperties DEF Text
<1>2. PICK d \in Nat : len = n + d /\ \A k \in 1 .. n : es[k].type = "ADD" /\ es[k].line = lines[k + d]
  BY <1>1 DEF Latest
<1>3. PICK r \in Text : /\ r = HandleAll(0, t, es) /\ Len(r) = w + n
                        /\ \A i \in 1 .. w : r[i] = t[i]
                        /\ \A i \in 1 .. n : r[w + i] = es[i].line
  BY <1>1, <1>2, HandleAllAdds
<1>4. DOMAIN r = 1 .. w + n
  BY <1>3, LenProperties DEF Text
<1>5. ASSUME NEW p \in 1 .. w + n, r[p] # NoLine, NEW k \in ToSet(lines), k > r[p], k \notin m
      PROVE  \E q \in 1 .. w + n : q > p /\ r[q] = k
  <2>1. CASE p \in 1 .. w
    <3>4. p \in DOMAIN t /\ t[p] # NoLine /\ k > t[p]
      BY <1>1, <1>3, <1>5, <2>1
    <3>5. \E q \in DOMAIN t : q > p /\ t[q] = k
      BY <1>5, <3>4, Zenon DEF HoleFree
    <3>1. PICK q \in 1 .. w : q > p /\ t[q] = k
      BY <1>1, <3>5
    <3>2. q \in 1 .. w + n /\ r[q] = k
      BY <1>3, <3>1
    <3> QED BY <3>1, <3>2
  <2>2. CASE ~(p \in 1 .. w)
    <3>1. PICK i \in 1 .. n : w + i = p /\ i + d \in 1 .. len
      <4>1. p - w \in 1 .. n /\ w + (p - w) = p /\ (p - w) + d \in 1 .. len
        BY <1>2, <2>2
      <4> QED BY <4>1
    <3>2. r[p] = lines[i + d]
      BY <1>2, <1>3, <3>1
    <3>3. PICK j \in 1 .. len : k = lines[j]
      BY <1>1 DEF ToSet
    <3>4. j > i + d
      <4>1. SUFFICES ASSUME j < i + d \/ j = i + d PROVE FALSE
        BY <1>2, <3>1
      <4>2. lines[j] <= lines[i + d]
        <5>1. CASE j < i + d
          BY <1>1, <3>1, <5>1 DEF Rises
        <5>2. CASE j = i + d
          <6>1. lines[j] \in 1 .. MaxLines
            BY <1>1, ElementOfSeq
          <6>2. \A x \in 1 .. MaxLines : x <= x
            BY Bounds
          <6> QED BY <5>2, <6>1, <6>2
        <5> QED BY <4>1, <5>1, <5>2
      <4>3. lines[j] \in Nat /\ lines[i + d] \in Nat
        <5>1. lines[j] \in 1 .. MaxLines /\ lines[i + d] \in 1 .. MaxLines
          BY <1>1, <3>1, ElementOfSeq
        <5> QED BY <5>1, Bounds
      <4>4. lines[j] > lines[i + d]
        BY <1>5, <3>2, <3>3
      <4> QED BY <4>2, <4>3, <4>4
    <3>5. PICK o \in 1 .. n : o = j - d /\ o + d = j /\ w + o \in 1 .. w + n /\ w + o > p
      <4>1. j - d \in 1 .. n /\ (j - d) + d = j /\ w + (j - d) \in 1 .. w + n /\ w + (j - d) > p
        BY <1>2, <3>1, <3>4
      <4> QED BY <4>1
    <3>6. r[w + o] = k
      BY <1>2, <1>3, <3>3, <3>5
    <3> QED BY <3>5, <3>6
  <2> QED BY <2>1, <2>2
<1> QED BY <1>3, <1>4, <1>5, SMTT(60) DEF HoleFree

\* An event that does not reach the page is missed.
LEMMA DroppedIsHoleFree ==
  ASSUME NEW t \in Text, NEW es \in Seq(ThisEvent), es # <<>>, NEW lines, NEW m,
         \A k \in 1 .. Len(es) : es[k].type = "ADD", HoleFree(HandleAll(0, t, es), lines, m)
  PROVE  HoleFree(HandleAll(0, t, Tail(es)), lines, m \cup {Head(es).line})
<1>1. PICK w \in Nat, n \in Nat : w = Len(t) /\ n = Len(es)
  BY LenProperties DEF Text
<1>2. n # 0
  BY <1>1, EmptySeq
<1>3. \A k \in 1 .. n : es[k].type = "ADD"
  BY <1>1
<1>4. PICK d \in Seq(ThisEvent) : d = Tail(es) /\ Len(d) = n - 1 /\ \A k \in 1 .. n - 1 : d[k] = es[k + 1]
  <2>1. Tail(es) \in Seq(ThisEvent) /\ Len(Tail(es)) = Len(es) - 1
        /\ \A k \in 1 .. Len(Tail(es)) : Tail(es)[k] = es[k + 1]
    BY HeadTailProperties
  <2> QED BY <1>1, <2>1
<1>5. PICK r \in Text : /\ r = HandleAll(0, t, es) /\ Len(r) = w + n
                        /\ \A i \in 1 .. w : r[i] = t[i]
                        /\ \A i \in 1 .. n : r[w + i] = es[i].line
  BY <1>1, <1>3, HandleAllAdds
<1>6. \A k \in 1 .. n - 1 : k + 1 \in 1 .. n
  BY <1>1
<1>7. PICK s \in Text : /\ s = HandleAll(0, t, d) /\ Len(s) = w + (n - 1)
                        /\ \A i \in 1 .. w : s[i] = t[i]
                        /\ \A i \in 1 .. n - 1 : s[w + i] = d[i].line
  <2>1. \A k \in 1 .. Len(d) : d[k].type = "ADD"
    BY <1>3, <1>4, <1>6
  <2>2. /\ HandleAll(0, t, d) \in Text /\ Len(HandleAll(0, t, d)) = Len(t) + Len(d)
        /\ \A i \in 1 .. Len(t) : HandleAll(0, t, d)[i] = t[i]
        /\ \A i \in 1 .. Len(d) : HandleAll(0, t, d)[Len(t) + i] = d[i].line
    BY <2>1, HandleAllAdds
  <2> QED BY <1>1, <1>4, <2>2
<1>8. DOMAIN r = 1 .. w + n /\ DOMAIN s = 1 .. w + (n - 1)
  BY <1>5, <1>7, LenProperties DEF Text
<1> DEFINE back(p) == IF p <= w THEN p ELSE p + 1
<1>9. ASSUME NEW p \in 1 .. w + (n - 1) PROVE back(p) \in 1 .. w + n /\ s[p] = r[back(p)]
  <2>1. CASE p <= w
    <3>1. p \in 1 .. w /\ p \in 1 .. w + n
      BY <1>2, <2>1
    <3> QED BY <1>5, <1>7, <2>1, <3>1
  <2>2. CASE ~(p <= w)
    <3>1. PICK i \in 1 .. n - 1 : i = p - w /\ w + i = p /\ w + (i + 1) = p + 1 /\ i + 1 \in 1 .. n /\ p + 1 \in 1 .. w + n
      BY <1>2, <2>2
    <3>2. s[p] = es[i + 1].line
      BY <1>4, <1>7, <3>1
    <3>3. r[p + 1] = es[i + 1].line
      BY <1>5, <3>1
    <3> QED BY <2>2, <3>1, <3>2, <3>3
  <2> QED BY <2>1, <2>2
<1>10. r[w + 1] = Head(es).line
  <2>1. 1 \in 1 .. n /\ Head(es) = es[1]
    BY <1>2
  <2>2. r[w + 1] = es[1].line
    BY <1>5, <2>1
  <2> QED BY <2>1, <2>2
<1>11. ASSUME NEW q \in 1 .. w + n, q # w + 1 PROVE \E p \in 1 .. w + (n - 1) : back(p) = q
  <2>1. CASE q <= w
    <3>1. q \in 1 .. w + (n - 1)
      BY <1>2, <2>1
    <3> QED BY <2>1, <3>1
  <2>2. CASE ~(q <= w)
    <3>1. q - 1 \in 1 .. w + (n - 1) /\ ~(q - 1 <= w) /\ (q - 1) + 1 = q
      BY <1>11, <2>2
    <3> QED BY <3>1
  <2> QED BY <2>1, <2>2
<1>12. \A p, q \in 1 .. w + (n - 1) : back(q) > back(p) => q > p
  OBVIOUS
<1>13. ASSUME NEW p \in 1 .. w + (n - 1), s[p] # NoLine, NEW k \in lines, k > s[p],
              k \notin m \cup {Head(es).line}
       PROVE  \E q \in 1 .. w + (n - 1) : q > p /\ s[q] = k
  <2> HIDE DEF back
  <2>1. back(p) \in 1 .. w + n /\ s[p] = r[back(p)]
    BY <1>9
  <2>2. r[back(p)] # NoLine /\ k > r[back(p)] /\ k \notin m
    BY <1>13, <2>1
  <2>3. PICK o \in 1 .. w + n : o > back(p) /\ r[o] = k
    BY <1>5, <1>8, <2>1, <2>2 DEF HoleFree
  <2>4. o # w + 1
    BY <1>10, <1>13, <2>3
  <2>5. PICK q \in 1 .. w + (n - 1) : back(q) = o
    BY <1>11, <2>4
  <2>6. s[q] = k
    BY <1>9, <2>3, <2>5
  <2>7. q > p
    BY <1>12, <2>3, <2>5
  <2> QED BY <2>6, <2>7
<1> QED BY <1>4, <1>7, <1>8, <1>13, SMTT(60) DEF HoleFree

\* What the handler reads.
LEMMA WindowEnds ==
  ASSUME NEW lines \in Text, NEW limit \in Int
  PROVE  Ends(Window(lines, limit), lines) /\ Window(lines, limit) \in Text
<1>1. PICK n \in Nat : n = Len(lines)
  BY LenProperties DEF Text
<1>2. CASE limit > 0 /\ n > limit
  <2>1. PICK w : w = SubSeq(lines, n - limit, n)
    OBVIOUS
  <2>2. /\ n - limit \in Int /\ n \in Int /\ n - limit <= n /\ n - limit <= n + 1
        /\ (n - (n - limit)) + 1 = limit + 1 /\ \A i \in (n - limit) .. n : i \in 1 .. n
        /\ (n - limit) - 1 \in Nat /\ n = (limit + 1) + ((n - limit) - 1)
        /\ \A i \in 1 .. limit + 1 : ((n - limit) + i) - 1 = i + ((n - limit) - 1)
    BY <1>2
  <2>3. \A i \in (n - limit) .. n : lines[i] \in Line
    BY <1>1, <2>2, ElementOfSeq DEF Text
  <2>4. /\ w \in Text /\ Len(w) = (n - (n - limit)) + 1
        /\ \A i \in 1 .. (n - (n - limit)) + 1 : w[i] = lines[((n - limit) + i) - 1]
    BY <2>1, <2>2, <2>3, SubSeqProperties DEF Text
  <2>5. Len(lines) = Len(w) + ((n - limit) - 1) /\ \A i \in 1 .. Len(w) : w[i] = lines[i + ((n - limit) - 1)]
    BY <1>1, <2>2, <2>4
  <2>6. Ends(w, lines)
    BY <2>2, <2>5 DEF Ends
  <2>7. Window(lines, limit) = w
    BY <1>1, <1>2, <2>1 DEF Window
  <2> QED BY <2>4, <2>6, <2>7
<1>3. CASE ~(limit > 0 /\ n > limit)
  <2>1. Window(lines, limit) = lines
    BY <1>1, <1>3 DEF Window
  <2> QED BY <2>1, EndsIs
<1> QED BY <1>2, <1>3

\* The lines that the handler reads of a log have no holes (getServerLogs).
LEMMA ReadIsHoleFree ==
  ASSUME NEW lines \in Text, NEW ends, NEW limit \in Int, NEW l \in Nat, NEW m,
         Len(lines) = l, \A k \in 1 .. l : lines[k] = k, NEW some \in SUBSET (1 .. l)
  PROVE  HoleFree(Window(SplitLines(lines, ends), limit), some, m) /\ HoleFree(<<NoLine>>, some, m)
<1>1. HoleFree(<<NoLine>>, some, m)
  BY DEF HoleFree
<1>2. PICK s \in Text : s = SplitLines(lines, ends)
  BY SplitIsText
<1>3. \/ Len(s) = l /\ \A k \in 1 .. l : s[k] = k
      \/ Len(s) = l + 1 /\ s[l + 1] = NoLine /\ \A k \in 1 .. l : s[k] = k
  <2>1. CASE s = lines
    BY <2>1
  <2>2. CASE s = Append(lines, NoLine)
    <3>1. /\ Len(Append(lines, NoLine)) = Len(lines) + 1 /\ Append(lines, NoLine)[Len(lines) + 1] = NoLine
          /\ \A k \in 1 .. Len(lines) : Append(lines, NoLine)[k] = lines[k]
      BY AppendProperties, Bounds DEF Text
    <3> QED BY <2>2, <3>1
  <2> QED BY <1>2, <2>1, <2>2 DEF SplitLines
<1>4. DOMAIN s = 1 .. Len(s)
  BY LenProperties DEF Text
<1>5. ASSUME NEW p \in DOMAIN s, s[p] # NoLine, NEW k \in some, k > s[p]
      PROVE  \E q \in DOMAIN s : q > p /\ s[q] = k
  <2>1. (\A i \in 1 .. l : s[i] = i /\ i \in DOMAIN s) /\ \A i \in DOMAIN s : i \in 1 .. l \/ s[i] = NoLine
    <3>1. \A i \in 1 .. l : i \in 1 .. l + 1
      OBVIOUS
    <3>2. \A i \in 1 .. l + 1 : i \in 1 .. l \/ i = l + 1
      OBVIOUS
    <3>3. CASE Len(s) = l /\ \A i \in 1 .. l : s[i] = i
      BY <1>4, <3>3
    <3>4. CASE Len(s) = l + 1 /\ s[l + 1] = NoLine /\ \A i \in 1 .. l : s[i] = i
      BY <1>4, <3>1, <3>2, <3>4
    <3> QED BY <1>3, <3>3, <3>4
  <2>2. p \in 1 .. l /\ s[p] = p
    BY <1>5, <2>1
  <2>3. k \in 1 .. l /\ k > p
    BY <1>5, <2>2
  <2> QED BY <2>1, <2>3
<1>6. HoleFree(s, some, m)
  BY <1>5 DEF HoleFree
<1>7. Ends(Window(s, limit), s) /\ Window(s, limit) \in Text
  BY WindowEnds
<1> QED BY <1>1, <1>2, <1>6, <1>7, EndIsHoleFree

\* Before any truncation and any new boot the log holds each line at its place, the tail
\* told its lines in order, up to the one it is in, and the queue of the hub holds the last
\* of these.
FreshInv ==
  (server.boots = 0 /\ log.truncs = 0) =>
    /\ Len(log.lines) = last /\ \A k \in 1 .. last : log.lines[k] = k
    /\ ~tail.stale
    /\ Rises(told) /\ \A i \in 1 .. Len(told) : told[i] <= tail.pos
    /\ Latest(events, told)

\* In the beginning the log is empty.
LEMMA FreshInit == ASSUME Init PROVE FreshInv
<1>1. /\ log.lines = <<>> /\ last = 0 /\ events = <<>> /\ told = <<>> /\ ~tail.stale
      /\ Len(<<>>) = 0 /\ \A k \in 1 .. 0 : FALSE
  BY DEF Init
<1>2. 0 \in Nat /\ 0 = 0 + 0
  OBVIOUS
<1> QED BY <1>1, <1>2 DEF FreshInv, Latest, Rises

\* With the next line behind both, the events are those of the last lines.
LEMMA LatestMore ==
  ASSUME NEW es \in Seq(ThisEvent), NEW lines \in Seq(1 .. MaxLines), NEW v \in 1 .. MaxLines,
         Latest(es, lines)
  PROVE  Latest(Append(es, AddEvent(v)), Append(lines, v))
<1>1. PICK n \in Nat, len \in Nat : n = Len(es) /\ len = Len(lines)
  BY LenProperties
<1>2. PICK d \in Nat : len = n + d /\ \A k \in 1 .. n : es[k].type = "ADD" /\ es[k].line = lines[k + d]
  BY <1>1 DEF Latest
<1>3. PICK e \in ThisEvent : e = AddEvent(v) /\ e.type = "ADD" /\ e.line = v
  BY MessagesAre, Bounds DEF AddEvent
<1>4. PICK s, l : s = Append(es, e) /\ l = Append(lines, v)
  OBVIOUS
<1>5. Len(s) = n + 1 /\ s[n + 1] = e /\ \A k \in 1 .. n : s[k] = es[k]
  BY <1>1, <1>4, AppendProperties
<1>6. Len(l) = len + 1 /\ l[len + 1] = v /\ \A k \in 1 .. len : l[k] = lines[k]
  BY <1>1, <1>4, AppendProperties
<1>7. /\ len + 1 = (n + 1) + d /\ \A k \in 1 .. n + 1 : k \in 1 .. n \/ k = n + 1
      /\ \A k \in 1 .. n : k + d \in 1 .. len
  BY <1>2
<1>8. \A k \in 1 .. n + 1 : s[k].type = "ADD" /\ s[k].line = l[k + d]
  <2>1. SUFFICES ASSUME NEW k \in 1 .. n + 1 PROVE s[k].type = "ADD" /\ s[k].line = l[k + d]
    OBVIOUS
  <2>2. CASE k \in 1 .. n
    BY <1>2, <1>5, <1>6, <1>7, <2>2
  <2>3. CASE k = n + 1
    BY <1>3, <1>5, <1>6, <1>7, <2>3
  <2> QED BY <1>7, <2>2, <2>3
<1> QED BY <1>3, <1>4, <1>5, <1>6, <1>7, <1>8 DEF Latest

\* Without the first event, too.
LEMMA LatestLess ==
  ASSUME NEW es \in Seq(ThisEvent), es # <<>>, NEW lines \in Seq(1 .. MaxLines), Latest(es, lines)
  PROVE  Latest(Tail(es), lines)
<1>1. PICK n \in Nat, len \in Nat : n = Len(es) /\ len = Len(lines)
  BY LenProperties
<1>2. PICK d \in Nat : len = n + d /\ \A k \in 1 .. n : es[k].type = "ADD" /\ es[k].line = lines[k + d]
  BY <1>1 DEF Latest
<1>3. PICK r \in Seq(ThisEvent) : r = Tail(es) /\ Len(r) = n - 1 /\ \A k \in 1 .. n - 1 : r[k] = es[k + 1]
  <2>1. Tail(es) \in Seq(ThisEvent) /\ Len(Tail(es)) = Len(es) - 1
        /\ \A k \in 1 .. Len(Tail(es)) : Tail(es)[k] = es[k + 1]
    BY HeadTailProperties
  <2> QED BY <1>1, <2>1
<1>4. /\ d + 1 \in Nat /\ len = (n - 1) + (d + 1)
      /\ \A k \in 1 .. n - 1 : k + 1 \in 1 .. n /\ (k + 1) + d = k + (d + 1)
  BY <1>2
<1>5. \A k \in 1 .. n - 1 : r[k].type = "ADD" /\ r[k].line = lines[k + (d + 1)]
  BY <1>2, <1>3, <1>4
<1> QED BY <1>1, <1>3, <1>4, <1>5 DEF Latest

\* Numbers that do not fall, with one behind them that is not less.
LEMMA RisesMore ==
  ASSUME NEW lines \in Seq(1 .. MaxLines), NEW v \in 1 .. MaxLines, Rises(lines),
         \A i \in 1 .. Len(lines) : lines[i] <= v
  PROVE  /\ Rises(Append(lines, v))
         /\ \A i \in 1 .. Len(Append(lines, v)) : Append(lines, v)[i] <= v
<1>1. PICK n \in Nat : n = Len(lines)
  BY LenProperties
<1>2. PICK more : more = Append(lines, v)
  OBVIOUS
<1>3. Len(more) = n + 1 /\ more[n + 1] = v /\ \A k \in 1 .. n : more[k] = lines[k]
  BY <1>1, <1>2, AppendProperties
<1>4. v <= v
  BY Bounds
<1>5. \A i \in 1 .. n + 1 : i \in 1 .. n \/ i = n + 1
  BY <1>1
<1>6. \A i \in 1 .. n + 1 : more[i] <= v
  BY <1>1, <1>3, <1>4, <1>5
<1>7. ASSUME NEW i \in 1 .. n + 1, NEW j \in 1 .. n + 1, i < j PROVE more[i] <= more[j]
  <2>1. i \in 1 .. n
    BY <1>1, <1>7
  <2>2. CASE j = n + 1
    BY <1>3, <1>6, <2>2
  <2>3. CASE j # n + 1
    <3>1. j \in 1 .. n
      BY <1>5, <2>3
    <3> QED BY <1>1, <1>3, <1>7, <2>1, <3>1 DEF Rises
  <2> QED BY <2>2, <2>3
<1> QED BY <1>2, <1>3, <1>6, <1>7 DEF Rises

\* A line written is the last of the log.
LEMMA FreshWriteLine ==
  ASSUME Types, FreshInv, WriteLine
  PROVE  FreshInv'
<1>1. PICK l \in Nat : l = last /\ last' = l + 1 /\ l + 1 \in 1 .. MaxLines
  BY NextLine DEF Types
<1>2. PICK lines \in Seq(1 .. MaxLines) : lines = log.lines /\ log'.lines = Append(lines, l + 1)
  BY <1>1 DEF WriteLine, Types, LogTypes
<1>3. log'.truncs = log.truncs
  BY DEF WriteLine, Types, LogTypes
<1>4. UNCHANGED <<server, tail, events, told>>
  BY DEF WriteLine, TailUnchanged
<1>5. SUFFICES ASSUME server.boots = 0, log.truncs = 0
               PROVE  Len(Append(lines, l + 1)) = l + 1 /\ \A k \in 1 .. l + 1 : Append(lines, l + 1)[k] = k
  BY <1>1, <1>2, <1>3, <1>4 DEF FreshInv
<1>6. Len(lines) = l /\ (\A k \in 1 .. l : lines[k] = k)
  BY <1>1, <1>2, <1>5 DEF FreshInv
<1>7. /\ Len(Append(lines, l + 1)) = Len(lines) + 1 /\ Append(lines, l + 1)[Len(lines) + 1] = l + 1
      /\ \A k \in 1 .. Len(lines) : Append(lines, l + 1)[k] = lines[k]
  BY <1>1, AppendProperties
<1>8. \A k \in 1 .. l + 1 : k \in 1 .. l \/ k = l + 1
  OBVIOUS
<1> QED BY <1>6, <1>7, <1>8

\* A tail that starts is behind the last line.
LEMMA FreshTailStarts ==
  ASSUME Types, TailInv, FreshInv, TailStarts
  PROVE  FreshInv'
<1>1. UNCHANGED <<server, log, last, events, told>> /\ ~tail.on
  BY DEF TailStarts
<1>2. tail'.stale = tail.stale
  BY DEF TailStarts, Types, LogTypes
<1>3. told = <<>> /\ Len(<<>>) = 0 /\ \A k \in 1 .. 0 : FALSE
  BY <1>1 DEF TailInv
<1> QED BY <1>1, <1>2, <1>3 DEF FreshInv

\* A line told is the last of those told and of the queue.
LEMMA FreshTells ==
  ASSUME Types, TailInv, FreshInv, TailTells, server.boots = 0, log.truncs = 0
  PROVE  /\ FreshInv'
         /\ \E v \in 1 .. MaxLines :
              /\ events' = Append(events, AddEvent(v)) /\ told' = Append(told, v)
              /\ \A i \in 1 .. Len(told) : told[i] <= v
<1>1. PICK k \in 1 .. Len(log.lines), v \in 1 .. MaxLines :
        /\ v = log.lines[k] /\ events' = Append(events, AddEvent(v)) /\ told' = Append(told, v)
        /\ UNCHANGED <<server, log, last>>
        /\ tail'.pos = k /\ ~tail'.stale
        /\ ~tail.stale => k \in {tail.pos, tail.pos + 1}
  BY TellsAre DEF Types
<1>2. /\ Len(log.lines) = last /\ (\A i \in 1 .. last : log.lines[i] = i) /\ ~tail.stale
      /\ Rises(told) /\ (\A i \in 1 .. Len(told) : told[i] <= tail.pos) /\ Latest(events, told)
  BY DEF FreshInv
<1>3. v = k
  BY <1>1, <1>2
<1>4. PICK said \in Seq(1 .. MaxLines), es \in Seq(ThisEvent), p \in Nat : said = told /\ es = events /\ p = tail.pos
  BY CountsAre DEF Types, LogTypes
<1>5. \A i \in 1 .. Len(said) : said[i] <= v
  <2>1. PICK n \in Nat : n = Len(said)
    BY LenProperties
  <2>2. \A i \in 1 .. n : said[i] \in 1 .. MaxLines /\ said[i] <= p
    BY <1>2, <1>4, <2>1, ElementOfSeq
  <2>3. v = p \/ v = p + 1
    BY <1>1, <1>2, <1>3, <1>4
  <2>4. \A x \in 1 .. MaxLines : x <= p => x <= v
    BY <2>3, Bounds
  <2> QED BY <2>1, <2>2, <2>4
<1>6. PICK more : more = Append(said, v)
  OBVIOUS
<1>7. Rises(more) /\ \A i \in 1 .. Len(more) : more[i] <= v
  BY <1>2, <1>4, <1>5, <1>6, RisesMore
<1>8. Latest(events', more)
  BY <1>1, <1>2, <1>4, <1>6, LatestMore
<1>9. FreshInv'
  BY <1>1, <1>2, <1>3, <1>4, <1>6, <1>7, <1>8 DEF FreshInv
<1> QED BY <1>1, <1>4, <1>5, <1>9

\* Another boot, or a truncation.
LEMMA NotFresh ==
  ASSUME Types, Reboot \/ Truncate
  PROVE  server'.boots # 0 \/ log'.truncs # 0
<1>1. PICK b \in Nat, t \in Nat : b = server.boots /\ t = log.truncs
  BY CountsAre
<1>2. server'.boots = b + 1 \/ log'.truncs = t + 1
  BY <1>1 DEF Reboot, Restarts, Truncate, Types, LogTypes
<1> QED BY <1>2

\* A reset comes only after one.
LEMMA NotReset ==
  ASSUME FreshInv, TailResets
  PROVE  server'.boots # 0 \/ log'.truncs # 0
BY DEF TailResets, FreshInv

\* Every step keeps the log a log of all lines, and the order of those told, before any
\* truncation and boot.
LEMMA FreshNext ==
  ASSUME Types, TailInv, FreshInv, [Next]_vars
  PROVE  FreshInv'
<1>1. CASE Reboot \/ Truncate
  BY <1>1, NotFresh DEF FreshInv
<1>2. CASE TailResets
  BY <1>2, NotReset DEF FreshInv
<1>3. CASE NewInstance
  <2>1. UNCHANGED <<log, last, tail, events, told>> /\ server'.boots = server.boots
    BY <1>3 DEF NewInstance, TailUnchanged, Types, LogTypes
  <2> QED BY <2>1 DEF FreshInv
<1>4. CASE TailTells
  <2>1. UNCHANGED <<server, log>>
    BY <1>4, TellsAre DEF Types
  <2>2. CASE server.boots = 0 /\ log.truncs = 0
    BY <1>4, <2>2, FreshTells
  <2>3. CASE ~(server.boots = 0 /\ log.truncs = 0)
    BY <2>1, <2>3 DEF FreshInv
  <2> QED BY <2>2, <2>3
<1>5. CASE Broadcast
  <2>1. PICK es \in Seq(ThisEvent), said \in Seq(1 .. MaxLines) :
          es = events /\ es # <<>> /\ events' = Tail(es) /\ said = told
    BY <1>5 DEF Broadcast, Types, LogTypes
  <2>2. UNCHANGED <<server, log, last, tail, told>>
    BY <1>5 DEF Broadcast, ServerUnchanged
  <2> QED BY <2>1, <2>2, LatestLess DEF FreshInv
<1>6. CASE ~LogStep /\ ~Reboot /\ ~Broadcast
  <2>1. UNCHANGED <<server, log, last, tail, told>>
    BY <1>6, PageStepIs
  <2>2. events' = events
    <3>1. CASE ReadLogs \/ ReadArchive \/ ReadDynamicArchive \/ ListArchives \/ ListDynamicArchives
      <4>1. PICK text : Show(text)
        BY <3>1, ShownTexts, SMTT(60)
      <4> QED BY <4>1 DEF Show, HandlerUnchanged, logVars
    <3>2. CASE \/ Request \/ StatFile \/ StatDir \/ StatFails \/ Connect \/ Subscribe \/ Break \/ ChangeMax
               \/ WriterTake \/ WriterFlush \/ WriterClose \/ HandleFrame \/ UNCHANGED vars
      BY <3>2 DEF Request, StatFile, StatDir, StatFails, HandlerUnchanged, logVars, Connect, Subscribe, Break,
         ChangeMax, WriterTake, WriterFlush, WriterClose, HandleFrame, ShowFrame, vars
    <3> QED BY <1>6, <3>1, <3>2 DEF Next, LogStep, LogAlone, TailTells
  <2> QED BY <2>1, <2>2 DEF FreshInv
<1> QED BY <1>1, <1>2, <1>3, <1>4, <1>5, <1>6, FreshWriteLine, FreshTailStarts DEF LogStep, LogAlone

\* All that a page that removes no rows would show in the end.
Whole == HandleAll(0, Through(0, rows, Coming), events)

HolesInv ==
  (server.boots = 0 /\ log.truncs = 0 /\ Loaded /\ conn \in {"none", "up"}) =>
    HoleFree(Whole, ToSet(told), missed)

\* In the beginning the page is not loaded.
LEMMA HolesInit == ASSUME Init PROVE HolesInv
BY DEF Init, HolesInv, Loaded

\* What such a page would show is rows.
LEMMA WholeIs ==
  ASSUME Types
  PROVE  /\ Whole \in Text /\ Through(0, rows, Coming) \in Text /\ events \in Seq(ThisEvent)
         /\ last \in Nat
<1>1. rows \in Text /\ Coming \in Seq(Frame) /\ events \in Seq(ThisEvent) /\ last \in Nat
  BY ComingIs, Bounds DEF Types, RowTypes, LogTypes
<1>2. Through(0, rows, Coming) \in Text
  BY <1>1, ThroughIs
<1> QED BY <1>1, <1>2, HandleAllIs DEF Whole

\* A step that leaves alone what is on its way, or after which nothing is stated.
LEMMA HolesSame ==
  ASSUME HolesInv, server'.boots = server.boots, log'.truncs = log.truncs,
         (Loaded' /\ conn' \in {"none", "up"}) =>
            Loaded /\ conn \in {"none", "up"} /\ Whole' = Whole /\ UNCHANGED <<told, missed>>
  PROVE  HolesInv'
BY DEF HolesInv

\* A line told will be shown.
LEMMA HolesTells ==
  ASSUME Types, TailInv, FreshInv, HolesInv, TailTells
  PROVE  HolesInv'
<1>1. LogStep
  BY DEF LogStep
<1>2. UNCHANGED <<server, log>>
  BY TellsAre DEF Types
<1>3. UNCHANGED <<rows, req, conn, missed>> /\ Coming' = Coming /\ Loaded' = Loaded
  BY <1>1, LogStepIs, ComingSame DEF Loaded
<1>4. SUFFICES ASSUME server.boots = 0, log.truncs = 0, Loaded, conn \in {"none", "up"}
               PROVE  HoleFree(Whole', ToSet(told'), missed)
  BY <1>2, <1>3 DEF HolesInv
<1>5. PICK v \in 1 .. MaxLines :
        /\ events' = Append(events, AddEvent(v)) /\ told' = Append(told, v)
        /\ \A i \in 1 .. Len(told) : told[i] <= v
  BY <1>4, FreshTells
<1>6. PICK said \in Seq(1 .. MaxLines), n \in Nat : said = told /\ n = Len(said) /\ DOMAIN said = 1 .. n
  BY LenProperties DEF Types, LogTypes
<1>7. \A k \in ToSet(said) : k \in Nat /\ k <= v
  <2>1. \A i \in 1 .. n : said[i] \in 1 .. MaxLines
    BY <1>6, ElementOfSeq
  <2>2. 1 .. MaxLines \subseteq Nat
    BY Bounds
  <2> QED BY <1>5, <1>6, <2>1, <2>2 DEF ToSet
<1>8. ToSet(Append(said, v)) = ToSet(said) \cup {v}
  <2>1. PICK more : more = Append(said, v)
    OBVIOUS
  <2>2. /\ more \in Seq(1 .. MaxLines) /\ Len(more) = n + 1 /\ more[n + 1] = v
        /\ \A k \in 1 .. n : more[k] = said[k]
    BY <1>6, <2>1, AppendProperties
  <2>3. DOMAIN more = 1 .. n + 1
    BY <2>2, LenProperties
  <2>4. /\ \A k \in 1 .. n + 1 : k \in 1 .. n \/ k = n + 1
        /\ \A k \in 1 .. n : k \in 1 .. n + 1
        /\ n + 1 \in 1 .. n + 1
    BY <1>6
  <2> QED BY <1>6, <2>1, <2>2, <2>3, <2>4 DEF ToSet
<1>9. PICK e \in ThisEvent : e = AddEvent(v) /\ e.type = "ADD" /\ e.line = v
  BY MessagesAre, Bounds DEF AddEvent
<1>10. PICK t \in Text, es \in Seq(ThisEvent) : t = Through(0, rows, Coming) /\ es = events
  BY WholeIs
<1>11. HandleAll(0, t, Append(es, e)) = Handled(0, HandleAll(0, t, es), e)
  BY HandleAllIs
<1>12. Whole' = Handled(0, Whole, e)
  BY <1>3, <1>5, <1>9, <1>10, <1>11 DEF Whole
<1>13. Whole' = Append(Whole, v)
  BY <1>9, <1>12 DEF Handled
<1>14. PICK w \in Text : w = Whole
  BY WholeIs
<1>15. HoleFree(w, ToSet(said), missed)
  BY <1>4, <1>6, <1>14 DEF HolesInv
<1>16. v \in Line
  BY Bounds
<1>17. HoleFree(Append(w, v), ToSet(said) \cup {v}, missed)
  BY <1>7, <1>15, <1>16, NextIsHoleFree
<1> QED BY <1>5, <1>6, <1>8, <1>13, <1>14, <1>17

\* An event the hub takes is sent to the page, or was missed.
LEMMA HolesBroadcast ==
  ASSUME Types, ResetInv, FreshInv, HolesInv, Broadcast
  PROVE  HolesInv'
<1>8. PICK l : l = ToSet(told)
  OBVIOUS
<1>1. PICK es \in Seq(ThisEvent), t \in Text :
        es = events /\ es # <<>> /\ events' = Tail(es) /\ t = Through(0, rows, Coming)
  BY WholeIs DEF Broadcast
<1>2. UNCHANGED <<server, log, told, rows, req, batch, frames>> /\ Loaded' = Loaded
  BY DEF Broadcast, ServerUnchanged, Loaded
<1>3. SUFFICES ASSUME server.boots = 0, log.truncs = 0, Loaded, conn' \in {"none", "up"}
               PROVE  HoleFree(Whole', l, missed')
  BY <1>2, <1>8 DEF HolesInv
<1>4. conn' = conn
  BY <1>3 DEF Broadcast
<1>5. HoleFree(HandleAll(0, t, es), l, missed) /\ \A k \in 1 .. Len(es) : es[k].type = "ADD"
  BY <1>1, <1>3, <1>4, <1>8 DEF HolesInv, Whole, FreshInv, Latest
<1>6. CASE listed /\ conn = "up" /\ Len(send) < SendCap
  <2>1. send' = Append(send, Encoded(Head(es))) /\ missed' = missed
    BY <1>1, <1>4, <1>6 DEF Broadcast
  <2>2. PICK e \in ThisEvent, m \in ThisMessage : e = Head(es) /\ m = Encoded(e)
    BY <1>1, MessagesAre, HeadTailProperties
  <2>3. PICK fs \in Seq(Frame), s \in Frame : fs = frames /\ s = Queued /\ Plain(s) /\ Coming = Append(fs, s)
    BY <1>3, ComingIs, ComingIsPlain DEF Coming
  <2>4. Coming' = Append(fs, Append(s, m))
    BY <1>2, <2>1, <2>2, <2>3, QueuedMore
  <2>5. rows \in Text
    BY DEF Types, RowTypes
  <2>6. HandleAll(0, Through(0, rows, Append(fs, Append(s, Encoded(Head(es))))), Tail(es)) =
        HandleAll(0, Through(0, rows, Append(fs, s)), es)
    BY <1>1, <2>3, <2>5, HandleBroadcast
  <2>7. Whole' = HandleAll(0, t, es)
    BY <1>1, <1>2, <2>2, <2>3, <2>4, <2>6 DEF Whole
  <2> QED BY <1>5, <2>1, <2>7
<1>7. CASE ~(listed /\ conn = "up" /\ Len(send) < SendCap)
  <2>1. send' = send /\ missed' = missed \cup {Head(es).line}
    <3>1. ~(listed /\ conn = "up" /\ Len(send) = SendCap /\ conn' = "closing")
      BY <1>3
    <3> QED BY <1>1, <1>3, <1>7, <3>1 DEF Broadcast
  <2>2. Whole' = HandleAll(0, t, Tail(es))
    <3>1. Coming' = Coming
      BY <1>2, <2>1, QueuedSame DEF Coming
    <3> QED BY <1>1, <1>2, <3>1 DEF Whole
  <2> QED BY <1>1, <1>5, <2>1, <2>2, DroppedIsHoleFree
<1> QED BY <1>6, <1>7

\* A page that removes rows shows an end of what one shows that does not.
LEMMA HolesHandleFrame ==
  ASSUME Types, ResetInv, HolesInv, HandleFrame
  PROVE  HolesInv'
<1>1. PICK max \in Nat, u \in Text : max = PageMax /\ u = rows
  BY PageMaxIs DEF Types, RowTypes
<1>2. PICK c \in Seq(Frame) : c = Coming /\ c # <<>> /\ Coming' = Tail(c) /\ Head(frames) = Head(c)
  BY ComingIs, ComingShifts
<1>3. PICK s \in Frame : s = Head(c)
  BY <1>2, HeadTailProperties
<1>4. /\ UNCHANGED <<server, log, told, events, req, conn, missed>> /\ rows' = FrameShown(max, u, s)
      /\ Loaded' = Loaded
  BY <1>1, <1>2, <1>3, ShownIsWith DEF HandleFrame, ShowFrame, ServerUnchanged, connVars, FrameShown, Loaded
<1>5. SUFFICES ASSUME server.boots = 0, log.truncs = 0, Loaded, conn \in {"none", "up"}
               PROVE  HoleFree(Whole', ToSet(told), missed)
  BY <1>4 DEF HolesInv
<1>6. AllPlain(c) /\ Plain(s) /\ Tail(c) \in Seq(Frame) /\ AllPlain(Tail(c))
  <2>1. AllPlain(c) /\ Tail(c) \in Seq(Frame)
    BY <1>2, <1>5, ComingIsPlain, HeadTailProperties DEF AllPlain
  <2>2. <<>> \in Frame
    BY EmptySeq DEF Frame
  <2>3. AllPlain(Tail(c))
    BY <1>2, <2>1, <2>2, HasResetIs
  <2>4. PICK n \in Nat : n = Len(c) /\ DOMAIN c = 1 .. n
    BY LenProperties
  <2>5. n # 0
    BY <1>2, <2>4, EmptySeq
  <2>6. 1 \in DOMAIN c /\ s = c[1]
    BY <1>3, <2>4, <2>5
  <2> QED BY <2>1, <2>3, <2>6 DEF AllPlain
<1>7. PICK a \in Text, b \in Text : a = FrameShown(max, u, s) /\ b = FrameShown(0, u, s)
  BY FrameShownIs
<1>8. Ends(a, b)
  <2>1. FrameShown(max, u, s) = Told(max, u, s) /\ FrameShown(0, u, s) = Told(0, u, s)
    BY <1>6, PlainFrameIsTold
  <2> QED BY <1>7, <2>1, EndsIs, ToldEnds
<1>9. PICK x \in Text, y \in Text : x = Through(0, a, Tail(c)) /\ y = Through(0, b, Tail(c))
  BY <1>6, ThroughIs
<1>10. Ends(x, y)
  BY <1>6, <1>8, <1>9, ThroughEnds
<1>11. PICK es \in Seq(ThisEvent) : es = events
  BY WholeIs
<1>12. PICK v \in Text, w \in Text : v = HandleAll(0, x, es) /\ w = HandleAll(0, y, es)
  BY HandleAllIs
<1>13. Ends(v, w)
  BY <1>10, <1>12, HandleAllEnds
<1>14. Whole' = v
  BY <1>2, <1>4, <1>7, <1>9, <1>11, <1>12 DEF Whole
<1>15. Whole = w
  <2>1. Through(0, u, c) = Through(0, FrameShown(0, u, s), Tail(c))
    BY <1>2, <1>3, ThroughIs
  <2> QED BY <1>1, <1>2, <1>7, <1>9, <1>11, <1>12, <2>1 DEF Whole
<1>16. HoleFree(w, ToSet(told), missed)
  BY <1>5, <1>15 DEF HolesInv
<1> QED BY <1>13, <1>14, <1>16, EndIsHoleFree

\* The page is read: what the handler puts in it has no holes.
LEMMA HolesShow ==
  ASSUME Types, TailInv, WireInv, FreshInv,
         ReadLogs \/ ReadArchive \/ ReadDynamicArchive \/ ListArchives \/ ListDynamicArchives
  PROVE  HolesInv'
<1>1. PICK text \in Text : Show(text)
  BY ShownTexts
<1>2. /\ UNCHANGED <<server, log, told, events, conn, send, batch, frames, missed>> /\ rows' = text
      /\ req.pc # "done" /\ req'.view = req.view
  BY <1>1 DEF Show, HandlerUnchanged, logVars, connVars, wireVars, Types, ReqTypes
<1>3. SUFFICES ASSUME server.boots = 0, log.truncs = 0, Loaded'
               PROVE  HoleFree(Whole', ToSet(told), missed)
  BY <1>2 DEF HolesInv
<1>4. PICK limit \in Int, lines \in Text, l \in Nat :
        limit = MaxLinesCount(req.cookie) /\ lines = log.lines /\ l = last
  BY CountIsInt, Bounds DEF Types, ReqTypes, LogTypes
<1>5. /\ Len(lines) = l /\ \A k \in 1 .. l : lines[k] = k
      /\ Latest(events, told) /\ Rises(told)
  BY <1>3, <1>4 DEF FreshInv
<1>11. PICK said \in Seq(1 .. MaxLines) : said = told
  BY DEF Types, LogTypes
<1>12. ToSet(said) \in SUBSET (1 .. l)
  <2>1. PICK n \in Nat, p \in Nat : n = Len(said) /\ DOMAIN said = 1 .. n /\ p = tail.pos
    BY CountsAre, LenProperties
  <2>2. p <= l
    BY <1>3, <1>4, <1>5, <2>1 DEF TailInv, FreshInv
  <2>3. \A i \in 1 .. n : said[i] \in 1 .. MaxLines /\ said[i] <= p
    BY <1>3, <1>11, <2>1, ElementOfSeq DEF FreshInv
  <2>4. \A x \in 1 .. MaxLines : x <= p => x \in 1 .. l
    BY <2>2, Bounds
  <2> QED BY <2>1, <2>3, <2>4 DEF ToSet
<1>6. text = Window(SplitLines(lines, log.ends), limit) \/ text = <<NoLine>>
  <2>1. req.view = "live"
    BY <1>2, <1>3 DEF Loaded
  <2>2. ReadLogs
    BY <2>1 DEF ReadArchive, ReadDynamicArchive, ShowArchive, ListArchives, ListDynamicArchives
  <2>3. rows' = Window(SplitLines(lines, log.ends), limit) \/ rows' = <<NoLine>>
    BY <1>4, <2>2 DEF ReadLogs, Show
  <2> QED BY <1>2, <2>3
<1>7. HoleFree(text, ToSet(said), missed)
  <2>1. /\ HoleFree(Window(SplitLines(lines, log.ends), limit), ToSet(said), missed)
        /\ HoleFree(<<NoLine>>, ToSet(said), missed)
    <3>1. Len(lines) = l /\ \A k \in 1 .. l : lines[k] = k
      BY <1>5
    <3> QED BY <1>12, <3>1, ReadIsHoleFree
  <2>2. CASE text = Window(SplitLines(lines, log.ends), limit)
    BY <2>1, <2>2
  <2>3. CASE text = <<NoLine>>
    BY <2>1, <2>3
  <2> QED BY <1>6, <2>2, <2>3
<1>8. PICK es \in Seq(ThisEvent) : es = events
  BY WholeIs
<1>9. HoleFree(HandleAll(0, text, es), ToSet(said), missed)
  BY <1>5, <1>7, <1>8, <1>11, LatestIsHoleFree
<1>10. Whole' = HandleAll(0, text, es)
  <2>1. conn = "none"
    BY <1>2 DEF WireInv, Loaded
  <2>2. send = <<>> /\ batch = <<>> /\ frames = <<>>
    BY <2>1 DEF WireInv
  <2>3. PICK none \in Seq(Frame), e \in Frame : none = <<>> /\ e = <<>>
    BY EmptySeq DEF Frame
  <2>4. Coming' = Append(none, <<>>)
    BY <1>2, <2>2, <2>3, ConcatEmptySeq DEF Coming, Queued, Frame
  <2>5. Through(0, text, Append(none, <<>>)) = text
    <3>1. Through(0, text, Append(none, <<>>)) = Through(0, text, none)
      BY ThroughEmpty
    <3>2. Through(0, text, <<>>) = text
      BY <2>3, ThroughIs
    <3> QED BY <2>3, <3>1, <3>2
  <2> QED BY <1>2, <1>8, <2>4, <2>5 DEF Whole
<1> QED BY <1>9, <1>10, <1>11

\* Every step keeps what the page will show without holes.
LEMMA HolesNext ==
  ASSUME Types, TailInv, WireInv, ResetInv, FreshInv, HolesInv, [Next]_vars
  PROVE  HolesInv'
<1>1. CASE Reboot \/ Truncate
  BY <1>1, NotFresh DEF HolesInv
<1>2. CASE WriteLine \/ NewInstance \/ TailStarts \/ UNCHANGED vars
  <2>1. CASE UNCHANGED vars
    <3>1. UNCHANGED <<server, log, told, events, rows, req, conn, missed>>
      BY <2>1 DEF vars, logVars, connVars, auxVars
    <3> QED BY <2>1, <3>1, ComingSame, HolesSame DEF Whole, Loaded
  <2>2. CASE WriteLine \/ NewInstance \/ TailStarts
    <3>1. LogStep /\ LogAlone
      BY <2>2 DEF LogStep, LogAlone
    <3>2. log'.truncs = log.truncs
      BY <2>2 DEF WriteLine, NewInstance, TailStarts, Types, LogTypes
    <3> QED BY <3>1, <3>2, LogAloneIs, LogStepIs, ComingSame, HolesSame DEF Whole, Loaded
  <2> QED BY <1>2, <2>1, <2>2
<1>10. CASE TailResets
  BY <1>10, NotReset DEF HolesInv
<1>3. CASE Request \/ StatFile \/ StatDir \/ StatFails
  <2>1. UNCHANGED <<server, log>>
    BY <1>3 DEF Request, StatFile, StatDir, StatFails, HandlerUnchanged, logVars
  <2>2. CASE Request
    <3>1. req'.pc = "stat"
      BY <2>2 DEF Request
    <3> QED BY <2>1, <3>1, HolesSame DEF Loaded
  <2>3. CASE StatFile
    <3>1. PICK a, l, s : req' = [req EXCEPT !.left = l, !.seen = s, !.archives = a]
      BY <2>3, ZenonT(60) DEF StatFile, Types, ReqTypes
    <3>2. req'.pc = req.pc /\ req.pc = "stat"
      BY <2>3, <3>1 DEF StatFile, Stat, Types, ReqTypes
    <3> QED BY <2>1, <3>2, HolesSame DEF Loaded
  <2>4. CASE StatDir
    <3>1. PICK l : req' = [req EXCEPT !.left = l]
      BY <2>4 DEF StatDir
    <3>2. req'.pc = req.pc /\ req.pc = "stat"
      BY <2>4, <3>1 DEF StatDir, Stat, Types, ReqTypes
    <3> QED BY <2>1, <3>2, HolesSame DEF Loaded
  <2>5. CASE StatFails
    <3>1. req'.pc = "failed"
      BY <2>5 DEF StatFails, Types, ReqTypes
    <3> QED BY <2>1, <3>1, HolesSame DEF Loaded
  <2> QED BY <1>3, <2>2, <2>3, <2>4, <2>5
<1>4. CASE Connect
  <2>1. conn = "none" /\ UNCHANGED <<server, log, told, events, rows, req, missed>>
    BY <1>4 DEF Connect, ServerUnchanged, auxVars
  <2> QED BY <1>4, <2>1, ComingSame, HolesSame DEF Whole, Loaded
<1>5. CASE Break \/ WriterClose
  <2>1. conn' = "closed" /\ UNCHANGED <<server, log>>
    BY <1>5 DEF Break, WriterClose, ServerUnchanged
  <2> QED BY <2>1, HolesSame
<1>6. CASE ChangeMax
  <2>1. UNCHANGED <<server, log, told, events, rows, conn, missed>> /\ Loaded
    BY <1>6 DEF ChangeMax, logVars, connVars
  <2> QED BY <1>6, <2>1, ComingSame, HolesSame DEF Whole
<1>7. CASE Subscribe
  <2>1. UNCHANGED <<server, log, told, events, rows, req, conn, batch, frames, missed>>
    BY <1>7 DEF Subscribe, ServerUnchanged, auxVars
  <2>2. CASE send' = send
    <3>1. Coming' = Coming
      BY <2>1, <2>2, QueuedSame DEF Coming
    <3> QED BY <2>1, <3>1, HolesSame DEF Whole, Loaded
  <2>3. CASE send' = Append(send, UnknownServer)
    <3>1. CASE server.boots # 0
      BY <2>1, <3>1 DEF HolesInv
    <3>2. CASE server.boots = 0
      <4>1. PICK m \in ThisMessage : m = UnknownServer /\ m.form = "error"
        BY MessagesAre DEF UnknownServer
      <4>2. PICK fs \in Seq(Frame), s \in Frame : fs = frames /\ s = Queued /\ Plain(s) /\ Coming = Append(fs, s)
        BY <3>2, ComingIs, ComingIsPlain DEF Coming
      <4>3. Coming' = Append(fs, Append(s, m))
        BY <2>1, <2>3, <4>1, <4>2, QueuedMore
      <4>4. rows \in Text
        BY DEF Types, RowTypes
      <4>5. Through(0, rows, Append(fs, Append(s, m))) = Through(0, rows, Append(fs, s))
        BY <4>1, <4>2, <4>4, ThroughMore DEF ToldOne
      <4>6. Whole' = Whole
        BY <2>1, <4>2, <4>3, <4>5 DEF Whole
      <4> QED BY <2>1, <4>6, HolesSame DEF Loaded
    <3> QED BY <3>1, <3>2
  <2> QED BY <1>7, <2>2, <2>3 DEF Subscribe
<1>8. CASE WriterTake
  <2>1. UNCHANGED <<server, log, told, events, rows, req, conn, missed>>
    BY <1>8 DEF WriterTake, ServerUnchanged, connVars, auxVars
  <2> QED BY <1>8, <2>1, QueuedTaken, HolesSame DEF Whole, Loaded
<1>9. CASE WriterFlush
  <2>1. /\ UNCHANGED <<server, log, told, events, rows, req, conn, missed>>
        /\ batch' = <<>> /\ send' = <<>> /\ frames' = Coming
    BY <1>9 DEF WriterFlush, ServerUnchanged, connVars, auxVars, Coming, Queued
  <2>2. PICK c \in Seq(Frame) : c = Coming
    BY ComingIs
  <2>3. Coming' = Append(c, <<>>)
    BY <2>1, <2>2, QueuedEmpty DEF Coming
  <2>4. rows \in Text
    BY DEF Types, RowTypes
  <2>5. Through(0, rows, Append(c, <<>>)) = Through(0, rows, c)
    BY <2>4, ThroughEmpty
  <2>6. Whole' = Whole
    BY <2>1, <2>2, <2>3, <2>5 DEF Whole
  <2> QED BY <2>1, <2>6, HolesSame DEF Loaded
<1> QED BY <1>1, <1>2, <1>3, <1>4, <1>5, <1>6, <1>7, <1>8, <1>9, <1>10,
          HolesTells, HolesBroadcast, HolesHandleFrame, HolesShow DEF Next, LogStep, LogAlone, TailTells

\* Then the page has no holes but the missed lines.
LEMMA HolesMissed ==
  ASSUME Types, WireInv, HolesInv
  PROVE  HolesAreMissed
<1>1. PICK shown : shown = {rows[k] : k \in DOMAIN rows} \ {NoLine}
  OBVIOUS
<1>2. SUFFICES ASSUME AtRest, log.truncs = 0, NEW n \in ToSet(told), NEW x \in shown, ~(x >= n)
               PROVE  n \in shown \cup missed
  BY <1>1 DEF HolesAreMissed
<1>3. PICK u \in Text : u = rows
  BY DEF Types, RowTypes
<1>14. n \in 1 .. MaxLines
  <2>1. PICK said \in Seq(1 .. MaxLines) : said = told
    BY DEF Types, LogTypes
  <2>2. \A k \in DOMAIN said : said[k] \in 1 .. MaxLines
    BY LenProperties, ElementOfSeq
  <2> QED BY <2>1, <2>2 DEF ToSet
<1>4. events = <<>> /\ send = <<>> /\ batch = <<>> /\ frames = <<>>
      /\ server.boots = 0 /\ Loaded /\ conn = "up"
  BY <1>2 DEF AtRest, WireInv
<1>5. PICK none \in Seq(Frame), e \in Frame : none = <<>> /\ e = <<>>
  BY EmptySeq DEF Frame
<1>6. Coming = Append(none, <<>>)
  BY <1>4, <1>5, ConcatEmptySeq DEF Coming, Queued, Frame
<1>7. Through(0, u, Append(none, <<>>)) = u
  <2>1. Through(0, u, Append(none, <<>>)) = Through(0, u, none)
    BY ThroughEmpty
  <2>2. Through(0, u, <<>>) = u
    BY <1>5, ThroughIs
  <2> QED BY <1>5, <2>1, <2>2
<1>8. HandleAll(0, u, <<>>) = u
  <2>1. <<>> \in Seq(ThisEvent)
    BY EmptySeq
  <2> QED BY <2>1, HandleAllIs
<1>9. HoleFree(u, ToSet(told), missed)
  BY <1>2, <1>3, <1>4, <1>6, <1>7, <1>8 DEF HolesInv, Whole
<1>10. PICK p \in DOMAIN u : u[p] = x /\ x # NoLine /\ x \in Line
  <2>1. \A p \in DOMAIN u : u[p] \in Line
    BY LenProperties, ElementOfSeq DEF Text
  <2> QED BY <1>1, <1>2, <1>3, <2>1
<1>11. n > x
  BY <1>2, <1>10, <1>14, Bounds DEF Line
<1>12. n \in missed \/ \E q \in DOMAIN u : u[q] = n
  BY <1>2, <1>9, <1>10, <1>11 DEF HoleFree
<1>13. n # NoLine
  BY <1>14, Bounds DEF NoLine
<1> QED BY <1>1, <1>3, <1>12, <1>13

-----------------------------------------------------------------------------
(* Theorems *)

PageInv ==
  /\ Types /\ TailInv /\ ArchivesInv /\ WireInv /\ RowsInv /\ ResetInv /\ CatchInv
  /\ SubscribedInv /\ ClearInv /\ FreshInv /\ HolesInv

\* The inductive invariant: types, the tail and its log, the list of archives, what is on
\* the wire, and what all that is on its way will make of the page.
THEOREM PageInvariant == Spec => []PageInv
<1>1. Init => PageInv
  BY TypesInit, TailInit, ArchivesInit, WireInit, RowsInit, ResetInit, CatchInit, SubscribedInit, ClearInit,
     FreshInit, HolesInit DEF PageInv
<1>2. PageInv /\ [Next]_vars => PageInv'
  <2>1. SUFFICES ASSUME PageInv, [Next]_vars PROVE PageInv'
    OBVIOUS
  <2>2. /\ Types /\ TailInv /\ ArchivesInv /\ WireInv /\ RowsInv /\ ResetInv /\ CatchInv
        /\ SubscribedInv /\ ClearInv /\ FreshInv /\ HolesInv
    BY <2>1 DEF PageInv
  <2>3. Types' /\ TailInv' /\ ArchivesInv' /\ WireInv' /\ RowsInv' /\ ResetInv'
    BY <2>1, <2>2, TypesNext, TailNext, ArchivesNext, WireNext, RowsNext, ResetNext
  <2>4. CatchInv' /\ SubscribedInv' /\ ClearInv' /\ FreshInv' /\ HolesInv'
    BY <2>1, <2>2, CatchNext, SubscribedNext, ClearNext, FreshNext, HolesNext
  <2> QED BY <2>3, <2>4 DEF PageInv
<1> QED BY <1>1, <1>2, PTL DEF Spec

\* Every variable keeps its type, and client.send never holds more than fits.
THEOREM PageTypeOK == Spec => []TypeOK
<1>1. PageInv => TypeOK
  BY TypesAreTypes DEF PageInv
<1> QED BY <1>1, PageInvariant, PTL

\* The list of archives is sorted, the newest first and files of one age by name,
\* with each file once, at every step of its building by insertion.
THEOREM PageArchivesNewestFirst == Spec => []ArchivesNewestFirst
<1>1. PageInv => ArchivesNewestFirst
  BY ArchivesAreNewestFirst DEF PageInv
<1> QED BY <1>1, PageInvariant, PTL

\* The window the handler reads and the rows the script removes keep the page within
\* one row of the number wanted.
THEOREM PageRowsBounded == Spec => []RowsBounded
<1>1. PageInv => RowsBounded
  BY DEF PageInv, RowsInv
<1> QED BY <1>1, PageInvariant, PTL

\* Each reset of a reboot, which comes without separator, takes at most one event
\* with it.
THEOREM PageResetDropsOne == Spec => []ResetDropsOne
<1>1. PageInv => ResetDropsOne
  BY ResetDropsAtMostOne DEF PageInv
<1> QED BY <1>1, PageInvariant, PTL

\* The queue of the client, the frames of the writer and their splitting lose,
\* repeat and move no event on the way to the page.
THEOREM PageCatchesUpWithHub == Spec => []PageCatchesUp
<1>1. PageInv => PageCatchesUp
  BY CatchUp DEF PageInv
<1> QED BY <1>1, PageInvariant, PTL

\* A page at rest that showed a reset is the end of what the tail made events of since
\* then, and the end of the log when that was all of it.
THEOREM PageClearedIsLog == Spec => []ClearedPageIsLog
<1>1. PageInv => ClearedPageIsLog
  BY ClearedIsLog DEF PageInv
<1> QED BY <1>1, PageInvariant, PTL

\* A page at rest whose log was never truncated has every line since its first one that
\* the tail made an event of, but those no event of which could reach it.
THEOREM PageHolesAreMissed == Spec => []HolesAreMissed
<1>1. PageInv => HolesAreMissed
  BY HolesMissed DEF PageInv
<1> QED BY <1>1, PageInvariant, PTL
=============================================================================
