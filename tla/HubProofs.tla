----------------------------- MODULE HubProofs -----------------------------
(***************************************************************************)
(* Proofs about the hub, for any number of clients, servers and instances, *)
(* any capacity of client.send and any bounds.                             *)
(***************************************************************************)
EXTENDS Hub, DataLemmas, TLAPS

-----------------------------------------------------------------------------
(* The memory of the lists *)

\* The part of the memory that a header of a list refers to.
LEMMA CellsType ==
  ASSUME NEW h \in Seq(Array), NEW who, NEW n, NEW s \in Slice, ListOf(h, who, s, n)
  PROVE  /\ CellsOf(h, s) \in Seq(Client \cup {Unset})
         /\ s.len <= Len(CellsOf(h, s))
         /\ s.arr # 0 => /\ s.arr \in 1 .. Len(h)
                         /\ h[s.arr] \in Array
                         /\ CellsOf(h, s) = h[s.arr].cells
<1>1. CASE s.arr = 0
  BY <1>1 DEF CellsOf, ListOf, Slice
<1>2. CASE s.arr # 0
  <2>1. s.arr \in 1 .. Len(h)
    BY <1>2 DEF ListOf
  <2>2. h[s.arr] \in Array
    BY <2>1, ElementOfSeq
  <2> QED BY <1>2, <2>1, <2>2 DEF CellsOf, ListOf, Array
<1> QED BY <1>1, <1>2

\* From h to hh the array of s got c after the cells of s; the rest is as it was.
InPlace(h, hh, s, c) ==
  /\ s.arr \in DOMAIN h
  /\ s.len + 1 <= Len(h[s.arr].cells)
  /\ DOMAIN hh = DOMAIN h
  /\ \A a \in DOMAIN h :
       /\ hh[a].of = h[a].of
       /\ Len(hh[a].cells) = Len(h[a].cells)
       /\ \A j \in 1 .. Len(h[a].cells) :
            hh[a].cells[j] = IF a = s.arr /\ j = s.len + 1
                             THEN c ELSE h[a].cells[j]

\* From h to hh an array was added that holds the cells of s and then c.
Moved(h, hh, s, c, n) ==
  /\ DOMAIN hh = 1 .. Len(h) + 1
  /\ \A a \in DOMAIN h : hh[a] = h[a]
  /\ hh[Len(h) + 1].of = n
  /\ s.len + 1 <= Len(hh[Len(h) + 1].cells)
  /\ \A j \in 1 .. s.len : hh[Len(h) + 1].cells[j] = CellsOf(h, s)[j]
  /\ hh[Len(h) + 1].cells[s.len + 1] = c

\* append in place changes one cell of one array and nothing else.
LEMMA AppendInPlace ==
  ASSUME NEW h \in Seq(Array), NEW who, NEW n \in Name, NEW s \in Slice,
         NEW c \in Client, ListOf(h, who, s, n), HasRoom(h, s)
  PROVE  /\ HeapAfterAppend(h, s, c, n, Unset) \in Seq(Array)
         /\ InPlace(h, HeapAfterAppend(h, s, c, n, Unset), s, c)
<1> DEFINE cells == [h[s.arr].cells EXCEPT ![s.len + 1] = c]
           array == [h[s.arr] EXCEPT !.cells = cells]
           hh == [h EXCEPT ![s.arr] = array]
<1>1. s.arr \in 1 .. Len(h) /\ h[s.arr] \in Array /\ s.len + 1 \in 1 .. Len(h[s.arr].cells)
  <2>1. s.arr # 0
    BY DEF HasRoom, CellsOf, Slice
  <2>2. s.arr \in 1 .. Len(h) /\ h[s.arr] \in Array /\ CellsOf(h, s) = h[s.arr].cells
    BY <2>1, CellsType
  <2>3. Len(h[s.arr].cells) \in Nat
    BY <2>2 DEF Array
  <2> QED BY <2>2, <2>3 DEF HasRoom, Slice
<1>2. h[s.arr].cells \in Seq(Client \cup {Unset})
  BY <1>1 DEF Array
<1>3. /\ cells \in Seq(Client \cup {Unset})
      /\ Len(cells) = Len(h[s.arr].cells)
      /\ \A j \in 1 .. Len(h[s.arr].cells) :
           cells[j] = IF j = s.len + 1 THEN c ELSE h[s.arr].cells[j]
  BY <1>1, <1>2, ExceptSeq
<1>4. array \in Array /\ array.of = h[s.arr].of /\ array.cells = cells
  <2> HIDE DEF cells
  <2> QED BY <1>1, <1>3 DEF Array
<1>5. /\ hh \in Seq(Array)
      /\ Len(hh) = Len(h)
      /\ \A a \in 1 .. Len(h) : hh[a] = IF a = s.arr THEN array ELSE h[a]
  <2> HIDE DEF array
  <2> QED BY <1>1, <1>4, ExceptSeq
<1>6. HeapAfterAppend(h, s, c, n, Unset) = hh
  BY DEF HeapAfterAppend
<1> HIDE DEF hh, array, cells
<1>7. DOMAIN hh = DOMAIN h /\ DOMAIN h = 1 .. Len(h)
  BY <1>5
<1>8. ASSUME NEW a \in DOMAIN h
      PROVE  /\ hh[a].of = h[a].of
             /\ Len(hh[a].cells) = Len(h[a].cells)
             /\ \A j \in 1 .. Len(h[a].cells) :
                  hh[a].cells[j] = IF a = s.arr /\ j = s.len + 1
                                   THEN c ELSE h[a].cells[j]
  <2>1. CASE a = s.arr
    BY <1>3, <1>4, <1>5, <1>7, <2>1
  <2>2. CASE a # s.arr
    BY <1>5, <1>7, <2>2
  <2> QED BY <2>1, <2>2
<1>9. s.arr \in DOMAIN h /\ s.len + 1 <= Len(h[s.arr].cells)
  BY <1>1, <1>2, <1>7
<1> QED BY <1>5, <1>6, <1>7, <1>8, <1>9, Zenon DEF InPlace

\* append to a full list leaves the arrays alone and adds one.
LEMMA AppendMoves ==
  ASSUME NEW h \in Seq(Array), NEW who, NEW n \in Name, NEW s \in Slice,
         NEW c \in Client, ListOf(h, who, s, n), ~HasRoom(h, s)
  PROVE  /\ HeapAfterAppend(h, s, c, n, Unset) \in Seq(Array)
         /\ Moved(h, HeapAfterAppend(h, s, c, n, Unset), s, c, n)
<1> DEFINE g == GrownArray(h, s, c, n, Unset)
<1>1. NewCap(s.len) \in Nat /\ s.len + 1 <= NewCap(s.len)
  BY DEF NewCap, Slice
<1>2. \A j \in 1 .. s.len : CellsOf(h, s)[j] \in Client \cup {Unset}
  BY CellsType DEF Slice
<1>3. /\ g.cells \in Seq(Client \cup {Unset})
      /\ Len(g.cells) = NewCap(s.len)
  BY <1>1, <1>2 DEF GrownArray
<1>4. g \in Array /\ g.of = n
  BY <1>3 DEF GrownArray, Array
<1>5. /\ \A j \in 1 .. s.len : g.cells[j] = CellsOf(h, s)[j]
      /\ g.cells[s.len + 1] = c
  BY <1>1 DEF GrownArray, Slice
<1>6. HeapAfterAppend(h, s, c, n, Unset) = Append(h, g)
  BY DEF HeapAfterAppend
<1> HIDE DEF g
<1> QED BY <1>1, <1>3, <1>4, <1>5, <1>6, AppendProperties DEF Moved

\* After append(s, c) by a client that asks for n, the result is a list of n.
LEMMA AppendMakes ==
  ASSUME NEW h \in Seq(Array), NEW who \in [Client -> SUBSET Name],
         NEW n \in Name, NEW s \in Slice, NEW c \in Client, ListOf(h, who, s, n)
  PROVE  /\ HeapAfterAppend(h, s, c, n, Unset) \in Seq(Array)
         /\ SliceAfterAppend(h, s) \in Slice
         /\ ListOf(HeapAfterAppend(h, s, c, n, Unset),
                   [who EXCEPT ![c] = @ \cup {n}], SliceAfterAppend(h, s), n)
<1> DEFINE hh == HeapAfterAppend(h, s, c, n, Unset)
           t == SliceAfterAppend(h, s)
           asks == [who EXCEPT ![c] = @ \cup {n}]
<1>1. t \in Slice /\ t.arr # 0 /\ t.len = s.len + 1
  BY CellsType DEF SliceAfterAppend, Slice, HasRoom, CellsOf
<1>2. s.len <= Len(CellsOf(h, s))
  BY CellsType
<1>3. \A j \in 1 .. s.len : /\ CellsOf(h, s)[j] \in Client
                            /\ n \in asks[CellsOf(h, s)[j]]
  BY DEF ListOf, Slice, CellsOf
<1>4. n \in asks[c]
  OBVIOUS
<1>5. CASE HasRoom(h, s)
  <2>1. t.arr = s.arr
    BY <1>5 DEF SliceAfterAppend
  <2>2. hh \in Seq(Array) /\ InPlace(h, hh, s, c)
    BY <1>5, AppendInPlace
  <2>3. h[s.arr].of = n /\ CellsOf(h, s) = h[s.arr].cells
    BY <1>1, <2>1 DEF ListOf, CellsOf
  <2>4. s.arr \in DOMAIN hh /\ hh[s.arr].of = n /\ s.len + 1 <= Len(hh[s.arr].cells)
    BY <2>2, <2>3 DEF InPlace
  <2>5. \A j \in 1 .. s.len + 1 :
          hh[s.arr].cells[j] = IF j = s.len + 1 THEN c ELSE CellsOf(h, s)[j]
    BY <1>2, <2>2, <2>3 DEF InPlace, Slice
  <2> HIDE DEF hh, t, asks
  <2>6. ASSUME NEW j \in 1 .. t.len
        PROVE  hh[t.arr].cells[j] \in Client /\ n \in asks[hh[t.arr].cells[j]]
    <3>1. j \in 1 .. s.len + 1 /\ (j # s.len + 1 => j \in 1 .. s.len)
      BY <1>1 DEF Slice
    <3> QED BY <3>1, <1>3, <1>4, <2>1, <2>5
  <2>7. t.arr \in DOMAIN hh /\ hh[t.arr].of = n /\ t.len <= Len(hh[t.arr].cells)
    BY <1>1, <2>1, <2>4
  <2> QED BY <1>1, <2>2, <2>6, <2>7, Zenon DEF ListOf, hh, t, asks
<1>6. CASE ~HasRoom(h, s)
  <2>1. t.arr = Len(h) + 1
    BY <1>6 DEF SliceAfterAppend
  <2>2. hh \in Seq(Array) /\ Moved(h, hh, s, c, n)
    BY <1>6, AppendMoves
  <2>3. t.arr \in DOMAIN hh /\ hh[t.arr].of = n /\ s.len + 1 <= Len(hh[t.arr].cells)
    BY <2>1, <2>2 DEF Moved
  <2>4. \A j \in 1 .. s.len + 1 :
          hh[t.arr].cells[j] = IF j = s.len + 1 THEN c ELSE CellsOf(h, s)[j]
    BY <2>1, <2>2 DEF Moved, Slice
  <2> HIDE DEF hh, t, asks
  <2>5. ASSUME NEW j \in 1 .. t.len
        PROVE  hh[t.arr].cells[j] \in Client /\ n \in asks[hh[t.arr].cells[j]]
    <3>1. j \in 1 .. s.len + 1 /\ (j # s.len + 1 => j \in 1 .. s.len)
      BY <1>1 DEF Slice
    <3> QED BY <3>1, <1>3, <1>4, <2>4
  <2>6. t.len <= Len(hh[t.arr].cells)
    BY <1>1, <2>3
  <2> QED BY <1>1, <2>2, <2>3, <2>5, <2>6, Zenon DEF ListOf, hh, t, asks
<1> QED BY <1>1, <1>5, <1>6

\* ... and every other header still shows clients of its own list.
LEMMA AppendKeeps ==
  ASSUME NEW h \in Seq(Array), NEW who \in [Client -> SUBSET Name],
         NEW n \in Name, NEW s \in Slice, NEW c \in Client, ListOf(h, who, s, n),
         NEW t \in Slice, NEW m \in Name, ListOf(h, who, t, m)
  PROVE  ListOf(HeapAfterAppend(h, s, c, n, Unset),
                [who EXCEPT ![c] = @ \cup {n}], t, m)
<1> DEFINE hh == HeapAfterAppend(h, s, c, n, Unset)
           asks == [who EXCEPT ![c] = @ \cup {n}]
<1>1. CASE t.arr = 0
  BY <1>1 DEF ListOf
<1>2. CASE t.arr # 0
  <2>1. \A x \in Client : who[x] \subseteq asks[x]
    OBVIOUS
  <2>2. n \in asks[c]
    OBVIOUS
  <2>3. t.arr \in 1 .. Len(h) /\ h[t.arr] \in Array
    BY <1>2, CellsType
  <2>4. Len(h[t.arr].cells) \in Nat
    BY <2>3 DEF Array
  <2>5. CASE HasRoom(h, s)
    <3>1. InPlace(h, hh, s, c)
      BY <2>5, AppendInPlace
    <3>2. /\ t.arr \in DOMAIN hh
          /\ hh[t.arr].of = h[t.arr].of
          /\ Len(hh[t.arr].cells) = Len(h[t.arr].cells)
          /\ \A j \in 1 .. Len(h[t.arr].cells) :
               hh[t.arr].cells[j] = IF t.arr = s.arr /\ j = s.len + 1
                                    THEN c ELSE h[t.arr].cells[j]
      BY <2>3, <3>1 DEF InPlace
    <3>3. t.arr = s.arr => m = n
      BY <1>2 DEF ListOf
    <3> HIDE DEF hh, asks
    <3>4. ASSUME NEW j \in 1 .. t.len
          PROVE  hh[t.arr].cells[j] \in Client /\ m \in asks[hh[t.arr].cells[j]]
      <4>1. j \in 1 .. Len(h[t.arr].cells)
        BY <1>2, <2>4 DEF ListOf, Slice
      <4>2. h[t.arr].cells[j] \in Client /\ m \in who[h[t.arr].cells[j]]
        BY <1>2 DEF ListOf
      <4> QED BY <4>1, <4>2, <2>1, <2>2, <3>2, <3>3
    <3>5. hh[t.arr].of = m /\ t.len <= Len(hh[t.arr].cells)
      BY <1>2, <3>2 DEF ListOf
    <3> QED BY <1>2, <3>2, <3>4, <3>5, Zenon DEF ListOf, hh, asks
  <2>6. CASE ~HasRoom(h, s)
    <3>1. Moved(h, hh, s, c, n)
      BY <2>6, AppendMoves
    <3>2. t.arr \in DOMAIN hh /\ hh[t.arr] = h[t.arr]
      BY <2>3, <3>1 DEF Moved
    <3> HIDE DEF hh, asks
    <3>3. \A j \in 1 .. t.len : /\ hh[t.arr].cells[j] \in Client
                                /\ m \in asks[hh[t.arr].cells[j]]
      BY <1>2, <2>1, <3>2 DEF ListOf
    <3>4. hh[t.arr].of = m /\ t.len <= Len(hh[t.arr].cells)
      BY <1>2, <3>2 DEF ListOf
    <3> QED BY <1>2, <3>2, <3>3, <3>4, Zenon DEF ListOf, hh, asks
  <2> QED BY <2>5, <2>6
<1> QED BY <1>1, <1>2

\* From h to hh the cells of s after its i-th element moved one place down; the
\* rest is as it was.
Shift(h, hh, s, i) ==
  /\ DOMAIN hh = DOMAIN h
  /\ \A a \in DOMAIN h :
       /\ hh[a].of = h[a].of
       /\ Len(hh[a].cells) = Len(h[a].cells)
       /\ \A j \in 1 .. Len(h[a].cells) :
            hh[a].cells[j] = IF a = s.arr /\ j \in i .. s.len - 1
                             THEN h[a].cells[j + 1] ELSE h[a].cells[j]

\* append(s[:i], s[i+1:]...) moves cells within the array of s.
LEMMA RemoveShifts ==
  ASSUME NEW h \in Seq(Array), NEW who, NEW n \in Name, NEW s \in Slice,
         NEW i \in 1 .. s.len, ListOf(h, who, s, n)
  PROVE  /\ HeapAfterRemove(h, s, i) \in Seq(Array)
         /\ Shift(h, HeapAfterRemove(h, s, i), s, i)
<1> DEFINE cells == Shifted(h[s.arr].cells, i, s.len)
           array == [h[s.arr] EXCEPT !.cells = cells]
           hh == [h EXCEPT ![s.arr] = array]
<1>1. /\ s.arr \in 1 .. Len(h) /\ h[s.arr] \in Array
      /\ CellsOf(h, s) = h[s.arr].cells /\ s.len <= Len(CellsOf(h, s))
  <2>1. s.arr # 0
    BY DEF ListOf, Slice
  <2> QED BY <2>1, CellsType
<1>2. h[s.arr].cells \in Seq(Client \cup {Unset}) /\ Len(h[s.arr].cells) \in Nat
  BY <1>1 DEF Array
<1>3. /\ cells \in Seq(Client \cup {Unset})
      /\ Len(cells) = Len(h[s.arr].cells)
      /\ \A j \in 1 .. Len(h[s.arr].cells) :
           cells[j] = IF j \in i .. s.len - 1 THEN h[s.arr].cells[j + 1]
                                              ELSE h[s.arr].cells[j]
  <2>1. \A j \in 1 .. Len(h[s.arr].cells) : h[s.arr].cells[j] \in Client \cup {Unset}
    BY <1>2, ElementOfSeq
  <2>2. \A j \in i .. s.len - 1 : j + 1 \in 1 .. Len(h[s.arr].cells)
    BY <1>1, <1>2 DEF Slice
  <2>3. DOMAIN h[s.arr].cells = 1 .. Len(h[s.arr].cells)
    BY <1>2
  <2>4. \A j \in 1 .. Len(h[s.arr].cells) : cells[j] \in Client \cup {Unset}
    BY <2>1, <2>2, <2>3 DEF Shifted
  <2>5. cells = [j \in 1 .. Len(h[s.arr].cells) |-> cells[j]]
    BY <2>3 DEF Shifted
  <2>6. cells \in Seq(Client \cup {Unset}) /\ Len(cells) = Len(h[s.arr].cells)
    <3> HIDE DEF cells
    <3>1. cells \in [1 .. Len(h[s.arr].cells) -> Client \cup {Unset}]
      BY <2>4, <2>5
    <3> QED BY <1>2, <3>1, SMTT(60)
  <2> QED BY <2>3, <2>6 DEF Shifted
<1>4. array \in Array /\ array.of = h[s.arr].of /\ array.cells = cells
  <2> HIDE DEF cells
  <2> QED BY <1>1, <1>3 DEF Array
<1>5. /\ hh \in Seq(Array)
      /\ Len(hh) = Len(h)
      /\ \A a \in 1 .. Len(h) : hh[a] = IF a = s.arr THEN array ELSE h[a]
  <2> HIDE DEF array
  <2> QED BY <1>1, <1>4, ExceptSeq
<1>6. HeapAfterRemove(h, s, i) = hh
  BY DEF HeapAfterRemove
<1> HIDE DEF hh, array, cells
<1> QED BY <1>1, <1>3, <1>4, <1>5, <1>6 DEF Shift

\* ... so that every header still shows clients of its own list: a longer header
\* on the same array shows cells that were shown before.
LEMMA RemoveKeeps ==
  ASSUME NEW h \in Seq(Array), NEW who, NEW n \in Name, NEW s \in Slice,
         NEW i \in 1 .. s.len, ListOf(h, who, s, n),
         NEW t \in Slice, NEW m \in Name, ListOf(h, who, t, m)
  PROVE  ListOf(HeapAfterRemove(h, s, i), who, t, m)
<1> DEFINE hh == HeapAfterRemove(h, s, i)
<1>1. CASE t.arr = 0
  BY <1>1 DEF ListOf
<1>2. CASE t.arr # 0
  <2>1. t.arr \in 1 .. Len(h) /\ h[t.arr] \in Array
    BY <1>2, CellsType
  <2>2. Len(h[t.arr].cells) \in Nat
    BY <2>1 DEF Array
  <2>3. Shift(h, hh, s, i)
    BY RemoveShifts
  <2>4. /\ t.arr \in DOMAIN hh
        /\ hh[t.arr].of = h[t.arr].of
        /\ Len(hh[t.arr].cells) = Len(h[t.arr].cells)
        /\ \A j \in 1 .. Len(h[t.arr].cells) :
             hh[t.arr].cells[j] = IF t.arr = s.arr /\ j \in i .. s.len - 1
                                  THEN h[t.arr].cells[j + 1] ELSE h[t.arr].cells[j]
    BY <2>1, <2>3, SMTT(60) DEF Shift
  <2>5. ASSUME NEW j \in 1 .. t.len
        PROVE  hh[t.arr].cells[j] \in Client /\ m \in who[hh[t.arr].cells[j]]
    <3>1. j \in 1 .. Len(h[t.arr].cells)
      BY <1>2, <2>2 DEF ListOf, Slice
    <3>2. CASE t.arr = s.arr /\ j \in i .. s.len - 1
      <4>1. m = n
        BY <1>2, <3>2 DEF ListOf
      <4>2. j + 1 \in 1 .. s.len
        BY <3>2 DEF Slice
      <4>3. h[s.arr].cells[j + 1] \in Client /\ n \in who[h[s.arr].cells[j + 1]]
        BY <1>2, <3>2, <4>2 DEF ListOf
      <4> QED BY <2>4, <3>1, <3>2, <4>1, <4>3
    <3>3. CASE ~(t.arr = s.arr /\ j \in i .. s.len - 1)
      <4>1. h[t.arr].cells[j] \in Client /\ m \in who[h[t.arr].cells[j]]
        BY <1>2 DEF ListOf
      <4> QED BY <2>4, <3>1, <3>3, <4>1
    <3> QED BY <3>2, <3>3
  <2> HIDE DEF hh
  <2>6. hh[t.arr].of = m /\ t.len <= Len(hh[t.arr].cells)
    BY <1>2, <2>4 DEF ListOf
  <2> QED BY <1>2, <2>4, <2>5, <2>6, Zenon DEF ListOf, hh
<1> QED BY <1>1, <1>2

\* A header that is one shorter shows clients of its list too.
LEMMA ShorterKeeps ==
  ASSUME NEW h, NEW who, NEW n, NEW s \in Slice, s.len # 0, ListOf(h, who, s, n),
         h \in Seq(Array)
  PROVE  SliceAfterRemove(s) \in Slice /\ ListOf(h, who, SliceAfterRemove(s), n)
<1>1. s.arr # 0 /\ s.arr \in 1 .. Len(h) /\ h[s.arr] \in Array
  BY CellsType DEF ListOf
<1>2. Len(h[s.arr].cells) \in Nat
  BY <1>1 DEF Array
<1> QED BY <1>1, <1>2 DEF SliceAfterRemove, ListOf, Slice

-----------------------------------------------------------------------------
(* Types *)

\* The hub only ever looks at clients that asked for the topic of the event.
LEMMA CurrentAsked ==
  ASSUME TypeOK, ListsOwned, InBroadcast
  PROVE  Current \in Client /\ Topic \in asked[Current]
<1>1. hub.idx \in Nat /\ hub.list.len \in Nat
  BY DEF TypeOK, LoopTypes, HubState, Slice
<1>2. ListOf(heap, asked, hub.list, Topic) /\ hub.idx \in 1 .. hub.list.len
  BY <1>1 DEF ListsOwned, InBroadcast
<1> QED BY <1>1, <1>2 DEF ListOf, Current, CellsOf

\* The elements of a list are clients that asked for its server.
LEMMA ElementsAsked ==
  ASSUME NEW h \in Seq(Array), NEW who, NEW n, NEW s \in Slice,
         ListOf(h, who, s, n), NEW i \in 1 .. s.len
  PROVE  /\ Elements(h, s)[i] = CellsOf(h, s)[i]
         /\ Elements(h, s)[i] \in Client /\ n \in who[Elements(h, s)[i]]
<1>1. CellsOf(h, s) \in Seq(Client \cup {Unset}) /\ s.len <= Len(CellsOf(h, s))
  BY CellsType
<1>2. Elements(h, s)[i] = CellsOf(h, s)[i]
  BY <1>1 DEF Elements, Slice
<1> QED BY <1>2 DEF ListOf, CellsOf, Slice

\* A listed client has a first index in the list.
LEMMA ListedIndex ==
  ASSUME TypeOK, NEW c, NEW srv, Listed(c, srv)
  PROVE  IndexIn(c, srv) \in 1 .. subs[srv].len
<1> DEFINE At == {i \in 1 .. subs[srv].len : Elements(heap, subs[srv])[i] = c}
<1>1. subs[srv].len \in Nat
  BY DEF TypeOK, ListTypes, Listed, Slice
<1>2. At # {} /\ At \subseteq Nat
  BY <1>1 DEF Listed
<1>3. PICK i \in At : \A j \in At : i <= j
  BY <1>2, LeastNumber
<1>4. \A j \in 1 .. i - 1 : Elements(heap, subs[srv])[j] # c
  BY <1>1, <1>3
<1> QED BY <1>3, <1>4 DEF IndexIn

\* Disconnecting a client keeps the types of what it changes.
LEMMA DisconnectType ==
  ASSUME TypeOK, ListsOwned, NEW c \in Client, NEW srv, DisconnectClient(c, srv)
  PROVE  /\ DOMAIN clients' \subseteq DOMAIN clients
         /\ \A x \in DOMAIN clients' : clients'[x] = clients[x]
         /\ connected' \in [Client -> BOOLEAN]
         /\ closed' \in [Client -> BOOLEAN]
         /\ status' \in {status, "hub panic"}
         /\ DOMAIN subs' = DOMAIN subs
         /\ \A n \in DOMAIN subs : subs'[n] \in Slice
         /\ heap' \in Seq(Array)
<1>1. /\ connected \in [Client -> BOOLEAN] /\ closed \in [Client -> BOOLEAN]
      /\ heap \in Seq(Array)
      /\ \A n \in DOMAIN subs : subs[n] \in Slice
  BY DEF TypeOK, HubTypes, ListTypes
<1>2. CASE UNCHANGED <<status, clients, connected, closed, listVars>>
  BY <1>1, <1>2 DEF listVars
<1>3. CASE c \in DOMAIN clients
  <2>1. /\ connected' = [connected EXCEPT ![c] = FALSE]
        /\ clients' = [x \in DOMAIN clients \ {c} |-> clients[x]]
        /\ closed' = [closed EXCEPT ![c] = TRUE]
        /\ status' = IF closed[c] THEN "hub panic" ELSE status
        /\ Unlist(c, srv)
    BY <1>3 DEF DisconnectClient, CloseSend
  <2>2. DOMAIN subs' = DOMAIN subs /\ heap' \in Seq(Array)
        /\ \A n \in DOMAIN subs : subs'[n] \in Slice
    <3>1. CASE ~Listed(c, srv)
      BY <2>1, <3>1, <1>1 DEF Unlist, listVars
    <3>2. CASE Listed(c, srv)
      <4> DEFINE i == IndexIn(c, srv)
      <4>1. srv \in DOMAIN subs /\ subs[srv] \in Slice
        BY <3>2, <1>1 DEF Listed
      <4>2. ListOf(heap, asked, subs[srv], srv)
        BY <4>1 DEF ListsOwned
      <4>3. i \in 1 .. subs[srv].len
        BY <3>2, ListedIndex
      <4>4. /\ heap' = HeapAfterRemove(heap, subs[srv], i)
            /\ subs' = [subs EXCEPT ![srv] = SliceAfterRemove(@)]
        BY <2>1, <3>2 DEF Unlist
      <4>5. srv \in Name
        BY <4>1 DEF TypeOK, ListTypes, Name
      <4>6. heap' \in Seq(Array)
        BY <1>1, <4>1, <4>2, <4>3, <4>4, <4>5, RemoveShifts
      <4>7. subs[srv].len # 0
        BY <4>1, <4>3 DEF Slice
      <4>8. SliceAfterRemove(subs[srv]) \in Slice
        BY <1>1, <4>1, <4>2, <4>7, ShorterKeeps
      <4> QED BY <1>1, <4>1, <4>4, <4>6, <4>8
    <3> QED BY <3>1, <3>2
  <2> QED BY <1>1, <2>1, <2>2
<1> QED BY <1>2, <1>3 DEF DisconnectClient

\* What a goroutine appends to a buffer or takes from it is a message.
LEMMA MessageTypes ==
  /\ ErrorMsg \in Message /\ ResetMsg \in Message
  /\ \A n \in Nat : EventMsg(n) \in Message
BY DEF ErrorMsg, ResetMsg, EventMsg, Message

\* Pushing a message keeps the type of the buffers.
LEMMA PushType ==
  ASSUME WireTypes, NEW c, NEW m \in Message, Push(c, m)
  PROVE  send' \in [Client -> Seq(Message)]
<1>1. CASE c \in Client
  <2>1. Append(send[c], m) \in Seq(Message)
    BY <1>1 DEF WireTypes
  <2> QED BY <2>1 DEF WireTypes, Push
<1>2. CASE c \notin Client
  BY <1>2 DEF WireTypes, Push
<1> QED BY <1>1, <1>2

\* Going on to the next element of a list.
LEMMA NextElement ==
  /\ \A r \in HubState : [r EXCEPT !.idx = @ + 1] \in HubState
  /\ \A r \in ResetState :
       [pc |-> "check", list |-> r.list, idx |-> r.idx + 1] \in ResetState
BY DEF HubState, ResetState

\* The number of events so far is a number.
LEMMA EventCount == LoopTypes => Len(evts) \in Nat
BY DEF LoopTypes

\* In the beginning every variable has its type.
LEMMA TypeInit == Init => TypeOK
<1> SUFFICES ASSUME Init PROVE TypeOK
  OBVIOUS
<1> USE DEF Init, EmptySlice, Slice
<1>1. HubTypes
  BY DEF HubTypes
<1>2. LoopTypes
  BY DEF LoopTypes, HubState
<1>3. ListTypes
  BY DEF ListTypes
<1>4. ReadTypes
  BY DEF ReadTypes, ReadState
<1>5. WireTypes
  BY DEF WireTypes, WriteState
<1>6. BootTypes
  BY DEF BootTypes, ResetState
<1> QED BY <1>1, <1>2, <1>3, <1>4, <1>5, <1>6 DEF TypeOK

\* A group of variables that does not change keeps its types.
LEMMA TypesKept ==
  /\ HubTypes /\ UNCHANGED <<status, clients, connected, closed>> => HubTypes'
  /\ LoopTypes /\ UNCHANGED <<hub, audience, evts>> => LoopTypes'
  /\ ListTypes /\ UNCHANGED listVars => ListTypes'
  /\ ReadTypes /\ UNCHANGED readVars => ReadTypes'
  /\ WireTypes /\ UNCHANGED <<send, wireVars>> => WireTypes'
  /\ BootTypes /\ UNCHANGED bootVars => BootTypes'
<1>1. HubTypes /\ UNCHANGED <<status, clients, connected, closed>> => HubTypes'
  BY DEF HubTypes
<1>2. LoopTypes /\ UNCHANGED <<hub, audience, evts>> => LoopTypes'
  BY DEF LoopTypes
<1>3. ListTypes /\ UNCHANGED listVars => ListTypes'
  BY DEF ListTypes, listVars
<1>4. ReadTypes /\ UNCHANGED readVars => ReadTypes'
  BY DEF ReadTypes, readVars
<1>5. WireTypes /\ UNCHANGED <<send, wireVars>> => WireTypes'
  BY DEF WireTypes, wireVars
<1>6. BootTypes /\ UNCHANGED bootVars => BootTypes'
  BY DEF BootTypes, bootVars
<1> QED BY <1>1, <1>2, <1>3, <1>4, <1>5, <1>6

\* Every step keeps the types.
LEMMA TypeStep == TypeOK /\ ListsOwned /\ [Next]_vars => TypeOK'
<1> SUFFICES ASSUME TypeOK, ListsOwned, [Next]_vars PROVE TypeOK'
  OBVIOUS
<1> HubTypes /\ LoopTypes /\ ListTypes /\ ReadTypes /\ WireTypes /\ BootTypes
  BY DEF TypeOK
<1> USE DEF TypeOK, hubVars
<1>1. ASSUME NEW c \in Client, ServeWs(c) PROVE TypeOK'
  <2> USE <1>1 DEF ServeWs
  <2>1. HubTypes'
    BY DEF HubTypes, ReadTypes
  <2>2. ReadTypes'
    BY SMTT(60) DEF ReadTypes, ReadState
  <2>3. WireTypes'
    BY DEF WireTypes, WriteState
  <2> QED BY <2>1, <2>2, <2>3, TypesKept
<1>2. ASSUME NEW c \in Client, Unregister(c) PROVE TypeOK'
  <2> USE <1>2 DEF Unregister
  <2>1. \E srv : DisconnectClient(c, srv)
    OBVIOUS
  <2>2. HubTypes' /\ ListTypes'
    BY <2>1, DisconnectType DEF HubTypes, ListTypes
  <2>3. ReadTypes'
    BY DEF ReadTypes, ReadState
  <2> QED BY <2>2, <2>3, TypesKept
<1>3. ASSUME NEW topic \in DOMAIN subs, TakeEvent(topic) PROVE TypeOK'
  <2> USE <1>3 DEF TakeEvent
  <2>1. LoopTypes'
    BY DEF LoopTypes, HubState, ListTypes
  <2> QED BY <2>1, TypesKept
<1>4. ASSUME FetchSubscribers PROVE TypeOK'
  <2> USE <1>4 DEF FetchSubscribers
  <2>1. Topic \in DOMAIN subs /\ subs[Topic] \in Slice
    BY DEF ListTypes, ListsOwned
  <2>2. ListOf(heap, asked, subs[Topic], Topic)
    BY <2>1 DEF ListsOwned
  <2>3. audience' \subseteq Client
    <3> SUFFICES ASSUME NEW i \in 1 .. subs[Topic].len
                 PROVE  Elements(heap, subs[Topic])[i] \in Client
      OBVIOUS
    <3> QED BY <2>1, <2>2, ElementsAsked DEF ListTypes
  <2>4. LoopTypes'
    BY <2>1, <2>3 DEF LoopTypes, HubState
  <2> QED BY <2>4, TypesKept
<1>5. ASSUME SkipDisconnected PROVE TypeOK'
  <2> USE <1>5 DEF SkipDisconnected
  <2>1. LoopTypes'
    BY DEF LoopTypes, HubState
  <2> QED BY <2>1, TypesKept
<1>6. ASSUME SendEvent PROVE TypeOK'
  <2> USE <1>6 DEF SendEvent
  <2>1. HubTypes'
    BY DEF HubTypes
  <2>2. hub' \in HubState
    <3>1. CASE UNCHANGED hub
      BY <3>1 DEF LoopTypes
    <3>2. CASE hub' = [hub EXCEPT !.idx = @ + 1]
      <4>1. hub \in HubState
        BY DEF LoopTypes
      <4> QED BY <3>2, <4>1, NextElement
    <3> QED BY <3>1, <3>2
  <2>3. LoopTypes'
    BY <2>2 DEF LoopTypes
  <2>4. send' \in [Client -> Seq(Message)]
    <3>1. EventMsg(Len(evts)) \in Message
      BY EventCount, MessageTypes
    <3>2. CASE UNCHANGED send
      BY <3>2 DEF WireTypes
    <3>3. CASE Push(Current, EventMsg(Len(evts)))
      BY <3>1, <3>3, PushType
    <3> QED BY <3>2, <3>3
  <2>5. WireTypes'
    BY <2>4 DEF WireTypes, wireVars
  <2> QED BY <2>1, <2>3, <2>5, TypesKept
<1>7. ASSUME EvictClient PROVE TypeOK'
  <2> USE <1>7 DEF EvictClient
  <2>1. Current \in Client /\ DisconnectClient(Current, EvtServer)
    BY CurrentAsked DEF Evicting
  <2>2. HubTypes' /\ ListTypes'
    BY <2>1, DisconnectType DEF HubTypes, ListTypes
  <2>3. LoopTypes'
    BY DEF LoopTypes, HubState
  <2> QED BY <2>2, <2>3, TypesKept
<1>8. ASSUME EndBroadcast PROVE TypeOK'
  <2> USE <1>8 DEF EndBroadcast
  <2>1. LoopTypes'
    BY DEF LoopTypes, HubState, EmptySlice, Slice
  <2> QED BY <2>1, TypesKept
<1>9. ASSUME NEW c \in Client, LoopCheck(c) PROVE TypeOK'
  <2> USE <1>9 DEF LoopCheck
  <2>1. ReadTypes'
    BY DEF ReadTypes, ReadState
  <2> QED BY <2>1, TypesKept
<1>10. ASSUME NEW c \in Client, NEW name \in Name, ReadMessage(c, name) PROVE TypeOK'
  <2> USE <1>10 DEF ReadMessage
  <2>0. [rp[c] EXCEPT !.pc = "lookup", !.req = name] \in ReadState
    BY DEF ReadTypes, ReadState
  <2>1. ReadTypes'
    BY <2>0 DEF ReadTypes
  <2> QED BY <2>1, TypesKept
<1>11. ASSUME NEW c \in Client, ReadFails(c) PROVE TypeOK'
  <2> USE <1>11 DEF ReadFails
  <2>1. ReadTypes'
    BY DEF ReadTypes, ReadState
  <2> QED BY <2>1, TypesKept
<1>12. ASSUME NEW c \in Client, Lookup(c) PROVE TypeOK'
  <2> USE <1>12 DEF Lookup
  <2>1. rp' \in [Client -> ReadState]
    <3>1. CASE rp[c].req \in DOMAIN subs
      <4>1. subs[rp[c].req] \in Slice
        BY <3>1 DEF ListTypes
      <4>2. [rp[c] EXCEPT !.pc = "store", !.list = subs[rp[c].req]] \in ReadState
        BY <4>1 DEF ReadTypes, ReadState
      <4> QED BY <3>1, <4>2 DEF ReadTypes
    <3>2. CASE rp[c].req \notin DOMAIN subs
      <4>1. [rp[c] EXCEPT !.pc = "reply"] \in ReadState
        BY DEF ReadTypes, ReadState
      <4> QED BY <3>2, <4>1 DEF ReadTypes
    <3> QED BY <3>1, <3>2
  <2>2. ReadTypes'
    BY <2>1 DEF ReadTypes
  <2> QED BY <2>2, TypesKept
<1>13. ASSUME NEW c \in Client, Store(c) PROVE TypeOK'
  <2> USE <1>13 DEF Store
  <2>1. /\ rp[c].req \in DOMAIN subs /\ rp[c].req \in Name /\ rp[c].list \in Slice
        /\ ListOf(heap, asked, rp[c].list, rp[c].req)
    BY DEF ReadTypes, ReadState, ListTypes, ListsOwned, Name
  <2>2. heap' \in Seq(Array) /\ SliceAfterAppend(heap, rp[c].list) \in Slice
    BY <2>1, AppendMakes DEF ListTypes, ReadTypes
  <2>3. ListTypes'
    BY <2>1, <2>2 DEF ListTypes
  <2>4. ReadTypes'
    BY <2>1 DEF ReadTypes, ReadState, EmptySlice, Slice
  <2> QED BY <2>3, <2>4, TypesKept
<1>14. ASSUME NEW c \in Client, ReplyUnknown(c) PROVE TypeOK'
  <2> USE <1>14 DEF ReplyUnknown
  <2>1. HubTypes'
    BY DEF HubTypes
  <2>2. send' \in [Client -> Seq(Message)]
    <3>1. CASE UNCHANGED send
      BY <3>1 DEF WireTypes
    <3>2. CASE Push(c, ErrorMsg)
      BY <3>2, PushType, MessageTypes
    <3> QED BY <3>1, <3>2
  <2>3. WireTypes'
    BY <2>2 DEF WireTypes, wireVars
  <2>4. ReadTypes'
    BY ZenonT(60) DEF ReadTypes, ReadState
  <2> QED BY <2>1, <2>3, <2>4, TypesKept
<1>15. ASSUME NEW c \in Client, ReadPumpClose(c) PROVE TypeOK'
  <2> USE <1>15 DEF ReadPumpClose
  <2>1. WireTypes'
    BY DEF WireTypes
  <2>2. ReadTypes'
    BY DEF ReadTypes, ReadState
  <2> QED BY <2>1, <2>2, TypesKept
<1>16. ASSUME NEW c \in Client, WriterTake(c) PROVE TypeOK'
  <2> USE <1>16 DEF WriterTake
  <2>1. /\ send[c] \in Seq(Message) /\ Tail(send[c]) \in Seq(Message)
        /\ <<Head(send[c])>> \in Seq(Message)
    BY DEF WireTypes
  <2>2. send' \in [Client -> Seq(Message)]
    BY <2>1 DEF WireTypes
  <2>3. wr' \in [Client -> WriteState]
    <3>1. CASE UNCHANGED wr
      BY <3>1 DEF WireTypes
    <3>2. CASE wr' = [wr EXCEPT ![c] = [pc |-> "count", batch |-> <<Head(send[c])>>,
                                        left |-> 0]]
      BY <2>1, <3>2 DEF WireTypes, WriteState
    <3> QED BY <3>1, <3>2
  <2>4. WireTypes'
    BY <2>2, <2>3 DEF WireTypes
  <2> QED BY <2>4, TypesKept
<1>17. ASSUME NEW c \in Client, WriterCount(c) PROVE TypeOK'
  <2> USE <1>17 DEF WriterCount
  <2>1. Len(send[c]) \in Nat
    BY DEF WireTypes
  <2>2. WireTypes'
    BY <2>1 DEF WireTypes, WriteState
  <2> QED BY <2>2, TypesKept
<1>18. ASSUME NEW c \in Client, WriterDrain(c) PROVE TypeOK'
  <2>1. /\ wr \in [Client -> WriteState] /\ send \in [Client -> Seq(Message)]
        /\ wr[c].left > 0 /\ send[c] # <<>>
    BY <1>18 DEF WireTypes, WriterDrain
  <2>2. Head(send[c]) \in Message /\ Tail(send[c]) \in Seq(Message)
    BY <2>1
  <2>3. [pc |-> "drain", batch |-> Append(wr[c].batch, Head(send[c])),
         left |-> wr[c].left - 1] \in WriteState
    BY <2>1, <2>2 DEF WriteState
  <2>5. wr' \in [Client -> WriteState]
    BY <1>18, <2>1, <2>3 DEF WriterDrain
  <2>6. send' \in [Client -> Seq(Message)]
    BY <1>18, <2>1, <2>2 DEF WriterDrain
  <2>7. WireTypes'
    BY <1>18, <2>5, <2>6 DEF WireTypes, WriterDrain
  <2> QED BY <1>18, <2>7, TypesKept DEF WriterDrain
<1>19. ASSUME NEW c \in Client, WriterFlush(c) PROVE TypeOK'
  <2> USE <1>19 DEF WriterFlush
  <2>1. wr[c].batch \in Seq(Message) /\ wire[c] \o wr[c].batch \in Seq(Message)
    BY DEF WireTypes, WriteState
  <2>2. wire' \in [Client -> Seq(Message)]
    BY <2>1 DEF WireTypes
  <2>3. wr' \in [Client -> WriteState]
    <3>1. \E p \in {"idle", "done"} :
            wr' = [wr EXCEPT ![c] = [@ EXCEPT !.pc = p, !.batch = <<>>]]
      OBVIOUS
    <3>2. \A p \in {"idle", "done"} :
            [wr[c] EXCEPT !.pc = p, !.batch = <<>>] \in WriteState
      <4>1. wr[c] \in WriteState /\ <<>> \in Seq(Message)
        BY DEF WireTypes
      <4> QED BY <4>1 DEF WriteState
    <3> QED BY <3>1, <3>2 DEF WireTypes
  <2>4. WireTypes'
    BY <2>2, <2>3 DEF WireTypes
  <2> QED BY <2>4, TypesKept
<1>20. ASSUME NEW c \in Client, WriterExit(c) PROVE TypeOK'
  <2> USE <1>20 DEF WriterExit
  <2>1. WireTypes'
    BY DEF WireTypes, WriteState
  <2> QED BY <2>1, TypesKept
<1>21. ASSUME NEW c \in Client, ConnFails(c) PROVE TypeOK'
  <2> USE <1>21 DEF ConnFails
  <2>1. WireTypes'
    BY DEF WireTypes
  <2> QED BY <2>1, TypesKept
<1>22. ASSUME NEW d \in DynamicTag, NEW i \in Instance, NewInstance(d, i)
       PROVE  TypeOK'
  <2> USE <1>22 DEF NewInstance
  <2>1. ListTypes'
    BY DEF ListTypes, EmptySlice, Slice, DynamicName
  <2>2. BootTypes'
    BY DEF BootTypes
  <2> QED BY <2>1, <2>2, TypesKept
<1>23. ASSUME NEW d \in DynamicTag, NEW i \in Instance, RebootedInstance(d, i)
       PROVE  TypeOK'
  <2> USE <1>23 DEF RebootedInstance
  <2>1. subs[<<d, i>>] \in Slice
    BY DEF ListTypes
  <2>2. BootTypes'
    BY <2>1 DEF BootTypes, ResetState
  <2> QED BY <2>2, TypesKept
<1>24. ASSUME NEW d \in DynamicTag, ResetCheck(d) PROVE TypeOK'
  <2> USE <1>24 DEF ResetCheck
  <2>1. rs' \in [DynamicTag -> ResetState]
    <3>1. /\ [pc |-> "idle", list |-> EmptySlice, idx |-> 1] \in ResetState
          /\ [rs[d] EXCEPT !.pc = "send"] \in ResetState
          /\ [rs[d] EXCEPT !.idx = @ + 1] \in ResetState
      BY DEF BootTypes, ResetState, EmptySlice, Slice
    <3> QED BY <3>1 DEF BootTypes
  <2>2. BootTypes'
    BY <2>1 DEF BootTypes
  <2> QED BY <2>2, TypesKept
<1>25. ASSUME NEW d \in DynamicTag, ResetSend(d) PROVE TypeOK'
  <2> USE <1>25 DEF ResetSend
  <2>1. HubTypes'
    BY DEF HubTypes
  <2>2. send' \in [Client -> Seq(Message)]
    <3>1. CASE UNCHANGED send
      BY <3>1 DEF WireTypes
    <3>2. CASE Push(ResetTarget(d), ResetMsg)
      BY <3>2, PushType, MessageTypes
    <3> QED BY <3>1, <3>2
  <2>3. WireTypes'
    BY <2>2 DEF WireTypes, wireVars
  <2>4. rs' \in [DynamicTag -> ResetState]
    <3>1. CASE UNCHANGED rs
      BY <3>1 DEF BootTypes
    <3>2. CASE rs' = [rs EXCEPT ![d] =
                        [pc |-> "check", list |-> @.list, idx |-> @.idx + 1]]
      BY <3>2, NextElement DEF BootTypes
    <3> QED BY <3>1, <3>2
  <2>5. BootTypes'
    BY <2>4 DEF BootTypes
  <2> QED BY <2>1, <2>3, <2>5, TypesKept
<1>26. ASSUME MapFault PROVE TypeOK'
  <2> USE <1>26 DEF MapFault
  <2>1. HubTypes'
    BY DEF HubTypes
  <2> QED BY <2>1, TypesKept
<1>27. ASSUME UNCHANGED vars PROVE TypeOK'
  BY <1>27, TypesKept DEF vars
<1> QED
  BY <1>1, <1>2, <1>3, <1>4, <1>5, <1>6, <1>7, <1>8, <1>9, <1>10, <1>11, <1>12,
     <1>13, <1>14, <1>15, <1>16, <1>17, <1>18, <1>19, <1>20, <1>21, <1>22, <1>23,
     <1>24, <1>25, <1>26, <1>27 DEF Next

-----------------------------------------------------------------------------
(* Lists *)

\* The names of the lists are names.
LEMMA SubsNames == TypeOK => DOMAIN subs \subseteq Name
BY DEF TypeOK, ListTypes, Name

\* Disconnecting a client shifts cells of one list: every header that was in use
\* still shows clients of its own server.
LEMMA DisconnectLists ==
  ASSUME TypeOK, ListsOwned, NEW c \in Client, NEW srv, DisconnectClient(c, srv)
  PROVE  /\ \A t \in Slice, m \in Name :
              ListOf(heap, asked, t, m) => ListOf(heap', asked, t, m)
         /\ \A n \in DOMAIN subs : ListOf(heap', asked, subs'[n], n)
<1>1. /\ heap \in Seq(Array)
      /\ DOMAIN subs \subseteq Name
      /\ \A n \in DOMAIN subs : subs[n] \in Slice /\ ListOf(heap, asked, subs[n], n)
  BY SubsNames DEF TypeOK, ListTypes, ListsOwned
<1>2. CASE UNCHANGED listVars
  BY <1>1, <1>2 DEF listVars
<1>3. CASE ~ UNCHANGED listVars
  <2>1. Listed(c, srv) /\ Unlist(c, srv)
    BY <1>3 DEF DisconnectClient, Unlist
  <2> DEFINE i == IndexIn(c, srv)
  <2>2. srv \in DOMAIN subs
    BY <2>1 DEF Listed
  <2>3. /\ srv \in Name /\ subs[srv] \in Slice
        /\ ListOf(heap, asked, subs[srv], srv) /\ i \in 1 .. subs[srv].len
    BY <1>1, <2>1, <2>2, ListedIndex
  <2>4. /\ heap' = HeapAfterRemove(heap, subs[srv], i)
        /\ subs' = [subs EXCEPT ![srv] = SliceAfterRemove(@)]
    BY <2>1 DEF Unlist
  <2> HIDE DEF i
  <2>5. ASSUME NEW t \in Slice, NEW m \in Name, ListOf(heap, asked, t, m)
        PROVE  ListOf(heap', asked, t, m)
    BY <1>1, <2>3, <2>4, <2>5, RemoveKeeps
  <2>6. heap' \in Seq(Array) /\ subs[srv].len # 0
    BY <1>1, <2>3, <2>4, RemoveShifts DEF Slice
  <2>7. ListOf(heap', asked, SliceAfterRemove(subs[srv]), srv)
    <3>1. ListOf(heap', asked, subs[srv], srv)
      BY <2>3, <2>5
    <3> QED BY <2>3, <2>6, <3>1, ShorterKeeps
  <2>8. ASSUME NEW n \in DOMAIN subs PROVE ListOf(heap', asked, subs'[n], n)
    <3>1. CASE n = srv
      BY <2>2, <2>4, <2>7, <3>1
    <3>2. CASE n # srv
      <4>1. subs'[n] = subs[n]
        BY <2>4, <3>2
      <4> QED BY <1>1, <2>5, <4>1
    <3> QED BY <3>1, <3>2
  <2> QED BY <2>5, <2>8
<1> QED BY <1>2, <1>3

\* A step that leaves the memory, the hub and what was asked, and brings no
\* client to the store, keeps the lists.
LEMMA ListsFrame ==
  ASSUME ListsOwned, UNCHANGED <<subs, heap, asked, hub, evts>>,
         \A c \in Client : rp'[c].pc = "store" => rp'[c] = rp[c]
  PROVE  ListsOwned'
BY DEF ListsOwned, Topic

\* In the beginning every list is empty.
LEMMA ListsInit == Init => ListsOwned
BY DEF Init, ListsOwned, ListOf, EmptySlice

\* Every step keeps the lists.
LEMMA ListsStep == TypeOK /\ ListsOwned /\ [Next]_vars => ListsOwned'
<1> SUFFICES ASSUME TypeOK, ListsOwned, [Next]_vars PROVE ListsOwned'
  OBVIOUS
<1> USE DEF hubVars, listVars, readVars, wireVars, bootVars
<1>a. /\ rp \in [Client -> ReadState] /\ hub \in HubState
      /\ asked \in [Client -> SUBSET Name]
      /\ evts \in Seq(ClassicName \cup DynamicName)
      /\ heap \in Seq(Array)
      /\ \A n \in DOMAIN subs : n \in Name /\ subs[n] \in Slice
  BY SubsNames DEF TypeOK, ReadTypes, LoopTypes, ListTypes
<1>b. /\ \A n \in DOMAIN subs : ListOf(heap, asked, subs[n], n)
      /\ \A c \in Client :
           rp[c].pc = "store" => /\ rp[c].req \in DOMAIN subs
                                 /\ ListOf(heap, asked, rp[c].list, rp[c].req)
      /\ hub.pc # "select" => evts # <<>> /\ Topic \in DOMAIN subs
      /\ hub.pc = "broadcast" =>
           hub.idx >= 1 /\ ListOf(heap, asked, hub.list, Topic)
  BY DEF ListsOwned
<1>1. ASSUME NEW c \in Client, ServeWs(c) PROVE ListsOwned'
  BY <1>1, <1>a, ListsFrame DEF ServeWs
<1>2. ASSUME NEW c \in Client, Unregister(c) PROVE ListsOwned'
  <2>1. PICK srv : DisconnectClient(c, srv)
    BY <1>2 DEF Unregister
  <2>2. DOMAIN subs' = DOMAIN subs
    BY <2>1, DisconnectType
  <2>3. /\ rp' = [rp EXCEPT ![c].pc = "close"]
        /\ UNCHANGED <<hub, evts, asked>> /\ hub.pc = "select"
    BY <1>2 DEF Unregister
  <2>4. ASSUME NEW x \in Client, rp'[x].pc = "store"
        PROVE  rp'[x].req \in DOMAIN subs /\ ListOf(heap', asked, rp'[x].list, rp'[x].req)
    <3>1. rp'[x] = rp[x] /\ rp[x].list \in Slice
      BY <1>a, <2>3, <2>4 DEF ReadState
    <3> QED BY <1>a, <1>b, <2>1, <2>4, <3>1, DisconnectLists
  <2> QED BY <2>1, <2>2, <2>3, <2>4, DisconnectLists DEF ListsOwned
<1>3. ASSUME NEW topic \in DOMAIN subs, TakeEvent(topic) PROVE ListsOwned'
  <2>1. /\ evts' = Append(evts, topic) /\ hub' = [hub EXCEPT !.pc = "fetch"]
        /\ UNCHANGED <<subs, heap, asked, rp>>
    BY <1>3 DEF TakeEvent
  <2>2. topic \in ClassicName \cup DynamicName
    BY DEF TypeOK, ListTypes
  <2>3. evts' # <<>> /\ Topic' = topic
    <3>1. /\ Len(evts) \in Nat /\ Len(evts') = Len(evts) + 1
          /\ evts'[Len(evts) + 1] = topic
      BY <1>a, <2>1, <2>2, AppendProperties
    <3>2. evts' # <<>>
      BY <1>a, <2>1, <2>2
    <3> QED BY <3>1, <3>2 DEF Topic
  <2>4. hub'.pc = "fetch"
    BY <1>a, <2>1 DEF HubState
  <2> QED BY <1>b, <2>1, <2>3, <2>4 DEF ListsOwned
<1>4. ASSUME FetchSubscribers PROVE ListsOwned'
  <2>1. /\ hub' = [pc |-> "broadcast", list |-> subs[Topic], idx |-> 1]
        /\ hub.pc = "fetch" /\ UNCHANGED <<evts, subs, heap, asked, rp>>
    BY <1>4 DEF FetchSubscribers
  <2>2. Topic' = Topic
    BY <2>1 DEF Topic
  <2> QED BY <1>b, <2>1, <2>2 DEF ListsOwned
<1>5. ASSUME NEW k \in Nat, k >= 1, hub' = [hub EXCEPT !.idx = k],
             UNCHANGED <<evts, listVars, asked, rp>>
      PROVE  ListsOwned'
  <2>1. Topic' = Topic /\ hub'.pc = hub.pc /\ hub'.list = hub.list /\ hub'.idx = k
    BY <1>a, <1>5 DEF Topic, HubState
  <2> QED BY <1>b, <1>5, <2>1 DEF ListsOwned
<1>6. ASSUME SkipDisconnected PROVE ListsOwned'
  <2>1. hub.idx + 1 \in Nat /\ hub.idx + 1 >= 1
    BY <1>a DEF HubState
  <2> QED BY <1>5, <1>6, <2>1 DEF SkipDisconnected
<1>7. ASSUME SendEvent PROVE ListsOwned'
  <2>1. hub.idx + 1 \in Nat /\ hub.idx + 1 >= 1
    BY <1>a DEF HubState
  <2>2. UNCHANGED <<evts, listVars, asked, rp>>
    BY <1>7 DEF SendEvent
  <2>3. UNCHANGED hub \/ hub' = [hub EXCEPT !.idx = hub.idx + 1]
    BY <1>7 DEF SendEvent
  <2> QED BY <1>5, <2>1, <2>2, <2>3, ListsFrame
<1>8. ASSUME EvictClient PROVE ListsOwned'
  <2>1. Current \in Client /\ DisconnectClient(Current, EvtServer)
    BY <1>8, CurrentAsked DEF EvictClient, Evicting
  <2>2. DOMAIN subs' = DOMAIN subs
    BY <2>1, DisconnectType
  <2>3. /\ hub' = [hub EXCEPT !.idx = @ + 1] /\ hub.pc = "broadcast"
        /\ UNCHANGED <<evts, asked, rp>>
    BY <1>8 DEF EvictClient, Evicting, InBroadcast
  <2>4. /\ hub'.pc = hub.pc /\ hub'.list = hub.list /\ hub'.idx >= 1
        /\ hub.list \in Slice
    BY <1>a, <2>3 DEF HubState
  <2>5. Topic' = Topic
    BY <2>3 DEF Topic
  <2>6. ASSUME NEW x \in Client, rp[x].pc = "store"
        PROVE  ListOf(heap', asked, rp[x].list, rp[x].req)
    <3>1. rp[x].list \in Slice
      BY <1>a DEF ReadState
    <3> QED BY <1>a, <1>b, <2>1, <2>6, <3>1, DisconnectLists
  <2>7. ListOf(heap', asked, hub.list, Topic)
    BY <1>a, <1>b, <2>1, <2>3, <2>4, DisconnectLists
  <2>8. \A n \in DOMAIN subs : ListOf(heap', asked, subs'[n], n)
    BY <2>1, DisconnectLists
  <2> QED BY <1>b, <2>2, <2>3, <2>4, <2>5, <2>6, <2>7, <2>8 DEF ListsOwned
<1>9. ASSUME EndBroadcast PROVE ListsOwned'
  BY <1>9, <1>b DEF EndBroadcast, ListsOwned
<1>10. ASSUME NEW c \in Client, LoopCheck(c) PROVE ListsOwned'
  BY <1>10, <1>a, ListsFrame DEF LoopCheck, ReadState
<1>11. ASSUME NEW c \in Client, NEW name \in Name, ReadMessage(c, name)
       PROVE  ListsOwned'
  BY <1>11, <1>a, ListsFrame DEF ReadMessage, ReadState
<1>12. ASSUME NEW c \in Client, ReadFails(c) PROVE ListsOwned'
  BY <1>12, <1>a, ListsFrame DEF ReadFails, ReadState
<1>13. ASSUME NEW c \in Client, Lookup(c) PROVE ListsOwned'
  <2>1. UNCHANGED <<subs, heap, asked, hub, evts>>
    BY <1>13 DEF Lookup
  <2>2. Topic' = Topic
    BY <2>1 DEF Topic
  <2>3. ASSUME NEW x \in Client, rp'[x].pc = "store"
        PROVE  rp'[x].req \in DOMAIN subs /\ ListOf(heap, asked, rp'[x].list, rp'[x].req)
    <3>1. CASE x # c
      <4>1. rp'[x] = rp[x]
        BY <1>13, <1>a, <3>1 DEF Lookup
      <4> QED BY <1>b, <2>3, <4>1
    <3>2. CASE x = c
      <4>1. rp[c].req \in DOMAIN subs
        BY <1>13, <1>a, <2>3, <3>2 DEF Lookup, ReadState
      <4>2. rp'[c].req = rp[c].req /\ rp'[c].list = subs[rp[c].req]
        BY <1>13, <1>a, <4>1 DEF Lookup, ReadState
      <4> QED BY <1>b, <3>2, <4>1, <4>2
    <3> QED BY <3>1, <3>2
  <2> QED BY <1>b, <2>1, <2>2, <2>3 DEF ListsOwned
<1>14. ASSUME NEW c \in Client, Store(c) PROVE ListsOwned'
  <2> DEFINE n == rp[c].req
             l == rp[c].list
  <2>1. n \in DOMAIN subs /\ n \in Name /\ l \in Slice /\ ListOf(heap, asked, l, n)
    BY <1>14, <1>a, <1>b DEF Store, ReadState
  <2>2. /\ heap' = HeapAfterAppend(heap, l, c, n, Unset)
        /\ subs' = [subs EXCEPT ![n] = SliceAfterAppend(heap, l)]
        /\ asked' = [asked EXCEPT ![c] = @ \cup {n}]
        /\ rp' = [rp EXCEPT ![c] = [pc |-> "loop", req |-> NoServer,
                                    list |-> EmptySlice]]
        /\ UNCHANGED <<hub, evts>>
    BY <1>14 DEF Store
  <2> HIDE DEF n, l
  <2>3. ListOf(heap', asked', SliceAfterAppend(heap, l), n)
    BY <1>a, <2>1, <2>2, AppendMakes
  <2>4. ASSUME NEW t \in Slice, NEW m \in Name, ListOf(heap, asked, t, m)
        PROVE  ListOf(heap', asked', t, m)
    BY <1>a, <2>1, <2>2, <2>4, AppendKeeps
  <2>5. DOMAIN subs' = DOMAIN subs /\ Topic' = Topic
    BY <2>2 DEF Topic
  <2>6. ASSUME NEW m \in DOMAIN subs PROVE ListOf(heap', asked', subs'[m], m)
    <3>1. CASE m = n
      BY <2>2, <2>3, <3>1
    <3>2. CASE m # n
      <4>1. subs'[m] = subs[m]
        BY <2>2, <3>2
      <4> QED BY <1>a, <1>b, <2>4, <4>1
    <3> QED BY <3>1, <3>2
  <2>7. ASSUME NEW x \in Client, rp'[x].pc = "store"
        PROVE  rp'[x].req \in DOMAIN subs /\ ListOf(heap', asked', rp'[x].list, rp'[x].req)
    <3>1. x # c
      BY <1>a, <2>2, <2>7
    <3>2. rp'[x] = rp[x] /\ rp[x].list \in Slice
      BY <1>a, <2>2, <3>1 DEF ReadState
    <3> QED BY <1>a, <1>b, <2>4, <2>7, <3>2
  <2>8. hub.pc = "broadcast" => ListOf(heap', asked', hub.list, Topic)
    <3>1. hub.list \in Slice
      BY <1>a DEF HubState
    <3> QED BY <1>a, <1>b, <2>4, <3>1
  <2> QED BY <1>b, <2>2, <2>5, <2>6, <2>7, <2>8 DEF ListsOwned
<1>15. ASSUME NEW c \in Client, ReplyUnknown(c) PROVE ListsOwned'
  BY <1>15, <1>a, ListsFrame DEF ReplyUnknown, ReadState
<1>16. ASSUME NEW c \in Client, ReadPumpClose(c) PROVE ListsOwned'
  BY <1>16, <1>a, ListsFrame DEF ReadPumpClose, ReadState
<1>17. ASSUME NEW d \in DynamicTag, NEW i \in Instance, NewInstance(d, i)
       PROVE  ListsOwned'
  <2>1. /\ subs' = [n \in DOMAIN subs \cup {<<d, i>>} |->
                      IF n = <<d, i>> THEN EmptySlice ELSE subs[n]]
        /\ UNCHANGED <<heap, asked, hub, evts, rp>>
    BY <1>17 DEF NewInstance
  <2>2. Topic' = Topic
    BY <2>1 DEF Topic
  <2>3. \A n \in DOMAIN subs' : ListOf(heap, asked, subs'[n], n)
    BY <1>b, <2>1 DEF ListOf, EmptySlice
  <2>4. DOMAIN subs \subseteq DOMAIN subs'
    BY <2>1
  <2> QED BY <1>b, <2>1, <2>2, <2>3, <2>4 DEF ListsOwned
<1>18. ASSUME UNCHANGED <<subs, heap, asked, hub, evts, rp>> PROVE ListsOwned'
  BY <1>18, ListsFrame
<1>19. ASSUME NEW c \in Client,
              \/ WriterTake(c) \/ WriterCount(c) \/ WriterDrain(c) \/ WriterFlush(c)
              \/ WriterExit(c) \/ ConnFails(c)
       PROVE  ListsOwned'
  BY <1>18, <1>19 DEF WriterTake, WriterCount, WriterDrain, WriterFlush, WriterExit,
     ConnFails
<1>20. ASSUME NEW d \in DynamicTag, NEW i \in Instance, RebootedInstance(d, i)
       PROVE  ListsOwned'
  BY <1>18, <1>20 DEF RebootedInstance
<1>21. ASSUME NEW d \in DynamicTag, ResetCheck(d) \/ ResetSend(d) PROVE ListsOwned'
  BY <1>18, <1>21 DEF ResetCheck, ResetSend
<1>22. ASSUME MapFault \/ UNCHANGED vars PROVE ListsOwned'
  BY <1>18, <1>22 DEF MapFault, vars
<1> QED
  BY <1>1, <1>2, <1>3, <1>4, <1>6, <1>7, <1>8, <1>9, <1>10, <1>11, <1>12, <1>13,
     <1>14, <1>15, <1>16, <1>17, <1>19, <1>20, <1>21, <1>22 DEF Next

-----------------------------------------------------------------------------
(* Connections *)

\* What disconnecting a client does to the three records of each client.
LEMMA DisconnectAgrees ==
  ASSUME TypeOK, ConnectionAgreement, NEW c \in Client, NEW srv,
         DisconnectClient(c, srv)
  PROVE  /\ status' = status
         /\ \A x \in Client :
              \/ /\ x \in DOMAIN clients' <=> x \in DOMAIN clients
                 /\ connected'[x] = connected[x] /\ closed'[x] = closed[x]
              \/ /\ x = c /\ rp[x].pc # "new" /\ x \notin DOMAIN clients'
                 /\ ~connected'[x] /\ closed'[x]
         /\ c \notin DOMAIN clients'
<1>1. CASE c \in DOMAIN clients
  <2>1. ~closed[c] /\ rp[c].pc # "new"
    BY <1>1 DEF ConnectionAgreement
  <2>2. connected \in [Client -> BOOLEAN] /\ closed \in [Client -> BOOLEAN]
    BY DEF TypeOK, HubTypes
  <2>3. /\ connected' = [connected EXCEPT ![c] = FALSE]
        /\ clients' = [x \in DOMAIN clients \ {c} |-> clients[x]]
        /\ closed' = [closed EXCEPT ![c] = TRUE]
        /\ status' = status
    BY <1>1, <2>1 DEF DisconnectClient, CloseSend
  <2> QED BY <2>1, <2>2, <2>3
<1>2. CASE c \notin DOMAIN clients
  BY <1>2 DEF DisconnectClient
<1> QED BY <1>1, <1>2

\* In the beginning no client is connected and nothing has ended.
LEMMA AgreementInit == Init => ConnectionAgreement /\ HubNeverPanics
BY DEF Init, ConnectionAgreement, HubNeverPanics

\* Every step keeps the agreement, and the hub never panics.
LEMMA AgreementStep ==
  ASSUME TypeOK, ListsOwned, ConnectionAgreement, HubNeverPanics, [Next]_vars
  PROVE  ConnectionAgreement' /\ HubNeverPanics'
<1> USE DEF hubVars, HubNeverPanics
<1>a. /\ connected \in [Client -> BOOLEAN] /\ closed \in [Client -> BOOLEAN]
      /\ rp \in [Client -> ReadState]
  BY DEF TypeOK, HubTypes, ReadTypes
<1>b. \A c \in Client :
        IF rp[c].pc = "new"
        THEN c \notin DOMAIN clients /\ ~connected[c] /\ ~closed[c]
        ELSE (c \in DOMAIN clients <=> connected[c]) /\ (closed[c] <=> ~connected[c])
  BY DEF ConnectionAgreement
\* A step of readPump after the first keeps the client from being new.
<1>c. ASSUME UNCHANGED <<clients, connected, closed>>, status' # "hub panic",
             \A c \in Client : rp'[c].pc = "new" <=> rp[c].pc = "new"
      PROVE  ConnectionAgreement' /\ HubNeverPanics'
  BY <1>b, <1>c DEF ConnectionAgreement
<1>1. ASSUME NEW c \in Client, ServeWs(c) PROVE ConnectionAgreement' /\ HubNeverPanics'
  <2>1. /\ rp[c].pc = "new"
        /\ DOMAIN clients' = DOMAIN clients \cup {c}
        /\ connected' = [connected EXCEPT ![c] = TRUE]
        /\ rp' = [rp EXCEPT ![c].pc = "loop"]
        /\ UNCHANGED <<status, closed>>
    BY <1>1 DEF ServeWs
  <2>2. ASSUME NEW x \in Client
        PROVE  IF rp'[x].pc = "new"
               THEN x \notin DOMAIN clients' /\ ~connected'[x] /\ ~closed'[x]
               ELSE /\ x \in DOMAIN clients' <=> connected'[x]
                    /\ closed'[x] <=> ~connected'[x]
    <3>1. CASE x = c
      <4>1. rp'[x].pc = "loop" /\ connected'[x] /\ ~closed'[x] /\ x \in DOMAIN clients'
        BY <1>a, <1>b, <2>1, <3>1 DEF ReadState
      <4> QED BY <4>1
    <3>2. CASE x # c
      <4>1. /\ rp'[x] = rp[x] /\ connected'[x] = connected[x] /\ closed'[x] = closed[x]
            /\ x \in DOMAIN clients' <=> x \in DOMAIN clients
        BY <1>a, <2>1, <3>2
      <4> QED BY <1>b, <4>1
    <3> QED BY <3>1, <3>2
  <2> QED BY <2>1, <2>2 DEF ConnectionAgreement
<1>2. ASSUME NEW c \in Client, NEW srv, DisconnectClient(c, srv),
             \A x \in Client : rp'[x].pc = "new" <=> rp[x].pc = "new"
      PROVE  ConnectionAgreement' /\ HubNeverPanics'
  <2>1. ASSUME NEW x \in Client
        PROVE  IF rp'[x].pc = "new"
               THEN x \notin DOMAIN clients' /\ ~connected'[x] /\ ~closed'[x]
               ELSE /\ x \in DOMAIN clients' <=> connected'[x]
                    /\ closed'[x] <=> ~connected'[x]
    BY <1>b, <1>2, DisconnectAgrees
  <2> QED BY <1>2, <2>1, DisconnectAgrees DEF ConnectionAgreement
<1>3. ASSUME NEW c \in Client, Unregister(c)
      PROVE  ConnectionAgreement' /\ HubNeverPanics'
  <2>1. PICK srv : DisconnectClient(c, srv)
    BY <1>3 DEF Unregister
  <2>2. \A x \in Client : rp'[x].pc = "new" <=> rp[x].pc = "new"
    BY <1>3, <1>a DEF Unregister, ReadState
  <2> QED BY <1>2, <2>1, <2>2
<1>4. ASSUME EvictClient PROVE ConnectionAgreement' /\ HubNeverPanics'
  <2>1. Current \in Client /\ DisconnectClient(Current, EvtServer)
    BY <1>4, CurrentAsked DEF EvictClient, Evicting
  <2>2. rp' = rp
    BY <1>4 DEF EvictClient, readVars
  <2> QED BY <1>2, <2>1, <2>2
<1>5. ASSUME SendEvent PROVE ConnectionAgreement' /\ HubNeverPanics'
  <2>1. Current \in Client /\ connected[Current]
    BY <1>5, CurrentAsked DEF SendEvent
  <2>2. ~closed[Current]
    BY <1>b, <2>1
  <2>3. UNCHANGED <<status, clients, connected, closed, rp>>
    BY <1>5, <2>2 DEF SendEvent, readVars
  <2> QED BY <1>c, <2>3
<1>6. ASSUME NEW topic \in DOMAIN subs, TakeEvent(topic)
      PROVE  ConnectionAgreement' /\ HubNeverPanics'
  BY <1>6, <1>c DEF TakeEvent, readVars
<1>7. ASSUME FetchSubscribers \/ SkipDisconnected \/ EndBroadcast
      PROVE  ConnectionAgreement' /\ HubNeverPanics'
  BY <1>7, <1>c DEF FetchSubscribers, SkipDisconnected, EndBroadcast, readVars
<1>8. ASSUME NEW c \in Client,
             \/ WriterTake(c) \/ WriterCount(c) \/ WriterDrain(c) \/ WriterFlush(c)
             \/ WriterExit(c) \/ ConnFails(c)
      PROVE  ConnectionAgreement' /\ HubNeverPanics'
  BY <1>8, <1>c DEF WriterTake, WriterCount, WriterDrain, WriterFlush, WriterExit,
     ConnFails, readVars
<1>9. ASSUME NEW c \in Client, LoopCheck(c) PROVE ConnectionAgreement' /\ HubNeverPanics'
  BY <1>9, <1>a, <1>c DEF LoopCheck, ReadState
<1>10. ASSUME NEW c \in Client, NEW name \in Name, ReadMessage(c, name)
       PROVE  ConnectionAgreement' /\ HubNeverPanics'
  BY <1>10, <1>a, <1>c DEF ReadMessage, ReadState
<1>11. ASSUME NEW c \in Client, ReadFails(c) PROVE ConnectionAgreement' /\ HubNeverPanics'
  BY <1>11, <1>a, <1>c DEF ReadFails, ReadState
<1>12. ASSUME NEW c \in Client, Lookup(c) PROVE ConnectionAgreement' /\ HubNeverPanics'
  <2>1. rp'[c].pc \in {"store", "reply"} /\ \A x \in Client \ {c} : rp'[x] = rp[x]
    BY <1>12, <1>a DEF Lookup, ReadState
  <2> QED BY <1>12, <1>c, <2>1 DEF Lookup
<1>13. ASSUME NEW c \in Client, Store(c) PROVE ConnectionAgreement' /\ HubNeverPanics'
  BY <1>13, <1>a, <1>c DEF Store, ReadState
<1>14. ASSUME NEW c \in Client, ReplyUnknown(c)
       PROVE  ConnectionAgreement' /\ HubNeverPanics'
  <2>1. \A x \in Client : rp'[x].pc = "new" <=> rp[x].pc = "new"
    BY <1>14, <1>a DEF ReplyUnknown, ReadState
  <2> QED BY <1>14, <1>c, <2>1 DEF ReplyUnknown
<1>15. ASSUME NEW c \in Client, ReadPumpClose(c)
       PROVE  ConnectionAgreement' /\ HubNeverPanics'
  BY <1>15, <1>a, <1>c DEF ReadPumpClose, ReadState
<1>16. ASSUME NEW d \in DynamicTag, NEW i \in Instance,
              NewInstance(d, i) \/ RebootedInstance(d, i)
       PROVE  ConnectionAgreement' /\ HubNeverPanics'
  BY <1>16, <1>c DEF NewInstance, RebootedInstance, readVars
<1>17. ASSUME NEW d \in DynamicTag, ResetCheck(d) \/ ResetSend(d)
       PROVE  ConnectionAgreement' /\ HubNeverPanics'
  BY <1>17, <1>c DEF ResetCheck, ResetSend, readVars
<1>18. ASSUME MapFault \/ UNCHANGED vars PROVE ConnectionAgreement' /\ HubNeverPanics'
  BY <1>18, <1>c DEF MapFault, vars, readVars
<1> QED
  BY <1>1, <1>3, <1>4, <1>5, <1>6, <1>7, <1>8, <1>9, <1>10, <1>11, <1>12, <1>13,
     <1>14, <1>15, <1>16, <1>17, <1>18 DEF Next

-----------------------------------------------------------------------------
(* Theorems *)

\* The inductive invariant: types, the lists, the records of connections.
HubInv == TypeOK /\ ListsOwned /\ ConnectionAgreement /\ HubNeverPanics

\* HubInv holds in every reachable state of the hub.
THEOREM HubInvariant == Spec => []HubInv
<1>1. Init => HubInv
  BY TypeInit, ListsInit, AgreementInit DEF HubInv
<1>2. HubInv /\ [Next]_vars => HubInv'
  BY TypeStep, ListsStep, AgreementStep DEF HubInv
<1> QED BY <1>1, <1>2, PTL DEF Spec

\* Every variable keeps its type.
THEOREM HubTypeOK == Spec => []TypeOK
<1>1. HubInv => TypeOK
  BY DEF HubInv
<1> QED BY <1>1, HubInvariant, PTL

\* Headers that share an array never show a client of another list, nor a cell
\* that was never written.
THEOREM HubListsOwned == Spec => []ListsOwned
<1>1. HubInv => ListsOwned
  BY DEF HubInv
<1> QED BY <1>1, HubInvariant, PTL

\* hub.clients, client.connected and the state of client.send agree.
THEOREM HubConnectionAgreement == Spec => []ConnectionAgreement
<1>1. HubInv => ConnectionAgreement
  BY DEF HubInv
<1> QED BY <1>1, HubInvariant, PTL

\* The hub never sends on a closed channel and never closes one twice.
THEOREM HubNoPanic == Spec => []HubNeverPanics
<1>1. HubInv => HubNeverPanics
  BY DEF HubInv
<1> QED BY <1>1, HubInvariant, PTL
=============================================================================
