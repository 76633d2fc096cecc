-------------------------- MODULE HubStreamProofs --------------------------
(***************************************************************************)
(* Proofs about what a client receives: the messages accepted for it, from *)
(* the channel over the frame of the writer to the connection, for any     *)
(* number of clients, any capacity of client.send and any bounds.          *)
(***************************************************************************)
EXTENDS HubProofs

-----------------------------------------------------------------------------
(* Sequences of messages *)

\* In the stream s the events are among those of e, and their topics in asks.
Sound(s, e, asks) ==
  \A i \in DOMAIN s :
    s[i].type = "event" => s[i].n \in 1 .. Len(e) /\ e[s[i].n] \in asks

\* In the stream s the numbers of events never go down.
InOrder(s) ==
  \A i, j \in DOMAIN s :
    (i < j /\ s[i].type = "event" /\ s[j].type = "event") => s[i].n <= s[j].n

\* Appending an event that is not older than any of e keeps both.
LEMMA AppendSound ==
  ASSUME NEW s \in Seq(Message), NEW e, Len(e) \in Nat, NEW asks,
         NEW m \in Message,
         m.type = "event" => /\ m.n = Len(e) /\ m.n \in 1 .. Len(e)
                             /\ e[m.n] \in asks,
         Sound(s, e, asks), InOrder(s)
  PROVE  Sound(Append(s, m), e, asks) /\ InOrder(Append(s, m))
<1> DEFINE t == Append(s, m)
<1>1. /\ Len(s) \in Nat /\ DOMAIN s = 1 .. Len(s) /\ DOMAIN t = 1 .. Len(s) + 1
      /\ \A i \in 1 .. Len(s) : t[i] = s[i]
      /\ t[Len(s) + 1] = m
  BY AppendProperties, LenProperties
<1> HIDE DEF t
<1>2. \A i \in DOMAIN t : i \in DOMAIN s \/ i = Len(s) + 1
  BY <1>1
<1>3. Sound(t, e, asks)
  BY <1>1, <1>2 DEF Sound
<1>4. InOrder(t)
  <2> SUFFICES ASSUME NEW i \in DOMAIN t, NEW j \in DOMAIN t, i < j,
                      t[i].type = "event", t[j].type = "event"
               PROVE  t[i].n <= t[j].n
    BY DEF InOrder
  <2>1. i \in DOMAIN s
    BY <1>1, <1>2
  <2>2. CASE j \in DOMAIN s
    BY <1>1, <2>1, <2>2 DEF InOrder
  <2>3. CASE j = Len(s) + 1
    BY <1>1, <2>1, <2>3 DEF Sound
  <2> QED BY <1>2, <2>2, <2>3
<1> QED BY <1>3, <1>4 DEF t

\* Losing a part of the stream keeps both.
LEMMA CutSound ==
  ASSUME NEW a \in Seq(Message), NEW b \in Seq(Message), NEW d \in Seq(Message),
         NEW e, NEW asks,
         Sound(a \o (b \o d), e, asks), InOrder(a \o (b \o d))
  PROVE  Sound(a \o d, e, asks) /\ InOrder(a \o d)
<1> DEFINE s == a \o (b \o d)
           t == a \o d
           at(i) == IF i <= Len(a) THEN i ELSE i + Len(b)
<1>1. b \o d \in Seq(Message) /\ Len(b \o d) = Len(b) + Len(d)
  BY ConcatProperties
<1>2. Len(a) \in Nat /\ Len(b) \in Nat /\ Len(d) \in Nat
  OBVIOUS
<1>3. /\ DOMAIN s = 1 .. Len(a) + (Len(b) + Len(d))
      /\ \A i \in 1 .. Len(a) + (Len(b) + Len(d)) :
           s[i] = IF i <= Len(a) THEN a[i] ELSE (b \o d)[i - Len(a)]
  BY <1>1, ConcatProperties, LenProperties
<1>4. \A i \in 1 .. Len(b) + Len(d) :
        (b \o d)[i] = IF i <= Len(b) THEN b[i] ELSE d[i - Len(b)]
  BY ConcatProperties
<1>5. /\ DOMAIN t = 1 .. Len(a) + Len(d)
      /\ \A i \in 1 .. Len(a) + Len(d) :
           t[i] = IF i <= Len(a) THEN a[i] ELSE d[i - Len(a)]
  BY ConcatProperties, LenProperties
<1> HIDE DEF s, t
<1>6. \A i \in DOMAIN t : at(i) \in DOMAIN s
  BY <1>2, <1>3, <1>5
<1>7. ASSUME NEW i \in DOMAIN t PROVE t[i] = s[at(i)]
  <2>1. CASE i <= Len(a)
    BY <1>2, <1>3, <1>5, <2>1
  <2>2. CASE ~(i <= Len(a))
    <3>1. i - Len(a) + Len(b) \in 1 .. Len(b) + Len(d) /\ ~(i - Len(a) + Len(b) <= Len(b))
      BY <1>2, <1>5, <2>2
    <3>2. (b \o d)[i - Len(a) + Len(b)] = d[i - Len(a)]
      <4>1. (i - Len(a) + Len(b)) - Len(b) = i - Len(a)
        BY <1>2, <1>5
      <4> QED BY <1>4, <3>1, <4>1
    <3>3. s[at(i)] = (b \o d)[i - Len(a) + Len(b)]
      <4>1. (i + Len(b)) - Len(a) = i - Len(a) + Len(b) /\ ~(i + Len(b) <= Len(a))
        BY <1>2, <1>5, <2>2
      <4> QED BY <1>3, <1>6, <2>2, <4>1
    <3> QED BY <1>5, <2>2, <3>2, <3>3
  <2> QED BY <2>1, <2>2
<1>8. \A i, j \in DOMAIN t : i < j => at(i) < at(j)
  BY <1>2, <1>5
<1> HIDE DEF at
<1>9. Sound(t, e, asks)
  BY <1>6, <1>7 DEF Sound, s
<1>10. InOrder(t)
  BY <1>6, <1>7, <1>8 DEF InOrder, s
<1> QED BY <1>9, <1>10 DEF t

\* More events taken and more servers asked for keep a stream sound.
LEMMA MoreSound ==
  ASSUME NEW s, NEW e, Len(e) \in Nat, NEW f, Len(f) \in Nat, Len(e) <= Len(f),
         \A i \in 1 .. Len(e) : f[i] = e[i],
         NEW a, NEW b, a \subseteq b, Sound(s, e, a)
  PROVE  Sound(s, f, b)
BY DEF Sound

\* Appending to the last part of a stream appends to the stream.
LEMMA AppendToLast ==
  ASSUME NEW s \in Seq(Message), NEW t \in Seq(Message), NEW m \in Message
  PROVE  s \o Append(t, m) = Append(s \o t, m)
<1>1. Append(t, m) = t \o <<m>> /\ <<m>> \in Seq(Message)
  BY AppendIsConcat
<1>2. s \o t \in Seq(Message)
  BY ConcatProperties
<1>3. Append(s \o t, m) = (s \o t) \o <<m>>
  BY <1>2, AppendIsConcat
<1> QED BY <1>1, <1>3, ConcatAssociative

\* The first element and the others.
LEMMA HeadAndTail ==
  ASSUME NEW q \in Seq(Message), q # <<>>
  PROVE  <<Head(q)>> \in Seq(Message) /\ Tail(q) \in Seq(Message)
         /\ <<Head(q)>> \o Tail(q) = q
<1>1. /\ Head(q) \in Message /\ Tail(q) \in Seq(Message)
      /\ Len(Tail(q)) = Len(q) - 1
      /\ \A i \in 1 .. Len(Tail(q)) : Tail(q)[i] = q[i + 1]
  BY HeadTailProperties
<1>2. <<Head(q)>> \in Seq(Message) /\ Len(<<Head(q)>>) = 1 /\ <<Head(q)>>[1] = q[1]
  BY <1>1
<1>3. Len(q) \in Nat
  OBVIOUS
<1>4. /\ <<Head(q)>> \o Tail(q) \in Seq(Message)
      /\ Len(<<Head(q)>> \o Tail(q)) = Len(q)
      /\ \A i \in 1 .. Len(q) :
           (<<Head(q)>> \o Tail(q))[i] = IF i <= 1 THEN q[1] ELSE Tail(q)[i - 1]
  <2> DEFINE h == <<Head(q)>>
             r == Tail(q)
  <2>1. /\ h \in Seq(Message) /\ r \in Seq(Message) /\ Len(h) = 1 /\ h[1] = q[1]
        /\ Len(r) = Len(q) - 1
    BY <1>1, <1>2
  <2> HIDE DEF h, r
  <2>2. /\ h \o r \in Seq(Message)
        /\ Len(h \o r) = Len(h) + Len(r)
        /\ \A i \in 1 .. Len(h) + Len(r) :
             (h \o r)[i] = IF i <= Len(h) THEN h[i] ELSE r[i - Len(h)]
    BY <2>1, ConcatProperties
  <2>3. Len(h) + Len(r) = Len(q) /\ \A i \in 1 .. Len(q) : i <= 1 => i = 1
    BY <1>3, <2>1
  <2> QED BY <2>1, <2>2, <2>3 DEF h, r
<1>5. \A i \in 1 .. Len(q) : (<<Head(q)>> \o Tail(q))[i] = q[i]
  BY <1>1, <1>3, <1>4
<1> QED BY <1>1, <1>2, <1>4, <1>5, SeqEqual

\* Moving the first message of the channel to the end of the frame.
LEMMA MoveHead ==
  ASSUME NEW w \in Seq(Message), NEW b \in Seq(Message), NEW q \in Seq(Message),
         q # <<>>
  PROVE  (w \o Append(b, Head(q))) \o Tail(q) = (w \o b) \o q
<1>1. /\ <<Head(q)>> \in Seq(Message) /\ Tail(q) \in Seq(Message)
      /\ <<Head(q)>> \o Tail(q) = q /\ Head(q) \in Message
  BY HeadAndTail
<1>2. w \o b \in Seq(Message)
  BY ConcatProperties
<1>3. w \o Append(b, Head(q)) = (w \o b) \o <<Head(q)>>
  <2>1. w \o Append(b, Head(q)) = Append(w \o b, Head(q))
    BY <1>1, AppendToLast
  <2>2. Append(w \o b, Head(q)) = (w \o b) \o <<Head(q)>>
    BY <1>1, <1>2, AppendIsConcat
  <2> QED BY <2>1, <2>2
<1>4. ((w \o b) \o <<Head(q)>>) \o Tail(q) = (w \o b) \o (<<Head(q)>> \o Tail(q))
  BY <1>1, <1>2, ConcatAssociative, SMTT(60)
<1> QED BY <1>1, <1>3, <1>4, Zenon

-----------------------------------------------------------------------------
(* The writer *)

\* A writer has a frame under construction only between its first message and
\* the flush; a client that is not served has no writer.
FrameInHand ==
  \A c \in Client :
    /\ (rp[c].pc = "new" => wr[c].pc = "new")
    /\ (wr[c].pc \notin {"count", "drain"} => wr[c].batch = <<>>)

\* A step that leaves the channels, the writers and new clients alone.
LEMMA WriterFrame ==
  ASSUME FrameInHand, WriterNeverStalls, UNCHANGED wr,
         \A c \in Client : rp'[c].pc = "new" => rp[c].pc = "new",
         \A c \in Client : Len(send[c]) <= Len(send'[c]),
         WireTypes, WireTypes'
  PROVE  FrameInHand' /\ WriterNeverStalls'
<1>1. \A c \in Client : /\ wr[c].left \in Nat
                       /\ Len(send[c]) \in Nat /\ Len(send'[c]) \in Nat
  BY DEF WireTypes, WriteState
<1> QED BY <1>1 DEF FrameInHand, WriterNeverStalls

\* A message put into the channel of some client leaves no channel shorter.
LEMMA PushLonger ==
  ASSUME WireTypes, NEW x, NEW m \in Message, Push(x, m)
  PROVE  \A c \in Client : Len(send[c]) <= Len(send'[c])
<1> SUFFICES ASSUME NEW c \in Client PROVE Len(send[c]) <= Len(send'[c])
  OBVIOUS
<1>1. send[c] \in Seq(Message) /\ Len(send[c]) \in Nat
  BY DEF WireTypes
<1>2. send'[c] = send[c] \/ send'[c] = Append(send[c], m)
  BY DEF WireTypes, Push
<1> QED BY <1>1, <1>2, AppendProperties

\* In the beginning no writer holds a frame.
LEMMA WriterInit == Init => FrameInHand /\ WriterNeverStalls
BY DEF Init, FrameInHand, WriterNeverStalls

\* Every step keeps the frame in hand and leaves what the writer counted.
LEMMA WriterStep ==
  ASSUME HubInv, TypeOK', FrameInHand, WriterNeverStalls, [Next]_vars
  PROVE  FrameInHand' /\ WriterNeverStalls'
<1> USE DEF hubVars, listVars, readVars, wireVars, bootVars
<1>a. /\ WireTypes /\ WireTypes' /\ rp \in [Client -> ReadState]
      /\ wr \in [Client -> WriteState] /\ send \in [Client -> Seq(Message)]
  BY DEF HubInv, TypeOK, WireTypes, ReadTypes
<1>b. ASSUME UNCHANGED <<send, wr>>,
             \A c \in Client : rp'[c].pc = "new" => rp[c].pc = "new"
      PROVE  FrameInHand' /\ WriterNeverStalls'
  <2>1. \A c \in Client : Len(send[c]) <= Len(send'[c])
    BY <1>a, <1>b DEF WireTypes
  <2> QED BY <1>a, <1>b, <2>1, WriterFrame
<1>c. ASSUME NEW x, NEW m \in Message, Push(x, m), UNCHANGED wr,
             \A c \in Client : rp'[c].pc = "new" => rp[c].pc = "new"
      PROVE  FrameInHand' /\ WriterNeverStalls'
  BY <1>a, <1>c, PushLonger, WriterFrame
\* A step of the writer of one client.
<1>d. ASSUME NEW c \in Client, UNCHANGED rp,
             wr' = [wr EXCEPT ![c] = wr'[c]],
             \A x \in Client \ {c} : send'[x] = send[x],
             wr[c].pc # "new",
             wr'[c].pc \notin {"count", "drain"} => wr'[c].batch = <<>>,
             wr'[c].pc = "drain" => wr'[c].left <= Len(send'[c])
      PROVE  FrameInHand' /\ WriterNeverStalls'
  <2>1. \A x \in Client \ {c} : wr'[x] = wr[x]
    BY <1>a, <1>d
  <2>2. rp[c].pc # "new"
    BY <1>d DEF FrameInHand
  <2>3. FrameInHand'
    BY <1>d, <2>1, <2>2 DEF FrameInHand
  <2>4. WriterNeverStalls'
    BY <1>d, <2>1 DEF WriterNeverStalls
  <2> QED BY <2>3, <2>4
<1>1. ASSUME NEW c \in Client, ServeWs(c) PROVE FrameInHand' /\ WriterNeverStalls'
  <2>1. /\ rp[c].pc = "new" /\ rp'[c].pc = "loop" /\ UNCHANGED send
        /\ wr' = [wr EXCEPT ![c].pc = "idle"]
        /\ \A x \in Client \ {c} : rp'[x] = rp[x]
    BY <1>1, <1>a DEF ServeWs, ReadState
  <2>2. wr'[c].pc = "idle" /\ wr'[c].batch = wr[c].batch
        /\ \A x \in Client \ {c} : wr'[x] = wr[x]
    BY <1>a, <2>1 DEF WriteState
  <2>3. wr[c].batch = <<>>
    BY <2>1 DEF FrameInHand
  <2>4. FrameInHand'
    BY <2>1, <2>2, <2>3 DEF FrameInHand
  <2>5. WriterNeverStalls'
    BY <2>1, <2>2 DEF WriterNeverStalls
  <2> QED BY <2>4, <2>5
<1>2. ASSUME NEW c \in Client, WriterTake(c) PROVE FrameInHand' /\ WriterNeverStalls'
  <2>1. wr[c].pc = "idle" /\ wr[c].batch = <<>>
    BY <1>2 DEF WriterTake, FrameInHand
  <2>2. /\ UNCHANGED rp
        /\ \A x \in Client \ {c} : send'[x] = send[x]
    BY <1>2, <1>a DEF WriterTake
  <2>3. wr' = [wr EXCEPT ![c] = wr'[c]] /\ wr'[c].pc # "drain"
        /\ (wr'[c].pc \notin {"count", "drain"} => wr'[c].batch = <<>>)
    BY <1>2, <1>a, <2>1 DEF WriterTake
  <2> QED BY <1>d, <2>1, <2>2, <2>3
<1>3. ASSUME NEW c \in Client, WriterCount(c) PROVE FrameInHand' /\ WriterNeverStalls'
  <2>1. wr[c].pc = "count" /\ UNCHANGED <<rp, send>>
    BY <1>3 DEF WriterCount
  <2>2. wr' = [wr EXCEPT ![c] = wr'[c]] /\ wr'[c].pc = "drain"
        /\ wr'[c].left = Len(send[c]) /\ Len(send[c]) \in Nat
    BY <1>3, <1>a DEF WriterCount, WriteState
  <2> QED BY <1>d, <2>1, <2>2
<1>4. ASSUME NEW c \in Client, WriterDrain(c) PROVE FrameInHand' /\ WriterNeverStalls'
  <2>1. /\ wr[c].pc = "drain" /\ UNCHANGED rp /\ send[c] # <<>>
        /\ \A x \in Client \ {c} : send'[x] = send[x]
        /\ send'[c] = Tail(send[c])
    BY <1>4, <1>a DEF WriterDrain
  <2>2. wr' = [wr EXCEPT ![c] = wr'[c]] /\ wr'[c].pc = "drain"
        /\ wr'[c].left = wr[c].left - 1
    BY <1>4, <1>a DEF WriterDrain
  <2>3. wr'[c].left <= Len(send'[c])
    <3>1. Len(send'[c]) = Len(send[c]) - 1 /\ Len(send[c]) \in Nat
      BY <1>a, <2>1, HeadTailProperties
    <3>2. wr[c].left <= Len(send[c]) /\ wr[c].left \in Nat
      BY <1>a, <2>1 DEF WriterNeverStalls, WriteState
    <3> QED BY <2>2, <3>1, <3>2
  <2> QED BY <1>d, <2>1, <2>2, <2>3
<1>5. ASSUME NEW c \in Client, WriterFlush(c) PROVE FrameInHand' /\ WriterNeverStalls'
  <2>1. wr[c].pc = "drain" /\ UNCHANGED <<rp, send>>
    BY <1>5 DEF WriterFlush
  <2>2. wr' = [wr EXCEPT ![c] = wr'[c]] /\ wr'[c].pc \in {"idle", "done"}
        /\ wr'[c].batch = <<>>
    BY <1>5, <1>a DEF WriterFlush, WriteState
  <2> QED BY <1>d, <2>1, <2>2
<1>6. ASSUME NEW c \in Client, WriterExit(c) PROVE FrameInHand' /\ WriterNeverStalls'
  <2>1. wr[c].pc = "idle" /\ UNCHANGED <<rp, send>> /\ wr[c].batch = <<>>
    BY <1>6 DEF WriterExit, FrameInHand
  <2>2. wr' = [wr EXCEPT ![c] = wr'[c]] /\ wr'[c].pc = "done"
        /\ wr'[c].batch = <<>>
    BY <1>6, <1>a, <2>1 DEF WriterExit, WriteState
  <2> QED BY <1>d, <2>1, <2>2
<1>7. ASSUME NEW c \in Client, ReplyUnknown(c) PROVE FrameInHand' /\ WriterNeverStalls'
  <2>1. UNCHANGED wr /\ (UNCHANGED send \/ Push(c, ErrorMsg))
    BY <1>7 DEF ReplyUnknown
  <2>2. \A x \in Client : rp'[x].pc = "new" => rp[x].pc = "new"
    BY <1>7, <1>a DEF ReplyUnknown, ReadState
  <2> QED BY <1>b, <1>c, <2>1, <2>2, MessageTypes
<1>8. ASSUME SendEvent PROVE FrameInHand' /\ WriterNeverStalls'
  <2>1. UNCHANGED <<wr, rp>> /\ (UNCHANGED send \/ Push(Current, EventMsg(Len(evts))))
    BY <1>8 DEF SendEvent
  <2>2. EventMsg(Len(evts)) \in Message
    BY MessageTypes, EventCount DEF HubInv, TypeOK
  <2> QED BY <1>b, <1>c, <2>1, <2>2
<1>9. ASSUME NEW d \in DynamicTag, ResetSend(d) PROVE FrameInHand' /\ WriterNeverStalls'
  <2>1. UNCHANGED <<wr, rp>> /\ (UNCHANGED send \/ Push(ResetTarget(d), ResetMsg))
    BY <1>9 DEF ResetSend
  <2> QED BY <1>b, <1>c, <2>1, MessageTypes
<1>10. ASSUME NEW c \in Client, Unregister(c) PROVE FrameInHand' /\ WriterNeverStalls'
  BY <1>10, <1>a, <1>b DEF Unregister, ReadState
<1>11. ASSUME NEW c \in Client,
              LoopCheck(c) \/ ReadFails(c) \/ Store(c) \/ ReadPumpClose(c)
       PROVE  FrameInHand' /\ WriterNeverStalls'
  <2>1. /\ rp'[c].pc \in {"read", "exit", "loop", "done"}
        /\ \A x \in Client \ {c} : rp'[x] = rp[x]
    <3>1. CASE LoopCheck(c) \/ ReadFails(c) \/ ReadPumpClose(c)
      BY <1>a, <3>1 DEF LoopCheck, ReadFails, ReadPumpClose, ReadState
    <3>2. CASE Store(c)
      BY <1>a, <3>2 DEF Store
    <3> QED BY <1>11, <3>1, <3>2
  <2>2. UNCHANGED send
    BY <1>11 DEF LoopCheck, ReadFails, Store, ReadPumpClose
  <2>3. UNCHANGED wr
    BY <1>11 DEF LoopCheck, ReadFails, Store, ReadPumpClose
  <2> QED BY <1>b, <2>1, <2>2, <2>3
<1>12. ASSUME NEW c \in Client, Lookup(c) PROVE FrameInHand' /\ WriterNeverStalls'
  <2>1. rp'[c].pc \in {"store", "reply"} /\ \A x \in Client \ {c} : rp'[x] = rp[x]
    BY <1>12, <1>a DEF Lookup, ReadState
  <2> QED BY <1>12, <1>b, <2>1 DEF Lookup
<1>13. ASSUME NEW c \in Client, NEW name \in Name, ReadMessage(c, name)
       PROVE  FrameInHand' /\ WriterNeverStalls'
  BY <1>13, <1>a, <1>b DEF ReadMessage, ReadState
<1>14. ASSUME UNCHANGED <<send, wr, rp>> PROVE FrameInHand' /\ WriterNeverStalls'
  BY <1>14, <1>b
<1>15. ASSUME NEW c \in Client, ConnFails(c) PROVE FrameInHand' /\ WriterNeverStalls'
  BY <1>14, <1>15 DEF ConnFails
<1>16. ASSUME NEW topic \in DOMAIN subs, TakeEvent(topic)
       PROVE  FrameInHand' /\ WriterNeverStalls'
  BY <1>14, <1>16 DEF TakeEvent
<1>17. ASSUME FetchSubscribers \/ SkipDisconnected \/ EvictClient \/ EndBroadcast
       PROVE  FrameInHand' /\ WriterNeverStalls'
  BY <1>14, <1>17 DEF FetchSubscribers, SkipDisconnected, EvictClient, EndBroadcast
<1>18. ASSUME NEW d \in DynamicTag, NEW i \in Instance,
              NewInstance(d, i) \/ RebootedInstance(d, i)
       PROVE  FrameInHand' /\ WriterNeverStalls'
  BY <1>14, <1>18 DEF NewInstance, RebootedInstance
<1>19. ASSUME NEW d \in DynamicTag, ResetCheck(d) PROVE FrameInHand' /\ WriterNeverStalls'
  BY <1>14, <1>19 DEF ResetCheck
<1>20. ASSUME MapFault \/ UNCHANGED vars PROVE FrameInHand' /\ WriterNeverStalls'
  BY <1>14, <1>20 DEF MapFault, vars
<1> QED
  BY <1>1, <1>2, <1>3, <1>4, <1>5, <1>6, <1>7, <1>8, <1>9, <1>10, <1>11, <1>12,
     <1>13, <1>15, <1>16, <1>17, <1>18, <1>19, <1>20 DEF Next

-----------------------------------------------------------------------------
(* The stream of a client *)

\* A stream is put together of three sequences of messages.
LEMMA StreamParts ==
  ASSUME WireTypes, NEW c \in Client
  PROVE  /\ wire[c] \in Seq(Message) /\ wr[c].batch \in Seq(Message)
         /\ send[c] \in Seq(Message)
         /\ wire[c] \o wr[c].batch \in Seq(Message)
         /\ Stream(c) \in Seq(Message)
BY ConcatProperties DEF WireTypes, WriteState, Stream

\* A message accepted for a client: an event of a topic it asked for, and the
\* last that was taken, or a message of another type.
Acceptable(c, m) ==
  /\ m \in Message
  /\ m.type = "event" =>
       /\ m.n = Len(evts) /\ m.n \in 1 .. Len(evts) /\ evts[m.n] \in asked[c]

Accepted(c) == \E m : Acceptable(c, m) /\ Stream(c)' = Append(Stream(c), m)

\* Messages lost with the connection.
Cut(c) ==
  /\ conn[c] = "down"
  /\ \E a, b, d \in Seq(Message) : Stream(c) = a \o (b \o d) /\ Stream(c)' = a \o d

\* A message sent to some client (hub.go, client.go: client.send <- m) leaves the
\* stream of c alone or is accepted for c.
LEMMA PushStream ==
  ASSUME WireTypes, NEW c \in Client, NEW x, NEW m, Push(x, m), UNCHANGED wireVars,
         x = c => Acceptable(c, m)
  PROVE  UNCHANGED Stream(c) \/ Accepted(c)
<1>1. CASE x = c
  <2>1. /\ send'[c] = Append(send[c], m) /\ wire' = wire /\ wr' = wr
        /\ m \in Message /\ Acceptable(c, m)
    BY <1>1 DEF Push, WireTypes, wireVars, Acceptable
  <2>2. Stream(c)' = (wire[c] \o wr[c].batch) \o Append(send[c], m)
    BY <2>1 DEF Stream
  <2>3. Stream(c)' = Append(Stream(c), m)
    BY <2>1, <2>2, StreamParts, AppendToLast DEF Stream
  <2> QED BY <2>1, <2>3 DEF Accepted
<1>2. CASE x # c
  BY <1>2 DEF Push, WireTypes, wireVars, Stream
<1> QED BY <1>1, <1>2

\* A step of the writer of c moves messages towards the peer, or loses some when
\* the connection is down.
LEMMA WriterStream ==
  ASSUME WireTypes, FrameInHand, NEW c \in Client,
         WriterTake(c) \/ WriterDrain(c) \/ WriterFlush(c)
  PROVE  UNCHANGED Stream(c) \/ Cut(c)
<1> DEFINE w == wire[c]
           b == wr[c].batch
           q == send[c]
<1>0. /\ w \in Seq(Message) /\ b \in Seq(Message) /\ q \in Seq(Message)
      /\ w \o b \in Seq(Message) /\ <<>> \in Seq(Message)
      /\ Stream(c) = (w \o b) \o q
  BY StreamParts DEF Stream
<1>1. Stream(c)' = (wire'[c] \o wr'[c].batch) \o send'[c]
  BY DEF Stream
<1>2. CASE WriterTake(c)
  <2>1. /\ q # <<>> /\ b = <<>> /\ wire' = wire /\ send'[c] = Tail(q)
        /\ \/ wr'[c].batch = <<Head(q)>>
           \/ conn[c] = "down" /\ wr'[c].batch = b
    <3>1. b = <<>>
      BY <1>2 DEF WriterTake, FrameInHand
    <3>2. q # <<>> /\ wire' = wire /\ send'[c] = Tail(q)
      BY <1>2 DEF WriterTake, WireTypes
    <3>3. CASE UNCHANGED wr /\ conn[c] = "down"
      BY <3>1, <3>2, <3>3
    <3>4. CASE wr' = [wr EXCEPT ![c] = [pc |-> "count", batch |-> <<Head(send[c])>>,
                                        left |-> 0]]
      <4>1. wr'[c].batch = <<Head(q)>>
        BY <3>4 DEF WireTypes
      <4> QED BY <3>1, <3>2, <4>1
    <3> QED BY <1>2, <3>3, <3>4 DEF WriterTake
  <2>2. /\ <<Head(q)>> \in Seq(Message) /\ Tail(q) \in Seq(Message)
        /\ <<Head(q)>> \o Tail(q) = q
    BY <1>0, <2>1, HeadAndTail
  <2>3. w \o b = w
    BY <1>0, <2>1, ConcatEmptySeq
  <2> HIDE DEF w, b, q
  <2>4. CASE wr'[c].batch = <<Head(q)>>
    <3>1. Stream(c)' = (w \o <<Head(q)>>) \o Tail(q)
      BY <1>1, <2>1, <2>4 DEF w
    <3>2. Stream(c)' = w \o (<<Head(q)>> \o Tail(q))
      BY <1>0, <2>2, <3>1, ConcatAssociative, SMTT(60)
    <3> QED BY <1>0, <2>2, <2>3, <3>2
  <2>5. CASE conn[c] = "down" /\ wr'[c].batch = b
    <3>1. Stream(c)' = w \o Tail(q)
      BY <1>1, <2>1, <2>3, <2>5 DEF w
    <3>2. Stream(c) = w \o (<<Head(q)>> \o Tail(q))
      BY <1>0, <2>2, <2>3
    <3> QED BY <1>0, <2>2, <2>5, <3>1, <3>2 DEF Cut
  <2> QED BY <2>1, <2>4, <2>5
<1>3. CASE WriterDrain(c)
  <2>1. q # <<>> /\ wire' = wire /\ send'[c] = Tail(q) /\ wr'[c].batch = Append(b, Head(q))
    BY <1>3 DEF WriterDrain, WireTypes
  <2>2. Stream(c)' = (w \o Append(b, Head(q))) \o Tail(q)
    BY <1>1, <2>1
  <2> HIDE DEF w, b, q
  <2>3. Stream(c)' = Stream(c)
    BY <1>0, <2>1, <2>2, MoveHead, ZenonT(60)
  <2> QED BY <2>3
<1>4. CASE WriterFlush(c)
  <2>1. /\ send' = send /\ wr'[c].batch = <<>>
        /\ \/ wire'[c] = w \o b
           \/ conn[c] = "down" /\ wire' = wire
    <3>1. wr'[c].batch = <<>> /\ send' = send
      BY <1>4 DEF WriterFlush, WireTypes, WriteState
    <3>2. \/ wire'[c] = w \o b
          \/ conn[c] = "down" /\ wire' = wire
      BY <1>4 DEF WriterFlush, WireTypes
    <3> QED BY <3>1, <3>2
  <2>2. CASE wire'[c] = w \o b
    <3>1. Stream(c)' = ((w \o b) \o <<>>) \o q
      BY <1>1, <2>1, <2>2
    <3> HIDE DEF w, b, q
    <3> QED BY <1>0, <3>1, ConcatEmptySeq
  <2>3. CASE conn[c] = "down" /\ wire' = wire
    <3>1. Stream(c)' = (w \o <<>>) \o q
      BY <1>1, <2>1, <2>3
    <3> HIDE DEF w, b, q
    <3>2. Stream(c)' = w \o q
      BY <1>0, <3>1, ConcatEmptySeq
    <3>3. Stream(c) = w \o (b \o q)
      BY <1>0, ConcatAssociative, SMTT(60)
    <3> QED BY <1>0, <2>3, <3>2, <3>3 DEF Cut
  <2> QED BY <2>1, <2>2, <2>3
<1> QED BY <1>2, <1>3, <1>4

\* What any step does to the stream of a client.
LEMMA StreamStep ==
  ASSUME HubInv, FrameInHand, [Next]_vars, NEW c \in Client
  PROVE  UNCHANGED Stream(c) \/ Accepted(c) \/ Cut(c)
<1> USE DEF hubVars, listVars, readVars, bootVars
<1>a. TypeOK /\ ListsOwned /\ WireTypes
  BY DEF HubInv, TypeOK
<1>b. ASSUME wire'[c] = wire[c], wr'[c].batch = wr[c].batch, send'[c] = send[c]
      PROVE  UNCHANGED Stream(c)
  BY <1>b DEF Stream
<1>1. ASSUME NEW x \in Client, WriterTake(x) \/ WriterDrain(x) \/ WriterFlush(x)
      PROVE  UNCHANGED Stream(c) \/ Cut(c)
  <2>1. CASE x = c
    BY <1>1, <1>a, <2>1, WriterStream
  <2>2. CASE x # c
    <3>1. wire'[c] = wire[c] /\ send'[c] = send[c]
      BY <1>1, <1>a, <2>2 DEF WriterTake, WriterDrain, WriterFlush, WireTypes
    <3>2. wr'[c] = wr[c]
      BY <1>1, <1>a, <2>2 DEF WriterTake, WriterDrain, WriterFlush, WireTypes
    <3> QED BY <1>b, <3>1, <3>2
  <2> QED BY <2>1, <2>2
<1>2. ASSUME SendEvent PROVE UNCHANGED Stream(c) \/ Accepted(c)
  <2>1. Current \in Client /\ Topic \in asked[Current]
    BY <1>2, <1>a, CurrentAsked DEF SendEvent
  <2>2. /\ EventMsg(Len(evts)) \in Message /\ Len(evts) \in Nat /\ evts # <<>>
        /\ Len(evts) \in 1 .. Len(evts)
    <3>1. evts # <<>> /\ evts \in Seq(ClassicName \cup DynamicName)
      BY <1>2, <1>a DEF SendEvent, InBroadcast, ListsOwned, TypeOK, LoopTypes
    <3>2. Len(evts) \in Nat \ {0}
      BY <3>1, EmptySeq
    <3> QED BY <1>a, <3>1, <3>2, MessageTypes
  <2>3. Current = c => Acceptable(c, EventMsg(Len(evts)))
    BY <2>1, <2>2 DEF Acceptable, EventMsg, Topic
  <2>4. UNCHANGED wireVars /\ (UNCHANGED send \/ Push(Current, EventMsg(Len(evts))))
    BY <1>2 DEF SendEvent
  <2> QED BY <1>a, <1>b, <2>3, <2>4, PushStream DEF wireVars
<1>3. ASSUME NEW x \in Client, ReplyUnknown(x) PROVE UNCHANGED Stream(c) \/ Accepted(c)
  <2>1. Acceptable(c, ErrorMsg)
    BY MessageTypes DEF Acceptable, ErrorMsg
  <2>2. UNCHANGED wireVars /\ (UNCHANGED send \/ Push(x, ErrorMsg))
    BY <1>3 DEF ReplyUnknown
  <2> QED BY <1>a, <1>b, <2>1, <2>2, PushStream DEF wireVars
<1>4. ASSUME NEW d \in DynamicTag, ResetSend(d)
      PROVE  UNCHANGED Stream(c) \/ Accepted(c)
  <2>1. Acceptable(c, ResetMsg)
    BY MessageTypes DEF Acceptable, ResetMsg
  <2>2. UNCHANGED wireVars /\ (UNCHANGED send \/ Push(ResetTarget(d), ResetMsg))
    BY <1>4 DEF ResetSend
  <2> QED BY <1>a, <1>b, <2>1, <2>2, PushStream DEF wireVars
<1>5. ASSUME NEW x \in Client,
             ServeWs(x) \/ WriterCount(x) \/ WriterExit(x)
      PROVE  UNCHANGED Stream(c)
  <2>1. wr'[c].batch = wr[c].batch
    <3>1. CASE ServeWs(x) \/ WriterExit(x)
      <4>1. PICK p \in {"idle", "done"} : wr' = [wr EXCEPT ![x].pc = p]
        BY <3>1 DEF ServeWs, WriterExit
      <4>2. wr \in [Client -> WriteState]
        BY <1>a DEF WireTypes
      <4> QED BY <4>1, <4>2 DEF WriteState
    <3>2. CASE WriterCount(x)
      <4>1. /\ wr' = [wr EXCEPT ![x] = [@ EXCEPT !.pc = "drain", !.left = Len(send[x])]]
            /\ wr \in [Client -> WriteState]
        BY <1>a, <3>2 DEF WriterCount, WireTypes
      <4>2. [wr[x] EXCEPT !.pc = "drain", !.left = Len(send[x])].batch = wr[x].batch
        BY <4>1 DEF WriteState
      <4> QED BY <4>1, <4>2
    <3> QED BY <1>5, <3>1, <3>2
  <2>2. UNCHANGED <<wire, send>>
    BY <1>5 DEF ServeWs, WriterCount, WriterExit
  <2> QED BY <1>b, <2>1, <2>2
<1>6. ASSUME UNCHANGED <<wire, wr, send>> PROVE UNCHANGED Stream(c)
  BY <1>6 DEF Stream
<1> USE DEF wireVars
<1>7. ASSUME NEW x \in Client,
             \/ Unregister(x) \/ LoopCheck(x) \/ ReadFails(x) \/ Lookup(x)
             \/ Store(x) \/ ReadPumpClose(x) \/ ConnFails(x)
      PROVE  UNCHANGED Stream(c)
  BY <1>6, <1>7
     DEF Unregister, LoopCheck, ReadFails, Lookup, Store, ReadPumpClose, ConnFails
<1>8. ASSUME NEW x \in Client, NEW name \in Name, ReadMessage(x, name)
      PROVE  UNCHANGED Stream(c)
  BY <1>6, <1>8 DEF ReadMessage
<1>9. ASSUME NEW topic \in DOMAIN subs, TakeEvent(topic) PROVE UNCHANGED Stream(c)
  BY <1>6, <1>9 DEF TakeEvent
<1>10. ASSUME FetchSubscribers \/ SkipDisconnected \/ EvictClient \/ EndBroadcast
       PROVE  UNCHANGED Stream(c)
  BY <1>6, <1>10 DEF FetchSubscribers, SkipDisconnected, EvictClient, EndBroadcast
<1>11. ASSUME NEW d \in DynamicTag, NEW i \in Instance,
              NewInstance(d, i) \/ RebootedInstance(d, i)
       PROVE  UNCHANGED Stream(c)
  BY <1>6, <1>11 DEF NewInstance, RebootedInstance
<1>12. ASSUME NEW d \in DynamicTag, ResetCheck(d) PROVE UNCHANGED Stream(c)
  BY <1>6, <1>12 DEF ResetCheck
<1>13. ASSUME MapFault \/ UNCHANGED vars PROVE UNCHANGED Stream(c)
  BY <1>6, <1>13 DEF MapFault, vars
<1> QED
  BY <1>1, <1>2, <1>3, <1>4, <1>5, <1>7, <1>8, <1>9, <1>10, <1>11, <1>12, <1>13
  DEF Next

\* Events taken stay, and servers asked for stay asked for.
LEMMA RecordsGrow ==
  ASSUME TypeOK, ListsOwned, [Next]_vars
  PROVE  /\ Len(evts) \in Nat /\ Len(evts') \in Nat /\ Len(evts) <= Len(evts')
         /\ \A i \in 1 .. Len(evts) : evts'[i] = evts[i]
         /\ \A c \in Client : asked[c] \subseteq asked'[c]
<1> USE DEF hubVars, readVars
<1>a. /\ evts \in Seq(ClassicName \cup DynamicName) /\ Len(evts) \in Nat
      /\ asked \in [Client -> SUBSET Name]
  BY DEF TypeOK, LoopTypes, ReadTypes
<1>1. ASSUME NEW topic \in DOMAIN subs, TakeEvent(topic)
      PROVE  /\ Len(evts') \in Nat /\ Len(evts) <= Len(evts')
             /\ \A i \in 1 .. Len(evts) : evts'[i] = evts[i]
             /\ asked' = asked
  <2>1. topic \in ClassicName \cup DynamicName
    BY DEF TypeOK, ListTypes
  <2>2. evts' = Append(evts, topic) /\ asked' = asked
    BY <1>1 DEF TakeEvent
  <2> QED BY <1>a, <2>1, <2>2, AppendProperties
<1>2. ASSUME NEW c \in Client, Store(c)
      PROVE  evts' = evts /\ \A x \in Client : asked[x] \subseteq asked'[x]
  BY <1>2, <1>a DEF Store
<1>3. ASSUME NEW c \in Client,
             \/ ServeWs(c) \/ Unregister(c) \/ LoopCheck(c) \/ ReadFails(c)
             \/ Lookup(c) \/ ReplyUnknown(c) \/ ReadPumpClose(c)
      PROVE  UNCHANGED <<evts, asked>>
  BY <1>3 DEF ServeWs, Unregister, LoopCheck, ReadFails, Lookup, ReplyUnknown,
     ReadPumpClose
<1>4. ASSUME NEW c \in Client,
             \/ WriterTake(c) \/ WriterCount(c) \/ WriterDrain(c)
             \/ WriterFlush(c) \/ WriterExit(c) \/ ConnFails(c)
      PROVE  UNCHANGED <<evts, asked>>
  BY <1>4 DEF WriterTake, WriterCount, WriterDrain, WriterFlush, WriterExit, ConnFails
<1>5. ASSUME NEW c \in Client, NEW name \in Name, ReadMessage(c, name)
      PROVE  UNCHANGED <<evts, asked>>
  BY <1>5 DEF ReadMessage
<1>6. ASSUME \/ FetchSubscribers \/ SkipDisconnected \/ SendEvent \/ EvictClient
             \/ EndBroadcast \/ MapFault \/ UNCHANGED vars
      PROVE  UNCHANGED <<evts, asked>>
  BY <1>6 DEF FetchSubscribers, SkipDisconnected, SendEvent, EvictClient,
     EndBroadcast, MapFault, vars
<1>7. ASSUME NEW d \in DynamicTag, NEW i \in Instance,
             NewInstance(d, i) \/ RebootedInstance(d, i)
      PROVE  UNCHANGED <<evts, asked>>
  BY <1>7 DEF NewInstance, RebootedInstance
<1>8. ASSUME NEW d \in DynamicTag, ResetCheck(d) \/ ResetSend(d)
      PROVE  UNCHANGED <<evts, asked>>
  BY <1>8 DEF ResetCheck, ResetSend
<1> QED BY <1>a, <1>1, <1>2, <1>3, <1>4, <1>5, <1>6, <1>7, <1>8 DEF Next

-----------------------------------------------------------------------------
(* Theorems *)

\* Every stream holds events that were taken, of topics asked for, in order.
StreamsSound ==
  \A c \in Client : Sound(Stream(c), evts, asked[c]) /\ InOrder(Stream(c))

\* The inductive invariant of the streams, on top of the hub's.
StreamInv == HubInv /\ FrameInHand /\ WriterNeverStalls /\ StreamsSound

\* In the beginning the streams are empty.
LEMMA StreamsInit == Init => StreamsSound
<1> SUFFICES ASSUME Init, NEW c \in Client
             PROVE  Sound(Stream(c), evts, asked[c]) /\ InOrder(Stream(c))
  BY DEF StreamsSound
<1>1. Stream(c) = (<<>> \o <<>>) \o <<>>
  BY DEF Init, Stream
<1>2. DOMAIN Stream(c) = {}
  BY <1>1
<1> QED BY <1>2 DEF Sound, InOrder

\* Every step keeps the streams sound: the hub appends the event it took last,
\* readPump and the passes append replies and resets, the writer moves the front.
LEMMA StreamsStep ==
  ASSUME StreamInv, [Next]_vars
  PROVE  StreamsSound'
<1> SUFFICES ASSUME NEW c \in Client
             PROVE  Sound(Stream(c)', evts', asked'[c]) /\ InOrder(Stream(c)')
  BY DEF StreamsSound
<1>a. /\ TypeOK /\ ListsOwned /\ WireTypes /\ FrameInHand
      /\ Sound(Stream(c), evts, asked[c]) /\ InOrder(Stream(c))
      /\ Stream(c) \in Seq(Message)
  BY StreamParts DEF StreamInv, HubInv, TypeOK, StreamsSound
<1>b. /\ Len(evts) \in Nat /\ Len(evts') \in Nat /\ Len(evts) <= Len(evts')
      /\ \A i \in 1 .. Len(evts) : evts'[i] = evts[i]
      /\ asked[c] \subseteq asked'[c]
  BY <1>a, RecordsGrow
<1>1. Sound(Stream(c)', evts, asked[c]) /\ InOrder(Stream(c)')
  <2>1. CASE UNCHANGED Stream(c)
    BY <1>a, <2>1
  <2>2. CASE Accepted(c)
    <3>1. PICK m : Acceptable(c, m) /\ Stream(c)' = Append(Stream(c), m)
      BY <2>2 DEF Accepted
    <3> QED BY <1>a, <1>b, <3>1, AppendSound DEF Acceptable
  <2>3. CASE Cut(c)
    <3>1. PICK a, b, d \in Seq(Message) :
            Stream(c) = a \o (b \o d) /\ Stream(c)' = a \o d
      BY <2>3 DEF Cut
    <3> QED BY <1>a, <3>1, CutSound
  <2> QED BY <2>1, <2>2, <2>3, StreamStep DEF StreamInv
<1> QED BY <1>b, <1>1, MoreSound

\* StreamInv holds in every reachable state.
THEOREM HubStreamInvariant == Spec => []StreamInv
<1>1. Init => StreamInv
  BY TypeInit, ListsInit, AgreementInit, WriterInit, StreamsInit DEF StreamInv, HubInv
<1>2. StreamInv /\ [Next]_vars => StreamInv'
  <2> SUFFICES ASSUME StreamInv, [Next]_vars PROVE StreamInv'
    OBVIOUS
  <2>1. HubInv'
    BY TypeStep, ListsStep, AgreementStep DEF StreamInv, HubInv
  <2>2. FrameInHand' /\ WriterNeverStalls'
    BY <2>1, WriterStep DEF StreamInv, HubInv
  <2> QED BY <2>1, <2>2, StreamsStep DEF StreamInv
<1> QED BY <1>1, <1>2, PTL DEF Spec

\* A client gets no event of a server it never asked for, whatever the lists of
\* the hub, shared and shifted in place, show meanwhile.
THEOREM HubOnlyAskedTopics == Spec => []OnlyAskedTopics
<1>1. StreamInv => OnlyAskedTopics
  BY DEF StreamInv, StreamsSound, Sound, OnlyAskedTopics
<1> QED BY <1>1, HubStreamInvariant, PTL

\* Events reach a client in the order the hub took them.
THEOREM HubOrderedDelivery == Spec => []OrderedDelivery
<1>1. StreamInv => OrderedDelivery
  BY DEF StreamInv, StreamsSound, InOrder, OrderedDelivery
<1> QED BY <1>1, HubStreamInvariant, PTL

\* The drain loop of the writer never waits for a message that is not there.
THEOREM HubWriterNeverStalls == Spec => []WriterNeverStalls
<1>1. StreamInv => WriterNeverStalls
  BY DEF StreamInv
<1> QED BY <1>1, HubStreamInvariant, PTL

\* What was sent so far begins what is sent with one message more.
LEMMA PrefixOfAppend ==
  ASSUME NEW s \in Seq(Message), NEW m \in Message
  PROVE  IsPrefixOf(s, s) /\ IsPrefixOf(s, Append(s, m))
<1>1. Len(s) \in Nat /\ SubSeq(s, 1, Len(s)) = s
  BY SubSeqFull
<1>2. /\ Append(s, m) \in Seq(Message) /\ Len(Append(s, m)) = Len(s) + 1
      /\ \A i \in 1 .. Len(s) : Append(s, m)[i] = s[i]
  BY AppendProperties
<1> DEFINE t == Append(s, m)
           p == SubSeq(t, 1, Len(s))
<1>3. p \in Seq(Message) /\ Len(p) = Len(s) /\ \A i \in 1 .. Len(s) : p[i] = t[i]
  <2> HIDE DEF t
  <2>1. \A i \in 1 .. Len(s) : t[i] \in Message
    BY <1>1, <1>2 DEF t
  <2> QED BY <1>1, <2>1, SubSeqProperties
<1> HIDE DEF p
<1>4. p = s
  BY <1>2, <1>3, SeqEqual
<1> QED BY <1>1, <1>2, <1>4 DEF IsPrefixOf, p

\* What was accepted for a client stays, in its order, until its connection is
\* down.
THEOREM HubAcceptedIsKept == Spec => AcceptedIsKept
<1>1. StreamInv /\ [Next]_vars =>
        [\A c \in Client : conn[c] = "down" \/ IsPrefixOf(Stream(c), Stream(c)')]_vars
  <2> SUFFICES ASSUME StreamInv, [Next]_vars, NEW c \in Client, conn[c] # "down"
               PROVE  IsPrefixOf(Stream(c), Stream(c)')
    OBVIOUS
  <2>1. UNCHANGED Stream(c) \/ Accepted(c)
    BY StreamStep DEF StreamInv, Cut
  <2>2. Stream(c) \in Seq(Message)
    BY StreamParts DEF StreamInv, HubInv, TypeOK
  <2>3. ErrorMsg \in Message
    BY MessageTypes
  <2> QED BY <2>1, <2>2, <2>3, PrefixOfAppend DEF Accepted, Acceptable
<1> QED BY <1>1, HubStreamInvariant, PTL DEF Spec, AcceptedIsKept
=============================================================================
