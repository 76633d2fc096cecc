---------------------------- MODULE RebootProofs ----------------------------
(***************************************************************************)
(* Proofs about the boots of an instance, from its tails to the hub, for   *)
(* any capacity of outputChannel and any size of the reads.                *)
(***************************************************************************)
EXTENDS Reboot, DynamicServerProofs

-----------------------------------------------------------------------------
(* The inductive invariant *)

\* What unstackDynamic may still send once *stop is set: the read in hand, or
\* one more if the condition of its loop was true when it was read.
Owed(t) == unstack[t].left + (IF unstack[t].pc = "poll" THEN MaxRead ELSE 0)

\* No event of a tail that runs is late, and those of one that ended are counted:
\* the ones the hub took, the ones in the channel, and the ones still owed.
StaleInv ==
  \A t \in DOMAIN tails : Sole(tails[t].id) =>
    IF Stopped(t) THEN late[t] + Count(out, t) + Owed(t) <= ChannelCap + MaxRead
                  ELSE late[t] = 0

\* The queues and the channel have their types, as in BootTypeOK.
QueueType ==
  /\ logQueue \in Seq(Seq(0 .. MaxRead)) /\ Len(logQueue) = Len(tails)
  /\ unstack \in Seq(UnstackState)
  /\ Len(unstack) = Len(tails)
  /\ \A t \in DOMAIN unstack : (unstack[t].pc = "send") <=> (unstack[t].left > 0)
  /\ out \in Seq(DOMAIN tails) /\ Len(out) <= ChannelCap
  /\ reads \in 0 .. MaxReads
  /\ late \in Seq(Nat) /\ Len(late) = Len(tails)

BootInv == DynamicInv /\ QueueType /\ StaleInv

\* BootTypeOK is the types of DynamicServer and those of the queues.
LEMMA BootParts == BootTypeOK <=> TypeOK /\ QueueType
BY DEF BootTypeOK, QueueType

-----------------------------------------------------------------------------
(* Steps of Reboot are steps of DynamicServer *)

\* A step of Reboot is a step of DynamicServer or leaves its variables alone.
LEMMA BootStepIsStep == [BootNext]_bootVars => [Next]_vars
<1> SUFFICES ASSUME [BootNext]_bootVars PROVE [Next]_vars
  OBVIOUS
<1>1. CASE Files
  BY <1>1 DEF Files, Next
<1>2. CASE Passing
  BY <1>2 DEF Passing, Next, PassStep
<1>3. CASE StartBoot
  BY <1>3 DEF StartBoot, Next, PassStep
<1>4. CASE HubReceive
  BY <1>4 DEF HubReceive
<1>5. ASSUME NEW t \in DOMAIN tails, Tailing(t) PROVE Next
  BY <1>5 DEF Tailing, Next
<1>6. ASSUME NEW t \in DOMAIN tails, TailReads(t) \/ Unstacking(t) PROVE UNCHANGED vars
  BY <1>6 DEF TailReads, Unstacking, UnstackTake, UnstackSend, UnstackStop
<1>7. CASE UNCHANGED bootVars
  BY <1>7 DEF bootVars
<1> QED BY <1>1, <1>2, <1>3, <1>4, <1>5, <1>6, <1>7 DEF BootNext

\* Every behaviour of Reboot is one of DynamicServer, with queues and a channel.
THEOREM BootImplementsDynamic == BootSpec => Spec
<1>1. BootInit => Init
  BY DEF BootInit
<1> QED BY <1>1, BootStepIsStep, PTL DEF BootSpec, Spec

-----------------------------------------------------------------------------
(* What the types say *)

\* One queue, one goroutine and one count for each tail.
LEMMA Domains ==
  ASSUME TypeOK, QueueType
  PROVE  /\ Len(tails) \in Nat /\ DOMAIN tails = 1 .. Len(tails)
         /\ DOMAIN logQueue = DOMAIN tails
         /\ DOMAIN unstack = DOMAIN tails
         /\ DOMAIN late = DOMAIN tails
         /\ \A t \in DOMAIN tails : /\ logQueue[t] \in Seq(0 .. MaxRead)
                                    /\ unstack[t] \in UnstackState
                                    /\ late[t] \in Nat
<1>1. /\ Len(tails) \in Nat /\ DOMAIN tails = 1 .. Len(tails)
      /\ DOMAIN logQueue = 1 .. Len(tails)
      /\ DOMAIN unstack = 1 .. Len(tails)
      /\ DOMAIN late = 1 .. Len(tails)
  BY LenProperties DEF TypeOK, QueueType
<1>2. ASSUME NEW t \in 1 .. Len(tails)
      PROVE  /\ logQueue[t] \in Seq(0 .. MaxRead)
             /\ unstack[t] \in UnstackState
             /\ late[t] \in Nat
  BY ElementOfSeq DEF QueueType
<1> QED BY <1>1, <1>2

\* A goroutine owes one read at most, and the channel holds no more than fits.
LEMMA OwedBound ==
  ASSUME TypeOK, QueueType, NEW t \in DOMAIN tails
  PROVE  /\ Owed(t) \in Nat /\ Owed(t) <= MaxRead
         /\ Count(out, t) \in Nat /\ Count(out, t) <= ChannelCap
<1>1. MaxRead \in Nat /\ ChannelCap \in Nat
  BY RebootAssumption
<1>2. /\ unstack[t].pc \in {"poll", "send", "done"} /\ unstack[t].left \in 0 .. MaxRead
      /\ (unstack[t].pc = "send") <=> (unstack[t].left > 0)
  <2>1. unstack[t] \in UnstackState /\ t \in DOMAIN unstack
    BY Domains
  <2> QED BY <2>1 DEF UnstackState, QueueType
<1>3. Owed(t) \in Nat /\ Owed(t) <= MaxRead
  BY <1>1, <1>2 DEF Owed
<1>4. Count(out, t) \in Nat /\ Count(out, t) <= Len(out) /\ Len(out) <= ChannelCap
      /\ Len(out) \in Nat
  BY CountType, LenProperties DEF QueueType
<1> QED BY <1>1, <1>3, <1>4

-----------------------------------------------------------------------------
(* The steps of DynamicServer *)

\* A step that starts no tail and leaves the queues alone.
LEMMA QueuesFrame ==
  ASSUME TypeOK, QueueType, StaleInv, UNCHANGED queueVars, DOMAIN tails' = DOMAIN tails,
         TypeOK',
         \A u \in DOMAIN tails :
           /\ tails'[u].id = tails[u].id
           /\ tails[u].pc = "ended" => tails'[u].pc = "ended"
  PROVE  QueueType' /\ StaleInv'
<1>1. UNCHANGED <<logQueue, unstack, out, reads, late>>
  BY DEF queueVars
<1>2. Len(tails') = Len(tails)
  BY LenProperties DEF TypeOK
<1>3. QueueType'
  BY <1>1, <1>2 DEF QueueType
<1>4. ASSUME NEW t \in DOMAIN tails, Sole(tails[t].id)
      PROVE  IF Stopped(t)' THEN late[t] + Count(out, t) + Owed(t) <= ChannelCap + MaxRead
                            ELSE late[t] = 0
  <2>1. IF Stopped(t) THEN late[t] + Count(out, t) + Owed(t) <= ChannelCap + MaxRead
                      ELSE late[t] = 0
    BY <1>4 DEF StaleInv
  <2>2. Stopped(t) => Stopped(t)'
    BY DEF Stopped
  <2>3. late[t] = 0 => late[t] + Count(out, t) + Owed(t) <= ChannelCap + MaxRead
    <3>1. MaxRead \in Nat /\ ChannelCap \in Nat
      BY RebootAssumption
    <3> QED BY <3>1, OwedBound
  <2> QED BY <2>1, <2>2, <2>3
<1>5. \A t \in DOMAIN tails : Count(out, t)' = Count(out, t) /\ Owed(t)' = Owed(t)
  BY <1>1 DEF Count, Places, Owed
<1> QED BY <1>1, <1>3, <1>4, <1>5 DEF StaleInv

\* The start of a boot (dynamic.go:52-74) adds an empty queue and an unstacker; by
\* then the earlier tails of the instance have ended.
LEMMA StartBootKeeps ==
  ASSUME TypeOK, QueueType, StaleInv, StartBoot
  PROVE  QueueType' /\ StaleInv'
<1> DEFINE poll == [pc |-> "poll", left |-> 0]
<1>0. MaxRead \in Nat \ {0} /\ ChannelCap \in Nat \ {0}
  BY RebootAssumption
<1>1. /\ logQueue' = Append(logQueue, <<>>) /\ unstack' = Append(unstack, poll)
      /\ late' = Append(late, 0) /\ out' = out /\ reads' = reads /\ StartTail
  BY DEF StartBoot
<1>2. PICK n : n = Len(tails) + 1
  OBVIOUS
<1>3. /\ n \in Nat /\ DOMAIN tails = 1 .. Len(tails) /\ DOMAIN tails' = 1 .. n
      /\ tails' \in Seq(TailState)
      /\ \A t \in DOMAIN tails : tails'[t] = tails[t]
      /\ tails'[n].pc = "stat" /\ Len(tails) \in Nat
  BY <1>1, <1>2, StartEffect, LenProperties DEF TypeOK
<1>4. Len(tails') = n /\ DOMAIN tails \subseteq DOMAIN tails'
  BY <1>2, <1>3, LenProperties
<1>5. /\ logQueue' \in Seq(Seq(0 .. MaxRead)) /\ Len(logQueue') = n
  BY <1>1, <1>2, <1>3, AppendProperties, EmptySeq DEF QueueType
<1>6. /\ unstack' \in Seq(UnstackState) /\ Len(unstack') = n
      /\ \A t \in DOMAIN tails : unstack'[t] = unstack[t]
      /\ unstack'[n] = poll
  <2>1. poll \in UnstackState
    BY <1>0 DEF UnstackState
  <2>2. unstack \in Seq(UnstackState) /\ Len(unstack) = Len(tails)
    BY DEF QueueType
  <2> HIDE DEF poll
  <2> QED BY <1>1, <1>2, <1>3, <2>1, <2>2, AppendProperties
<1>7. /\ late' \in Seq(Nat) /\ Len(late') = n
      /\ \A t \in DOMAIN tails : late'[t] = late[t]
      /\ late'[n] = 0
  <2>1. late \in Seq(Nat) /\ Len(late) = Len(tails)
    BY DEF QueueType
  <2>2. 0 \in Nat
    OBVIOUS
  <2> QED BY <1>1, <1>2, <1>3, <2>1, <2>2, AppendProperties
<1>8. \A t \in DOMAIN unstack' : (unstack'[t].pc = "send") <=> (unstack'[t].left > 0)
  <2> SUFFICES ASSUME NEW t \in DOMAIN unstack'
               PROVE  (unstack'[t].pc = "send") <=> (unstack'[t].left > 0)
    OBVIOUS
  <2>1. t \in DOMAIN tails \/ t = n
    BY <1>2, <1>3, <1>6, LenProperties
  <2>2. DOMAIN unstack = DOMAIN tails
    BY Domains
  <2> QED BY <1>6, <2>1, <2>2 DEF QueueType
<1>9. QueueType'
  <2>1. out' \in Seq(DOMAIN tails')
    BY <1>1, <1>4, SeqMonotonic DEF QueueType
  <2> QED BY <1>1, <1>4, <1>5, <1>6, <1>7, <1>8, <2>1 DEF QueueType
<1>10. StaleInv'
  <2> SUFFICES ASSUME NEW t \in DOMAIN tails', Sole(tails'[t].id)
               PROVE  IF Stopped(t)'
                      THEN late'[t] + Count(out', t) + Owed(t)' <= ChannelCap + MaxRead
                      ELSE late'[t] = 0
    BY DEF StaleInv
  <2>1. CASE t \in DOMAIN tails
    BY <1>1, <1>3, <1>6, <1>7, <2>1 DEF StaleInv, Stopped, Owed
  <2>2. CASE t = n
    BY <1>3, <1>7, <2>2 DEF Stopped
  <2> QED BY <1>2, <1>3, <2>1, <2>2
<1> QED BY <1>9, <1>10

-----------------------------------------------------------------------------
(* The steps of the queues and the channel *)

\* A read of a tail (watcher.go:56-77) is queued, and owed to nobody yet.
LEMMA ReadsKeep ==
  ASSUME TypeOK, QueueType, StaleInv, NEW t \in DOMAIN tails, TailReads(t)
  PROVE  QueueType' /\ StaleInv'
<1>0. MaxRead \in Nat /\ MaxReads \in Nat
  BY RebootAssumption
<1>1. /\ UNCHANGED <<tails, unstack, out, late>> /\ reads' = reads + 1 /\ reads < MaxReads
      /\ \E n \in {0, MaxRead} : logQueue' = [logQueue EXCEPT ![t] = Append(@, n)]
  BY DEF TailReads, vars
<1>2. PICK n \in {0, MaxRead} : logQueue' = [logQueue EXCEPT ![t] = Append(@, n)]
  BY <1>1
<1>3. Append(logQueue[t], n) \in Seq(0 .. MaxRead)
  <2>1. n \in 0 .. MaxRead /\ logQueue[t] \in Seq(0 .. MaxRead)
    BY <1>0, Domains
  <2> QED BY <2>1, AppendProperties
<1>4. logQueue' \in Seq(Seq(0 .. MaxRead)) /\ Len(logQueue') = Len(logQueue)
  <2>1. t \in 1 .. Len(logQueue) /\ logQueue \in Seq(Seq(0 .. MaxRead))
    BY Domains, LenProperties DEF QueueType
  <2>2. logQueue' = [logQueue EXCEPT ![t] = Append(logQueue[t], n)]
    BY <1>2
  <2> QED BY <1>3, <2>1, <2>2, ExceptSeq
<1>5. QueueType'
  <2>1. reads' \in 0 .. MaxReads
    BY <1>0, <1>1 DEF QueueType
  <2> QED BY <1>1, <1>4, <2>1 DEF QueueType
<1>6. StaleInv'
  BY <1>1 DEF StaleInv, Stopped, Count, Places, Owed
<1> QED BY <1>5, <1>6

\* What every step of unstackDynamic does: the goroutine sends nothing, or one event
\* that it owed, and owes no more than before.
LEMMA UnstackEffect ==
  ASSUME TypeOK, QueueType, NEW t \in DOMAIN tails, Unstacking(t)
  PROVE  /\ UNCHANGED <<tails, reads, late>>
         /\ logQueue' \in Seq(Seq(0 .. MaxRead)) /\ Len(logQueue') = Len(logQueue)
         /\ \E r \in UnstackState :
              /\ unstack' = [unstack EXCEPT ![t] = r]
              /\ (r.pc = "send") <=> (r.left > 0)
         /\ \/ out' = out
            \/ Len(out) < ChannelCap /\ out' = Append(out, t)
         /\ Stopped(t) => Owed(t)' + (IF out' = out THEN 0 ELSE 1) <= Owed(t)
<1>0. MaxRead \in Nat \ {0} /\ MaxReads \in Nat
  BY RebootAssumption
<1>1. /\ t \in DOMAIN unstack /\ t \in DOMAIN logQueue
      /\ unstack[t].pc \in {"poll", "send", "done"} /\ unstack[t].left \in 0 .. MaxRead
      /\ (unstack[t].pc = "send") <=> (unstack[t].left > 0)
      /\ logQueue[t] \in Seq(0 .. MaxRead)
  <2>1. t \in DOMAIN unstack /\ t \in DOMAIN logQueue /\ unstack[t] \in UnstackState
        /\ logQueue[t] \in Seq(0 .. MaxRead)
    BY Domains
  <2> QED BY <2>1 DEF UnstackState, QueueType
<1>2. logQueue \in Seq(Seq(0 .. MaxRead)) /\ t \in 1 .. Len(logQueue)
  BY <1>1, LenProperties DEF QueueType
<1>3. Again(t) \in UnstackState /\ Again(t).pc # "send" /\ Again(t).left = 0
      /\ (Stopped(t) => Again(t).pc = "done")
  BY <1>0 DEF Again, UnstackState
<1>4. CASE UnstackTake(t)
  <2>1. /\ UNCHANGED <<tails, reads, late, out>> /\ logQueue[t] # <<>>
        /\ unstack[t].pc = "poll"
        /\ logQueue' = [logQueue EXCEPT ![t] = Tail(logQueue[t])]
        /\ unstack' = [unstack EXCEPT ![t] =
             IF Head(logQueue[t]) = 0 THEN Again(t)
                                      ELSE [pc |-> "send", left |-> Head(logQueue[t])]]
    BY <1>4 DEF UnstackTake, vars
  <2>2. Head(logQueue[t]) \in 0 .. MaxRead /\ Tail(logQueue[t]) \in Seq(0 .. MaxRead)
    BY <1>1, <2>1, HeadTailProperties
  <2>3. logQueue' \in Seq(Seq(0 .. MaxRead)) /\ Len(logQueue') = Len(logQueue)
    BY <1>2, <2>1, <2>2, ExceptSeq
  <2>4. PICK r : r = IF Head(logQueue[t]) = 0 THEN Again(t)
                     ELSE [pc |-> "send", left |-> Head(logQueue[t])]
    OBVIOUS
  <2>5. /\ r \in UnstackState
        /\ (r.pc = "send") <=> (r.left > 0)
        /\ Stopped(t) => r.pc # "poll"
    <3>1. CASE Head(logQueue[t]) = 0
      BY <1>0, <1>3, <2>4, <3>1
    <3>2. CASE Head(logQueue[t]) # 0
      BY <1>0, <2>2, <2>4, <3>2 DEF UnstackState
    <3> QED BY <3>1, <3>2
  <2>6. unstack' = [unstack EXCEPT ![t] = r] /\ unstack'[t] = r
    BY <1>1, <2>1, <2>4
  <2>7. Stopped(t) => Owed(t)' + 0 <= Owed(t)
    <3>1. r.left \in 0 .. MaxRead
      BY <2>5 DEF UnstackState
    <3>2. Owed(t)' = r.left + (IF r.pc = "poll" THEN MaxRead ELSE 0)
      BY <2>6 DEF Owed
    <3>3. Owed(t) = unstack[t].left + MaxRead
      BY <2>1 DEF Owed
    <3> QED BY <1>0, <1>1, <2>5, <3>1, <3>2, <3>3
  <2> QED BY <2>1, <2>3, <2>5, <2>6, <2>7
<1>5. CASE UnstackSend(t)
  <2>1. /\ UNCHANGED <<tails, reads, late, logQueue>> /\ out' = Append(out, t)
        /\ unstack[t].pc = "send" /\ Len(out) < ChannelCap
        /\ unstack' = [unstack EXCEPT ![t] =
             IF unstack[t].left = 1 THEN Again(t)
                                    ELSE [pc |-> "send", left |-> unstack[t].left - 1]]
    BY <1>1, <1>5 DEF UnstackSend, vars
  <2>2. PICK r : r = IF unstack[t].left = 1 THEN Again(t)
                     ELSE [pc |-> "send", left |-> unstack[t].left - 1]
    OBVIOUS
  <2>3. /\ r \in UnstackState
        /\ (r.pc = "send") <=> (r.left > 0)
        /\ Stopped(t) => r.pc # "poll"
        /\ r.left = unstack[t].left - 1
    <3>1. CASE unstack[t].left = 1
      BY <1>0, <1>3, <2>2, <3>1
    <3>2. CASE unstack[t].left # 1
      BY <1>0, <1>1, <2>1, <2>2, <3>2 DEF UnstackState
    <3> QED BY <3>1, <3>2
  <2>4. unstack' = [unstack EXCEPT ![t] = r] /\ unstack'[t] = r
    BY <1>1, <2>1, <2>2
  <2>5. Stopped(t) => Owed(t)' + 1 <= Owed(t)
    <3>1. Owed(t)' = r.left + (IF r.pc = "poll" THEN MaxRead ELSE 0)
      BY <2>4 DEF Owed
    <3>2. Owed(t) = unstack[t].left + 0
      BY <2>1 DEF Owed
    <3> QED BY <1>0, <1>1, <2>3, <3>1, <3>2
  <2>6. out' # out
    <3>1. t \in DOMAIN tails /\ out \in Seq(DOMAIN tails) /\ Len(out) \in Nat
      BY LenProperties DEF QueueType
    <3>2. Len(out') = Len(out) + 1
      BY <2>1, <3>1, AppendProperties
    <3> QED BY <3>1, <3>2
  <2>7. logQueue' \in Seq(Seq(0 .. MaxRead)) /\ Len(logQueue') = Len(logQueue)
    BY <1>2, <2>1
  <2> QED BY <2>1, <2>3, <2>4, <2>5, <2>6, <2>7
<1>6. CASE UnstackStop(t)
  <2>1. /\ UNCHANGED <<tails, reads, late, logQueue, out>> /\ unstack[t].pc = "poll"
        /\ unstack' = [unstack EXCEPT ![t].pc = "done"]
    BY <1>6 DEF UnstackStop, vars
  <2>2. PICK r : r = [unstack[t] EXCEPT !.pc = "done"]
    OBVIOUS
  <2>3. r \in UnstackState /\ r.pc = "done" /\ r.left = unstack[t].left
    <3>1. unstack[t] \in UnstackState
      BY Domains
    <3> QED BY <2>2, <3>1 DEF UnstackState
  <2>4. unstack' = [unstack EXCEPT ![t] = r] /\ unstack'[t] = r
    BY <1>1, <2>1, <2>2
  <2>5. Owed(t)' + 0 <= Owed(t)
    <3>1. Owed(t)' = r.left + 0
      BY <2>3, <2>4 DEF Owed
    <3>2. Owed(t) = unstack[t].left + MaxRead
      BY <2>1 DEF Owed
    <3> QED BY <1>0, <1>1, <2>3, <3>1, <3>2
  <2>6. logQueue' \in Seq(Seq(0 .. MaxRead)) /\ Len(logQueue') = Len(logQueue)
    BY <1>2, <2>1
  <2>7. (r.pc = "send") <=> (r.left > 0)
    BY <1>1, <2>1, <2>3
  <2> QED BY <2>1, <2>3, <2>4, <2>5, <2>6, <2>7
<1> QED BY <1>4, <1>5, <1>6 DEF Unstacking

\* A step of an unstacker (unstacker.go:46-68) moves what it owes to the channel, or
\* takes a read while its tail runs or once after.
LEMMA UnstackKeeps ==
  ASSUME TypeOK, QueueType, StaleInv, NEW t \in DOMAIN tails, Unstacking(t)
  PROVE  QueueType' /\ StaleInv'
<1>0. MaxRead \in Nat /\ ChannelCap \in Nat
  BY RebootAssumption
<1>1. /\ UNCHANGED <<tails, reads, late>>
      /\ logQueue' \in Seq(Seq(0 .. MaxRead)) /\ Len(logQueue') = Len(logQueue)
      /\ \/ out' = out
         \/ Len(out) < ChannelCap /\ out' = Append(out, t)
      /\ Stopped(t) => Owed(t)' + (IF out' = out THEN 0 ELSE 1) <= Owed(t)
  BY UnstackEffect
<1>2. PICK r \in UnstackState : /\ unstack' = [unstack EXCEPT ![t] = r]
                                /\ (r.pc = "send") <=> (r.left > 0)
  BY UnstackEffect
<1>3. /\ unstack \in Seq(UnstackState) /\ t \in 1 .. Len(unstack)
      /\ DOMAIN unstack = DOMAIN tails
  BY Domains, LenProperties DEF QueueType
<1>4. /\ unstack' \in Seq(UnstackState) /\ Len(unstack') = Len(unstack)
      /\ DOMAIN unstack' = DOMAIN unstack
      /\ \A u \in DOMAIN tails : u # t => unstack'[u] = unstack[u]
      /\ unstack'[t] = r
  BY <1>2, <1>3, ExceptSeq
<1>5. /\ out \in Seq(DOMAIN tails) /\ Len(out) \in Nat
  BY LenProperties DEF QueueType
<1>a. \A u : Count(Append(out, t), u) = IF t = u THEN Count(out, u) + 1 ELSE Count(out, u)
  BY <1>5, CountAppend
<1>6. out' \in Seq(DOMAIN tails) /\ Len(out') <= ChannelCap
  <2>1. CASE out' = out
    BY <2>1 DEF QueueType
  <2>2. CASE Len(out) < ChannelCap /\ out' = Append(out, t)
    BY <1>0, <1>5, <2>2, AppendProperties
  <2> QED BY <1>1, <2>1, <2>2
<1>7. QueueType'
  <2>1. \A u \in DOMAIN unstack' : (unstack'[u].pc = "send") <=> (unstack'[u].left > 0)
    BY <1>2, <1>3, <1>4 DEF QueueType
  <2> QED BY <1>1, <1>4, <1>6, <2>1 DEF QueueType
<1>8. ASSUME NEW u \in DOMAIN tails, Sole(tails[u].id)
      PROVE  IF Stopped(u) THEN late[u] + Count(out, u)' + Owed(u)' <= ChannelCap + MaxRead
                           ELSE late[u] = 0
  <2>1. IF Stopped(u) THEN late[u] + Count(out, u) + Owed(u) <= ChannelCap + MaxRead
                      ELSE late[u] = 0
    BY <1>8 DEF StaleInv
  <2>2. /\ late[u] \in Nat /\ Count(out, u) \in Nat /\ Owed(u) \in Nat
    BY Domains, OwedBound
  <2>3. Owed(u)' \in Nat
    <3>1. unstack'[u] \in UnstackState
      BY <1>3, <1>4, LenProperties, ElementOfSeq
    <3> QED BY <1>0, <3>1 DEF Owed, UnstackState
  <2>4. CASE u # t
    <3>1. Owed(u)' = Owed(u)
      BY <1>4, <2>4 DEF Owed
    <3>2. Count(out', u) = Count(out, u)
      BY <1>1, <1>a, <2>4
    <3> QED BY <2>1, <3>1, <3>2
  <2>5. CASE u = t
    <3>1. Count(out', t) = Count(out, t) + (IF out' = out THEN 0 ELSE 1)
      <4>1. CASE out' = out
        BY <2>2, <2>5, <4>1
      <4>2. CASE out' # out
        BY <1>1, <1>a, <4>2
      <4> QED BY <4>1, <4>2
    <3>2. CASE Stopped(t)
      BY <1>0, <1>1, <2>1, <2>2, <2>3, <2>5, <3>1, <3>2, SMTT(60)
    <3>3. CASE ~Stopped(t)
      BY <2>1, <2>5, <3>3
    <3> QED BY <2>5, <3>2, <3>3
  <2> QED BY <2>4, <2>5
<1>9. StaleInv'
  BY <1>1, <1>8 DEF StaleInv, Stopped
<1> QED BY <1>7, <1>9

\* The hub takes the first event of the channel; it is late only if its tail ended.
LEMMA ReceiveKeeps ==
  ASSUME DynamicInv, QueueType, StaleInv, HubReceive
  PROVE  QueueType' /\ StaleInv'
<1>0. MaxRead \in Nat /\ ChannelCap \in Nat
  BY RebootAssumption
<1>a. TypeOK /\ OnlyLastLives
  BY DEF DynamicInv, PassInv
<1>1. /\ UNCHANGED <<tails, logQueue, unstack, reads>> /\ out # <<>> /\ out' = Tail(out)
      /\ late' = IF Superseded(Head(out)) THEN [late EXCEPT ![Head(out)] = @ + 1] ELSE late
  BY DEF HubReceive, vars
<1>2. PICK h : h = Head(out)
  OBVIOUS
<1>3. /\ h \in DOMAIN tails /\ out \in Seq(DOMAIN tails) /\ out' \in Seq(DOMAIN tails)
      /\ Len(out') <= ChannelCap
  <2>1. out \in Seq(DOMAIN tails) /\ Len(out) <= ChannelCap
    BY DEF QueueType
  <2> QED BY <1>0, <1>1, <1>2, <2>1, HeadTailProperties, LenProperties
<1>4. /\ late \in Seq(Nat) /\ h \in 1 .. Len(late) /\ late[h] + 1 \in Nat
      /\ late[h] \in Nat
  BY <1>a, <1>3, Domains, LenProperties, SMTT(60) DEF QueueType
<1>5. /\ late' \in Seq(Nat) /\ Len(late') = Len(late)
      /\ \A u \in DOMAIN tails : u # h => late'[u] = late[u]
      /\ late'[h] = IF Superseded(h) THEN late[h] + 1 ELSE late[h]
  <2>1. CASE Superseded(h)
    <3>1. late' = [late EXCEPT ![h] = late[h] + 1]
      BY <1>1, <1>2, <2>1
    <3>2. \A u \in DOMAIN tails : u \in 1 .. Len(late)
      BY <1>a, <1>4, Domains, LenProperties
    <3> QED BY <1>4, <2>1, <3>1, <3>2, ExceptSeq
  <2>2. CASE ~Superseded(h)
    BY <1>1, <1>2, <1>4, <2>2
  <2> QED BY <2>1, <2>2
<1>6. QueueType'
  BY <1>1, <1>3, <1>5 DEF QueueType
<1>7. Superseded(h) /\ Sole(tails[h].id) => Stopped(h)
  <2>1. \A n \in DOMAIN tails : n \in Nat
    BY <1>a, Domains
  <2> QED BY <1>a, <1>3, <2>1 DEF Superseded, OnlyLastLives, Stopped
<1>8. ASSUME NEW u \in DOMAIN tails, Sole(tails[u].id)
      PROVE  IF Stopped(u) THEN late'[u] + Count(out, u)' + Owed(u) <= ChannelCap + MaxRead
                           ELSE late'[u] = 0
  <2>1. IF Stopped(u) THEN late[u] + Count(out, u) + Owed(u) <= ChannelCap + MaxRead
                      ELSE late[u] = 0
    BY <1>8 DEF StaleInv
  <2>2. /\ late[u] \in Nat /\ Count(out, u) \in Nat /\ Owed(u) \in Nat
    BY <1>a, Domains, OwedBound
  <2>3. Count(out', u) \in Nat
    BY <1>3, CountType
  <2>4. Count(out, u) = IF h = u THEN Count(out', u) + 1 ELSE Count(out', u)
    BY <1>1, <1>2, <1>3, CountTail
  <2>5. CASE u # h
    BY <1>5, <2>1, <2>4, <2>5
  <2>6. CASE u = h
    <3>1. CASE Superseded(h)
      BY <1>0, <1>5, <1>7, <1>8, <2>1, <2>2, <2>3, <2>4, <2>6, <3>1
    <3>2. CASE ~Superseded(h)
      BY <1>0, <1>5, <2>1, <2>2, <2>3, <2>4, <2>6, <3>2, SMTT(60)
    <3> QED BY <3>1, <3>2
  <2> QED BY <2>5, <2>6
<1>9. StaleInv'
  BY <1>1, <1>8 DEF StaleInv, Stopped, Owed
<1> QED BY <1>6, <1>9

-----------------------------------------------------------------------------
(* Theorems *)

\* In the beginning there is no tail, and nothing is late.
LEMMA BootStarts == BootInit => BootInv
<1> SUFFICES ASSUME BootInit PROVE BootInv
  OBVIOUS
<1>0. MaxReads \in Nat /\ ChannelCap \in Nat
  BY RebootAssumption
<1>1. Init /\ tails = <<>> /\ logQueue = <<>> /\ unstack = <<>> /\ out = <<>> /\ reads = 0
      /\ late = <<>>
  BY DEF BootInit, Init
<1>2. DynamicInv
  BY <1>1, TypeInit, PassInit, StartsInit DEF DynamicInv
<1>3. QueueType
  BY <1>0, <1>1, EmptySeq DEF QueueType
<1>4. StaleInv
  BY <1>1 DEF StaleInv
<1> QED BY <1>2, <1>3, <1>4 DEF BootInv

\* Every step of Reboot keeps the invariant.
LEMMA BootKeeps == BootInv /\ [BootNext]_bootVars => BootInv'
<1> SUFFICES ASSUME BootInv, [BootNext]_bootVars PROVE BootInv'
  OBVIOUS
<1>1. DynamicInv /\ TypeOK /\ QueueType /\ StaleInv
  BY DEF BootInv, DynamicInv
<1>2. DynamicInv'
  BY <1>1, BootStepIsStep, TypeStep, PassStepKeeps, StartsStep DEF DynamicInv
<1>3. TypeOK'
  BY <1>2 DEF DynamicInv
<1>4. CASE Files \/ Passing \/ UNCHANGED bootVars
  <2>1. UNCHANGED <<tails, queueVars>>
    BY <1>4 DEF Files, Passing, bootVars, vars, Appear, Disappear, PruneOne, Glob,
                SkipRunning, EndPass
  <2> QED BY <1>1, <1>3, <2>1, QueuesFrame, <1>2 DEF BootInv
<1>5. CASE StartBoot
  BY <1>1, <1>2, <1>5, StartBootKeeps DEF BootInv
<1>6. CASE HubReceive
  BY <1>1, <1>2, <1>6, ReceiveKeeps DEF BootInv
<1>7. ASSUME NEW t \in DOMAIN tails, Tailing(t) PROVE BootInv'
  <2>1. TailStep(t) /\ UNCHANGED queueVars
    BY <1>7 DEF Tailing
  <2>2. /\ DOMAIN tails' = DOMAIN tails
        /\ \A u \in DOMAIN tails :
             /\ tails'[u].id = tails[u].id
             /\ tails[u].pc = "ended" => tails'[u].pc = "ended"
    BY <1>1, <2>1, TailEffect
  <2> QED BY <1>1, <1>2, <1>3, <2>1, <2>2, QueuesFrame DEF BootInv
<1>8. ASSUME NEW t \in DOMAIN tails, TailReads(t) PROVE BootInv'
  BY <1>1, <1>2, <1>8, ReadsKeep DEF BootInv
<1>9. ASSUME NEW t \in DOMAIN tails, Unstacking(t) PROVE BootInv'
  BY <1>1, <1>2, <1>9, UnstackKeeps DEF BootInv
<1> QED BY <1>4, <1>5, <1>6, <1>7, <1>8, <1>9 DEF BootNext

\* BootInv holds in every reachable state, whatever identifiers the paths hold.
THEOREM BootInvariant == BootSpec => []BootInv
BY BootStarts, BootKeeps, PTL DEF BootSpec

\* Every variable keeps its type, and outputChannel holds no more than fits.
THEOREM RebootTypeOK == BootSpec => []BootTypeOK
<1>1. BootInv => BootTypeOK
  BY BootParts DEF BootInv, DynamicInv
<1> QED BY <1>1, BootInvariant, PTL

\* An instance whose identifier one path holds sends its clients a bounded number of
\* events of an old boot after the reset of the next.
SoleStaleIsBounded ==
  \A t \in DOMAIN tails : Sole(tails[t].id) => late[t] <= ChannelCap + MaxRead

\* What is late of a tail is part of the sum that is bounded.
LEMMA StaleBound == BootInv => SoleStaleIsBounded
<1> SUFFICES ASSUME BootInv, NEW t \in DOMAIN tails, Sole(tails[t].id)
             PROVE  late[t] <= ChannelCap + MaxRead
  BY DEF SoleStaleIsBounded
<1>0. MaxRead \in Nat /\ ChannelCap \in Nat
  BY RebootAssumption
<1>1. TypeOK /\ QueueType
  BY DEF BootInv, DynamicInv
<1>2. late[t] \in Nat /\ Count(out, t) \in Nat /\ Owed(t) \in Nat
  BY <1>1, Domains, OwedBound
<1>3. IF Stopped(t) THEN late[t] + Count(out, t) + Owed(t) <= ChannelCap + MaxRead
                    ELSE late[t] = 0
  BY DEF BootInv, StaleInv
<1> QED BY <1>0, <1>2, <1>3

\* However much of the log of the old boot was queued: the channel and one read.
THEOREM RebootSoleStale == BootSpec => []SoleStaleIsBounded
BY StaleBound, BootInvariant, PTL

\* ... of every instance, where no two paths hold one identifier.
THEOREM RebootStaleIsBounded ==
  ASSUME \A id \in AnyId : Sole(id)
  PROVE  BootSpec => []StaleIsBounded
<1>1. BootInv => StaleIsBounded
  <2> SUFFICES ASSUME BootInv, NEW t \in DOMAIN late PROVE late[t] <= ChannelCap + MaxRead
    BY DEF StaleIsBounded
  <2>1. TypeOK /\ QueueType
    BY DEF BootInv, DynamicInv
  <2>2. t \in DOMAIN tails
    BY <2>1, Domains
  <2>3. tails[t].id \in AnyId
    <3>1. tails[t] \in TailState
      BY <2>1, <2>2, LenProperties, ElementOfSeq DEF TypeOK
    <3> QED BY <3>1 DEF TailState
  <2> QED BY <2>2, <2>3, StaleBound DEF SoleStaleIsBounded
<1> QED BY <1>1, BootInvariant, PTL

\* What holds of the passes and tails holds of them with their queues: no instance has
\* two tails, and each boot but the first is announced once.
THEOREM RebootSoleTail == BootSpec => []SoleTail
BY BootImplementsDynamic, DynamicSoleTail, PTL
=============================================================================
