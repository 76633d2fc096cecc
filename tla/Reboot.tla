------------------------------- MODULE Reboot -------------------------------
(***************************************************************************)
(* An instance that starts again, from its log files to the hub: the       *)
(* passes and tails of DynamicServer, and for each tail the logQueue and   *)
(* the unstackDynamic started with it (unstacker.go), which all send to    *)
(* the one outputChannel the hub receives from.                            *)
(*                                                                         *)
(* sendResetMessage writes to the clients and passes the channel by, so    *)
(* that events of an old boot can follow the reset of the new one.  What a *)
(* read holds is the number of events it expands to: module LogTail has    *)
(* the detail.                                                             *)
(***************************************************************************)
EXTENDS DynamicServer

CONSTANTS
  ChannelCap,   \* capacity of outputChannel (16)
  MaxRead,      \* bound: events in one read
  MaxReads      \* bound: reads of all tails together

ASSUME RebootAssumption == {ChannelCap, MaxRead, MaxReads} \subseteq Nat \ {0}

VARIABLES
  logQueue,   \* for each tail the reads not taken yet
  unstack,    \* for each tail unstackDynamic: pc, events left of the read it took
  out,        \* outputChannel: for each event the tail it comes from
  reads,      \* reads so far
  late        \* auxiliary: for each tail the events the hub took after a later boot

queueVars == <<logQueue, unstack, out, reads, late>>
bootVars == <<vars, queueVars>>

BootInit ==
  /\ Init
  /\ logQueue = <<>> /\ unstack = <<>> /\ out = <<>> /\ reads = 0 /\ late = <<>>

-----------------------------------------------------------------------------
(* The steps of DynamicServer *)

\* A tail starts with a queue and a goroutine of its own.
StartBoot ==
  /\ StartTail
  /\ logQueue' = Append(logQueue, <<>>)
  /\ unstack' = Append(unstack, [pc |-> "poll", left |-> 0])
  /\ late' = Append(late, 0)
  /\ UNCHANGED <<out, reads>>

Passing == (PruneOne \/ Glob \/ SkipRunning \/ EndPass) /\ UNCHANGED queueVars

Tailing(t) == TailStep(t) /\ UNCHANGED queueVars

Files == (\E f \in File : Appear(f) \/ Disappear(f)) /\ UNCHANGED queueVars

-----------------------------------------------------------------------------
(* The queues and the channel *)

\* watchServ queues what it read.  A read of blank lines makes no event; one of fewer
\* than MaxRead events takes the last steps of one of MaxRead.
TailReads(t) ==
  /\ Up /\ tails[t].pc = "watch" /\ reads < MaxReads
  /\ \E n \in {0, MaxRead} : logQueue' = [logQueue EXCEPT ![t] = Append(@, n)]
  /\ reads' = reads + 1
  /\ UNCHANGED <<vars, unstack, out, late>>

\* Whether *stop was set: the pass sees the end of a tail no sooner.
Stopped(t) == tails[t].pc = "ended"

\* Mutant of Again: continue does not look at *stop, only an empty queue does.
AgainUnchecked(t) == [pc |-> "poll", left |-> 0]

\* After a read, the condition of the loop: it is false if *stop is set by then.
\* At "poll" it was true when it was read, and may be read again.
Again(t) == [pc |-> IF Stopped(t) THEN "done" ELSE "poll", left |-> 0]

UnstackTake(t) ==
  /\ Up /\ unstack[t].pc = "poll" /\ logQueue[t] # <<>>
  /\ unstack' = [unstack EXCEPT ![t] =
       IF Head(logQueue[t]) = 0 THEN Again(t) ELSE [pc |-> "send", left |-> Head(logQueue[t])]]
  /\ logQueue' = [logQueue EXCEPT ![t] = Tail(@)]
  /\ UNCHANGED <<vars, out, reads, late>>

\* output <- Event{...} waits for room.
UnstackSend(t) ==
  /\ Up /\ unstack[t].pc = "send" /\ Len(out) < ChannelCap
  /\ out' = Append(out, t)
  /\ unstack' = [unstack EXCEPT ![t] =
       IF unstack[t].left = 1 THEN Again(t) ELSE [pc |-> "send", left |-> @.left - 1]]
  /\ UNCHANGED <<vars, logQueue, reads, late>>

\* Mutant of UnstackStop: stop is never seen.
UnstackStopNever(t) == Up /\ unstack[t].pc = "poll" /\ Stopped(t) /\ UNCHANGED bootVars

UnstackStop(t) ==
  /\ Up /\ unstack[t].pc = "poll" /\ Stopped(t)
  /\ unstack' = [unstack EXCEPT ![t].pc = "done"]
  /\ UNCHANGED <<vars, logQueue, out, reads, late>>

\* A later tail of the same instance was started, and its reset sent.
Superseded(t) == \E n \in DOMAIN tails : n > t /\ tails[n].id = tails[t].id

HubReceive ==
  /\ Up /\ out # <<>>
  /\ out' = Tail(out)
  /\ late' = IF Superseded(Head(out)) THEN [late EXCEPT ![Head(out)] = @ + 1] ELSE late
  /\ UNCHANGED <<vars, logQueue, unstack, reads>>

Unstacking(t) == UnstackTake(t) \/ UnstackSend(t) \/ UnstackStop(t)

-----------------------------------------------------------------------------
BootNext ==
  \/ Files \/ Passing \/ StartBoot \/ HubReceive
  \/ \E t \in DOMAIN tails : Tailing(t) \/ TailReads(t) \/ Unstacking(t)

BootSpec == BootInit /\ [][BootNext]_bootVars

\* As in DynamicServer; the hub receives, and every unstackDynamic goes on.
FairBootSpec ==
  /\ BootSpec
  /\ WF_bootVars(Passing \/ StartBoot)
  /\ WF_bootVars(HubReceive)
  /\ \A t \in 1 .. MaxAppear :
       /\ WF_bootVars(t \in DOMAIN tails /\ Tailing(t))
       /\ WF_bootVars(t \in DOMAIN tails /\ Unstacking(t))

-----------------------------------------------------------------------------
(* Properties *)

UnstackState == [pc : {"poll", "send", "done"}, left : 0 .. MaxRead]

\* Every variable has its type; outputChannel never holds more than fits.
BootTypeOK ==
  /\ TypeOK
  /\ logQueue \in Seq(Seq(0 .. MaxRead)) /\ Len(logQueue) = Len(tails)
  /\ unstack \in Seq(UnstackState)
  /\ Len(unstack) = Len(tails)
  /\ \A t \in DOMAIN unstack : (unstack[t].pc = "send") <=> (unstack[t].left > 0)
  /\ out \in Seq(DOMAIN tails) /\ Len(out) <= ChannelCap
  /\ reads \in 0 .. MaxReads
  /\ late \in Seq(Nat) /\ Len(late) = Len(tails)

\* After the reset of a reboot the clients get at most what the channel held and one
\* read of the old boot, however much of its log was queued (unstacker.go:46,
\* dynamic.go:55, 70).
StaleIsBounded == \A t \in DOMAIN late : late[t] <= ChannelCap + MaxRead

\* A tail that ended is silent in the end, also while the tail of the next boot fills
\* the same channel: its goroutine returns, and none of its events is left.
OldBootFallsSilent ==
  \A t \in 1 .. MaxAppear :
    (t \in DOMAIN tails /\ Stopped(t)) ~>
      \/ ~Up
      \/ t \in DOMAIN unstack /\ unstack[t].pc = "done" /\ \A k \in DOMAIN out : out[k] # t
=============================================================================
