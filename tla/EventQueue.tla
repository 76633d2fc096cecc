----------------------------- MODULE EventQueue -----------------------------
(***************************************************************************)
(* What the tail of one log file promises to the consumer of its events:   *)
(* a first-in first-out queue, filled by the watcher, that hands events    *)
(* over one by one in order, never loses, repeats or reorders one, and     *)
(* drops what is left in one case only: the tail of a dynamic server was   *)
(* stopped, after which nothing is found any more.                         *)
(***************************************************************************)
EXTENDS Naturals, Sequences

VARIABLES
  stoppable, \* whether the tail may be stopped: dynamic servers
  stopped,   \* whether it was
  waiting,   \* events found in the file and not handed over yet
  channel    \* events handed over and not received yet

vars == <<stoppable, stopped, waiting, channel>>

Init ==
  /\ stoppable \in BOOLEAN /\ stopped = FALSE
  /\ waiting = <<>> /\ channel = <<>>

IsPrefixOf(s, t) == Len(s) <= Len(t) /\ SubSeq(t, 1, Len(s)) = s

\* The watcher finds some events at once.
Found ==
  /\ ~stopped
  /\ IsPrefixOf(waiting, waiting')
  /\ UNCHANGED <<stoppable, stopped, channel>>

HandOver ==
  /\ waiting # <<>>
  /\ channel' = Append(channel, Head(waiting))
  /\ waiting' = Tail(waiting)
  /\ UNCHANGED <<stoppable, stopped>>

Receive ==
  /\ channel # <<>>
  /\ channel' = Tail(channel)
  /\ UNCHANGED <<stoppable, stopped, waiting>>

Stop ==
  /\ stoppable /\ ~stopped
  /\ stopped' = TRUE
  /\ UNCHANGED <<stoppable, waiting, channel>>

Drop == stopped /\ waiting' = <<>> /\ UNCHANGED <<stoppable, stopped, channel>>

Next == Found \/ HandOver \/ Receive \/ Stop \/ Drop

Spec == Init /\ [][Next]_vars
=============================================================================
