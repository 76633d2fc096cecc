-------------------------------- MODULE Hub --------------------------------
(***************************************************************************)
(* The broadcast core of LogRenderer: hub.go and client.go.                *)
(*                                                                         *)
(* Goroutines: hub.run; for each client the HTTP handler (serveWs), then   *)
(* readPump (with handleMessage) and writer; for each dynamic server the   *)
(* watchForInstances loop, which creates subscription lists and calls      *)
(* sendResetMessage.  One action is what a goroutine does between two      *)
(* operations on memory it shares with the others.                         *)
(*                                                                         *)
(* Names of servers are tuples: <<tag>> is a classic server and            *)
(* <<tag, instance>> an instance of a dynamic one ("tag=>instance" on the  *)
(* wire).  subs holds both maps of the hub, told apart by the name's       *)
(* length.                                                                 *)
(***************************************************************************)
EXTENDS GoSlice

CONSTANTS
  Client,        \* the *Client objects, one for each accepted connection
  ClassicTag,    \* tags of the configured classic servers
  DynamicTag,    \* tags of the configured dynamic servers
  Instance,      \* identifiers of instances of dynamic servers
  UnknownName,   \* names a peer may send that no server ever has
  Unset,         \* content of a cell of an array that was never written
  SendCap,       \* capacity of client.send (256 in the code)
  MaxEvents,     \* bound: events the hub takes from eventChan
  MaxRequests,   \* bound: messages a peer sends on one connection
  MaxBoots       \* bound: instances found by the passes of watchForInstances

ClassicName == {<<t>> : t \in ClassicTag}
DynamicName == DynamicTag \X Instance
Name == ClassicName \cup DynamicName \cup UnknownName

\* client.server of a new client: the empty string.
NoServer == <<"">>

ASSUME HubAssumption ==
  /\ SendCap \in Nat \ {0}
  /\ MaxEvents \in Nat /\ MaxRequests \in Nat /\ MaxBoots \in Nat
  /\ Unset \notin Client
  /\ NoServer \notin ClassicName
  /\ UnknownName \cap (ClassicName \cup DynamicName) = {}

VARIABLES
  status,     \* "up", or what ended the process
  clients,    \* hub.clients: registered client -> server
  connected,  \* client.connected
  closed,     \* whether client.send is closed
  server,     \* client.server
  send,       \* the buffer of client.send
  subs,       \* hub.clientsByServer and hub.clientsByDynamicServer
  heap,       \* the arrays behind the lists of subs
  hub,        \* where hub.run is: pc, the list it iterates and the index
  audience,   \* auxiliary: the elements of that list when the loop began
  evts,       \* auxiliary: the topics of the events taken so far
  rp,         \* readPump of each client: pc, the request, the list it read
  nreq,       \* number of messages the peer of each client sent
  asked,      \* auxiliary: the names each client was listed under
  wr,         \* writer of each client: pc, the frame under construction, n - i
  conn,       \* the websocket connection of each client
  wire,       \* auxiliary: the messages flushed to each peer
  rs,         \* watchForInstances of each dynamic server
  boots       \* number of instances found

hubVars  == <<clients, connected, closed, hub, audience, evts>>
listVars == <<subs, heap>>
readVars == <<rp, nreq, server, asked>>
wireVars == <<wr, conn, wire>>
bootVars == <<rs, boots>>
vars == <<status, send, hubVars, listVars, readVars, wireVars, bootVars>>

\* The process is running: every action needs it.
Up == status = "up"

\* Messages: an event of eventChan, numbered in the order the hub took them;
\* the reply to an unknown name; the reset of sendResetMessage.
EventMsg(n) == [type |-> "event", n |-> n]
ErrorMsg == [type |-> "error", n |-> 0]
ResetMsg == [type |-> "reset", n |-> 0]

Full(c) == Len(send[c]) >= SendCap

Push(c, m) == send' = [send EXCEPT ![c] = Append(@, m)]

Init ==
  /\ status = "up"
  /\ clients = [c \in {} |-> NoServer]
  /\ connected = [c \in Client |-> FALSE]
  /\ closed = [c \in Client |-> FALSE]
  /\ server = [c \in Client |-> NoServer]
  /\ send = [c \in Client |-> <<>>]
  /\ subs = [n \in ClassicName |-> EmptySlice]
  /\ heap = <<>>
  /\ hub = [pc |-> "select", list |-> EmptySlice, idx |-> 1]
  /\ audience = {}
  /\ evts = <<>>
  /\ rp = [c \in Client |-> [pc |-> "new", req |-> NoServer, list |-> EmptySlice]]
  /\ nreq = [c \in Client |-> 0]
  /\ asked = [c \in Client |-> {}]
  /\ wr = [c \in Client |-> [pc |-> "new", batch |-> <<>>, left |-> 0]]
  /\ conn = [c \in Client |-> "new"]
  /\ wire = [c \in Client |-> <<>>]
  /\ rs = [d \in DynamicTag |-> [pc |-> "idle", list |-> EmptySlice, idx |-> 1]]
  /\ boots = 0

-----------------------------------------------------------------------------
(* hub.disconnectClient and the select cases of hub.run *)

\* The first index of c in the list of the server, if it is there.
Listed(c, srv) ==
  /\ srv \in DOMAIN subs
  /\ \E i \in 1 .. subs[srv].len : Elements(heap, subs[srv])[i] = c

IndexIn(c, srv) ==
  CHOOSE i \in 1 .. subs[srv].len :
    /\ Elements(heap, subs[srv])[i] = c
    /\ \A j \in 1 .. i - 1 : Elements(heap, subs[srv])[j] # c

Unlist(c, srv) ==
  IF Listed(c, srv)
  THEN /\ heap' = HeapAfterRemove(heap, subs[srv], IndexIn(c, srv))
       /\ subs' = [subs EXCEPT ![srv] = SliceAfterRemove(@)]
  ELSE UNCHANGED listVars

\* close(c.send): closing it twice panics.
CloseSend(c) ==
  /\ closed' = [closed EXCEPT ![c] = TRUE]
  /\ status' = IF closed[c] THEN "hub panic" ELSE status

\* Mutants of DisconnectClient: no test of membership; the flag is kept; the
\* channel is not closed.
DisconnectUnchecked(c, srv) ==
  /\ connected' = [connected EXCEPT ![c] = FALSE]
  /\ clients' = [x \in DOMAIN clients \ {c} |-> clients[x]]
  /\ CloseSend(c)
  /\ Unlist(c, srv)

DisconnectKeepsFlag(c, srv) ==
  IF c \in DOMAIN clients
  THEN /\ clients' = [x \in DOMAIN clients \ {c} |-> clients[x]]
       /\ CloseSend(c)
       /\ Unlist(c, srv)
       /\ UNCHANGED connected
  ELSE UNCHANGED <<status, clients, connected, closed, listVars>>

DisconnectLeavesOpen(c, srv) ==
  IF c \in DOMAIN clients
  THEN /\ connected' = [connected EXCEPT ![c] = FALSE]
       /\ clients' = [x \in DOMAIN clients \ {c} |-> clients[x]]
       /\ Unlist(c, srv)
       /\ UNCHANGED <<closed, status>>
  ELSE UNCHANGED <<status, clients, connected, closed, listVars>>

DisconnectClient(c, srv) ==
  IF c \in DOMAIN clients
  THEN /\ connected' = [connected EXCEPT ![c] = FALSE]
       /\ clients' = [x \in DOMAIN clients \ {c} |-> clients[x]]
       /\ CloseSend(c)
       /\ Unlist(c, srv)
  ELSE UNCHANGED <<status, clients, connected, closed, listVars>>

\* serveWs hands the new client to the hub, then starts its two goroutines.
ServeWs(c) ==
  /\ Up /\ hub.pc = "select" /\ rp[c].pc = "new"
  /\ clients' = [x \in DOMAIN clients \cup {c} |->
                   IF x = c THEN server[c] ELSE clients[x]]
  /\ connected' = [connected EXCEPT ![c] = TRUE]
  /\ rp' = [rp EXCEPT ![c].pc = "loop"]
  /\ wr' = [wr EXCEPT ![c].pc = "idle"]
  /\ conn' = [conn EXCEPT ![c] = "open"]
  /\ UNCHANGED <<status, send, closed, hub, audience, evts, listVars, nreq,
                 server, asked, wire, bootVars>>

\* case client := <-hub.unregister, sent by the deferred call of readPump.
Unregister(c) ==
  /\ Up /\ hub.pc = "select" /\ rp[c].pc = "exit"
  /\ DisconnectClient(c, IF c \in DOMAIN clients THEN clients[c] ELSE NoServer)
  /\ rp' = [rp EXCEPT ![c].pc = "close"]
  /\ UNCHANGED <<send, hub, audience, evts, nreq, server, asked, wireVars,
                 bootVars>>

\* case evt := <-eventChan.  Only known servers and instances have a watcher.
TakeEvent(topic) ==
  /\ Up /\ hub.pc = "select" /\ Len(evts) < MaxEvents
  /\ evts' = Append(evts, topic)
  /\ hub' = [hub EXCEPT !.pc = "fetch"]
  /\ UNCHANGED <<status, send, clients, connected, closed, audience, listVars,
                 readVars, wireVars, bootVars>>

\* The event being broadcast: its topic, and its Server field, which is the
\* tag alone even for an instance of a dynamic server.
Topic == evts[Len(evts)]
EvtServer == <<Topic[1]>>

\* range hub.getClientsSubscribedTo(evt): the header is read once, no lock.
FetchSubscribers ==
  /\ Up /\ hub.pc = "fetch"
  /\ hub' = [pc |-> "broadcast", list |-> subs[Topic], idx |-> 1]
  /\ audience' = {Elements(heap, subs[Topic])[i] : i \in 1 .. subs[Topic].len}
  /\ UNCHANGED <<status, send, clients, connected, closed, evts, listVars,
                 readVars, wireVars, bootVars>>

\* The client at the index of the loop, read from memory at that moment.
Current == CellsOf(heap, hub.list)[hub.idx]

InBroadcast == hub.pc = "broadcast" /\ hub.idx <= hub.list.len

SkipDisconnected ==
  /\ Up /\ InBroadcast /\ ~connected[Current]
  /\ hub' = [hub EXCEPT !.idx = @ + 1]
  /\ UNCHANGED <<status, send, clients, connected, closed, audience, evts,
                 listVars, readVars, wireVars, bootVars>>

\* case client.send <- encodedEventMsg: a send on a closed channel panics.
SendEvent ==
  /\ Up /\ InBroadcast /\ connected[Current]
  /\ \/ /\ closed[Current]
        /\ status' = "hub panic"
        /\ UNCHANGED <<send, hub>>
     \/ /\ ~closed[Current] /\ ~Full(Current)
        /\ Push(Current, EventMsg(Len(evts)))
        /\ hub' = [hub EXCEPT !.idx = @ + 1]
        /\ UNCHANGED status
  /\ UNCHANGED <<clients, connected, closed, audience, evts, listVars,
                 readVars, wireVars, bootVars>>

\* default: the buffer is full, the hub drops the client.
Evicting == InBroadcast /\ connected[Current] /\ ~closed[Current] /\ Full(Current)

\* Mutant of EvictClient: no default case, the hub waits for room.
EvictNever == Up /\ Evicting /\ Len(send[Current]) < SendCap /\ UNCHANGED vars

EvictClient ==
  /\ Up /\ Evicting
  /\ DisconnectClient(Current, EvtServer)
  /\ hub' = [hub EXCEPT !.idx = @ + 1]
  /\ UNCHANGED <<send, audience, evts, readVars, wireVars, bootVars>>

EndBroadcast ==
  /\ Up /\ hub.pc = "broadcast" /\ hub.idx > hub.list.len
  /\ hub' = [pc |-> "select", list |-> EmptySlice, idx |-> 1]
  /\ audience' = {}
  /\ UNCHANGED <<status, send, clients, connected, closed, evts, listVars,
                 readVars, wireVars, bootVars>>

-----------------------------------------------------------------------------
(* client.readPump and client.handleMessage *)

\* for c.connected: the flag is read without synchronisation.
LoopCheck(c) ==
  /\ Up /\ rp[c].pc = "loop"
  /\ rp' = [rp EXCEPT ![c].pc = IF connected[c] THEN "read" ELSE "exit"]
  /\ UNCHANGED <<status, send, hubVars, listVars, nreq, server, asked, wireVars,
                 bootVars>>

\* ReadMessage returns what the peer sent.
ReadMessage(c, name) ==
  /\ Up /\ rp[c].pc = "read" /\ conn[c] = "open" /\ nreq[c] < MaxRequests
  /\ rp' = [rp EXCEPT ![c] = [@ EXCEPT !.pc = "lookup", !.req = name]]
  /\ nreq' = [nreq EXCEPT ![c] = @ + 1]
  /\ UNCHANGED <<status, send, hubVars, listVars, server, asked, wireVars,
                 bootVars>>

\* Mutant of ReadFails: the deferred call forgets to unregister.
ReadFailsSilently(c) ==
  /\ Up /\ rp[c].pc = "read"
  /\ rp' = [rp EXCEPT ![c].pc = "close"]
  /\ UNCHANGED <<status, send, hubVars, listVars, nreq, server, asked, wireVars,
                 bootVars>>

\* ReadMessage fails: the peer left, the connection was closed at this end, or
\* no pong came within pongWait.
ReadFails(c) ==
  /\ Up /\ rp[c].pc = "read"
  /\ rp' = [rp EXCEPT ![c].pc = "exit"]
  /\ UNCHANGED <<status, send, hubVars, listVars, nreq, server, asked, wireVars,
                 bootVars>>

\* clients, found := c.hub.clientsByServer[server]: the list is read before the
\* mutex is taken.
Lookup(c) ==
  /\ Up /\ rp[c].pc = "lookup"
  /\ rp' = [rp EXCEPT ![c] =
              IF rp[c].req \in DOMAIN subs
              THEN [@ EXCEPT !.pc = "store", !.list = subs[rp[c].req]]
              ELSE [@ EXCEPT !.pc = "reply"]]
  /\ UNCHANGED <<status, send, hubVars, listVars, nreq, server, asked, wireVars,
                 bootVars>>

\* append to the list read by Lookup and store the result, under the mutex.
Store(c) ==
  /\ Up /\ rp[c].pc = "store"
  /\ heap' = HeapAfterAppend(heap, rp[c].list, c, rp[c].req, Unset)
  /\ subs' = [subs EXCEPT ![rp[c].req] = SliceAfterAppend(heap, rp[c].list)]
  /\ server' = [server EXCEPT ![c] = rp[c].req]
  /\ asked' = [asked EXCEPT ![c] = @ \cup {rp[c].req}]
  /\ rp' = [rp EXCEPT ![c] = [pc |-> "loop", req |-> NoServer, list |-> EmptySlice]]
  /\ UNCHANGED <<status, send, hubVars, nreq, wireVars, bootVars>>

\* c.send <- the error message: waits for room, panics on a closed channel.
ReplyUnknown(c) ==
  /\ Up /\ rp[c].pc = "reply"
  /\ \/ /\ closed[c]
        /\ status' = "reply panic"
        /\ UNCHANGED <<send, rp>>
     \/ /\ ~closed[c] /\ ~Full(c)
        /\ Push(c, ErrorMsg)
        /\ rp' = [rp EXCEPT ![c] = [@ EXCEPT !.pc = "loop", !.req = NoServer]]
        /\ UNCHANGED status
  /\ UNCHANGED <<hubVars, listVars, nreq, server, asked, wireVars, bootVars>>

\* The deferred conn.Close, after the hub received the client on unregister.
ReadPumpClose(c) ==
  /\ Up /\ rp[c].pc = "close"
  /\ rp' = [rp EXCEPT ![c].pc = "done"]
  /\ conn' = [conn EXCEPT ![c] = "down"]
  /\ UNCHANGED <<status, send, hubVars, listVars, nreq, server, asked, wr, wire,
                 bootVars>>

-----------------------------------------------------------------------------
(* client.writer *)

\* message, ok := <-c.send, then NextWriter and the write of the message.
\* NextWriter fails once the connection is down; the message is then lost.
WriterTake(c) ==
  /\ Up /\ wr[c].pc = "idle" /\ send[c] # <<>>
  /\ send' = [send EXCEPT ![c] = Tail(@)]
  /\ \/ wr' = [wr EXCEPT ![c] =
                   [pc |-> "count", batch |-> <<Head(send[c])>>, left |-> 0]]
     \/ conn[c] = "down" /\ UNCHANGED wr
  /\ UNCHANGED <<status, hubVars, listVars, readVars, conn, wire, bootVars>>

\* Mutant of WriterCount: one message too many is expected.
WriterCountOneMore(c) ==
  /\ Up /\ wr[c].pc = "count"
  /\ wr' = [wr EXCEPT ![c] =
              [@ EXCEPT !.pc = "drain", !.left = Len(send[c]) + 1]]
  /\ UNCHANGED <<status, send, hubVars, listVars, readVars, conn, wire, bootVars>>

\* n := len(c.send)
WriterCount(c) ==
  /\ Up /\ wr[c].pc = "count"
  /\ wr' = [wr EXCEPT ![c] = [@ EXCEPT !.pc = "drain", !.left = Len(send[c])]]
  /\ UNCHANGED <<status, send, hubVars, listVars, readVars, conn, wire, bootVars>>

\* Mutants of WriterDrain: the loop has no bound; the message is put first; the
\* message is received and not written.
WriterDrainPastEnd(c) ==
  /\ Up /\ wr[c].pc = "drain" /\ send[c] # <<>>
  /\ wr' = [wr EXCEPT ![c] =
              [pc |-> "drain", batch |-> Append(@.batch, Head(send[c])),
               left |-> @.left - 1]]
  /\ send' = [send EXCEPT ![c] = Tail(@)]
  /\ UNCHANGED <<status, hubVars, listVars, readVars, conn, wire, bootVars>>

WriterDrainReversed(c) ==
  /\ Up /\ wr[c].pc = "drain" /\ wr[c].left > 0 /\ send[c] # <<>>
  /\ wr' = [wr EXCEPT ![c] =
              [pc |-> "drain", batch |-> <<Head(send[c])>> \o @.batch,
               left |-> @.left - 1]]
  /\ send' = [send EXCEPT ![c] = Tail(@)]
  /\ UNCHANGED <<status, hubVars, listVars, readVars, conn, wire, bootVars>>

WriterDrainDrops(c) ==
  /\ Up /\ wr[c].pc = "drain" /\ wr[c].left > 0 /\ send[c] # <<>>
  /\ wr' = [wr EXCEPT ![c] = [@ EXCEPT !.left = @ - 1]]
  /\ send' = [send EXCEPT ![c] = Tail(@)]
  /\ UNCHANGED <<status, hubVars, listVars, readVars, conn, wire, bootVars>>

\* One round of the loop over the queued messages: w.Write(<-c.send).
WriterDrain(c) ==
  /\ Up /\ wr[c].pc = "drain" /\ wr[c].left > 0 /\ send[c] # <<>>
  /\ wr' = [wr EXCEPT ![c] =
              [pc |-> "drain", batch |-> Append(@.batch, Head(send[c])),
               left |-> @.left - 1]]
  /\ send' = [send EXCEPT ![c] = Tail(@)]
  /\ UNCHANGED <<status, hubVars, listVars, readVars, conn, wire, bootVars>>

\* w.Close() flushes the frame; an error ends the goroutine.
WriterFlush(c) ==
  /\ Up /\ wr[c].pc = "drain" /\ wr[c].left = 0
  /\ \/ /\ conn[c] = "open"
        /\ wire' = [wire EXCEPT ![c] = @ \o wr[c].batch]
        /\ wr' = [wr EXCEPT ![c] = [@ EXCEPT !.pc = "idle", !.batch = <<>>]]
     \/ /\ conn[c] = "down"
        /\ wr' = [wr EXCEPT ![c] = [@ EXCEPT !.pc = "done", !.batch = <<>>]]
        /\ UNCHANGED wire
  /\ UNCHANGED <<status, send, hubVars, listVars, readVars, conn, bootVars>>

\* The goroutine returns, and its deferred call closes the connection, when the
\* channel is closed and drained or when a ping cannot be written.
WriterExit(c) ==
  /\ Up /\ wr[c].pc = "idle"
  /\ \/ closed[c] /\ send[c] = <<>>
     \/ conn[c] = "down"
  /\ wr' = [wr EXCEPT ![c].pc = "done"]
  /\ conn' = [conn EXCEPT ![c] = "down"]
  /\ UNCHANGED <<status, send, hubVars, listVars, readVars, wire, bootVars>>

\* The network or the peer breaks the connection.
ConnFails(c) ==
  /\ Up /\ conn[c] = "open"
  /\ conn' = [conn EXCEPT ![c] = "down"]
  /\ UNCHANGED <<status, send, hubVars, listVars, readVars, wr, wire, bootVars>>

-----------------------------------------------------------------------------
(* watchForInstances, as far as it touches the hub, and sendResetMessage *)

\* Mutant of NewInstance: the new list starts as a copy of another list's header.
NewInstanceShares(d, i) ==
  /\ Up /\ rs[d].pc = "idle" /\ boots < MaxBoots /\ <<d, i>> \notin DOMAIN subs
  /\ \E m \in DOMAIN subs :
       subs' = [n \in DOMAIN subs \cup {<<d, i>>} |->
                  IF n = <<d, i>> THEN subs[m] ELSE subs[n]]
  /\ boots' = boots + 1
  /\ UNCHANGED <<status, send, hubVars, heap, readVars, wireVars, rs>>

\* A pass finds an instance that no list exists for and creates it, unlocked.
NewInstance(d, i) ==
  /\ Up /\ rs[d].pc = "idle" /\ boots < MaxBoots /\ <<d, i>> \notin DOMAIN subs
  /\ subs' = [n \in DOMAIN subs \cup {<<d, i>>} |->
                IF n = <<d, i>> THEN EmptySlice ELSE subs[n]]
  /\ boots' = boots + 1
  /\ UNCHANGED <<status, send, hubVars, heap, readVars, wireVars, rs>>

\* A pass finds a rebooted instance: its list is kept and sendResetMessage
\* ranges over it.
RebootedInstance(d, i) ==
  /\ Up /\ rs[d].pc = "idle" /\ boots < MaxBoots /\ <<d, i>> \in DOMAIN subs
  /\ rs' = [rs EXCEPT ![d] = [pc |-> "check", list |-> subs[<<d, i>>], idx |-> 1]]
  /\ boots' = boots + 1
  /\ UNCHANGED <<status, send, hubVars, listVars, readVars, wireVars>>

ResetTarget(d) == CellsOf(heap, rs[d].list)[rs[d].idx]

\* The range loop of sendResetMessage: if c.connected.
ResetCheck(d) ==
  /\ Up /\ rs[d].pc = "check"
  /\ \/ /\ rs[d].idx > rs[d].list.len
        /\ rs' = [rs EXCEPT ![d] = [pc |-> "idle", list |-> EmptySlice, idx |-> 1]]
     \/ /\ rs[d].idx <= rs[d].list.len /\ connected[ResetTarget(d)]
        /\ rs' = [rs EXCEPT ![d].pc = "send"]
     \/ /\ rs[d].idx <= rs[d].list.len /\ ~connected[ResetTarget(d)]
        /\ rs' = [rs EXCEPT ![d].idx = @ + 1]
  /\ UNCHANGED <<status, send, hubVars, listVars, readVars, wireVars, boots>>

\* c.send <- resetMessage: a blocking send, after the flag was checked.
ResetSend(d) ==
  /\ Up /\ rs[d].pc = "send"
  /\ LET c == ResetTarget(d) IN
     \/ /\ closed[c]
        /\ status' = "reset panic"
        /\ UNCHANGED <<send, rs>>
     \/ /\ ~closed[c] /\ ~Full(c)
        /\ Push(c, ResetMsg)
        /\ rs' = [rs EXCEPT ![d] =
                    [pc |-> "check", list |-> @.list, idx |-> @.idx + 1]]
        /\ UNCHANGED status
  /\ UNCHANGED <<hubVars, listVars, readVars, wireVars, boots>>

-----------------------------------------------------------------------------
(* Maps of Go.  A write that overlaps a read or another write makes the    *)
(* runtime end the process, or goes unnoticed: both can happen.  The       *)
(* mutexes cover the stores of handleMessage and of disconnectClient, none *)
(* of the reads and not the store of watchForInstances.                    *)

\* clientsByServer, or the inner map of a dynamic server.
MapOf(name) == IF Len(name) = 1 THEN <<>> ELSE <<name[1]>>

LockedWrite(m) ==
  \/ \E c \in Client : rp[c].pc = "store" /\ MapOf(rp[c].req) = m
  \/ Evicting /\ Listed(Current, EvtServer) /\ MapOf(EvtServer) = m

UnlockedRead(m) ==
  \/ \E c \in Client : rp[c].pc = "lookup" /\ MapOf(rp[c].req) = m
  \/ hub.pc = "fetch" /\ MapOf(Topic) = m

\* A pass of watchForInstances looks an instance up, and may have to add it.
PassReads(m) == \E d \in DynamicTag : rs[d].pc = "idle" /\ boots < MaxBoots /\ m = <<d>>

PassWrites(m) ==
  /\ PassReads(m)
  /\ \E i \in Instance : <<m[1], i>> \notin DOMAIN subs

MapFault ==
  /\ Up
  /\ \E m \in {<<>>} \cup {<<d>> : d \in DynamicTag} :
       \/ LockedWrite(m) /\ (UnlockedRead(m) \/ PassReads(m))
       \/ PassWrites(m) /\ UnlockedRead(m)
  /\ status' = "map fault"
  /\ UNCHANGED <<send, hubVars, listVars, readVars, wireVars, bootVars>>

-----------------------------------------------------------------------------
Next ==
  \/ \E c \in Client :
       \/ ServeWs(c) \/ Unregister(c)
       \/ LoopCheck(c) \/ ReadFails(c) \/ Lookup(c) \/ Store(c)
       \/ ReplyUnknown(c) \/ ReadPumpClose(c)
       \/ WriterTake(c) \/ WriterCount(c) \/ WriterDrain(c)
       \/ WriterFlush(c) \/ WriterExit(c) \/ ConnFails(c)
  \/ \E c \in Client, name \in Name : ReadMessage(c, name)
  \/ \E topic \in DOMAIN subs : TakeEvent(topic)
  \/ FetchSubscribers \/ SkipDisconnected \/ SendEvent \/ EvictClient
  \/ EndBroadcast
  \/ \E d \in DynamicTag, i \in Instance :
       NewInstance(d, i) \/ RebootedInstance(d, i)
  \/ \E d \in DynamicTag : ResetCheck(d) \/ ResetSend(d)
  \/ MapFault

Spec == Init /\ [][Next]_vars

(***************************************************************************)
(* Fairness.  A goroutine that can run is run: weak fairness for the steps *)
(* of each.  A select picks among its ready cases at random, so a case     *)
(* that is ready again and again is taken: strong fairness for the         *)
(* rendezvous with the hub.  ReadMessage returns an error on a broken      *)
(* connection, and the ping of the writer (or its write deadline) finds it *)
(* too.  Nothing is assumed of peers, of the network and of the events.    *)
(***************************************************************************)
BrokenReadFails(c) == conn[c] = "down" /\ ReadFails(c)

Fairness ==
  /\ WF_vars(FetchSubscribers) /\ WF_vars(SkipDisconnected) /\ WF_vars(SendEvent)
  /\ WF_vars(EvictClient) /\ WF_vars(EndBroadcast)
  /\ \A c \in Client :
       /\ SF_vars(Unregister(c))
       /\ WF_vars(LoopCheck(c)) /\ WF_vars(BrokenReadFails(c)) /\ WF_vars(Lookup(c))
       /\ WF_vars(Store(c)) /\ WF_vars(ReplyUnknown(c)) /\ WF_vars(ReadPumpClose(c))
       /\ WF_vars(WriterTake(c)) /\ WF_vars(WriterCount(c)) /\ WF_vars(WriterDrain(c))
       /\ WF_vars(WriterFlush(c)) /\ WF_vars(WriterExit(c))
  /\ \A d \in DynamicTag : WF_vars(ResetCheck(d)) /\ WF_vars(ResetSend(d))

FairSpec == Spec /\ Fairness

-----------------------------------------------------------------------------
(* Properties *)

Slice == [arr : Nat, len : Nat]

Message == [type : {"event", "error", "reset"}, n : Nat]

HubState == [pc : {"select", "fetch", "broadcast"}, list : Slice, idx : Nat]

ReadState == [pc : {"new", "loop", "read", "lookup", "store", "reply", "exit",
                    "close", "done"},
              req : Name \cup {NoServer}, list : Slice]

WriteState == [pc : {"new", "idle", "count", "drain", "done"},
               batch : Seq(Message), left : Nat]

ResetState == [pc : {"idle", "check", "send"}, list : Slice, idx : Nat]

Array == [of : Name, cells : Seq(Client \cup {Unset})]

HubTypes ==
  /\ status \in {"up", "hub panic", "reply panic", "reset panic", "map fault"}
  /\ DOMAIN clients \subseteq Client
  /\ \A c \in DOMAIN clients : clients[c] \in Name \cup {NoServer}
  /\ connected \in [Client -> BOOLEAN]
  /\ closed \in [Client -> BOOLEAN]

LoopTypes ==
  /\ hub \in HubState
  /\ audience \subseteq Client
  /\ evts \in Seq(ClassicName \cup DynamicName)

ListTypes ==
  /\ ClassicName \subseteq DOMAIN subs
  /\ DOMAIN subs \subseteq ClassicName \cup DynamicName
  /\ \A n \in DOMAIN subs : subs[n] \in Slice
  /\ heap \in Seq(Array)

ReadTypes ==
  /\ rp \in [Client -> ReadState]
  /\ nreq \in [Client -> Nat]
  /\ server \in [Client -> Name \cup {NoServer}]
  /\ asked \in [Client -> SUBSET Name]

WireTypes ==
  /\ send \in [Client -> Seq(Message)]
  /\ wr \in [Client -> WriteState]
  /\ conn \in [Client -> {"new", "open", "down"}]
  /\ wire \in [Client -> Seq(Message)]

BootTypes == rs \in [DynamicTag -> ResetState] /\ boots \in Nat

\* Every variable has its type.
TypeOK ==
  HubTypes /\ LoopTypes /\ ListTypes /\ ReadTypes /\ WireTypes /\ BootTypes

\* All the hub and readPump accepted for a client, oldest first.
Stream(c) == wire[c] \o wr[c].batch \o send[c]

\* hub.run never sends on a closed client.send and never closes one twice, with
\* two ways to disconnect a client (eviction and unregister), lists that keep
\* clients that are gone, and a range over a list that shifts under it.
HubNeverPanics == status # "hub panic"

\* The three records of whether a client is served agree between the steps of
\* the hub: it is in hub.clients, its flag is set, its channel is open.
ConnectionAgreement ==
  \A c \in Client :
    IF rp[c].pc = "new" THEN c \notin DOMAIN clients /\ ~connected[c] /\ ~closed[c]
                        ELSE /\ c \in DOMAIN clients <=> connected[c]
                             /\ closed[c] <=> ~connected[c]

\* A client gets no event of a server or instance it never asked for, although
\* lists share arrays with older headers and are shifted in place.
OnlyAskedTopics ==
  \A c \in Client : \A i \in DOMAIN Stream(c) :
    Stream(c)[i].type = "event" => evts[Stream(c)[i].n] \in asked[c]

\* Events reach a client in the order the hub took them from eventChan, over the
\* channel, the batches of the writer and the connection.
OrderedDelivery ==
  \A c \in Client : \A i, j \in DOMAIN Stream(c) :
    (i < j /\ Stream(c)[i].type = "event" /\ Stream(c)[j].type = "event")
      => Stream(c)[i].n <= Stream(c)[j].n

\* The receive in the drain loop of the writer never waits (nor takes the zero
\* value of a closed channel): what len(c.send) counted is still there.
WriterNeverStalls ==
  \A c \in Client : wr[c].pc = "drain" => wr[c].left <= Len(send[c])

\* In the memory h, s is a header of the list of server n, and every client it
\* shows asked for n (who[c] is what c asked for).
ListOf(h, who, s, n) ==
  IF s.arr = 0
  THEN s.len = 0
  ELSE /\ s.arr \in DOMAIN h
       /\ h[s.arr].of = n
       /\ s.len <= Len(h[s.arr].cells)
       /\ \A j \in 1 .. s.len : /\ h[s.arr].cells[j] \in Client
                                /\ n \in who[h[s.arr].cells[j]]

\* Every header in use, the copies that readPump and the hub keep while others
\* append and remove included, still shows the clients of its own server only,
\* and no cell that was never written.
ListsOwned ==
  /\ \A n \in DOMAIN subs : ListOf(heap, asked, subs[n], n)
  /\ \A c \in Client :
       rp[c].pc = "store" => /\ rp[c].req \in DOMAIN subs
                             /\ ListOf(heap, asked, rp[c].list, rp[c].req)
  /\ hub.pc # "select" => evts # <<>> /\ Topic \in DOMAIN subs
  /\ hub.pc = "broadcast" => hub.idx >= 1 /\ ListOf(heap, asked, hub.list, Topic)

IsPrefixOf(s, t) == Len(s) <= Len(t) /\ SubSeq(t, 1, Len(s)) = s

\* What was accepted for a client is kept, in its order, until its connection is
\* down: no step of the writer, of an eviction or of an exit loses a message.
AcceptedIsKept ==
  [][\A c \in Client : conn[c] = "down" \/ IsPrefixOf(Stream(c), Stream(c)')]_vars

\* However slow or broken a client is, the hub comes back to its select.
HubReturnsToSelect == [](hub.pc # "select" => <>(hub.pc = "select" \/ ~Up))

\* Both goroutines wait for room or for messages that nobody makes or takes.
ReplyStuck(c) == rp[c].pc = "reply" /\ Full(c) /\ wr[c].pc = "done" /\ ~closed[c]

\* After the connection breaks, both goroutines of the client return and the hub
\* forgets it, unless readPump waits for room for a reply that no one drains.
GoroutinesEnd ==
  \A c \in Client :
    conn[c] = "down" ~>
      \/ rp[c].pc = "done" /\ wr[c].pc = "done" /\ c \notin DOMAIN clients
      \/ ReplyStuck(c) \/ ~Up

\* sendResetMessage returns, or the process dies, unless the client it waits for
\* is one whose readPump and writer will never make room.
ResetReturns ==
  \A d \in DynamicTag :
    rs[d].pc = "check" ~>
      \/ rs[d].pc = "idle" \/ ~Up
      \/ rs[d].pc = "send" /\ ReplyStuck(ResetTarget(d))

\* hub.go:23, "broadcasts messages to the clients": each client of the list that
\* is connected before and after the loop gets the event once.
CopiesOf(n, c) == {i \in DOMAIN Stream(c) : Stream(c)[i] = EventMsg(n)}

BroadcastExactlyOnce ==
  [][\A c \in audience :
       (EndBroadcast /\ connected[c] /\ conn[c] = "open")
         => \E i \in DOMAIN Stream(c) : CopiesOf(Len(evts), c) = {i}]_vars

\* hub.go:29, "Registered clients subscribed to every classic server": who is
\* listed is registered, whenever the hub waits in its select.
ListedAreRegistered ==
  hub.pc = "select" =>
    \A n \in ClassicName, c \in Client : Listed(c, n) => c \in DOMAIN clients

\* client.go:33, "The server the client is currently subscribed to": a client
\* that is served is in the list of its server.
CurrentServerListsClient ==
  \A c \in DOMAIN clients : server[c] # NoServer => Listed(c, server[c])
=============================================================================
