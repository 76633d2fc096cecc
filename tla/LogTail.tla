------------------------------ MODULE LogTail ------------------------------
(***************************************************************************)
(* The tail of one log file: watchServ (watcher.go), which reads what is   *)
(* appended to the file and queues it, and unstack or unstackDynamic       *)
(* (unstacker.go), which turns the queue into events of outputChannel.     *)
(*                                                                         *)
(* The logging program and the file system are the environment: the log    *)
(* grows, is truncated, renamed, unlinked and created again, at any moment *)
(* between two system calls of the watcher.  The watch is on the file (its *)
(* inode), the watcher opens it again by path at each notification.        *)
(***************************************************************************)
EXTENDS LogText

CONSTANTS
  Text,        \* the bytes of a log other than the newline
  Chunk,       \* what the logging program may append at once
  Kinds,       \* kinds of tails: TRUE for an instance of a dynamic server
  BufferSize,  \* bytes read at most for one notification (2 << 14)
  ChannelCap,  \* capacity of outputChannel (16)
  MaxBytes,    \* bound: length of a file
  MaxFiles,    \* bound: files created at the path
  MaxTruncs    \* bound: truncations of one file

Byte == Text \cup {Newline}

ASSUME TailAssumption ==
  /\ Newline \notin Text
  /\ Chunk \subseteq Seq(Byte)
  /\ Kinds \subseteq BOOLEAN
  /\ BufferSize \in Nat \ {0} /\ ChannelCap \in Nat \ {0}
  /\ MaxBytes \in Nat /\ MaxFiles \in Nat /\ MaxTruncs \in Nat

VARIABLES
  dynamic,  \* kind of the tail, shouldRewatchOnFileRemove negated
  status,   \* "up", or "fatal" after log.Fatal
  files,    \* every file there was at the path, with its truncations so far
  watch,    \* the file the inotify watch is on, 0 without a watch
  events,   \* notifications not handled yet
  w,        \* watchServ: pc, the file it has open
  filePos,  \* filePos of watchServ
  again,    \* shouldRewatch of watchServ
  queue,    \* logQueue
  u,        \* unstack: pc, events of the current read not sent yet
  stop,     \* *stop of unstackDynamic
  out,      \* the events of this log in outputChannel
  from,     \* auxiliary: filePos at the start or at the last reset (0)
  got,      \* auxiliary: bytes read since then
  src,      \* auxiliary: the files, with their truncations, filePos comes from
  lag,      \* auxiliary: why bytes of the file may be unread at rest
  shown     \* auxiliary: text sent since the last reset sent

procVars  == <<dynamic, status>>
fileVars  == <<files, watch, events>>
watchVars == <<w, filePos, again>>
sendVars  == <<u, out, shown>>
auxVars   == <<from, got, src, lag>>
vars == <<procVars, fileVars, watchVars, queue, sendVars, stop, auxVars>>

Up == status = "up"

NewFile == [bytes |-> <<>>, truncs |-> 0, link |-> "linked"]

\* The file at the path, 0 when there is none.
Linked == {i \in DOMAIN files : files[i].link = "linked"}
Path == IF Linked = {} THEN 0 ELSE CHOOSE i \in Linked : TRUE

Size(i) == Len(files[i].bytes)

AddEvent(text) == [type |-> "ADD", text |-> text]
ResetEvent == [type |-> "RESET", text |-> <<>>]

Init ==
  /\ dynamic \in Kinds
  /\ status = "up"
  /\ \E text \in {<<>>} \cup Chunk : files = <<[NewFile EXCEPT !.bytes = text]>>
  /\ watch = 0 /\ events = <<>>
  /\ w = [pc |-> "stat", fd |-> 0]
  /\ filePos = 0 /\ again = TRUE
  /\ queue = <<>>
  /\ u = [pc |-> "poll", lines |-> <<>>]
  /\ stop = FALSE
  /\ out = <<>>
  /\ from = 0 /\ got = <<>> /\ src = {} /\ lag = "none" /\ shown = <<>>

-----------------------------------------------------------------------------
(* The environment.  inotify merges a notification with the last one when  *)
(* they are equal and the last one was not read yet.                       *)

Notify(i, kind) ==
  IF watch = i
  THEN \/ events' = Append(events, kind)
       \/ /\ events # <<>> /\ events[Len(events)] = kind
          /\ UNCHANGED events
  ELSE UNCHANGED events

EnvUnchanged ==
  UNCHANGED <<procVars, watch, watchVars, queue, sendVars, stop, auxVars>>

\* The program appends to the file it has open, renamed or unlinked or not.
LogWrite(i, text) ==
  /\ Up /\ files[i].link # "freed" /\ Size(i) + Len(text) <= MaxBytes
  /\ files' = [files EXCEPT ![i].bytes = @ \o text]
  /\ Notify(i, "write")
  /\ EnvUnchanged

LogTruncate(i) ==
  /\ Up /\ files[i].link # "freed" /\ Size(i) > 0 /\ files[i].truncs < MaxTruncs
  /\ files' = [files EXCEPT
       ![i] = [bytes |-> <<>>, truncs |-> @.truncs + 1, link |-> @.link]]
  /\ Notify(i, "write")
  /\ EnvUnchanged

LogRename ==
  /\ Up /\ Path # 0
  /\ files' = [files EXCEPT ![Path].link = "renamed"]
  /\ Notify(Path, "rename")
  /\ EnvUnchanged

\* Unlinking notifies a change of attributes; the removal itself is notified
\* when the last process that has the file open closes it.
LogUnlink ==
  /\ Up /\ Path # 0
  /\ files' = [files EXCEPT ![Path].link = "unlinked"]
  /\ Notify(Path, "attrib")
  /\ EnvUnchanged

LogFree(i) ==
  /\ Up /\ files[i].link = "unlinked" /\ w.fd # i
  /\ files' = [files EXCEPT ![i].link = "freed"]
  /\ Notify(i, "remove")
  /\ EnvUnchanged

LogCreate ==
  /\ Up /\ Path = 0 /\ Len(files) < MaxFiles
  /\ files' = Append(files, NewFile)
  /\ UNCHANGED events
  /\ EnvUnchanged

-----------------------------------------------------------------------------
(* watchServ *)

\* log.Fatal: a system call of the watcher fails, the process exits.
Fatal ==
  /\ Up /\ w.pc \in {"stat", "add", "wait"} /\ Path = 0
  /\ w.pc = "wait" => events # <<>> /\ Head(events) = "write"
  /\ status' = "fatal"
  /\ UNCHANGED <<dynamic, fileVars, watchVars, queue, sendVars, stop, auxVars>>

\* os.Stat and filePos := stat.Size(): old content is not sent.
StartAtEnd ==
  /\ Up /\ w.pc = "stat" /\ Path # 0
  /\ filePos' = Size(Path) /\ from' = Size(Path)
  /\ src' = {<<Path, files[Path].truncs>>}
  /\ w' = [w EXCEPT !.pc = "add"]
  /\ UNCHANGED <<procVars, fileVars, again, queue, sendVars, stop, got, lag>>

\* watcher.Add, for the file at the path now; filePos is kept.
AddWatch ==
  /\ Up /\ w.pc = "add" /\ Path # 0
  /\ watch' = Path /\ events' = <<>>
  /\ w' = [w EXCEPT !.pc = "wait"]
  /\ lag' = IF Size(Path) = filePos THEN "none" ELSE "gap"
  /\ UNCHANGED <<procVars, files, filePos, again, queue, sendVars, stop, from, got,
                 src>>

Notified(kind) == w.pc = "wait" /\ events # <<>> /\ Head(events) = kind

\* Mutant of QueueReset: an unchanged size counts as a truncation.
QueueResetUnchanged ==
  /\ Up /\ Notified("write") /\ Path # 0 /\ Size(Path) <= filePos
  /\ queue' = Append(queue, ResetEvent)
  /\ events' = Tail(events)
  /\ filePos' = 0 /\ from' = 0 /\ got' = <<>> /\ src' = {} /\ lag' = "reset"
  /\ UNCHANGED <<procVars, files, watch, w, again, sendVars, stop>>

\* Mutant of QueueReset: the position is kept.
QueueResetKeepsPos ==
  /\ Up /\ Notified("write") /\ Path # 0 /\ Size(Path) < filePos
  /\ queue' = Append(queue, ResetEvent)
  /\ events' = Tail(events)
  /\ from' = 0 /\ got' = <<>> /\ src' = {} /\ lag' = "reset"
  /\ UNCHANGED <<procVars, files, watch, w, filePos, again, sendVars, stop>>

\* A write is notified and the file is shorter than what was read: queue a
\* reset, and continue without reading.
QueueReset ==
  /\ Up /\ Notified("write") /\ Path # 0 /\ Size(Path) < filePos
  /\ queue' = Append(queue, ResetEvent)
  /\ events' = Tail(events)
  /\ filePos' = 0 /\ from' = 0 /\ got' = <<>> /\ src' = {} /\ lag' = "reset"
  /\ UNCHANGED <<procVars, files, watch, w, again, sendVars, stop>>

\* Otherwise it is about to read from filePos.
OpenToRead ==
  /\ Up /\ Notified("write") /\ Path # 0 /\ Size(Path) >= filePos
  /\ w' = [pc |-> "read", fd |-> Path]
  /\ events' = Tail(events)
  /\ UNCHANGED <<procVars, files, watch, filePos, again, queue, sendVars, stop,
                 auxVars>>

\* What file.Read returns at filePos: at most a buffer, nothing at the end.
ReadFrom(i) ==
  SubSeq(files[i].bytes, filePos + 1,
         IF Size(i) - filePos > BufferSize THEN filePos + BufferSize ELSE Size(i))

\* Mutant of ReadFile: the last byte of the buffer is left for later.
ReadFileShort ==
  /\ Up /\ w.pc = "read"
  /\ LET i == w.fd
         n == Len(ReadFrom(i))
         text == SubSeq(ReadFrom(i), 1, n - 1)
     IN IF n <= 1
        THEN UNCHANGED <<filePos, queue, got, src>>
        ELSE /\ filePos' = filePos + n - 1
             /\ queue' = Append(queue, AddEvent(text))
             /\ got' = got \o text
             /\ src' = src \cup {<<i, files[i].truncs>>}
  /\ lag' = IF Len(ReadFrom(w.fd)) = BufferSize THEN "full" ELSE "none"
  /\ w' = [pc |-> "wait", fd |-> 0]
  /\ UNCHANGED <<procVars, fileVars, again, sendVars, stop, from>>

\* Seek, one Read and the queueing of what it returned.
ReadFile ==
  /\ Up /\ w.pc = "read"
  /\ LET i == w.fd
         text == ReadFrom(i)
     IN IF text = <<>>
        THEN UNCHANGED <<filePos, queue, got, src>>
        ELSE /\ filePos' = filePos + Len(text)
             /\ queue' = Append(queue, AddEvent(text))
             /\ got' = got \o text
             /\ src' = src \cup {<<i, files[i].truncs>>}
  /\ lag' = IF Len(ReadFrom(w.fd)) = BufferSize THEN "full" ELSE "none"
  /\ w' = [pc |-> "wait", fd |-> 0]
  /\ UNCHANGED <<procVars, fileVars, again, sendVars, stop, from>>

\* Mutant of HandleRename: the goroutine returns without wg.Done.
HandleRenameNotDone ==
  /\ Up /\ Notified("rename")
  /\ again' = ~dynamic
  /\ w' = [w EXCEPT !.pc = "gone"]
  /\ events' = Tail(events)
  /\ UNCHANGED <<procVars, files, watch, filePos, queue, sendVars, stop, auxVars>>

HandleRename ==
  /\ Up /\ Notified("rename")
  /\ again' = ~dynamic
  /\ w' = [w EXCEPT !.pc = "close"]
  /\ events' = Tail(events)
  /\ UNCHANGED <<procVars, files, watch, filePos, queue, sendVars, stop, auxVars>>

\* After a removal the file must be there again at once (checkFile).
HandleRemove ==
  /\ Up /\ Notified("remove")
  /\ again' = (~dynamic /\ Path # 0)
  /\ w' = [w EXCEPT !.pc = "close"]
  /\ events' = Tail(events)
  /\ UNCHANGED <<procVars, files, watch, filePos, queue, sendVars, stop, auxVars>>

\* Other notifications are logged.
HandleOther ==
  /\ Up /\ Notified("attrib")
  /\ events' = Tail(events)
  /\ UNCHANGED <<procVars, files, watch, watchVars, queue, sendVars, stop, auxVars>>

\* Mutant of CloseWatch: the caller does not set stop.
CloseWatchOnly ==
  /\ Up /\ w.pc = "close"
  /\ watch' = 0 /\ events' = <<>>
  /\ w' = [w EXCEPT !.pc = IF again THEN "add" ELSE "done"]
  /\ UNCHANGED <<procVars, files, filePos, again, queue, sendVars, stop, auxVars>>

\* watcher.Close, then a new watch after delayBeforeRewatch or the end of
\* watchServ, after which watchForInstances sets stop.
CloseWatch ==
  /\ Up /\ w.pc = "close"
  /\ watch' = 0 /\ events' = <<>>
  /\ w' = [w EXCEPT !.pc = IF again THEN "add" ELSE "done"]
  /\ stop' = (dynamic /\ ~again)
  /\ UNCHANGED <<procVars, files, filePos, again, queue, sendVars, auxVars>>

-----------------------------------------------------------------------------
(* unstack and unstackDynamic *)

\* The events of outputChannel made from an entry of the queue.
Expand(entry) ==
  LET lines == Lines(entry.text)
  IN IF entry.type = "RESET" THEN <<entry>>
                             ELSE [k \in DOMAIN lines |-> AddEvent(lines[k])]

\* Mutants of UnstackTake: an entry stays until the next one comes; only the
\* first line of a read is sent.
UnstackTakeLate ==
  /\ Up /\ u.pc = "poll" /\ ~stop /\ Len(queue) > 1
  /\ u' = [pc    |-> IF Expand(Head(queue)) = <<>> THEN "poll" ELSE "send",
           lines |-> Expand(Head(queue))]
  /\ queue' = Tail(queue)
  /\ UNCHANGED <<procVars, fileVars, watchVars, stop, out, shown, auxVars>>

UnstackTakeFirst ==
  /\ Up /\ u.pc = "poll" /\ ~stop /\ queue # <<>>
  /\ LET lines == Expand(Head(queue))
     IN u' = IF lines = <<>> THEN u ELSE [pc |-> "send", lines |-> <<Head(lines)>>]
  /\ queue' = Tail(queue)
  /\ UNCHANGED <<procVars, fileVars, watchVars, stop, out, shown, auxVars>>

\* logQueue.Next, when logQueue.Len() > 0.
UnstackTake ==
  /\ Up /\ u.pc = "poll" /\ ~stop /\ queue # <<>>
  /\ u' = [pc    |-> IF Expand(Head(queue)) = <<>> THEN "poll" ELSE "send",
           lines |-> Expand(Head(queue))]
  /\ queue' = Tail(queue)
  /\ UNCHANGED <<procVars, fileVars, watchVars, stop, out, shown, auxVars>>

\* The text on display after an event.
Display(text, event) == IF event.type = "RESET" THEN <<>> ELSE text \o event.text

AfterSend(lines) == [pc |-> IF lines = <<>> THEN "poll" ELSE "send", lines |-> lines]

\* Mutants of UnstackSend: a full channel is ignored; it loses the event.
UnstackSendOver ==
  /\ Up /\ u.pc = "send"
  /\ out' = Append(out, Head(u.lines))
  /\ shown' = Display(shown, Head(u.lines))
  /\ u' = AfterSend(Tail(u.lines))
  /\ UNCHANGED <<procVars, fileVars, watchVars, queue, stop, auxVars>>

UnstackSendLossy ==
  /\ Up /\ u.pc = "send"
  /\ out' = IF Len(out) < ChannelCap THEN Append(out, Head(u.lines)) ELSE out
  /\ shown' = Display(shown, Head(u.lines))
  /\ u' = AfterSend(Tail(u.lines))
  /\ UNCHANGED <<procVars, fileVars, watchVars, queue, stop, auxVars>>

\* output <- Event{...}: waits for room.
UnstackSend ==
  /\ Up /\ u.pc = "send" /\ Len(out) < ChannelCap
  /\ out' = Append(out, Head(u.lines))
  /\ shown' = Display(shown, Head(u.lines))
  /\ u' = AfterSend(Tail(u.lines))
  /\ UNCHANGED <<procVars, fileVars, watchVars, queue, stop, auxVars>>

\* Mutant of UnstackStop: the queue is given up before stop is set.
UnstackStopEarly ==
  /\ Up /\ u.pc = "poll" /\ dynamic
  /\ u' = [pc |-> "done", lines |-> <<>>]
  /\ UNCHANGED <<procVars, fileVars, watchVars, queue, stop, out, shown, auxVars>>

\* for !*stop: what is left of the queue is never sent.
UnstackStop ==
  /\ Up /\ u.pc = "poll" /\ dynamic /\ stop
  /\ u' = [pc |-> "done", lines |-> <<>>]
  /\ UNCHANGED <<procVars, fileVars, watchVars, queue, stop, out, shown, auxVars>>

\* hub.run takes an event.
HubReceive ==
  /\ Up /\ out # <<>>
  /\ out' = Tail(out)
  /\ UNCHANGED <<procVars, fileVars, watchVars, queue, u, shown, stop, auxVars>>

-----------------------------------------------------------------------------
Next ==
  \/ \E i \in DOMAIN files : \/ \E text \in Chunk : LogWrite(i, text)
                             \/ LogTruncate(i) \/ LogFree(i)
  \/ LogRename \/ LogUnlink \/ LogCreate
  \/ Fatal
  \/ StartAtEnd \/ AddWatch \/ QueueReset \/ OpenToRead \/ ReadFile
  \/ HandleRename \/ HandleRemove \/ HandleOther \/ CloseWatch
  \/ UnstackTake \/ UnstackSend \/ UnstackStop \/ HubReceive

Spec == Init /\ [][Next]_vars

\* The goroutines of the tail run when they can, and the hub, which always comes
\* back to its select, receives.  Nothing is assumed of the log file.
Fairness ==
  /\ WF_vars(StartAtEnd) /\ WF_vars(AddWatch) /\ WF_vars(QueueReset)
  /\ WF_vars(OpenToRead) /\ WF_vars(ReadFile) /\ WF_vars(HandleRename)
  /\ WF_vars(HandleRemove) /\ WF_vars(HandleOther) /\ WF_vars(CloseWatch)
  /\ WF_vars(Fatal)
  /\ WF_vars(UnstackTake) /\ WF_vars(UnstackSend) /\ WF_vars(UnstackStop)
  /\ WF_vars(HubReceive)

FairSpec == Spec /\ Fairness

-----------------------------------------------------------------------------
(* Properties *)

File == [bytes : Seq(Byte), truncs : Nat,
         link : {"linked", "renamed", "unlinked", "freed"}]

Event == [type : {"ADD", "RESET"}, text : Seq(Byte)]

FileTypes ==
  /\ files \in Seq(File)
  /\ watch \in {0} \cup DOMAIN files
  /\ events \in Seq({"write", "attrib", "rename", "remove"})

WatchTypes ==
  /\ w \in [pc : {"stat", "add", "wait", "read", "close", "done"}, fd : Nat]
  /\ w.pc = "read" => w.fd \in DOMAIN files
  /\ filePos \in Nat
  /\ again \in BOOLEAN

SendTypes ==
  /\ queue \in Seq(Event)
  /\ u \in [pc : {"poll", "send", "done"}, lines : Seq(Event)]
  /\ u.pc = "send" <=> u.lines # <<>>
  /\ stop \in BOOLEAN
  /\ out \in Seq(Event) /\ Len(out) <= ChannelCap

AuxTypes ==
  /\ from \in Nat
  /\ got \in Seq(Byte)
  /\ src \subseteq Nat \X Nat
  /\ lag \in {"none", "gap", "reset", "full"}
  /\ shown \in Seq(Byte)

\* Every variable has its type, and outputChannel never holds more than fits.
TypeOK ==
  /\ dynamic \in Kinds /\ status \in {"up", "fatal"}
  /\ FileTypes /\ WatchTypes /\ SendTypes /\ AuxTypes

\* What was read since the last reset is exactly the file between the position
\* it was read from and filePos, as long as the position comes from this one
\* file and the file was not truncated since: nothing is skipped, repeated or
\* read twice, over merged notifications, partial reads, new watches and a file
\* that changes between two calls (watcher.go:42-72).
Intact(i) == src = {<<i, files[i].truncs>>}

ReadIsFile ==
  /\ filePos = from + Len(got)
  /\ src = {} => got = <<>>
  /\ \A i \in DOMAIN files :
       Intact(i) => /\ filePos <= Size(i)
                    /\ got = SubSeq(files[i].bytes, from + 1, filePos)

\* A log that only grows is never reset, in whatever order its notifications
\* come: a reset means another file or a truncation (watcher.go:46).
NoSpuriousReset ==
  [][\A i \in DOMAIN files : (QueueReset /\ i = Path) => ~Intact(i)]_vars

\* At rest: the watcher waits, on the file that is at the path, and was told
\* everything.
AtRest == w.pc = "wait" /\ watch = Path /\ events = <<>>

\* The position was reached in the file that is watched, as it is now.
SameFile == src \subseteq {<<watch, files[watch].truncs>>}

\* At rest every byte the file has beyond the position the tail started at was
\* read, with four exceptions: what came before the watch was there
\* (watcher.go:103), the content that came with a truncation (watcher.go:50),
\* what did not fit the one buffer read for merged notifications (watcher.go:57),
\* and a position that was reached in another file, or before a truncation, when
\* the file is by now at least as long (watcher.go:24, 46 and 52).
AtRestAllRead ==
  (AtRest /\ lag = "none" /\ SameFile) =>
    /\ filePos = Size(watch)
    /\ got = SubSeq(files[watch].bytes, from + 1, Size(watch))

\* Events, then those made from the entries of a queue.
ThenExpanded(first, entries) ==
  LET after[k \in 0 .. Len(entries)] ==
        IF k = 0 THEN first ELSE after[k - 1] \o Expand(entries[k])
  IN after[Len(entries)]

\* The events that were found in the file and not sent yet.
Unsent == ThenExpanded(u.lines, queue)

\* The text on display after some events.
Displayed(text, found) ==
  LET after[k \in 0 .. Len(found)] ==
        IF k = 0 THEN text ELSE Display(after[k - 1], found[k])
  IN after[Len(found)]

\* The text sent, then what the events not sent yet will make of it, is the text
\* read from the file but for its line breaks: splitting and trimming lose no
\* byte, and resets fall where they were found (unstacker.go:15-40).
TextIsFile == u.pc # "done" => Displayed(shown, Unsent) = Joined(got)

\* The events of one log are handed to the hub as a queue does it, and only the
\* tail of an instance that was stopped leaves some (unstacker.go:46).
EventQueueOfLog == INSTANCE EventQueue WITH
  stoppable <- dynamic,
  stopped   <- stop,
  waiting   <- IF u.pc = "done" THEN <<>> ELSE Unsent,
  channel   <- out

HandsOverInOrder == EventQueueOfLog!Spec

\* Every event of the queue is sent, unless the tail was stopped.
QueueDrains == [](queue # <<>> => <>(queue = <<>> \/ u.pc = "done" \/ ~Up))

\* The watcher lets go of a file that was renamed or is gone, whatever is still
\* in its queue of notifications.
LetsGoOfOldFile ==
  \A i \in 1 .. MaxFiles :
    (watch = i /\ files[i].link \in {"renamed", "freed"}) ~> (watch # i \/ ~Up)

\* The tail of an instance whose file is gone ends, both goroutines of it.
StoppedTailEnds == (dynamic /\ w.pc = "done") ~> (u.pc = "done" \/ ~Up)
=============================================================================
