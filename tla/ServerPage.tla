----------------------------- MODULE ServerPage -----------------------------
(***************************************************************************)
(* One page of the web interface, from the request to the last line it     *)
(* shows: the handlers that list archives and read a window of lines       *)
(* (web_server.go, log_utils.go, utils.go), the subscription, the messages *)
(* of hub and writer as they are framed (hub.go, client.go), and the       *)
(* script that takes the frames apart and shows the lines (server.tmpl).   *)
(*                                                                         *)
(* The hub serves one client, and the tail is as far from its log as       *)
(* watchServ lets it be: modules Hub and LogTail have the detail.  A line  *)
(* of the log is its number, and a row that holds it, or a part of it, is  *)
(* that number; blank lines are left out.                                  *)
(***************************************************************************)
EXTENDS Integers, Sequences, FiniteSets, SequencesExt

CONSTANTS
  Kinds,        \* kinds of servers: TRUE for an instance of a dynamic server
  Cookies,      \* values of the cookie max-lines-count, <<>> without a cookie
  DefaultMax,   \* defaultMaxLinesCount (500)
  SendCap,      \* capacity of client.send (256)
  MaxLines,     \* bound: lines the program writes
  MaxTruncs,    \* bound: truncations of the log
  MaxBoots,     \* bound: reboots of an instance
  MaxCuts,      \* bound: reads that end inside a line
  MaxChanges,   \* bound: lines, truncations, reboots and such reads together
  MaxArchives,  \* bound: files that match the pattern of archives
  MaxTime       \* bound: times of modification of these

ASSUME PageAssumption ==
  /\ Kinds \subseteq BOOLEAN
  /\ Cookies \subseteq Seq(Int) /\ \A c \in Cookies : Len(c) <= 1
  /\ DefaultMax \in Nat \ {0} /\ SendCap \in Nat \ {0}
  /\ {MaxLines, MaxTruncs, MaxBoots, MaxCuts, MaxChanges} \subseteq Nat
  /\ {MaxArchives, MaxTime} \subseteq Nat

VARIABLES
  server,   \* dynamic, known (clients can subscribe), boots
  log,      \* the log: its lines, whether they end with a line break, truncs
  last,     \* number of lines written so far
  tail,     \* watchServ: whether it is on, pos (the line filePos is in or behind),
            \* stale (the log was truncated since), cuts so far, and whether it read
            \* from the first line on and cut no line
  events,   \* events of this log on their way to the hub
  req,      \* the request: pc, view, cookie (the number of lines wanted), whether it
            \* was changed in the page, archives left and listed
  rows,     \* the rows of the page
  conn,     \* the websocket: "none", "up", "closing" or "closed"
  asked,    \* whether the page sent the name of its server
  listed,   \* whether the client is in the list of its server
  send,     \* client.send
  batch,    \* what the writer took and did not write yet
  frames,   \* frames the page did not handle yet
  ideal,    \* auxiliary: the page if each accepted event had been shown at once
  told,     \* auxiliary: lines of the events of the tail since its last reset
  missed,   \* auxiliary: lines an event of which could not reach the page
  cleared,  \* auxiliary: whether the page showed a reset since then
  lost      \* auxiliary: events in handled frames that the page did not show

logVars  == <<server, log, last, tail, events, told>>
connVars == <<conn, asked, listed>>
wireVars == <<send, batch, frames>>
auxVars  == <<ideal, missed, cleared, lost>>
vars == <<logVars, req, rows, connVars, wireVars, auxVars>>

\* A row that is no line of a log: the empty text behind the last line break, or
\* the text of an error.
NoLine == 0

Event == [type : {"ADD", "RESET"}, line : Nat]
AddEvent(n) == [type |-> "ADD", line |-> n]
ResetEvent == [type |-> "RESET", line |-> NoLine]

\* Messages: an event in base64 with the separator, the bare JSON of
\* sendResetMessage, and the JSON of an error with the separator.
Message == [form : {"event", "reset", "error"}, event : Event]
Encoded(e) == [form |-> "event", event |-> e]
RawReset == [form |-> "reset", event |-> ResetEvent]
UnknownServer == [form |-> "error", event |-> ResetEvent]

Init ==
  /\ \E d \in Kinds : server = [dynamic |-> d, known |-> ~d, boots |-> 0]
  /\ \E e \in BOOLEAN : log = [lines |-> <<>>, ends |-> e, truncs |-> 0]
  /\ last = 0 /\ events = <<>> /\ told = <<>>
  /\ tail = [on |-> FALSE, pos |-> 0, stale |-> FALSE, cuts |-> 0, whole |-> FALSE]
  /\ req = [pc |-> "idle", view |-> "live", cookie |-> <<>>, changed |-> FALSE,
            left |-> <<>>, archives |-> <<>>, seen |-> {}]
  /\ rows = <<>>
  /\ conn = "none" /\ asked = FALSE /\ listed = FALSE
  /\ send = <<>> /\ batch = <<>> /\ frames = <<>>
  /\ ideal = <<>> /\ missed = {} /\ cleared = FALSE /\ lost = 0

-----------------------------------------------------------------------------
(* The log and its tail *)

PageUnchanged == UNCHANGED <<req, rows, connVars, batch, frames, ideal, cleared, lost>>

\* The rows of the page are read.
Loaded == req.pc = "done" /\ req.view = "live"

\* Bound.
MayChange == last + log.truncs + server.boots + tail.cuts < MaxChanges

TailUnchanged == UNCHANGED <<tail, events, told>>

WriteLine ==
  /\ last < MaxLines /\ MayChange
  /\ last' = last + 1
  /\ log' = [log EXCEPT !.lines = Append(@, last + 1)]
  /\ UNCHANGED <<server, send, missed>> /\ TailUnchanged /\ PageUnchanged

\* The log is truncated, or replaced by an empty file.
Truncate ==
  /\ log.lines # <<>> /\ log.truncs < MaxTruncs /\ MayChange
  /\ log' = [log EXCEPT !.lines = <<>>, !.truncs = @ + 1]
  /\ tail' = [tail EXCEPT !.stale = @ \/ tail.pos > 0]
  /\ UNCHANGED <<server, last, events, told, send, missed>> /\ PageUnchanged

\* A pass finds the instance: from now on clients can subscribe.
NewInstance ==
  /\ server.dynamic /\ ~server.known
  /\ server' = [server EXCEPT !.known = TRUE]
  /\ UNCHANGED <<log, last, send, missed>> /\ TailUnchanged /\ PageUnchanged

\* os.Stat in the goroutine of the tail: what the log holds is not sent.
TailStarts ==
  /\ server.known /\ ~tail.on
  /\ tail' = [tail EXCEPT !.on = TRUE, !.pos = Len(log.lines), !.whole = (log.lines = <<>>)]
  /\ UNCHANGED <<server, log, last, events, told, send, missed>> /\ PageUnchanged

\* The tail makes an event of line k of the log.
Tell(k) ==
  /\ tail.on
  /\ events' = Append(events, AddEvent(log.lines[k]))
  /\ told' = Append(told, log.lines[k])
  /\ UNCHANGED <<server, log, last, send, missed>> /\ PageUnchanged

\* A notified read, one line at a time.  It may end before the end of the log: at the
\* end of the buffer, or since no notification of what follows was handled yet.
TailReads ==
  /\ ~tail.stale /\ tail.pos < Len(log.lines)
  /\ Tell(tail.pos + 1)
  /\ tail' = [tail EXCEPT !.pos = @ + 1]

\* The rest of a line that was cut by the end of the last read, or of the log.
TailReadsRest ==
  /\ ~tail.stale /\ tail.pos > 0 /\ tail.cuts < MaxCuts /\ MayChange
  /\ Tell(tail.pos)
  /\ tail' = [tail EXCEPT !.cuts = @ + 1, !.whole = FALSE]

\* The log was truncated and is by now at least as long as it was: the truncation is
\* not noticed, and the read starts somewhere inside.
TailReadsOver ==
  /\ tail.stale
  /\ \E k \in DOMAIN log.lines :
       /\ Tell(k)
       /\ tail' = [tail EXCEPT !.pos = k, !.stale = FALSE, !.whole = FALSE]

\* The log is shorter than it was: a reset, and no read before the next notification.
TailResets ==
  /\ tail.on /\ tail.stale
  /\ tail' = [tail EXCEPT !.pos = 0, !.stale = FALSE, !.whole = TRUE]
  /\ events' = Append(events, ResetEvent)
  /\ told' = <<>>
  /\ UNCHANGED <<server, log, last, send, missed>> /\ PageUnchanged

\* The log of an instance that starts again, and its tail, which has still to start.
Restarts ==
  /\ server.dynamic /\ tail.on /\ server.boots < MaxBoots /\ MayChange
  /\ server' = [server EXCEPT !.boots = @ + 1]
  /\ log' = [log EXCEPT !.lines = <<>>]
  /\ tail' = [tail EXCEPT !.on = FALSE, !.pos = 0, !.stale = FALSE, !.whole = FALSE]
  /\ told' = <<>>
  /\ UNCHANGED <<last, missed>> /\ PageUnchanged

\* Mutant of Reboot: the reset does not wait for room.
RebootOver ==
  /\ Restarts
  /\ \E n \in 0 .. Len(events) : events' = SubSeq(events, 1, n)
  /\ IF listed /\ conn = "up" THEN send' = Append(send, RawReset) ELSE UNCHANGED send

\* The stopped tail of the old log may drop events; sendResetMessage waits for room in
\* client.send.
Reboot ==
  /\ Restarts
  /\ \E n \in 0 .. Len(events) : events' = SubSeq(events, 1, n)
  /\ IF listed /\ conn = "up" THEN Len(send) < SendCap /\ send' = Append(send, RawReset)
                              ELSE UNCHANGED send

-----------------------------------------------------------------------------
(* The handlers of live pages, archives and lists of archives *)

\* extractMaxLinesCount.
MaxLinesCount(cookie) ==
  IF cookie = <<>> \/ cookie = <<0>> THEN DefaultMax ELSE cookie[1]

\* The lines of getServerLogs and getArchiveLogs, from index len(lines)-limit-1.
Window(lines, limit) ==
  IF limit > 0 /\ Len(lines) > limit
  THEN SubSeq(lines, Len(lines) - limit, Len(lines)) ELSE lines

\* strings.Split(content, "\n").
SplitLines(lines, ends) ==
  IF ends \/ lines = <<>> THEN Append(lines, NoLine) ELSE lines

HandlerUnchanged == UNCHANGED <<logVars, connVars, wireVars, missed, cleared, lost>>

\* A request, and filepath.Glob: the archives in the order of their names.
Request ==
  /\ req.pc = "idle"
  /\ \E view \in {"live", "archive", "list"}, c \in Cookies, n \in 0 .. MaxArchives :
       req' = [pc |-> "stat", view |-> view, cookie |-> c, changed |-> FALSE,
               left |-> [k \in 1 .. n |-> k], archives |-> <<>>, seen |-> {}]
  /\ UNCHANGED <<rows, ideal>> /\ HandlerUnchanged

Stat == req.pc = "stat" /\ req.left # <<>>

\* Mutant of Inserted: before the first entry that is not newer.
InsertedBefore(entries, e) ==
  LET older == {k \in DOMAIN entries : entries[k].time <= e.time}
  IN IF older = {} THEN Append(entries, e)
     ELSE InsertAt(entries, CHOOSE k \in older : \A j \in older : k <= j, e)

\* Before the first entry that is older.
Inserted(entries, e) ==
  LET older == {k \in DOMAIN entries : entries[k].time < e.time}
  IN IF older = {} THEN Append(entries, e)
     ELSE InsertAt(entries, CHOOSE k \in older : \A j \in older : k <= j, e)

StatFile ==
  /\ Stat
  /\ \E t \in 1 .. MaxTime :
       req' = [req EXCEPT !.left = Tail(@), !.seen = @ \cup {Head(req.left)},
                 !.archives = Inserted(@, [name |-> Head(req.left), time |-> t])]
  /\ UNCHANGED <<rows, ideal>> /\ HandlerUnchanged

StatDir ==
  /\ Stat
  /\ req' = [req EXCEPT !.left = Tail(@)]
  /\ UNCHANGED <<rows, ideal>> /\ HandlerUnchanged

\* The file is gone since Glob: the whole page is an error.
StatFails ==
  /\ Stat
  /\ req' = [req EXCEPT !.pc = "failed", !.left = <<>>, !.archives = <<>>, !.seen = {}]
  /\ UNCHANGED <<rows, ideal>> /\ HandlerUnchanged

\* The template is executed with these rows; the list is not kept.
Show(text) ==
  /\ req.pc = "stat" /\ req.left = <<>>
  /\ req' = [req EXCEPT !.pc = "done", !.archives = <<>>, !.seen = {}]
  /\ rows' = text /\ ideal' = text
  /\ HandlerUnchanged

\* A file that cannot be read gives one row, the error.
ReadLogs ==
  /\ req.view = "live"
  /\ \/ Show(Window(SplitLines(log.lines, log.ends), MaxLinesCount(req.cookie)))
     \/ Show(<<NoLine>>)

\* uncompress, by the type that the first bytes show: an empty file gives io.EOF, and
\* a damaged archive or a file that is gone an error too.
Uncompressed(form, n, ends) ==
  IF form \in {"gone", "damaged"} \/ (form = "text" /\ n = 0) THEN <<NoLine>>
  ELSE SplitLines([k \in 1 .. n |-> k], ends)

\* The archive whose name the address holds; the two kinds of servers differ in the
\* directory and the pattern.
ShowArchive ==
  /\ req.view = "archive"
  /\ \E form \in {"text", "gzip", "damaged", "gone"}, n \in 0 .. MaxLines, ends \in BOOLEAN :
       Show(Window(Uncompressed(form, n, ends), MaxLinesCount(req.cookie)))

ReadArchive == ~server.dynamic /\ ShowArchive
ReadDynamicArchive == server.dynamic /\ ShowArchive

ListArchives == req.view = "list" /\ ~server.dynamic /\ Show(<<>>)
ListDynamicArchives == req.view = "list" /\ server.dynamic /\ Show(<<>>)

-----------------------------------------------------------------------------
(* The connection and the hub *)

ServerUnchanged == UNCHANGED <<server, log, last, tail, told, req>>

\* new WebSocket, and serveWs; it may fail.
Connect ==
  /\ Loaded /\ conn = "none"
  /\ conn' \in {"up", "closed"}
  /\ UNCHANGED <<events, rows, asked, listed, wireVars, auxVars>> /\ ServerUnchanged

\* register of the page and handleMessage: the client is appended to the list of
\* the server, or told that there is none.
Subscribe ==
  /\ conn = "up" /\ ~asked
  /\ asked' = TRUE
  /\ \/ server.known /\ listed' = TRUE /\ UNCHANGED send
     \/ /\ ~server.known /\ Len(send) < SendCap
        /\ send' = Append(send, UnknownServer)
        /\ UNCHANGED listed
  /\ UNCHANGED <<events, rows, conn, batch, frames, auxVars>> /\ ServerUnchanged

\* The connection breaks, or the page leaves.
Break ==
  /\ conn \in {"up", "closing"}
  /\ conn' = "closed" /\ listed' = FALSE
  /\ send' = <<>> /\ batch' = <<>>
  /\ UNCHANGED <<events, rows, asked, frames, auxVars>> /\ ServerUnchanged

\* What the page does with an event: a line is added, then the oldest row is
\* removed if there are too many.
PageMax == IF req.cookie = <<>> \/ req.cookie[1] < 0 THEN 0 ELSE req.cookie[1]

\* The visitor enters another number of lines, once: it counts from the next line on.
ChangeMax ==
  /\ Loaded /\ ~req.changed
  /\ \E c \in Cookies \ {req.cookie} :
       req' = [req EXCEPT !.cookie = c, !.changed = TRUE]
  /\ cleared' = FALSE
  /\ UNCHANGED <<logVars, rows, connVars, wireVars, ideal, missed, lost>>

\* Mutant of HandleEvent: no row is removed.
HandleEventGrows(text, event) ==
  IF event.type = "RESET" THEN <<>> ELSE Append(text, event.line)

HandleEvent(text, event) ==
  LET more == Append(text, event.line)
  IN IF event.type = "RESET" THEN <<>>
     ELSE IF PageMax > 0 /\ Len(more) > PageMax THEN Tail(more) ELSE more

\* The hub takes an event for a client of the list, or evicts the client.
Broadcast ==
  /\ events # <<>>
  /\ events' = Tail(events)
  /\ \/ /\ listed /\ conn = "up" /\ Len(send) < SendCap
        /\ send' = Append(send, Encoded(Head(events)))
        /\ ideal' = HandleEvent(ideal, Head(events))
        /\ UNCHANGED <<conn, listed, missed>>
     \/ /\ listed /\ conn = "up" /\ Len(send) = SendCap
        /\ conn' = "closing" /\ listed' = FALSE
        /\ UNCHANGED <<send, ideal, missed>>
     \/ /\ ~(listed /\ conn = "up")
        /\ missed' = IF Loaded THEN missed \cup {Head(events).line} ELSE missed
        /\ UNCHANGED <<conn, listed, send, ideal>>
  /\ UNCHANGED <<rows, asked, batch, frames, cleared, lost>> /\ ServerUnchanged

\* writer receives a message...
WriterTake ==
  /\ conn \in {"up", "closing"} /\ send # <<>> /\ batch = <<>>
  /\ batch' = <<Head(send)>>
  /\ send' = Tail(send)
  /\ UNCHANGED <<events, rows, connVars, frames, auxVars>> /\ ServerUnchanged

\* Mutant of WriterFlush: the frame holds what was queued, not the first message.
WriterFlushQueued ==
  /\ conn \in {"up", "closing"} /\ batch # <<>>
  /\ frames' = Append(frames, IF send = <<>> THEN batch ELSE send)
  /\ send' = <<>> /\ batch' = <<>>
  /\ UNCHANGED <<events, rows, connVars, auxVars>> /\ ServerUnchanged

\* ... and adds all that is queued to the same frame, line breaks between them.
WriterFlush ==
  /\ conn \in {"up", "closing"} /\ batch # <<>>
  /\ frames' = Append(frames, batch \o send)
  /\ send' = <<>> /\ batch' = <<>>
  /\ UNCHANGED <<events, rows, connVars, auxVars>> /\ ServerUnchanged

\* The channel is closed and empty.
WriterClose ==
  /\ conn = "closing" /\ send = <<>> /\ batch = <<>>
  /\ conn' = "closed"
  /\ UNCHANGED <<events, rows, asked, listed, wireVars, auxVars>> /\ ServerUnchanged

-----------------------------------------------------------------------------
(* The script of the page *)

\* A frame is split at the separators.  atob skips line breaks, so that a part is
\* understood when it is one event in base64; it is not when it is bare JSON, or
\* when a reset without separator comes first.
Decodes(frame, k) ==
  frame[k].form = "event" /\ (k > 1 => frame[k - 1].form # "reset")

Decoded(frame) == {k \in DOMAIN frame : Decodes(frame, k)}

\* The rows after these parts of a frame, one after the other.
Shown(text, frame, parts) ==
  LET after[k \in 0 .. Len(frame)] ==
        IF k = 0 THEN text
        ELSE IF k \in parts THEN HandleEvent(after[k - 1], frame[k].event) ELSE after[k - 1]
  IN after[Len(frame)]

\* The page shows these parts of the first frame.
ShowFrame(parts) ==
  /\ frames # <<>>
  /\ rows' = Shown(rows, Head(frames), parts)
  /\ cleared' = (cleared \/ \E k \in parts : Head(frames)[k].event.type = "RESET")
  /\ lost' = lost + Cardinality({k \in DOMAIN Head(frames) \ parts : Head(frames)[k].form = "event"})
  /\ frames' = Tail(frames)
  /\ UNCHANGED <<events, connVars, send, batch, ideal, missed>> /\ ServerUnchanged

\* Mutant of HandleFrame: what follows the first part is not looked at.
HandleFrameFirst == ShowFrame(Decoded(Head(frames)) \cap {1})

\* Mutant of HandleFrame: the loop is left at the first part that is not understood.
HandleFrameStops ==
  ShowFrame({k \in Decoded(Head(frames)) : \A j \in 1 .. k : Decodes(Head(frames), j)})

\* conn.onmessage: a part that is not understood is passed over.
HandleFrame == ShowFrame(Decoded(Head(frames)))

-----------------------------------------------------------------------------
Next ==
  \/ WriteLine \/ Truncate \/ NewInstance \/ Reboot
  \/ TailStarts \/ TailReads \/ TailReadsRest \/ TailReadsOver \/ TailResets
  \/ Request \/ StatFile \/ StatDir \/ StatFails
  \/ ReadLogs \/ ReadArchive \/ ReadDynamicArchive \/ ListArchives \/ ListDynamicArchives
  \/ Connect \/ Subscribe \/ Break \/ ChangeMax \/ Broadcast
  \/ WriterTake \/ WriterFlush \/ WriterClose
  \/ HandleFrame

Spec == Init /\ [][Next]_vars

-----------------------------------------------------------------------------
(* Properties *)

\* Every variable has its type; client.send never holds more than fits.
TypeOK ==
  /\ server \in [dynamic : Kinds, known : BOOLEAN, boots : 0 .. MaxBoots]
  /\ log \in [lines : Seq(1 .. MaxLines), ends : BOOLEAN, truncs : 0 .. MaxTruncs]
  /\ last \in 0 .. MaxLines
  /\ tail \in [on : BOOLEAN, pos : 0 .. MaxLines, stale : BOOLEAN, cuts : 0 .. MaxCuts,
               whole : BOOLEAN]
  /\ events \in Seq(Event) /\ told \in Seq(1 .. MaxLines)
  /\ req \in [pc : {"idle", "stat", "done", "failed"}, view : {"live", "archive", "list"},
              cookie : Cookies \cup {<<>>}, changed : BOOLEAN, left : Seq(1 .. MaxArchives),
              archives : Seq([name : 1 .. MaxArchives, time : 1 .. MaxTime]),
              seen : SUBSET (1 .. MaxArchives)]
  /\ rows \in Seq(0 .. MaxLines) /\ ideal \in Seq(0 .. MaxLines)
  /\ conn \in {"none", "up", "closing", "closed"}
  /\ asked \in BOOLEAN /\ listed \in BOOLEAN
  /\ send \in Seq(Message) /\ Len(send) <= SendCap
  /\ batch \in Seq(Message) /\ frames \in Seq(Seq(Message))
  /\ missed \subseteq 0 .. MaxLines /\ cleared \in BOOLEAN /\ lost \in Nat

\* The list of archives holds each file once, the newest first and files of one
\* age by name, although it is built by insertion (log_utils.go:54-66).
ArchivesNewestFirst ==
  LET a == req.archives
  IN /\ \A i, j \in DOMAIN a : i < j =>
          a[i].time > a[j].time \/ (a[i].time = a[j].time /\ a[i].name < a[j].name)
     /\ {a[i].name : i \in DOMAIN a} = req.seen /\ Len(a) = Cardinality(req.seen)

\* The window that the handler reads and the rows that the page removes together
\* keep the page within one row of the number wanted, for ever (log_utils.go:22,
\* server.tmpl:72): the two are computed apart, from one cookie.  A number that is
\* lowered in the page holds from the next reset on, not at once: one row goes for
\* each line that comes.
RowsBounded ==
  (PageMax > 0 /\ (req.changed => cleared)) => Len(rows) <= PageMax + 1

\* Text of the page after all that is on its way to it.
Pending ==
  LET coming == Append(frames, batch \o send)
      after[k \in 0 .. Len(coming)] ==
        IF k = 0 THEN rows ELSE Shown(after[k - 1], coming[k], Decoded(coming[k]))
  IN after[Len(coming)]

\* Batches, frames, separators and their splitting lose, repeat and move no event:
\* the page becomes what showing each event at once would have made of it, as long
\* as no instance booted again and the number of lines is the one it was loaded with
\* (hub.go:96-101, client.go:66-75, server.tmpl:108-115).
PageCatchesUp ==
  (conn \in {"up", "closing"} /\ server.boots = 0 /\ ~req.changed) => Pending = ideal

\* Nothing is on its way to a page that follows its log.
AtRest ==
  /\ listed /\ conn = "up" /\ server.boots = 0
  /\ events = <<>> /\ send = <<>> /\ batch = <<>> /\ frames = <<>>

LastOf(s, n) == IF n > 0 /\ Len(s) > n THEN SubSeq(s, Len(s) - n + 1, Len(s)) ELSE s

\* The tail made one event of each line of the log: it started or was reset when the
\* log was empty, cut no line, and its last read ended at the end of the log.
AllTold == ~tail.stale /\ tail.whole /\ tail.pos = Len(log.lines)

\* Once a reset was shown, the page at rest is the end of what the tail made events of
\* since that reset, over batches, the removal of old rows and another number of lines;
\* and it is the end of the log, when the tail left nothing unread and cut no line
\* (watcher.go:46-72, hub.go:95-111, server.tmpl:68-82).
ClearedPageIsLog ==
  (AtRest /\ cleared) =>
    /\ rows = LastOf(told, PageMax)
    /\ AllTold => rows = LastOf(log.lines, PageMax)

\* Without a truncation, a page at rest lacks no line behind its first one of which the
\* tail made an event, but those whose event came between reading the log and
\* subscribing (server.tmpl:123-137).  It may lack lines that the tail passed over when
\* it started, or did not read (watcher.go:24 and 57).
HolesAreMissed ==
  LET shown == {rows[k] : k \in DOMAIN rows} \ {NoLine}
  IN (AtRest /\ shown # {} /\ log.truncs = 0) =>
       \A n \in ToSet(told) : (\A m \in shown : m >= n) \/ n \in shown \cup missed

\* The reset of a reboot is bare JSON without separator, which atob refuses: it takes
\* the event behind it in the same frame with it, and never more, however many
\* messages the frame holds (hub.go:149-157, server.tmpl:108-115).
ResetDropsOne == lost <= server.boots
=============================================================================
