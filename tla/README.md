# A TLA+ model of LogRenderer

LogRenderer follows log files and shows them in web pages as they grow. This
directory holds a model of it, from the configuration file to the rows of a page, the
TLC configurations that check it on small instances, and proofs, checked by TLAPS, of what holds for
every instance. Paths below are relative to `src/src`.

## The system

```
 log file --inotify--> watchServ --logQueue--> unstack ---+
                                                          +--outputChannel--> hub.run --client.send--> writer --websocket--> page
 log file --inotify--> watchServ --logQueue--> unstackDynamic           ^                                                      |
     ^                     |                                            +-- lists of clients <-- readPump <--websocket---------+
     +--- watchForInstances (one per dynamic server) ---sendResetMessage--> client.send
```

| component | state | operations | what makes it correct |
|---|---|---|---|
| hub (`hub.go`) | registered clients; lists of clients by server and by instance | register, unregister, broadcast an event, evict a slow client, reset an instance | never blocks on a client, never sends on a closed channel, flag, map and channel agree, an event reaches the clients that asked for its server, once and in order |
| client (`client.go`) | `connected`, `server`, `send`, the connection | `readPump` with `handleMessage`; `writer` with its batches and pings | no accepted message is lost or reordered before the connection breaks; both goroutines end afterwards |
| watcher (`watcher.go`) | `filePos`, `shouldRewatch`, an inotify watch | read what was appended, reset after a truncation, watch again after a rotation | no byte is read twice or out of order, and which ones may stay unread; a reset only after a truncation; no file is held on to |
| unstackers (`unstacker.go`) | `logQueue`, the lines of one read, `*stop` | split a read into lines, send each to `outputChannel` | a queue in front of `outputChannel`: no event lost, repeated or reordered, except when stopped |
| dynamic servers (`dynamic.go`) | `server.instances`, a tail per instance | passes that look for instances | one tail per instance, each reboot announced once, every log that stays is tailed, an old boot falls silent |
| configuration (`config.go`) | the loaded `Config` | checks and normalisation | what is accepted can be started; a bad highlighting rule is ignored |
| start-up (`main.go`) | the hub's lists, the goroutines started | one list or map and one goroutine for each server | everything is there when the first request comes |
| routes (`web_server.go`, `templates.go`) | the patterns registered | choice of a handler, redirections, JSON list of instances, style sheets | links lead to their page, redirections end |
| request handlers (`web_server.go`, `log_utils.go`, `utils.go`) | none of their own: the cookie `max-lines-count`, the files on disk | last lines of a log, list and read archives | at most one line more than wanted; each archive once, newest first |
| live page (`resources/server.tmpl`) | lines on display, the websocket, the number of lines wanted | split frames, decode, add a line, remove the oldest, clear | the lines shown are those of the events, and the end of the log where the tail left nothing unread |

The hard parts are the shared memory of hub, `readPump` and
`watchForInstances` (lists read without the mutex and appended to or shifted in
place), the channel a client shares between three senders, a writer and a
closer, notifications that come late and merged, files that change between two
system calls, and tails that end while a pass looks at them. `PROJECT.json` lists
the hazards one by one, with the properties that guard against each.

## Modules

| module | models | uses |
|---|---|---|
| `GoSlice` | slices as headers over shared arrays: `append` in place or to a new array, removal that shifts in place | |
| `Hub` | `hub.go`, `client.go`, the side of `dynamic.go` that touches the hub | `GoSlice` |
| `DataLemmas` | facts about numbers, sequences and folds that the proofs share | |
| `HubProofs` | theorems: the types of `Hub`, its lists, its panics | `Hub`, `DataLemmas` |
| `HubStreamProofs` | theorems: what a client receives | `HubProofs`, `DataLemmas` |
| `LogText` | `strings.Trim` and `strings.Split` on newlines | |
| `EventQueue` | abstract: a queue of events that hands over in order | |
| `LogTail` | `watcher.go`, `unstacker.go` for one log file | `LogText`, `EventQueue` |
| `LogTailProofs` | theorems about `LogTail` | `LogTail`, `DataLemmas` |
| `DynamicServer` | `watchForInstances`, life of the tails of one dynamic server | |
| `DynamicServerProofs` | theorems about `DynamicServer` | `DynamicServer`, `DataLemmas` |
| `Reboot` | the passes and tails of `DynamicServer` composed with the queues and unstackers of all tails, and the one channel they fill | `DynamicServer` |
| `RebootProofs` | theorems about `Reboot` | `Reboot`, `DynamicServerProofs` |
| `Startup` | `config.go`, `main.go`, the routes of `web_server.go`, the links of the templates | |
| `StartupProofs` | theorems about `Startup` | `Startup`, `DataLemmas` |
| `ServerPage` | the request handlers, `server.tmpl`, and the messages between hub and page | |
| `ServerPageProofs` | theorems about `ServerPage` | `ServerPage`, `DataLemmas` |
| `Highlighting` | the loop over highlighting rules of `loadCommon` | `GoSlice` |
| `MC*` | constants of the small instances | |

### Hub

One action is what a goroutine does between two operations on shared memory.
`hub.run` is `ServeWs`, `Unregister`, `TakeEvent` (the three cases of its
select), then for an event `FetchSubscribers`, a round of the loop
(`SkipDisconnected`, `SendEvent` or `EvictClient`) for each index, and
`EndBroadcast`. The range keeps the header it read and reads each element from
memory when it comes to it. `readPump` is `LoopCheck`, `ReadMessage` or
`ReadFails`, then `handleMessage` as `Lookup` and `Store` (the list is read
before the mutex is taken) or `ReplyUnknown`, and at the end the rendezvous
`Unregister` and `ReadPumpClose`. `writer` is `WriterTake`, `WriterCount`
(`len(c.send)`), `WriterDrain`, `WriterFlush`, and `WriterExit`.
`watchForInstances` is `NewInstance`, or `RebootedInstance` with the loop of
`sendResetMessage` (`ResetCheck`, `ResetSend`).

Simplifications, and why they lose nothing the properties tell apart:

- `disconnectClient` is one step. Its parts touch the hub's own map, the flag,
  the channel and, under the mutex that `Store` takes too, one list; a step of
  another goroutine between them can be moved before or after.
- `serveWs` creates the client and hands it to the hub in one step: nobody
  else knows the client before that.
- The read of `c.connected` without synchronisation is a read at some earlier
  moment; the model has the actions at every moment. Torn slice headers are
  left out. A read of a map that overlaps a write may end the process:
  `MapFault`.
- A message is its kind and number. Peers, the network and the events are the
  environment: any name at any time, a connection may break at any time.
- `clientsByServer` and `clientsByDynamicServer` are one function, `subs`, on
  names `<<tag>>` and `<<tag, instance>>`. `disconnectClient` gets the name the
  code gives it: the empty string from `unregister`, the bare tag from the
  eviction.

### LogTail

The file system is a sequence of files that were at the path, each with its
content, its number of truncations and whether it is linked, renamed, unlinked
(and held open) or freed. A change of the watched file adds a notification or is
merged with an equal last one. `watchServ` is `StartAtEnd`, `AddWatch`, one
handler for each notification (`QueueReset`, `OpenToRead` with `ReadFile`,
`HandleRename`, `HandleRemove`, `HandleOther`), `CloseWatch`, and `Fatal`
wherever a system call finds no file at the path. Between `OpenToRead` (open and
stat) and `ReadFile` the file may change. `unstack` and `unstackDynamic` are
`UnstackTake`, `UnstackSend` and, for the second, `UnstackStop`. The variable
`dynamic` says which of the two a behaviour is about; the constant `Kinds` says which
a run looks at. `out` is the part of
`outputChannel` that holds the events of this log. `from`, `got`, `src`, `lag` and
`shown` are auxiliary: they record and restrict nothing.

What the watcher leaves unread is part of the program, and `AtRestAllRead` names it. A
read takes one buffer (`lag` is "full"), a reset is not followed by a read ("reset"), what
was written before a watch is not notified ("gap"). And `filePos` is a number, not a place in
a file: it is kept when another file comes to the path, so that one which is at least as
long when it is first looked at is read from the middle, or not at all. `SameFile` leaves these
cases out: it says that the position was reached in the file that is watched, since its
last truncation. In every other state at rest the bytes read (`got`) are those of the file
from where the tail started to the end, which is more than an equality of two sizes.

`EventQueue` is what a tail promises: events are found, handed over in order, and received.
`Stop` is for an instance only, no event is found after it, and only then may `Drop` discard
what was not handed over.

### DynamicServer

`PruneOne` is a round of the loop that drops ended instances, `Glob` the result
of `getDynamicServerInstances`, with the zero value left for a path without an
identifier, `SkipRunning` and `StartTail` the rounds of the second loop. A tail
is `TailWatches` or `TailFails`, `TailReturns`, `TailEnds`; `LogTail` has the
detail. `IdOf` gives each path its identifier, or none. Two log files with one
identifier are both tailed when they appear in one pass; that an instance has one tail
is therefore claimed, and proved, of identifiers that one path at most holds (`Sole`).
The error of `filepath.Glob` cannot occur: the pattern was checked by `config.go:283`.

### Reboot

What `DynamicServer` and `LogTail` leave to each other: the tails of several boots of
an instance, each with its own `logQueue` and its own `unstackDynamic`, send to one
`outputChannel`, while `sendResetMessage` passes the channel by. `StartBoot` is
`StartTail` with a new queue and a new goroutine; `Passing`, `Tailing` and `Files` are the
other steps of `DynamicServer`, unchanged. `TailReads` queues a read, `UnstackTake` takes
one, `UnstackSend` sends one event of it when there is room, and `Again` is the condition
`!*stop` of the loop, which is read only between two reads: a read that was taken is sent
to its end. `UnstackStop` is the same condition while the queue is polled. `late`, auxiliary,
counts the events the hub takes of a tail after a later tail of the instance was started.

A read is the number of events it expands to, 0 (blank lines) or `MaxRead`; a shorter one
takes the last steps of one of `MaxRead`. Every behaviour of `Reboot` is one of
`DynamicServer` (`BootImplementsDynamic`), so that its invariants carry over; its liveness
property is checked of `Reboot` itself, which can only stop its steps by ending the process.

### Startup

`LoadOptions` is `loadConfigFrom` up to the servers, for every outcome of its tests;
`LoadClassic` and `LoadDynamic` are one round of its loops: `ClassicOutcome` and
`DynamicOutcome` go through the tests of `load` and `loadCommon` in their order, over
records of what is on disk and in the file. That highlighting rules can make the loop
panic is taken from `Highlighting`. `StartClassic` and `StartDynamic` are the rounds of the
loops of `main`; the goroutines they start run at once, as `TailStats` (the `os.Stat` of
`watchServ`, which ends the process when the log went away, `LogGone`) and `FirstPass` (the
write to the map of the server). `Register` is the sequence of `http.HandleFunc`, which
panics for a pattern it has, `Listen` the rest of `startServer`.

`FirstPass` takes the files that match the pattern of a server at that time and starts a
tail for each (`starting`); `InstanceStats` is the `os.Stat` of such a tail, which ends the
process when the log has gone since, and always for a file without identifier: the pass has
no path for it. `here` are those of `Files` that exist, `NoText` standing for those without
identifier; it is followed from the loading of the configuration on and starts empty, and
`Instance` adds and takes files at any time. Later passes are in `DynamicServer`.

Then one request: `Follow` takes one of the `Links` that the templates print, `Type` one of
the addresses `Typed`, and the handlers answer with a page or with a redirection,
which the browser follows. `Exact`, `Trees`, `MuxRedirects` and `Matched` are ServeMux (of
Go 1.19, the version of `go.mod`): a pattern that ends with a slash is a tree, the longest
pattern wins, a tree is found without its slash by a redirection (`AddSlash`). An address
that is not clean (empty segments, "." or "..") is redirected to the clean one first, in
one step with the slash if that is missing too (`CleanPath`): `//dynamic/a` takes three
redirections, to `/dynamic/a`, to `/dynamic?only=a` and to `/dynamic/?only=a`. An address is
its path once clean, and whether it was. `dynamicServerPathRegexp` is not anchored: `Match` is
the first "dynamic" with a server behind it, `Allowed` what its classes take of a segment,
from the beginning and 64 characters at most (`Taken` gives it for each segment), and a server
with anything between it and the next slash has no instance (`InstanceGroup`).

Tags and archives that make no segment, or empty ones, are left out: their addresses are
not clean, and no link leads where it should.

Paths are sequences of segments, decoded. A tag or the base64 of an archive that holds a
slash is more than one segment, and a "+" in the base64 does not survive
`url.QueryUnescape` (`Undecodable`). A proxy is assumed to strip `url-prefix` and nothing
else: an address that the program sends without it leads outside.

### ServerPage

One page, from the request to the last line it shows. `Request` is the arrival of a
request with its cookie and the result of `filepath.Glob`; `StatFile`, `StatDir` and
`StatFails` are the rounds of the loop of `getArchives`, each of which inserts a file
by date, passes over a directory, or ends with an error. `ReadLogs`, `ReadArchive` and
`ListArchives` are the three views (`ReadDynamicArchive` and `ListDynamicArchives` for an
instance), with `MaxLinesCount` (`extractMaxLinesCount`), `Uncompressed` (`uncompress`: an
empty file is an error, an empty archive is not) and `Window` (the lines from
`len(lines)-limit-1`). `Connect` and `Subscribe` are the
script's websocket and its `register`; `Broadcast`, `WriterTake`, `WriterFlush` and
`WriterClose` are hub and writer as one client sees them; `HandleFrame` is
`onmessage`: split at the separators, decode each part (`Decoded` are the ones the script
understands), add and remove rows (`Shown` are the rows after them). `ChangeMax` is another
number of lines entered in the open page.

The reset of `sendResetMessage` is bare JSON, and the answer to an unknown server is JSON
with a separator: `atob` refuses both, and `handleEvent` passes over them, although its cases
"RESET" and "ERROR" expect them (`server.tmpl:60-66, 77-86`). A page is therefore not
cleared when its instance boots again; a bare reset also spoils the event behind it in
the same frame, because nothing separates the two. `ResetDropsOne` says that this is all
that it spoils. Only a truncation, which comes through the tail, clears the page.

`RowsBounded` allows one row more than the number wanted: `getServerLogs` cuts at
`len(lines)-limit-1`, because the text behind the last line break is a row too, and
does so as well when there is no such break.

The tail stands between the log and the page, with what `LogTail` leaves to chance.
`NewInstance` lists an instance, so that clients can subscribe, and `TailStarts` is the
`os.Stat` of its goroutine some time later: what was written until then is never sent.
`TailReads` makes an event of one more line; a read may end anywhere, as a buffer does or a
notification that comes late. `TailReadsRest` is the rest of a line that was cut, as an
event of its own. After `Truncate` the tail is `stale`: either it finds the log shorter
(`TailResets`, without a read), or the log has grown back, the truncation is not noticed and
the read goes on inside some line (`TailReadsOver`). `told`, auxiliary, has the lines of
the events since the last reset.

So a page at rest is the end of what the tail told, and no more can be said of every
program that writes logs: `echo x > log` gives a reset, one notification and no
read, and the page stays empty until the next write. `ClearedPageIsLog` says the first of every
page that showed a reset, and that it is the end of the log when the tail has read all of it
and cut no line (`AllTold`). `HolesAreMissed` says that a page loses no
event but those that came before it subscribed; of the lines that never became events it says
nothing.

A line is its number, in the order in which the program writes lines; `NoLine` is a
row that is none (the empty text after a last line break, or the text of an error).
`log.ends` says whether the program writes the line break after a line or before it.

Simplifications:

- The tail is nearer to its file than in `LogTail` in one respect: `filePos` is the number of the
  line it is in or behind, and whether a truncation is noticed is open whatever the sizes,
  which are not modelled. That its events come to the hub in order is `HandsOverInOrder`.
- The hub has one client; other clients only matter for when it is evicted.
- A reboot replaces the log by an empty one, whose tail has still to start, drops any last
  part of what the old tail still held, and sends the reset, which waits for room. It is one step: the old tail's events that come
  after the reset are those kept in `events`.
- Blank lines are neither written nor counted: the page ignores them.
- The page and the handler take the number of lines wanted from the same cookie; it is
  changed once at most while the page is open.
- The content of an archive is a number of lines, and its form: text, compressed,
  damaged or gone.
- `ideal`, `told`, `missed`, `cleared`, `lost` and `tail.whole` are auxiliary: they record and
  restrict nothing. `tail.cuts` counts for the bound `MaxCuts` only.

### Highlighting

`RemoveRule`, `SetRegex`, `KeepRule` are the rounds of the loop of
`config.go:320-329` for every list of rules; the range keeps the header it
evaluated while the field gets shorter, both over one array.

## What is checked

Passing runs:

| run | instance | shows |
|---|---|---|
| `hub_safety` | two clients, a classic server, an instance, an unknown name; `client.send` of capacity 1; two events, one message each, one boot | `TypeOK`, `HubNeverPanics`, `ConnectionAgreement`, `ListsOwned`, `OnlyAskedTopics`, `OrderedDelivery`, `WriterNeverStalls`, `AcceptedIsKept` |
| `hub_liveness` | one client, two events, two messages, two boots, fairness | `HubReturnsToSelect`, `GoroutinesEnd`, `ResetReturns` |
| `tail_classic` | one file of at most three bytes, appended by lines and parts of lines, one truncation, reads of at most three bytes | `TypeOK`, `TextIsFile`, `HandsOverInOrder` |
| `tail_rotation` | a classic server or an instance, two files in turn at the path, fairness | `ReadIsFile`, `AtRestAllRead`, `NoSpuriousReset`, `HandsOverInOrder`, `QueueDrains`, `LetsGoOfOldFile`, `StoppedTailEnds` |
| `dynamic` | module `Reboot`: two instances, two files that appear (one for each, or two boots of one), two reads of no event or of two, a channel of capacity 1, fairness | `BootTypeOK`, `OneTailPerInstance`, `RebootsAreAnnounced`, `StaleIsBounded`, `PresentIsTailed`, `OldBootFallsSilent` |
| `page` | a page of a server or an instance; at most four of three lines, one truncation, one reboot and one line cut by a read; `client.send` of capacity 2; up to three archives of two ages; no cookie or 1 line wanted, changed once | `TypeOK`, `ArchivesNewestFirst`, `RowsBounded`, `PageCatchesUp`, `ClearedPageIsLog`, `HolesAreMissed`, `ResetDropsOne` |
| `startup` | every configuration of up to two servers, with two tags (one of them in two segments), three `url-prefix`es, an instance of each, one file without identifier, three archives; every link of a page, and typed addresses of every kind for every pattern, clean and not | `TypeOK`, `CheckedLogsOpen`, `ServingIsComplete`, `OnlyDoublesPanic`, `RedirectsEnd`, `LinksLeadToTheirPage` |

Runs that find a disagreement between the code and what it says of itself:

| run | the code | what it says |
|---|---|---|
| `hub_broadcast` | evicting a client shifts the list under the broadcast loop: the next client misses the event, the last is visited twice | `hub.go:23`, "broadcasts messages to the clients" |
| `hub_listed` | unregistering looks the client up under the empty server name; it stays in its list | `hub.go:29`, "Registered clients subscribed to every classic server" |
| `hub_current` | two simultaneous subscriptions both append to the list they read before the mutex | `client.go:33`, "The server the client is currently subscribed to" |
| `dynamic_identifier` | a path without identifier is tailed under the path "", and `log.Fatal` ends the process | `dynamic.go:13`, "an instance of a dynamic server" |
| `highlighting_unnamed` | an unnamed rule makes the loop skip, keep or panic | `config.go:322`, "it will be ignored" |

Other disagreements, met while modelling and without a run:

- Links to archives whose base64 holds "+" or "/" lead elsewhere (`Undecodable`, and the
  archive in two segments of `MCStartup`), although `utils.go:129` calls the escaped name
  "url-friendly": the path is decoded before `filePathUnescape` sees it.
  `LinksLeadToTheirPage` is about the other names.
- `serverTagRegexp` (`config.go:17`) is not anchored: a tag passes if it holds one allowed
  character, although the message of `config.go:313` says that only such characters are
  allowed. A tag with a slash gets patterns, and links that the dynamic handlers do not
  understand; the test of `web_server.go:144` with the same expression accepts every path
  that comes to it. The links to the archives of a tag `a` lead to the page of another
  server if that one has the tag `a/f`; `LinksLeadToTheirPage` is about the tags that no
  other tag continues (`Alone`).
- The redirections of `web_server.go:266, 270, 276` and of ServeMux leave `url-prefix` out,
  those of `web_server.go:84, 101, 147, 153, 158` print it.
- A page is not cleared when its instance boots again (see `ServerPage`).
- The home page prints no link of the navigation bar: `navbar.tmpl:3` asks for
  `.ServerDisplayName`, which the data of `indexHandler` (`web_server.go:186`) does not have,
  so that the output ends there; the error is only printed when debugging.
- `watcher.go:75` reports how much of a read did not fit the buffer as `readLength-bufferSize`,
  which is always 0; what did not fit stays unread until the next write (`lag` "full").

Each property of a passing run has a mutant in `PROJECT.json`: an operator next
to the action it replaces, with one plausible mistake, for which TLC finds the
property violated.

### Bounds

`SendCap` is 256 in the code; with 1 the channel is full after one message, so
eviction, full replies and full resets happen in short behaviours. Two clients
give every pair of racing steps; the skipped client of `hub_broadcast` needs
three. The lists reach length two with capacities one and two, so that `append`
both moves and writes in place. `MaxEvents`, `MaxRequests`, `MaxBoots` stop the
environment, never the goroutines. `BufferSize` (32768) is three bytes, with
reads that fill it, cut a line, or get it all; `MaxBytes`, `MaxFiles`,
`MaxTruncs` and `MaxAppear` bound the environment. In `page`, `SendCap` 2 lets a batch
hold more than one message and still fill the channel; `DefaultMax` (500) is 2, less
than `MaxLines`, so that the window is cut with a cookie and without; no cookie is
the default for the handler and no limit for the page, 1 a limit for both, and the number
can be changed from each to the other;
`MaxChanges` keeps together what the log does. Four changes are enough for a truncation
that is noticed or not, with lines before and behind it, a cut line among them, and a
page at rest behind a lagging tail. Three archives of two ages
give every order of insertion, with ties. In `dynamic` two files that appear are enough
for a second boot, a tail that ends during a pass, and two tails alive at once; `ChannelCap`
(16) is 1 and a read has two events, so that an unstacker waits with part of a read left
while the tail of the next boot starts; `StaleIsBounded` reaches its bound. Three files take
30 times the states. In `startup` two servers are the smallest number that can
collide, of one kind or of both; the tags are one that `config.go:313` announces and one
that only passes its test; two segments behind the first one reach every branch of the
handlers, and a third one is an archive in two parts. The typed addresses have a segment
that the expression takes in part, one that it does not take, a second "dynamic", trees with and
without their slash, and an unclean form of each that starts a chain of redirections. All the runs have
`CHECK_DEADLOCK FALSE`: with its bounded environment used up the system waits.

### Fairness

Every step of a goroutine is weakly fair: the Go scheduler runs what can run.
`Unregister` is strongly fair, because `select` picks at random among its ready
cases. A read on a broken connection fails (`BrokenReadFails`): that is the read
deadline of `pongWait` and the pings. In `LogTail` the hub receives
(`HubReceive`): `HubReturnsToSelect` is what justifies it. In `DynamicServer` the
removal of a file is notified in the end, which needs the program that wrote it to
close it. `Reboot` adds that the hub receives, again by `HubReturnsToSelect`, and that every
unstacker goes on: Go serves the goroutines that wait to send on a channel in
turn. Nothing is assumed of peers, of the network, of new events or of the
log files.

`GoroutinesEnd` and `ResetReturns` name the states in which they fail: a
`readPump` that waits for room for its reply after the writer has returned waits
for ever, and then so does a reset for that client. A reply or a reset may also
panic on a channel that was closed after the check; the process has then ended
(`status` is "reply panic" or "reset panic").

## What is proved

Every invariant, action property and refinement of the passing runs is a theorem, for
every value of the constants. The provers get no more than the assumptions of the modules:
`HubAssumption`, `TailAssumption`, `DynamicAssumption`, `RebootAssumption`,
`StartupAssumption` and `PageAssumption` say that bounds are numbers, capacities are not 0,
and names and paths are of their kinds; `LiteralsAreStrings` says that the names written in
`Startup` are strings, which TLA+ knows and the provers do not. Two theorems have a
hypothesis more: `DynamicOneTail` and `RebootStaleIsBounded` are about identifiers that one
path at most holds, as in the run; `DynamicSoleTail` and `RebootSoleStale`
say the same of each such identifier, whatever the others are.

Lines, messages, bytes and rows are folded over in the model by recursive functions. What
holds of a fold is shown of its steps and then, by the least number for which it fails, of
the whole: `DataLemmas` has these arguments once (`CountUp`, `FoldedIs`, `FoldedConcat`).

**`HubProofs`**: `HubInv` = `TypeOK` /\ `ListsOwned` /\ `ConnectionAgreement` /\
`HubNeverPanics`. The parts need each other. That `SendEvent` never panics needs agreement
(a connected client's channel is open) and that the client at the index is a client
at all, which is ownership: no header shows an unwritten cell, although another
goroutine may have shifted or extended the array. Ownership is stated for every
header in use, not only for those of the maps: `readPump` keeps one between
`Lookup` and `Store`, the hub keeps one during a broadcast. It is preserved
because a removal only moves clients within the array of one server and an append
only writes behind or over cells with a client that asked for that server;
lemmas `AppendKeeps`, `RemoveKeeps` and `ShorterKeeps` say so for one header.

**`HubStreamProofs`**: `OnlyAskedTopics`, `OrderedDelivery`, `WriterNeverStalls` and
`AcceptedIsKept`. What the connection of a client has got, what its writer holds and what
waits in its channel is one stream, and `StreamInv` says that the events of a stream were
taken by the hub, are of servers asked for, and never go back. The hub appends the event
it took last, which is not older than any; the writer moves the front of the channel,
which leaves the stream as it is. That the loop of the writer never waits needs that its count is
no more than the channel holds: only the writer takes from it.

**`LogTailProofs`**: `TailInv` is the types of the watcher, `ReadIsFile`, and `SourcesSeen`
(the bytes read come from files there are, truncated no more often than these). An intact
file only grows, so that `filePos` stays within it and what was read stays a part of it;
every read starts at `filePos`, the end of the part read so far. A reset needs a file
shorter than `filePos`, which an intact file is not (`NoSpuriousReset`). Without
`SourcesSeen` a truncation, or a new file, could turn out to be the one the bytes came from.
`AtRestAllRead` adds (`RestInv`) that when the watcher waits for the file that is at the path,
the position is its size or a write is still to be handled, but for what `lag` names; when the
position was reached in this file, `ReadIsFile` makes of it that the bytes read are all of
it. `TailHandsOverInOrder` is the refinement: under the mapping of
`EventQueueOfLog` every step of the tail is a step of `EventQueue` or a stutter; expanding a
read when it is queued, and when it is taken, gives the same events. `CloseWatch` is `Stop`,
`UnstackStop` is `Drop`, and the watcher finds nothing after `stop` is set because it has
returned. `TailTextIsFile`
shows the text to be that of the file: trimming takes newlines only, the lines
between two cuts of a split keep all but the cuts, and what is shown after the events of a
read is what was shown before with the bytes of the read, newlines left out.

**`DynamicServerProofs`**: `OneTailPerInstance` and `RebootsAreAnnounced`. A tail
that runs is always listed in `server.instances`; once the first loop of a pass went past
it, it is in `stillRunning`; so the second loop starts no other for it. Tails
may end at any time between the two loops, which only makes the pass start
one less. The resets of an instance are counted against its starts.

**`RebootProofs`**: the refinement of `DynamicServer`, and `StaleIsBounded`. While a tail runs
none of its events is late. When it ends, the channel holds at most `ChannelCap` of its events, and its
unstacker owes what is left of the read in hand, or one more read if it was about to look
at `*stop`; from then on the events taken, those in the channel and those owed
never exceed the sum.

**`StartupProofs`**: `StartInv` follows the loops of `load` and `main` (what is accepted was
checked, what is started was accepted, the patterns registered are those of the servers
loaded), and gives `CheckedLogsOpen`, `OnlyDoublesPanic` and `ServingIsComplete`: two
patterns are alike only if two servers of a kind have one tag, whatever the segments of the
tags. That a tail of a pass belongs to a pass that was made is what `CheckedLogsOpen` needs of
`starting`. `HopsInv` says where a browser is after one and after two redirections, and
that no third follows, counted from the clean address on; `LinkInv` that a link is asked for
as it was printed, until it is stale.

**`ServerPageProofs`**: `PageInv` has eleven parts. `TailInv` says where the tail is in the
log, and that it told all of it up to there as long as it is `whole`. `ArchivesInv` (what was listed is sorted, each
archive once) gives `ArchivesNewestFirst`; `RowsInv` gives `RowsBounded`. `ResetInv` counts
the bare resets on the wire with the events lost so far, no more than the boots
(`ResetDropsOne`). `CatchInv` says that the rows, after the frames, the batch and the channel
are shown, are those of a page that got each event at once: a step of hub, writer or page
moves a message without changing that. `SubscribedInv` and `ClearInv` say of a reset
in the queue of the hub, on the wire or in the page that all that comes behind it
makes the end of what the tail told since; with `TailInv` that is the end of the log
(`ClearedPageIsLog`). `FreshInv` and `HolesInv` say that before a truncation the tail tells
lines in their order, with the queue holding the last ones told, and that what a page which
removes no rows would show in the end lacks no line told but the missed ones; one that
removes rows shows an end of it (`HolesAreMissed`).

Only model-checked: what needs fairness (`HubReturnsToSelect`, `GoroutinesEnd`,
`ResetReturns`, `QueueDrains`, `LetsGoOfOldFile`, `StoppedTailEnds`, `PresentIsTailed`,
`OldBootFallsSilent`), which these provers do not reach; `Highlighting`, which only has its
counterexample; and the other runs that find a disagreement.

## What is not modelled

YAML, the layout of the pages and the parsing of templates (fixed texts under constant
names), printing and the flag of the program; in the page, search, colours and scrolling;
compression; the content of the JSON list of instances; time (pauses, intervals and deadlines are only possible orders of steps); and
errors of the operating system other than a missing or unreadable file.

## Plan

1. `Hub` with `HubProofs`; `LogTail` with `LogTailProofs`; `DynamicServer`;
   `ServerPage`; `Highlighting`: done.
2. `Reboot`: the tails of several boots, `outputChannel` and the passes, composed; what a
   reboot makes of a page, `ResetDropsOne`: done.
3. `Startup`: the checks of the configuration as a whole, `main`, the routes: done.
4. Proofs of every invariant and action property of the runs, and of the refinements:
   done.
5. To do: shorter and more readable proofs where one leaf still does much
   (`StartupProofs`, the cases of `Next`); a refinement that ties the tail of
   `ServerPage`, which follows lines, to `LogTail`, which follows bytes, as a composed
   module; the loop of `Highlighting` for lists without an unnamed rule.
