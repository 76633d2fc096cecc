------------------------------ MODULE Startup ------------------------------
(***************************************************************************)
(* From the configuration file to the answer of a request: the checks of   *)
(* config.go, the goroutines and maps that main.go sets up, the routes of  *)
(* web_server.go, and what their handlers answer to the links of the pages *)
(* (resources/*.tmpl) and to addresses that a visitor types.               *)
(*                                                                         *)
(* Paths are sequences of segments, decoded and as path.Clean leaves them: *)
(* without empty ones, "." and "..".  A proxy in front of the program      *)
(* strips url-prefix and nothing else.  What the handlers read for a page  *)
(* is in ServerPage, the loop over highlighting rules in Highlighting, the *)
(* passes after the first one in DynamicServer.                            *)
(***************************************************************************)
EXTENDS Naturals, Sequences, FiniteSets, SequencesExt

CONSTANTS
  Tags,         \* values of server-tag that pass its tests, as the segments they make
  BadTags,      \* values that do not: empty, more than 64 characters, none allowed
  Taken,        \* for each segment that starts with a letter, a digit, "_", "-" or ".",
                \* all that follow one another from there on, 64 of them at most
  Ids,          \* identifiers of instances
  Files,        \* files that match the pattern of a dynamic server: its tag, and their
                \* identifier or NoText
  Archives,     \* names in base64 of archives, as the segments they make
  Undecodable,  \* segments with a "+", which QueryUnescape makes a space
  Typed,        \* addresses that a visitor types: path, whether a slash follows it, and
                \* whether the address is clean
  MaxServers    \* bound: servers in the configuration

\* The empty string of Go: no instance, no group, no prefix, no archives.
NoText == ""

ASSUME StartupAssumption ==
  /\ Tags \cap BadTags = {} /\ MaxServers \in Nat \ {0}
  /\ Tags \cup BadTags \cup Archives \subseteq Seq(STRING)
  /\ Typed \subseteq [path : Seq(STRING), slash : BOOLEAN, clean : BOOLEAN]
  /\ Taken \in [DOMAIN Taken -> STRING] /\ DOMAIN Taken \subseteq STRING
  /\ NoText \notin DOMAIN Taken /\ \A s \in DOMAIN Taken : Taken[s] # NoText
  /\ Ids \cup Undecodable \subseteq STRING /\ NoText \notin Ids
  /\ Files \subseteq Tags \X (Ids \cup {NoText})
  /\ <<>> \notin Tags \cup Archives /\ \A tag \in Tags : NoText \notin ToSet(tag)

\* True of TLA+, and said here because the provers do not know it.
ASSUME LiteralsAreStrings ==
  {NoText, "server", "archive", "dyn-archive", "dynamic", "ws", "res",
   "global-css", "server-css", "archive-css"} \subseteq STRING

VARIABLES
  status,   \* "options", "load" (then the goroutines start), "routed", "serving", or
            \* the end: "refused" (an error), "fatal" (log.Fatal), "panic", "fault"
  config,   \* url-prefix, the number of entries, the servers accepted so far
  logs,     \* the log of each classic server: "there", "never" there or "gone"
  lists,    \* the keys of hub.clientsByServer
  outer,    \* the keys of hub.clientsByDynamicServer
  tails,    \* the tail of each classic server started: "stat" or "watch"
  passes,   \* for each dynamic server started, whether its first pass was made
  starting, \* the tails of instances that the first passes started, before os.Stat
  routes,   \* the patterns registered
  here,     \* the instances whose log files exist, NoText for a file that matches the
            \* pattern of a server and has no identifier; from the loading of it on
  req       \* a request: pc, the link followed, whether the address was clean, url, hops,
            \* the page answered

loadVars == <<config, logs>>
startVars == <<lists, outer, tails, passes, starting>>
vars == <<status, loadVars, startVars, routes, here, req>>

Running == status \in {"options", "load", "routed", "serving"}

Page(kind, tag, id, name) == [kind |-> kind, tag |-> tag, id |-> id, name |-> name]
Other(kind) == Page(kind, <<>>, NoText, <<>>)
Url(path, slash, only) == [path |-> path, slash |-> slash, only |-> only]
Root == Url(<<>>, TRUE, <<>>)
NoLink == [url |-> Root, leads |-> Other("any")]

Init ==
  /\ status = "options"
  /\ config = [prefix |-> NoText, size |-> [classic |-> 0, dynamic |-> 0],
               classic |-> <<>>, dynamic |-> <<>>]
  /\ logs = <<>> /\ lists = {} /\ outer = {} /\ tails = <<>> /\ passes = <<>>
  /\ starting = {} /\ routes = {} /\ here = {}
  /\ req = [pc |-> "none", link |-> NoLink, stale |-> FALSE, clean |-> TRUE, url |-> Root,
            hops |-> 0, page |-> Other("any")]

-----------------------------------------------------------------------------
(* The configuration *)

Options == [file : BOOLEAN, delay : {"fine", "wrong", "negative"}, styles : BOOLEAN,
            prefix : {NoText, "/", "/p"}, classic : 0 .. MaxServers, dynamic : 0 .. MaxServers]

\* Mutant of UrlPrefix: a single slash is kept.
UrlPrefixKept(prefix) == prefix

UrlPrefix(prefix) == IF prefix = "/" THEN NoText ELSE prefix

LoadOptions ==
  /\ status = "options"
  /\ \E o \in Options :
       /\ o.classic + o.dynamic <= MaxServers
       /\ IF o.file /\ o.delay = "fine" /\ o.styles /\ o.classic + o.dynamic > 0
          THEN /\ status' = "load"
               /\ config' = [config EXCEPT !.prefix = UrlPrefix(o.prefix),
                    !.size = [classic |-> o.classic, dynamic |-> o.dynamic]]
          ELSE status' = "refused" /\ UNCHANGED config
  /\ UNCHANGED <<logs, startVars, routes, here, req>>

ClassicEntry == [tag : Tags \cup BadTags, log : {"file", "dir", "none"}, rules : {"fine", "panic"},
                 archives : {NoText, "dir", "file", "none"}, format : BOOLEAN]
DynamicEntry == [tag : Tags \cup BadTags, pattern : BOOLEAN, regexp : BOOLEAN,
                 rules : {"fine", "panic"}, archives : BOOLEAN, format : BOOLEAN]

\* loadCommon between the tests before and after it.
Outcome(e, before, after) ==
  IF before \/ e.tag \in BadTags THEN "refused"
  ELSE IF e.rules = "panic" THEN "panic"
  ELSE IF after THEN "refused" ELSE "load"

\* checkFile and checkDir fail.
FileFails(f) == f \in {"dir", "none"}
DirFails(d) == d \in {"file", "none"}

\* Mutant of ClassicOutcome: the log file is not checked.
ClassicOutcomeAnyLog(e) ==
  Outcome(e, FALSE, e.archives # NoText /\ (DirFails(e.archives) \/ ~e.format))

ClassicOutcome(e) ==
  Outcome(e, FileFails(e.log), e.archives # NoText /\ (DirFails(e.archives) \/ ~e.format))
DynamicOutcome(e) ==
  Outcome(e, FALSE, ~e.pattern \/ ~e.regexp \/ (e.archives /\ ~e.format))

LoadClassic ==
  /\ status = "load" /\ Len(config.classic) < config.size.classic
  /\ \E e \in ClassicEntry :
       /\ status' = ClassicOutcome(e)
       /\ IF status' = "load"
          THEN /\ config' = [config EXCEPT
                    !.classic = Append(@, [tag |-> e.tag, archives |-> e.archives # NoText])]
               /\ logs' = Append(logs, IF e.log = "file" THEN "there" ELSE "never")
          ELSE UNCHANGED loadVars
  /\ UNCHANGED <<startVars, routes, here, req>>

LoadDynamic ==
  /\ status = "load" /\ Len(config.classic) = config.size.classic
  /\ Len(config.dynamic) < config.size.dynamic
  /\ \E e \in DynamicEntry :
       /\ status' = DynamicOutcome(e)
       /\ config' = IF status' = "load"
                    THEN [config EXCEPT
                           !.dynamic = Append(@, [tag |-> e.tag, archives |-> e.archives])]
                    ELSE config
  /\ UNCHANGED <<logs, startVars, routes, here, req>>

-----------------------------------------------------------------------------
(* main *)

AllLoaded ==
  Len(config.classic) = config.size.classic /\ Len(config.dynamic) = config.size.dynamic
Starting == status = "load" /\ AllLoaded
ClassicStarted == Len(tails) = Len(config.classic)

\* The list of clients, then the tail.
StartClassic ==
  /\ Starting /\ ~ClassicStarted
  /\ lists' = lists \cup {config.classic[Len(tails) + 1].tag}
  /\ tails' = Append(tails, "stat")
  /\ UNCHANGED <<status, loadVars, outer, passes, starting, routes, here, req>>

\* Mutant of StartDynamic: the map of the server is not made.
StartDynamicNoMap ==
  /\ Starting /\ ClassicStarted /\ Len(passes) < Len(config.dynamic)
  /\ passes' = Append(passes, FALSE)
  /\ UNCHANGED <<status, loadVars, lists, outer, tails, starting, routes, here, req>>

StartDynamic ==
  /\ Starting /\ ClassicStarted /\ Len(passes) < Len(config.dynamic)
  /\ outer' = outer \cup {config.dynamic[Len(passes) + 1].tag}
  /\ passes' = Append(passes, FALSE)
  /\ UNCHANGED <<status, loadVars, lists, tails, starting, routes, here, req>>

\* os.Stat of watchServ.
TailStats(i) ==
  /\ Running /\ tails[i] = "stat"
  /\ IF logs[i] = "there" THEN tails' = [tails EXCEPT ![i] = "watch"] /\ UNCHANGED status
                          ELSE status' = "fatal" /\ UNCHANGED tails
  /\ UNCHANGED <<loadVars, lists, outer, passes, starting, routes, here, req>>

\* Until it is watched; what follows is in LogTail.
LogGone(i) ==
  /\ Running /\ logs[i] = "there" /\ (i \in DOMAIN tails => tails[i] = "stat")
  /\ logs' = [logs EXCEPT ![i] = "gone"]
  /\ UNCHANGED <<status, config, startVars, routes, here, req>>

\* getDynamicServerInstances; an entry without identifier and path is one of them.
InstancesOf(j) == {x[2] : x \in {y \in here : y[1] = config.dynamic[j].tag}}

\* The first pass of a server; it stores a list for each instance in the map of the
\* server, where a nil map panics, and starts a tail.
FirstPass(j) ==
  /\ Running /\ ~passes[j]
  /\ passes' = [passes EXCEPT ![j] = TRUE]
  /\ IF InstancesOf(j) # {} /\ config.dynamic[j].tag \notin outer
     THEN status' = "panic" /\ UNCHANGED starting
     ELSE starting' = starting \cup ({j} \X InstancesOf(j)) /\ UNCHANGED status
  /\ UNCHANGED <<loadVars, lists, outer, tails, routes, here, req>>

\* The path is one that os.Stat finds.
Stats(x) == x[2] # NoText /\ x[2] \in InstancesOf(x[1])

\* os.Stat of watchServ, for an instance.
InstanceStats(x) ==
  /\ Running
  /\ IF Stats(x) THEN starting' = starting \ {x} /\ UNCHANGED status
                 ELSE status' = "fatal" /\ UNCHANGED starting
  /\ UNCHANGED <<loadVars, lists, outer, tails, passes, routes, here, req>>

\* A log file appears, or goes; a link may be out of date by then.
Instance(x) ==
  /\ Running /\ req.pc # "done"
  /\ x[1] \in {s.tag : s \in ToSet(config.dynamic)}
  /\ here' = IF x \in here THEN here \ {x} ELSE here \cup {x}
  /\ req' = [req EXCEPT !.stale = @ \/ x = <<req.link.leads.tag, req.link.leads.id>>]
  /\ UNCHANGED <<status, loadVars, startVars, routes>>

\* main adds the map of a server while the pass of another one reads the outer map.
MapFault(j) ==
  /\ Starting /\ Len(passes) < Len(config.dynamic)
  /\ ~passes[j] /\ InstancesOf(j) # {}
  /\ status' = "fault"
  /\ UNCHANGED <<loadVars, startVars, routes, here, req>>

-----------------------------------------------------------------------------
(* startServer *)

Route(path, tree, to, tag) == [path |-> path, tree |-> tree, to |-> to, tag |-> tag]

ClassicRoutes(tag) == <<Route(<<"server">> \o tag, FALSE, "live", tag),
                        Route(<<"archive">> \o tag, TRUE, "archive", tag)>>

\* Mutant of DynamicRoutes: the archives of both kinds have one address.
DynamicRoutesShared(tag) == <<Route(<<"archive">> \o tag, TRUE, "dyn-archive", tag)>>

DynamicRoutes(tag) == <<Route(<<"dyn-archive">> \o tag, TRUE, "dyn-archive", tag)>>

FixedRoutes ==
  <<Route(<<"dynamic">>, TRUE, "dynamic", <<>>), Route(<<"server">>, FALSE, "home", <<>>),
    Route(<<"archive">>, FALSE, "home", <<>>), Route(<<>>, TRUE, "index", <<>>),
    Route(<<"ws">>, FALSE, "ws", <<>>), Route(<<"res">>, TRUE, "res", <<>>)>>

AllRoutes ==
  FlattenSeq([i \in DOMAIN config.classic |-> ClassicRoutes(config.classic[i].tag)])
    \o FlattenSeq([j \in DOMAIN config.dynamic |-> DynamicRoutes(config.dynamic[j].tag)])
    \o FixedRoutes

\* http.HandleFunc panics for a pattern that is registered already.
Register ==
  /\ Starting /\ ClassicStarted /\ Len(passes) = Len(config.dynamic)
  /\ IF \E i, j \in DOMAIN AllRoutes : i # j /\ AllRoutes[i].path = AllRoutes[j].path
                                             /\ AllRoutes[i].tree = AllRoutes[j].tree
     THEN status' = "panic" /\ UNCHANGED routes
     ELSE status' = "routed" /\ routes' = ToSet(AllRoutes)
  /\ UNCHANGED <<loadVars, startVars, here, req>>

\* The port may be in use.
Listen ==
  /\ status = "routed"
  /\ status' \in {"serving", "refused"}
  /\ UNCHANGED <<loadVars, startVars, routes, here, req>>

-----------------------------------------------------------------------------
(* Requests *)

Link(path, page) == [url |-> Url(path, FALSE, <<>>), leads |-> page]

Resources == {"global-css", "server-css", "archive-css"}

\* The navigation bar: home, and each classic server.
ServerLinks ==
  {[url |-> Root, leads |-> Other("index")]}
  \cup {Link(<<"server">> \o s.tag, Page("live", s.tag, NoText, <<>>)) :
          s \in ToSet(config.classic)}

\* The identifiers of the instances of a server.
Named(tag) == {id \in Ids : <<tag, id>> \in here}

\* The menu of a dynamic server: the request for its instances, and their links.
InstanceLinks(s) ==
  {[url |-> Url(<<"dynamic">>, TRUE, s.tag), leads |-> Page("json", s.tag, NoText, <<>>)]}
  \cup {Link(<<"dynamic">> \o s.tag \o <<id>>, Page("live", s.tag, id, <<>>)) :
          id \in Named(s.tag)}

\* submitArchive, on a page of the server, and of the instance if it has some.
ArchiveLinks(root, s, id) ==
  {Link(root \o s.tag \o (IF id = NoText THEN <<>> ELSE <<id>>) \o a,
        Page("archive", s.tag, id, a)) :
    a \in IF s.archives THEN Archives ELSE {}}

\* The addresses in the pages of servers.  The home page prints no more than the one of
\* its styles: navbar.tmpl asks for a field that indexHandler does not give.
Links ==
  ServerLinks
  \cup {Link(<<"ws">>, Other("ws"))}
  \cup {Link(<<"res", r>>, Page("res", <<>>, NoText, <<r>>)) : r \in Resources}
  \cup (UNION {ArchiveLinks(<<"archive">>, s, NoText) : s \in ToSet(config.classic)})
  \cup UNION {InstanceLinks(s) \cup UNION {ArchiveLinks(<<"dyn-archive">>, s, id) :
                  id \in Named(s.tag)} : s \in ToSet(config.dynamic)}

RequestUnchanged == UNCHANGED <<status, loadVars, startVars, routes, here>>

\* The page prints url-prefix before the path: with "/" the address starts with "//"
\* and names another host.
Follow ==
  /\ status = "serving" /\ req.pc = "none"
  /\ \E l \in Links :
       req' = [req EXCEPT !.link = l, !.url = l.url,
                          !.pc = IF config.prefix = "/" THEN "done" ELSE "ask",
                          !.page = IF config.prefix = "/" THEN Other("outside") ELSE @]
  /\ RequestUnchanged

Type ==
  /\ status = "serving" /\ req.pc = "none"
  /\ \E a \in Typed, only \in Tags \cup BadTags :
       /\ a.path = <<>> => a.slash
       /\ only # <<>> => a.path = <<"dynamic">>
       /\ req' = [req EXCEPT !.pc = "ask", !.clean = a.clean, !.url = Url(a.path, a.slash, only)]
  /\ RequestUnchanged

Asking == status = "serving" /\ req.pc = "ask"

Answer(page) == req' = [req EXCEPT !.pc = "done", !.page = page] /\ RequestUnchanged

\* An address without url-prefix leads out of the site if there is one.
Redirect(prefix, url) ==
  /\ req' = IF prefix = config.prefix
            THEN [req EXCEPT !.hops = req.hops + 1, !.url = url]
            ELSE [req EXCEPT !.hops = req.hops + 1, !.pc = "done", !.page = Other("outside")]
  /\ RequestUnchanged

\* ServeMux: the longest pattern; a tree is also found without its last slash.  Addresses
\* that are not clean, and those of trees without it, are redirected.
Clean == req.clean \/ req.hops > 0
Exact == {r \in routes : r.path = req.url.path /\ r.tree = req.url.slash}
Trees == {r \in routes : r.tree /\ r.path # req.url.path /\ IsPrefix(r.path, req.url.path)}
MuxRedirects ==
  Exact = {} /\ ~req.url.slash /\ \E r \in routes : r.tree /\ r.path = req.url.path
Matched == CHOOSE r \in Exact \cup Trees : \A q \in Exact \cup Trees : Len(q.path) <= Len(r.path)
Asks(to) == Asking /\ Clean /\ ~MuxRedirects /\ Matched.to = to

CleanPath == Asking /\ ~Clean /\ ~MuxRedirects /\ Redirect(NoText, req.url)

AddSlash == Asking /\ MuxRedirects /\ Redirect(NoText, [req.url EXCEPT !.slash = TRUE])

LogHandler == Asks("live") /\ Answer(Page("live", Matched.tag, NoText, <<>>))

\* Mutant of Parts: the server is taken for a part.
PartsWithServer == SubSeq(req.url.path, 2, Len(req.url.path))

\* parts[2:].
Parts == SubSeq(req.url.path, 3, Len(req.url.path))

\* filePathUnescape: the empty string when it fails.
Unescaped(segment) == IF segment \in Undecodable THEN <<>> ELSE <<segment>>

ArchiveHandler ==
  /\ Asks("archive")
  /\ \/ Len(Parts) = 0 /\ Answer(Page("list", Matched.tag, NoText, <<>>))
     \/ Len(Parts) = 1 /\ Answer(Page("archive", Matched.tag, NoText, Unescaped(Parts[1])))
     \/ Len(Parts) > 1 /\ Redirect(config.prefix, Root)

DynamicArchiveHandler ==
  /\ Asks("dyn-archive")
  /\ \/ Len(Parts) = 1 /\ Answer(Page("list", Matched.tag, Parts[1], <<>>))
     \/ Len(Parts) = 2 /\ Answer(Page("archive", Matched.tag, Parts[1], Unescaped(Parts[2])))
     \/ Len(Parts) \notin {1, 2} /\ Redirect(config.prefix, Root)

\* The keys of getAllDynamicInstances.
ServersListed(only) ==
  {s.tag : s \in {t \in ToSet(config.dynamic) : only \in {<<>>, t.tag}}}

\* dynamicServersListHandler: the instances of one server, or of all.
InstanceList ==
  /\ Asks("dynamic") /\ Len(req.url.path) = 1
  /\ Answer(IF req.url.only \in {<<>>} \cup ServersListed(req.url.only)
            THEN Page("json", req.url.only, NoText, <<>>) ELSE Other("not found"))

\* What dynamicServerPathRegexp takes of a segment.
Allowed(segment) == IF segment \in DOMAIN Taken THEN Taken[segment] ELSE NoText

\* It is not anchored: the first "dynamic" with a server behind it counts.
Matches == {k \in DOMAIN Tail(req.url.path) :
              req.url.path[k] = "dynamic" /\ Allowed(req.url.path[k + 1]) # NoText}
Match == CHOOSE k \in Matches : \A j \in Matches : k <= j

\* Its groups; what stands between the server and the next slash hides the instance.
ServerGroup == IF Matches = {} THEN NoText ELSE Allowed(req.url.path[Match + 1])
InstanceGroup ==
  IF Matches # {} /\ Match + 2 \in DOMAIN req.url.path /\ ServerGroup = req.url.path[Match + 1]
  THEN Allowed(req.url.path[Match + 2]) ELSE NoText

Present(tag, id) == <<tag, id>> \in here /\ \E j \in DOMAIN config.dynamic : config.dynamic[j].tag = tag

\* dynamicServerHandler, when the path has a server and an instance.
ShowInstance ==
  /\ ServerGroup # NoText /\ InstanceGroup # NoText
  /\ IF Present(<<ServerGroup>>, InstanceGroup)
     THEN Answer(Page("live", <<ServerGroup>>, InstanceGroup, <<>>)) ELSE Redirect(NoText, Root)

\* Mutant of InstanceHandler: without an instance the same address is asked again.
InstanceHandlerLoops ==
  /\ Asks("dynamic") /\ Len(req.url.path) > 1
  /\ \/ ServerGroup = NoText /\ Redirect(NoText, Root)
     \/ /\ ServerGroup # NoText /\ InstanceGroup = NoText
        /\ Redirect(NoText, Url(<<"dynamic", ServerGroup>>, FALSE, <<>>))
     \/ ShowInstance

\* dynamicServerHandler; serverTagRegexp matches every path.
InstanceHandler ==
  /\ Asks("dynamic") /\ Len(req.url.path) > 1
  /\ \/ ServerGroup = NoText /\ Redirect(NoText, Root)
     \/ /\ ServerGroup # NoText /\ InstanceGroup = NoText
        /\ Redirect(NoText, Url(<<"dynamic">>, FALSE, <<ServerGroup>>))
     \/ ShowInstance

HomeHandler == Asks("home") /\ Redirect(config.prefix, Root)

IndexHandler ==
  Asks("index") /\ Answer(IF req.url.path = <<>> THEN Other("index") ELSE Other("not found"))

ServeWs == Asks("ws") /\ Answer(Other("ws"))

ServeResource ==
  /\ Asks("res")
  /\ Answer(IF Len(req.url.path) = 2 /\ ~req.url.slash /\ req.url.path[2] \in Resources
            THEN Page("res", <<>>, NoText, <<req.url.path[2]>>) ELSE Other("not found"))

Handle == CleanPath \/ AddSlash \/ LogHandler \/ ArchiveHandler \/ DynamicArchiveHandler \/ InstanceList
          \/ InstanceHandler \/ HomeHandler \/ IndexHandler \/ ServeWs \/ ServeResource

-----------------------------------------------------------------------------
Next ==
  \/ LoadOptions \/ LoadClassic \/ LoadDynamic
  \/ StartClassic \/ StartDynamic \/ Register \/ Listen
  \/ \E i \in DOMAIN tails : TailStats(i)
  \/ \E i \in DOMAIN logs : LogGone(i)
  \/ \E j \in DOMAIN passes : FirstPass(j) \/ MapFault(j)
  \/ \E x \in starting : InstanceStats(x)
  \/ \E x \in Files : Instance(x)
  \/ Follow \/ Type \/ Handle

Spec == Init /\ [][Next]_vars
-----------------------------------------------------------------------------
(* Properties *)

Server == [tag : Tags, archives : BOOLEAN]
Pages == [kind : {"any", "index", "live", "list", "archive", "json", "res", "ws", "not found",
                  "outside"}, tag : Seq(STRING), id : STRING, name : Seq(STRING)]
Urls == [path : Seq(STRING), slash : BOOLEAN, only : Seq(STRING)]

\* Every variable has its type.
TypeOK ==
  /\ status \in {"options", "load", "routed", "serving", "refused", "fatal", "panic", "fault"}
  /\ config \in [prefix : {NoText, "/p"}, size : [classic : 0 .. MaxServers, dynamic : 0 .. MaxServers],
                 classic : Seq(Server), dynamic : Seq(Server)]
  /\ logs \in Seq({"there", "never", "gone"}) /\ Len(logs) = Len(config.classic)
  /\ lists \subseteq Tags /\ outer \subseteq Tags
  /\ tails \in Seq({"stat", "watch"}) /\ passes \in Seq(BOOLEAN)
  /\ starting \subseteq (1 .. MaxServers) \X (Ids \cup {NoText})
  /\ routes \in SUBSET [path : Seq(STRING), tree : BOOLEAN, tag : Seq(STRING),
       to : {"live", "archive", "dyn-archive", "dynamic", "home", "index", "ws", "res"}]
  /\ here \subseteq Files
  /\ req \in [pc : {"none", "ask", "done"}, link : [url : Urls, leads : Pages],
              stale : BOOLEAN, clean : BOOLEAN, url : Urls, hops : Nat, page : Pages]

\* log.Fatal ends the program for the log of a classic server only when it went away
\* after it was checked: main starts what loadConfigFrom accepted, some time later
\* (config.go:244, main.go:48, watcher.go:20).  Otherwise it is for a tail that the first
\* pass of a dynamic server started: of an instance whose log went away since that pass
\* found it, or of a file without identifier (dynamic.go:60-68 and 107).
CheckedLogsOpen ==
  status = "fatal" => \/ \E i \in DOMAIN tails : tails[i] = "stat" /\ logs[i] = "gone"
                      \/ \E x \in starting : passes[x[1]] /\ ~Stats(x)

\* Once requests are served, every server of the configuration has its list or map, a
\* tail or a pass, and the patterns of its own: none is missing, and none of another
\* server stands in its place (main.go:42-67, web_server.go:122-138).
ServingIsComplete ==
  status = "serving" =>
    /\ lists = {s.tag : s \in ToSet(config.classic)} /\ Len(tails) = config.size.classic
    /\ outer = {s.tag : s \in ToSet(config.dynamic)} /\ Len(passes) = config.size.dynamic
    /\ Cardinality(routes) = Len(AllRoutes)

\* The only servers that may not stand in one configuration are two of a kind with one
\* tag: a classic and a dynamic server may share it, and no pass meets a missing map
\* (web_server.go:127, 136, dynamic.go:57).  Rules that panic do so while loading.
OnlyDoublesPanic ==
  (status = "panic" /\ AllLoaded) =>
    \E servers \in {config.classic, config.dynamic} :
      \E i, j \in DOMAIN servers : i # j /\ servers[i].tag = servers[j].tag

\* A browser that follows the redirections for any address comes to a page after two of
\* them at most, and one more for an address that is not clean: those of ServeMux and of
\* the handlers never send it in a circle (web_server.go:84, 101, 140-159, 265-278).
RedirectsEnd == req.hops <= (IF req.clean THEN 2 ELSE 3)

\* No other server has a tag that goes on behind this one, as "a/f" behind "a".
Alone(tag) ==
  \A s \in ToSet(config.classic) \cup ToSet(config.dynamic) : IsPrefix(tag, s.tag) => s.tag = tag

\* Links whose tag, identifier and archive are one plain segment each.
Plain(page) ==
  /\ page.tag = <<>> \/ (Len(page.tag) = 1 /\ Allowed(page.tag[1]) = page.tag[1] /\ Alone(page.tag))
  /\ Allowed(page.id) = page.id
  /\ Len(page.name) <= 1 /\ \A k \in DOMAIN page.name : page.name[k] \notin Undecodable

\* Every link of the pages leads to the page it is for, through url-prefix, ServeMux and
\* the splitting of the path: but for an instance that stopped meanwhile, which leads to
\* the home page or out of url-prefix, and for a server whose tag another one continues,
\* which has the addresses of the first one's archives.
LinksLeadToTheirPage ==
  (req.pc = "done" /\ req.link # NoLink /\ Plain(req.link.leads)) =>
    \/ req.page = req.link.leads
    \/ req.stale /\ req.page.kind \in {"index", "outside"}
=============================================================================
