--------------------------- MODULE DynamicServer ---------------------------
(***************************************************************************)
(* The instances of one dynamic server (dynamic.go): watchForInstances     *)
(* looks for log files that match the pattern, again and again, and starts *)
(* a tail for each instance that has none.  A tail is watchServ and        *)
(* unstackDynamic, which LogTail describes; here it only starts, notices   *)
(* that its file was renamed or removed, and ends.  The hub's side of a    *)
(* new or rebooted instance is in Hub (NewInstance, RebootedInstance).     *)
(***************************************************************************)
EXTENDS Naturals, Sequences, FiniteSets

CONSTANTS
  Paths,        \* the paths that may match log-file-pattern, in their order
  IdOf,         \* the identifier in each path, NoId where there is none
  MaxAppear     \* bound: log files that appear at these paths

NoId == ""
NoPath == ""

File == {Paths[i] : i \in DOMAIN Paths}
Id == {IdOf[f] : f \in File} \ {NoId}

ASSUME DynamicAssumption ==
  /\ Paths \in Seq(File)
  /\ NoPath \notin File
  /\ DOMAIN IdOf = File
  /\ MaxAppear \in Nat

VARIABLES
  status,     \* "up", or "fatal" after log.Fatal
  present,    \* the log file at each path: its number, 0 without one
  appeared,   \* files that appeared so far
  tails,      \* every goroutine started: its instance, the file it watches
  instances,  \* server.instances, as indices of tails
  known,      \* the keys of hub.clientsByDynamicServer[server.tag]
  pass,       \* the pass of watchForInstances: pc, i, stillRunning, the files
  resets      \* auxiliary: the calls of sendResetMessage for each instance

fileVars == <<present, appeared>>
vars == <<status, fileVars, tails, instances, known, pass, resets>>

Up == status = "up"

Init ==
  /\ status = "up"
  /\ present = [f \in File |-> 0]
  /\ appeared = 0
  /\ tails = <<>>
  /\ instances = <<>>
  /\ known = {}
  /\ pass = [pc |-> "prune", i |-> 1, running |-> {}, latest |-> <<>>]
  /\ resets = [id \in Id \cup {NoId} |-> 0]

-----------------------------------------------------------------------------
(* The log files *)

Appear(f) ==
  /\ Up /\ present[f] = 0 /\ appeared < MaxAppear
  /\ appeared' = appeared + 1
  /\ present' = [present EXCEPT ![f] = appeared + 1]
  /\ UNCHANGED <<status, tails, instances, known, pass, resets>>

\* Renamed or removed.
Disappear(f) ==
  /\ Up /\ present[f] # 0
  /\ present' = [present EXCEPT ![f] = 0]
  /\ UNCHANGED <<status, appeared, tails, instances, known, pass, resets>>

-----------------------------------------------------------------------------
(* A pass of watchForInstances *)

Without(s, i) == SubSeq(s, 1, i - 1) \o SubSeq(s, i + 1, Len(s))

\* Mutant of PruneOne: i is not taken back after a removal.
PruneOneSkips ==
  /\ Up /\ pass.pc = "prune" /\ pass.i <= Len(instances)
  /\ LET t == instances[pass.i] IN
     IF tails[t].pc = "ended"
     THEN /\ instances' = Without(instances, pass.i)
          /\ pass' = [pass EXCEPT !.i = @ + 1]
     ELSE /\ pass' = [pass EXCEPT !.i = @ + 1, !.running = @ \cup {tails[t].id}]
          /\ UNCHANGED instances
  /\ UNCHANGED <<status, fileVars, tails, known, resets>>

\* One round of the first loop; ended is read without synchronisation.
PruneOne ==
  /\ Up /\ pass.pc = "prune" /\ pass.i <= Len(instances)
  /\ LET t == instances[pass.i] IN
     IF tails[t].pc = "ended"
     THEN /\ instances' = Without(instances, pass.i)
          /\ UNCHANGED pass
     ELSE /\ pass' = [pass EXCEPT !.i = pass.i + 1,
                                  !.running = pass.running \cup {tails[t].id}]
          /\ UNCHANGED instances
  /\ UNCHANGED <<status, fileVars, tails, known, resets>>

\* getDynamicServerInstances: one record for each file of filepath.Glob, left at
\* its zero value when the path holds no identifier.
Found(f) == IF IdOf[f] = NoId THEN [id |-> NoId, path |-> NoPath]
                              ELSE [id |-> IdOf[f], path |-> f]

\* The places in Paths of the files that match now, and the k-th of these files.
Matching == {i \in DOMAIN Paths : present[Paths[i]] # 0}
Match(k) ==
  Paths[CHOOSE i \in Matching : Cardinality({j \in Matching : j <= i}) = k]

Glob ==
  /\ Up /\ pass.pc = "prune" /\ pass.i > Len(instances)
  /\ pass' = [pc |-> "start", i |-> 1, running |-> pass.running,
              latest |-> [k \in 1 .. Cardinality(Matching) |-> Found(Match(k))]]
  /\ UNCHANGED <<status, fileVars, tails, instances, known, resets>>

InStart == pass.pc = "start" /\ pass.i <= Len(pass.latest)
Instance == pass.latest[pass.i]

SkipRunning ==
  /\ Up /\ InStart /\ Instance.id \in pass.running
  /\ pass' = [pass EXCEPT !.i = @ + 1]
  /\ UNCHANGED <<status, fileVars, tails, instances, known, resets>>

\* Mutant of StartTail: every start is announced, the first one too.
StartTailResets ==
  /\ Up /\ InStart /\ Instance.id \notin pass.running
  /\ known' = known \cup {Instance.id}
  /\ resets' = [resets EXCEPT ![Instance.id] = @ + 1]
  /\ tails' = Append(tails, [id |-> Instance.id, path |-> Instance.path,
                             file |-> 0, pc |-> "stat"])
  /\ instances' = Append(instances, Len(tails) + 1)
  /\ pass' = [pass EXCEPT !.i = @ + 1]
  /\ UNCHANGED <<status, fileVars>>

\* Mutant of StartTail: the instance of the round before is registered.
StartTailRegistersLast ==
  /\ Up /\ InStart /\ Instance.id \notin pass.running
  /\ IF Instance.id \in known
     THEN /\ resets' = [resets EXCEPT ![Instance.id] = @ + 1]
          /\ UNCHANGED known
     ELSE /\ known' = known \cup {Instance.id}
          /\ UNCHANGED resets
  /\ tails' = Append(tails, [id |-> Instance.id, path |-> Instance.path,
                             file |-> 0, pc |-> "stat"])
  /\ instances' = Append(instances, Len(tails))
  /\ pass' = [pass EXCEPT !.i = @ + 1]
  /\ UNCHANGED <<status, fileVars>>

\* The list of clients is kept and reset if there is one, else it is created;
\* then a tail is started.
StartTail ==
  /\ Up /\ InStart /\ Instance.id \notin pass.running
  /\ IF Instance.id \in known
     THEN /\ resets' = [resets EXCEPT ![Instance.id] = @ + 1]
          /\ UNCHANGED known
     ELSE /\ known' = known \cup {Instance.id}
          /\ UNCHANGED resets
  /\ tails' = Append(tails, [id |-> Instance.id, path |-> Instance.path,
                             file |-> 0, pc |-> "stat"])
  /\ instances' = Append(instances, Len(tails) + 1)
  /\ pass' = [pass EXCEPT !.i = @ + 1]
  /\ UNCHANGED <<status, fileVars>>

\* time.Sleep, and the next pass.
EndPass ==
  /\ Up /\ pass.pc = "start" /\ pass.i > Len(pass.latest)
  /\ pass' = [pc |-> "prune", i |-> 1, running |-> {}, latest |-> <<>>]
  /\ UNCHANGED <<status, fileVars, tails, instances, known, resets>>

-----------------------------------------------------------------------------
(* The goroutine of an instance *)

FileAt(path) == IF path \in File THEN present[path] ELSE 0

\* os.Stat or watcher.Add: log.Fatal when there is no file at the path.
TailFails(t) ==
  /\ Up /\ tails[t].pc = "stat" /\ FileAt(tails[t].path) = 0
  /\ status' = "fatal"
  /\ UNCHANGED <<fileVars, tails, instances, known, pass, resets>>

TailWatches(t) ==
  /\ Up /\ tails[t].pc = "stat" /\ FileAt(tails[t].path) # 0
  /\ tails' = [tails EXCEPT ![t] =
                  [@ EXCEPT !.pc = "watch", !.file = FileAt(tails[t].path)]]
  /\ UNCHANGED <<status, fileVars, instances, known, pass, resets>>

\* The file it watches was renamed or removed: watchServ returns.
TailReturns(t) ==
  /\ Up /\ tails[t].pc = "watch" /\ FileAt(tails[t].path) # tails[t].file
  /\ tails' = [tails EXCEPT ![t].pc = "returned"]
  /\ UNCHANGED <<status, fileVars, instances, known, pass, resets>>

\* Mutant of TailEnds: ended stays false.
TailEndsUnmarked(t) ==
  /\ Up /\ tails[t].pc = "returned" /\ UNCHANGED vars

\* stop = true; instance.ended = true.
TailEnds(t) ==
  /\ Up /\ tails[t].pc = "returned"
  /\ tails' = [tails EXCEPT ![t].pc = "ended"]
  /\ UNCHANGED <<status, fileVars, instances, known, pass, resets>>

-----------------------------------------------------------------------------
PassStep == PruneOne \/ Glob \/ SkipRunning \/ StartTail \/ EndPass

TailStep(t) == TailFails(t) \/ TailWatches(t) \/ TailReturns(t) \/ TailEnds(t)

Next ==
  \/ \E f \in File : Appear(f) \/ Disappear(f)
  \/ PassStep
  \/ \E t \in DOMAIN tails : TailStep(t)

Spec == Init /\ [][Next]_vars

\* The loop of watchForInstances and every goroutine it starts go on, and the
\* program that had a removed log open closes it, which is when the removal is
\* notified.  Nothing else is assumed of the files.
FairSpec ==
  /\ Spec
  /\ WF_vars(PassStep)
  /\ \A t \in 1 .. MaxAppear : WF_vars(t \in DOMAIN tails /\ TailStep(t))

-----------------------------------------------------------------------------
(* Properties *)

Live == {t \in DOMAIN tails : tails[t].pc # "ended"}

AnyId == Id \cup {NoId}

AnyPath == File \cup {NoPath}

TailState == [id : AnyId, path : AnyPath, file : Nat,
              pc : {"stat", "watch", "returned", "ended"}]

FoundState == [id : AnyId, path : AnyPath]

PassState == [pc : {"prune", "start"}, i : Nat \ {0}, running : SUBSET AnyId,
              latest : Seq(FoundState)]

\* Every variable has its type.
TypeOK ==
  /\ status \in {"up", "fatal"}
  /\ present \in [File -> Nat]
  /\ appeared \in Nat
  /\ tails \in Seq(TailState)
  /\ instances \in Seq(DOMAIN tails)
  /\ known \subseteq AnyId
  /\ pass \in PassState
  /\ resets \in [AnyId -> Nat]

\* An instance is tailed by one goroutine at a time, whatever ends while a pass
\* is looking: two would send every line twice (dynamic.go:33-40, 49-51).
OneTailPerInstance ==
  \A t1, t2 \in Live : tails[t1].id = tails[t2].id => t1 = t2

\* A reboot is announced to the clients once, before its tail starts, and the
\* first boot is not (dynamic.go:53-58).
RebootsAreAnnounced ==
  \A id \in known :
    resets[id] + 1 = Cardinality({t \in DOMAIN tails : tails[t].id = id})

\* A log file that stays is tailed in the end, also when it replaced one that
\* was tailed before.
PresentIsTailed ==
  \A f \in File : \A n \in 1 .. MaxAppear :
    (present[f] = n) ~>
      \/ \E t \in DOMAIN tails :
           tails[t].pc = "watch" /\ tails[t].path = f /\ tails[t].file = n
      \/ present[f] # n \/ ~Up

\* dynamic.go:13, "DynamicServerInstance represents an instance of a dynamic
\* server": a path without an identifier, which dynamic.go:106-109 reports and
\* leaves out, is no instance and gets no tail.
OnlyInstancesAreTailed == \A t \in DOMAIN tails : tails[t].id # NoId
=============================================================================
