------------------------------ MODULE ScanQueue ------------------------------
(***************************************************************************)
(* The library's scan: who asks for one, the queues a running scan drains, *)
(* and the pass that brings the library's rows up to the disk              *)
(* (src/core/src/library/scan.rs, with the watcher's reach into the core   *)
(* in src/core/src/core.rs and library/watcher.rs).                        *)
(*                                                                         *)
(* Scan runs one at a time.  A call made while one runs is handed its id,  *)
(* and leaves what it asked for on a queue the running job comes back to   *)
(* before it ends.  The watcher leaves the paths it saw change on another. *)
(* A pass resolves its scope to sources, and for each installs the watch,  *)
(* walks the tree, and reconciles the rows its scope speaks for.           *)
(*                                                                         *)
(* A series stands for its folder, or for its one file when it is a loose  *)
(* film; its contents are a version, nought when nothing is there.  The    *)
(* row holds the version the last reconcile read.                          *)
(*                                                                         *)
(* Left out: what the walk makes of a folder, the cards, the settle timers *)
(* and the auto-match they start, and the availability column (a source    *)
(* that cannot be read is a pass that reads nothing of it).                *)
(***************************************************************************)
EXTENDS Naturals, FiniteSets

CONSTANTS
  Caller,       \* threads that ask for a scan: calls and the launch
  Notify,       \* the thread the watcher reports on
  Source,       \* sources of the library
  Series,       \* series paths
  Dir,          \* paths above series: the sources' roots, shared folders
  Home,         \* Home[p]: the source a path is in
  Above,        \* Above[p]: the paths p is at or under
  Reported,     \* Reported[f]: parent_series_path of the files of series f
  Initial,      \* the sources of the last run of the program
  MaxVersion,   \* bound: changes of one series on disk
  MaxCalls,     \* bound: scans the user asks for
  MaxFaults     \* bound: scans cut short, reads, writes and watches failing

Path == Series \cup Dir
Thread == Caller \cup {Notify}
Root(s) == CHOOSE p \in Dir : Home[p] = s /\ Above[p] = {p}
Under(p, q) == q \in Above[p]

ASSUME ScanAssumption ==
  /\ Notify \notin Caller
  /\ Initial \subseteq Source
  /\ Home \in [Path -> Source]
  /\ Above \in [Path -> SUBSET Path]
  /\ \A p \in Path : p \in Above[p] /\ Root(Home[p]) \in Above[p]
  /\ \A s \in Source : Root(s) \in Dir /\ Home[Root(s)] = s
  /\ Reported \in [Series -> Path]
  /\ \A f \in Series : /\ Home[Reported[f]] = Home[f]
                       /\ Under(f, Reported[f]) \/ Under(Reported[f], f)
  /\ MaxVersion \in Nat \ {0} /\ MaxCalls \in Nat /\ MaxFaults \in Nat

Scope == [kind : {"all", "source"}, on : SUBSET Source]
           \cup [kind : {"series"}, on : SUBSET Series]
           \cup [kind : {"paths"}, on : SUBSET Path]
All == [kind |-> "all", on |-> {}]
OfSource(s) == [kind |-> "source", on |-> {s}]
OfSeries(f) == [kind |-> "series", on |-> {f}]
OfPaths(ps) == [kind |-> "paths", on |-> ps]

VARIABLES
  sources,  \* the rows of sources
  gone,     \* the sources removed: a path added again is another source
  watched,  \* the sources notify watches
  disk,     \* disk[f]: what is there
  library,  \* library[f]: what the rows say, 0 for missing or no row
  paths,    \* LibraryState::pending_paths
  scopes,   \* LibraryState::pending_scopes
  job,      \* the Scan job: where it is, its scope, its plan, its walk
  caller,   \* caller[c]: where a thread stands in start()
  events,   \* the paths notify has seen change and not reported yet
  owed,     \* the series behind with nobody to know: cut short, unreadable, or
            \* changed while their source was not watched
  calls,    \* scans asked for so far
  faults    \* what has failed so far

vars == <<sources, gone, watched, disk, library, paths, scopes, job, caller,
          events, owed, calls, faults>>
queues == <<paths, scopes>>
counts == <<calls, faults>>
rows == <<sources, gone, library>>

NoScopes == [all |-> FALSE, sources |-> {}, series |-> {}]
NoJob == [at |-> "none", scope |-> All, left |-> {}, walk |-> {},
          read |-> [f \in Series |-> 0]]
Free == [at |-> "free", scope |-> All]
Asking(scope) == [at |-> "spawn", scope |-> scope]

Stage == {"none", "take", "resolve", "retain", "visit", "walk", "reconcile",
          "next", "ending"}
ScanJob == [at : Stage, scope : Scope, left : SUBSET Source,
            walk : {{}} \cup {{s} : s \in Source},
            read : [Series -> 0..MaxVersion]]
Request == [at : {"free", "spawn", "remember", "ask", "respawn", "push",
                  "unwatch"},
            scope : Scope]

TypeOK ==
  /\ sources \subseteq Source /\ gone \subseteq Source
  /\ watched \subseteq Source
  /\ disk \in [Series -> 0..MaxVersion]
  /\ library \in [Series -> 0..MaxVersion]
  /\ paths \subseteq Path /\ events \subseteq Path /\ owed \subseteq Series
  /\ scopes \in [all : BOOLEAN, sources : SUBSET Source,
                 series : SUBSET Series]
  /\ job \in ScanJob
  /\ caller \in [Thread -> Request]
  /\ \A c \in Thread : caller[c].at \in {"push", "unwatch"}
                         => caller[c].scope.kind = "source"
  /\ calls \in 0..MaxCalls /\ faults \in 0..MaxFaults

\* The launch asks for a scan of everything: what is on disk may have
\* changed while the program was not running.
Init ==
  /\ sources = Initial /\ gone = {}
  /\ watched = {}
  /\ disk = [f \in Series |-> 1]
  /\ library \in [Series -> {0, 1}]
  /\ \A f \in Series : Home[f] \notin Initial => library[f] = 0
  /\ paths = {}
  /\ scopes = NoScopes
  /\ job = NoJob
  /\ \E c \in Caller :
       caller = [d \in Thread |-> IF d = c THEN Asking(All) ELSE Free]
  /\ events = {}
  /\ owed = {}
  /\ calls = 0 /\ faults = 0

-----------------------------------------------------------------------------
(* Asking for a scan                                                       *)

\* What start() is handed by a call; MaxCalls bounds them.
Asks(c, scope) ==
  /\ caller[c] = Free
  /\ caller' = [caller EXCEPT ![c] = Asking(scope)]
Counted == calls < MaxCalls /\ calls' = calls + 1
Fault == faults < MaxFaults /\ faults' = faults + 1

Scan(c) ==
  /\ Counted
  /\ Asks(c, All) \/ \E s \in Source : Asks(c, OfSource(s))
  /\ UNCHANGED <<rows, watched, disk, queues, job, events, owed, faults>>

\* RescanSeries: a series that has no row is refused.
RescanSeries(c, f) ==
  /\ Counted
  /\ library[f] # 0
  /\ Asks(c, OfSeries(f))
  /\ UNCHANGED <<rows, watched, disk, queues, job, events, owed, faults>>

\* RescanMany: one is asked for, the rest are queued before it starts.
RescanMany(c, f) ==
  /\ Counted
  /\ library[f] # 0
  /\ LET rest == {g \in Series \ {f} : library[g] # 0} IN
       /\ rest # {}
       /\ scopes' = IF scopes.all THEN scopes
                    ELSE [scopes EXCEPT !.series = @ \cup rest]
  /\ Asks(c, OfSeries(f))
  /\ UNCHANGED <<rows, watched, disk, paths, job, events, owed, faults>>

\* AddSource: the row, ...
AddSource(c, s) ==
  /\ Counted
  /\ s \notin sources \cup gone
  /\ sources' = sources \cup {s}
  /\ caller[c] = Free
  /\ caller' = [caller EXCEPT ![c] = [at |-> "push", scope |-> OfSource(s)]]
  /\ UNCHANGED <<gone, library, watched, disk, queues, job, events, owed,
                 faults>>

\* ... its path on the queue, and a scan of it.
Push(c) ==
  /\ caller[c].at = "push"
  /\ paths' = paths \cup {Root(s) : s \in caller[c].scope.on}
  /\ caller' = [caller EXCEPT ![c].at = "spawn"]
  /\ UNCHANGED <<rows, watched, disk, scopes, job, events, owed, counts>>

\* RemoveSource: the row and every series under it, then the watch.
RemoveSource(c, s) ==
  /\ Counted
  /\ s \in sources
  /\ sources' = sources \ {s} /\ gone' = gone \cup {s}
  /\ library' = [f \in Series |-> IF Home[f] = s THEN 0 ELSE library[f]]
  /\ caller[c] = Free
  /\ caller' = [caller EXCEPT ![c] = [at |-> "unwatch", scope |-> OfSource(s)]]
  /\ UNCHANGED <<watched, disk, queues, job, events, owed, faults>>

Unwatch(c) ==
  /\ caller[c].at = "unwatch"
  /\ watched' = watched \ caller[c].scope.on
  /\ caller' = [caller EXCEPT ![c] = Free]
  /\ UNCHANGED <<rows, disk, queues, job, events, owed, counts>>

\* on_watch_triggers, on notify's thread: the paths are queued and a scan of
\* the queue is asked for.
OnWatchTriggers ==
  /\ events # {}
  /\ paths' = paths \cup events
  /\ events' = {}
  /\ Asks(Notify, OfPaths({}))
  /\ UNCHANGED <<rows, watched, disk, scopes, job, owed, counts>>

\* ... or what changed is lost to an overflow, and everything is asked for.
WatchOverflow ==
  /\ Fault
  /\ events # {}
  /\ events' = {}
  /\ Asks(Notify, All)
  /\ UNCHANGED <<rows, watched, disk, queues, job, owed, calls>>

\* The registry's check and insertion, under its lock.
Spawned(scope) == [NoJob EXCEPT !.at = "take", !.scope = scope]

\* start(): the job, or the running one's id.
Spawn(c) ==
  /\ caller[c].at = "spawn"
  /\ IF job.at = "none"
     THEN /\ job' = Spawned(caller[c].scope)
          /\ caller' = [caller EXCEPT ![c] = Free]
     ELSE /\ caller' = [caller EXCEPT ![c].at = "remember"]
          /\ UNCHANGED job
  /\ UNCHANGED <<rows, watched, disk, queues, events, owed, counts>>

\* Mutant: a series is queued with the sources.
RememberedAsSource(scope) ==
  IF scope.kind = "all" THEN [all |-> TRUE, sources |-> {}, series |-> {}]
  ELSE IF scopes.all THEN scopes
  ELSE IF scope.kind \in {"source", "series"}
       THEN [scopes EXCEPT !.sources = @ \cup scope.on]
  ELSE scopes

\* Everything takes the place of the sources and series already queued.
Remembered(scope) ==
  IF scope.kind = "all" THEN [all |-> TRUE, sources |-> {}, series |-> {}]
  ELSE IF scopes.all THEN scopes
  ELSE IF scope.kind = "source"
       THEN [scopes EXCEPT !.sources = @ \cup scope.on]
  ELSE IF scope.kind = "series"
       THEN [scopes EXCEPT !.series = @ \cup scope.on]
  ELSE scopes

\* remember_scope: what the running scan cannot be speaking for.
Remember(c) ==
  /\ caller[c].at = "remember"
  /\ scopes' = Remembered(caller[c].scope)
  /\ paths' = IF caller[c].scope.kind = "paths"
              THEN paths \cup caller[c].scope.on ELSE paths
  /\ caller' = [caller EXCEPT ![c].at = "ask"]
  /\ UNCHANGED <<rows, watched, disk, job, events, owed, counts>>

\* Asking again once the slot is free.
Ask(c) ==
  /\ caller[c].at = "ask"
  /\ caller' = [caller EXCEPT ![c] =
                  IF job.at = "none" THEN [@ EXCEPT !.at = "respawn"] ELSE Free]
  /\ UNCHANGED <<rows, watched, disk, queues, job, events, owed, counts>>

Respawn(c) ==
  /\ caller[c].at = "respawn"
  /\ job' = IF job.at = "none" THEN Spawned(OfPaths({})) ELSE job
  /\ caller' = [caller EXCEPT ![c] = Free]
  /\ UNCHANGED <<rows, watched, disk, queues, events, owed, counts>>

Start(c) == \/ Push(c) \/ Spawn(c) \/ Remember(c) \/ Ask(c) \/ Respawn(c)
            \/ Unwatch(c)

-----------------------------------------------------------------------------
(* The job's passes                                                        *)

\* The paths a plan limits its work to, as reconcile_source tests them.
Whole(scope) == scope.kind \in {"all", "source"}
Reaches(scope, p) ==
  Whole(scope) \/ \E r \in scope.on : Under(p, r) \/ Under(r, p)

\* Mutant: a scan of the queue empties it and walks only what it was handed.
TakeHanded ==
  /\ job.at = "take"
  /\ job' = [job EXCEPT !.at = "resolve"]
  /\ paths' = IF job.scope.kind = "paths" THEN {} ELSE paths
  /\ UNCHANGED <<rows, watched, disk, scopes, caller, events, owed, counts>>

\* A scan of the queue takes all of it.
Take ==
  /\ job.at = "take"
  /\ IF job.scope.kind = "paths"
     THEN /\ job' = [job EXCEPT !.at = "resolve", !.scope.on = @ \cup paths]
          /\ paths' = {}
     ELSE /\ job' = [job EXCEPT !.at = "resolve"]
          /\ UNCHANGED paths
  /\ UNCHANGED <<rows, watched, disk, scopes, caller, events, owed, counts>>

\* The sources a scope names.  A series that is gone names none.
Targets(scope) ==
  IF scope.kind = "all" THEN sources
  ELSE IF scope.kind = "source" THEN sources \cap scope.on
  ELSE IF scope.kind = "series"
       THEN sources \cap {Home[f] : f \in {g \in scope.on : library[g] # 0}}
  ELSE sources \cap {Home[p] : p \in scope.on}

Resolve ==
  /\ job.at = "resolve"
  /\ job' = [job EXCEPT !.at = "retain", !.left = Targets(job.scope)]
  /\ UNCHANGED <<rows, watched, disk, queues, caller, events, owed, counts>>

\* covered_by: the queued paths this run is going to look at anyway.
CoveredBy(p) == Home[p] \in job.left /\ Reaches(job.scope, p)

Retain ==
  /\ job.at = "retain"
  /\ paths' = IF job.scope.kind = "paths" THEN paths
              ELSE {p \in paths : ~CoveredBy(p)}
  /\ job' = [job EXCEPT !.at = IF job.left = {} THEN "next" ELSE "visit"]
  /\ UNCHANGED <<rows, watched, disk, scopes, caller, events, owed, counts>>

\* The series a pass speaks for, of some sources.
SpokenFor(ss) == {f \in Series : Home[f] \in ss /\ Reaches(job.scope, f)}

\* The next target, or the end of the pass.
Onward(left) ==
  [job EXCEPT !.at = IF left = {} THEN "next" ELSE "visit",
              !.left = left, !.walk = {}, !.read = NoJob.read]

\* A target whose root is a directory: the watch goes on before the walk, and
\* the walk goes ahead without it when it cannot be installed.
Visit ==
  /\ job.at = "visit"
  /\ \E s \in job.left :
       /\ job' = [job EXCEPT !.at = "walk", !.walk = {s}]
       /\ \/ watched' = watched \cup {s} /\ UNCHANGED faults
          \/ Fault /\ UNCHANGED watched
  /\ UNCHANGED <<rows, disk, queues, caller, events, owed, calls>>

\* The tree is read as it is now, as far as the pass speaks for it.
Walk ==
  /\ job.at = "walk"
  /\ job' = [job EXCEPT !.at = "reconcile",
                        !.read = [f \in Series |->
                          IF f \in SpokenFor(job.walk) THEN disk[f] ELSE 0]]
  /\ owed' = owed \ SpokenFor(job.walk)
  /\ UNCHANGED <<rows, watched, disk, queues, caller, events, counts>>

\* Mutant: the rows of a source removed meanwhile are written back.
ReconcileAnyway ==
  /\ job.at = "reconcile"
  /\ library' = [f \in Series |-> IF f \in SpokenFor(job.walk)
                                  THEN job.read[f] ELSE library[f]]
  /\ job' = Onward(job.left \ job.walk)
  /\ UNCHANGED <<sources, gone, watched, disk, queues, caller, events, owed,
                 counts>>

\* reconcile_source in one transaction.  Of a source removed meanwhile
\* nothing is written: its series have no row to hang from.
Reconcile ==
  /\ job.at = "reconcile"
  /\ IF job.walk \subseteq sources
     THEN library' = [f \in Series |-> IF f \in SpokenFor(job.walk)
                                       THEN job.read[f] ELSE library[f]]
     ELSE UNCHANGED library
  /\ job' = Onward(job.left \ job.walk)
  /\ UNCHANGED <<sources, gone, watched, disk, queues, caller, events, owed,
                 counts>>

\* A root that is no directory, cannot be read, reads as empty while it
\* holds series, or whose transaction fails: nothing under it is touched,
\* and the pass goes on to the next target.
TargetFails ==
  /\ Fault
  /\ job.at \in {"visit", "walk", "reconcile"}
  /\ \E s \in IF job.at = "visit" THEN job.left ELSE job.walk :
       /\ job' = Onward(job.left \ {s})
       /\ owed' = owed \cup SpokenFor({s})
  /\ UNCHANGED <<rows, watched, disk, queues, caller, events, calls>>

Again(scope) == [NoJob EXCEPT !.at = "take", !.scope = scope]

\* take_next_scope: everything, then the sources, then the series, then the
\* paths.
TakeNextScope ==
  /\ job.at = "next"
  /\ \/ /\ scopes.all
        /\ job' = Again(All) /\ scopes' = NoScopes
     \/ \E s \in scopes.sources :
          /\ job' = Again(OfSource(s))
          /\ scopes' = [scopes EXCEPT !.sources = @ \ {s}]
     \/ /\ scopes.sources = {}
        /\ \E f \in scopes.series :
             /\ job' = Again(OfSeries(f))
             /\ scopes' = [scopes EXCEPT !.series = @ \ {f}]
     \/ /\ scopes = NoScopes /\ paths # {}
        /\ job' = Again(OfPaths({})) /\ UNCHANGED scopes
  /\ UNCHANGED <<rows, watched, disk, paths, caller, events, owed, counts>>

\* Nothing is queued: the body returns, the job still registered.
LastLook ==
  /\ job.at = "next"
  /\ scopes = NoScopes /\ paths = {}
  /\ job' = [NoJob EXCEPT !.at = "ending"]
  /\ UNCHANGED <<rows, watched, disk, queues, caller, events, owed, counts>>

Deregister ==
  /\ job.at = "ending"
  /\ job' = NoJob
  /\ UNCHANGED <<rows, watched, disk, queues, caller, events, owed, counts>>

\* What a pass has in hand and has not reconciled yet.
InHand ==
  SpokenFor(IF job.at = "resolve" THEN Source ELSE job.left)

\* Cancelled at a target's checkpoint, or ended by an error at an await.
CutShort ==
  /\ Fault
  /\ job.at \in {"resolve", "visit", "walk", "reconcile"}
  /\ owed' = owed \cup InHand
  /\ job' = [NoJob EXCEPT !.at = "ending"]
  /\ UNCHANGED <<rows, watched, disk, queues, caller, events, calls>>

Job == \/ Take \/ Resolve \/ Retain \/ Visit \/ Walk \/ Reconcile
       \/ TakeNextScope \/ LastLook \/ Deregister

-----------------------------------------------------------------------------
\* A file arrives, is replaced or goes.  Notify sees it where it watches.
Change(f) ==
  /\ disk[f] < MaxVersion
  /\ disk' = [disk EXCEPT ![f] = @ + 1]
  /\ IF Home[f] \in watched
     THEN events' = events \cup {Reported[f]} /\ UNCHANGED owed
     ELSE owed' = owed \cup {f} /\ UNCHANGED events
  /\ UNCHANGED <<rows, watched, queues, job, caller, counts>>

Next ==
  \/ OnWatchTriggers \/ WatchOverflow
  \/ \E t \in Thread : Start(t)
  \/ \E c \in Caller :
       \/ Scan(c)
       \/ \E f \in Series : RescanSeries(c, f) \/ RescanMany(c, f)
       \/ \E s \in Source : AddSource(c, s) \/ RemoveSource(c, s)
  \/ Job
  \/ TargetFails \/ CutShort
  \/ \E f \in Series : Change(f)

Spec == Init /\ [][Next]_vars

-----------------------------------------------------------------------------
(* Properties                                                              *)

Quiet ==
  /\ job.at = "none" /\ paths = {} /\ scopes = NoScopes /\ events = {}
  /\ \A t \in Thread : caller[t] = Free

\* Once every queue is empty and nothing runs, the rows say what is on the
\* disk, whatever changed while scans were walking.  Left behind is only a
\* series whose last scan was cut short or could not read, or that changed
\* while its source was not watched and has not been walked since.
UpToDateWhenQuiet ==
  Quiet => \A f \in Series : Home[f] \in sources /\ f \notin owed
                               => library[f] = disk[f]

\* A source that was removed has no series, whatever pass was walking it.
RemovedStaysGone ==
  \A f \in Series : Home[f] \notin sources => library[f] = 0

\* "Asking again once the slot is free is what closes that window"
\* (scan.rs:1053): a request made while a scan ran does not stay queued when
\* no scan runs and no thread is asking for one.
NothingLeftQueued ==
  job.at = "none" /\ (\A t \in Thread : caller[t] = Free)
    => scopes = NoScopes /\ paths = {}
=============================================================================
