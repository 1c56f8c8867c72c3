--------------------------- MODULE ScanQueueProofs ---------------------------
(***************************************************************************)
(* Theorems of ScanQueue, for any sources, series and threads, and any     *)
(* number of calls, changes and failures.                                  *)
(***************************************************************************)
EXTENDS ScanQueue, TLAPS

-----------------------------------------------------------------------------
(* Types                                                                   *)

\* What a call may be handed is a scope.
LEMMA ScopesAre ==
  /\ All \in Scope
  /\ \A s \in Source : OfSource(s) \in Scope
  /\ \A f \in Series : OfSeries(f) \in Scope
  /\ \A ps \in SUBSET Path : OfPaths(ps) \in Scope
  /\ \A x \in Scope : x.kind \in {"all", "source", "series", "paths"}
  /\ \A x \in Scope : x.kind = "source" => x.on \subseteq Source
  /\ \A x \in Scope : x.kind = "series" => x.on \subseteq Series
  /\ \A x \in Scope : x.kind = "paths" => x.on \subseteq Path
  BY DEF Scope, All, OfSource, OfSeries, OfPaths

LEMMA JobsAre ==
  /\ NoJob \in ScanJob
  /\ NoJob.read \in [Series -> 0..MaxVersion]
  /\ \A x \in Scope : Spawned(x) \in ScanJob /\ Again(x) \in ScanJob
  <1>1. NoJob.read \in [Series -> 0..MaxVersion]
    BY ScanAssumption DEF NoJob
  <1>2. All \in Scope
    BY ScopesAre
  <1>3. {} \in {{}} \cup {{s} : s \in Source}
    OBVIOUS
  <1>4. NoJob \in ScanJob
    BY <1>1, <1>2, <1>3 DEF NoJob, ScanJob, Stage
  <1>5. \A x \in Scope : Spawned(x) \in ScanJob /\ Again(x) \in ScanJob
    BY <1>4 DEF Spawned, Again, ScanJob, Stage
  <1> QED BY <1>1, <1>4, <1>5

LEMMA ScanTypeInit == Init => TypeOK
  <1> SUFFICES ASSUME Init PROVE TypeOK
    OBVIOUS
  <1> USE DEF Init
  <1>1. caller \in [Thread -> Request]
    <2>1. Asking(All) \in Request /\ Free \in Request
      BY ScopesAre DEF Asking, Free, Request
    <2> QED BY <2>1
  <1>2. job \in ScanJob
    BY JobsAre
  <1>3. library \in [Series -> 0..MaxVersion]
        /\ disk \in [Series -> 0..MaxVersion]
    BY ScanAssumption
  <1>4. \A c \in Thread : caller[c].at \notin {"push", "unwatch"}
    BY DEF Asking, Free
  <1> QED BY <1>1, <1>2, <1>3, <1>4, ScanAssumption DEF TypeOK, NoScopes

\* Calls, and the thread the watcher reports on.
LEMMA ScanTypeAsks ==
  ASSUME TypeOK, NEW c \in Caller,
         \/ Scan(c)
         \/ \E f \in Series : RescanSeries(c, f) \/ RescanMany(c, f)
         \/ \E s \in Source : AddSource(c, s) \/ RemoveSource(c, s)
  PROVE  TypeOK'
  <1> USE DEF TypeOK
  <1>1. c \in Thread
    BY DEF Thread
  <1>2. \A x \in Scope : Asking(x) \in Request
    BY DEF Asking, Request
  <1>3. CASE Scan(c)
    <2>1. PICK x \in Scope : Asks(c, x)
      BY <1>3, ScopesAre DEF Scan
    <2>2. caller' \in [Thread -> Request]
      BY <1>1, <1>2, <2>1 DEF Asks
    <2>3. calls' \in 0..MaxCalls
      BY <1>3, ScanAssumption DEF Scan, Counted
    <2>4. \A d \in Thread : caller'[d].at \in {"push", "unwatch"}
                             => caller'[d].scope.kind = "source"
      BY <1>1, <2>1 DEF Asks, Asking
    <2> QED BY <1>3, <2>2, <2>3, <2>4 DEF Scan, rows, queues
  <1>4. ASSUME NEW f \in Series, RescanSeries(c, f) \/ RescanMany(c, f)
        PROVE  TypeOK'
    <2>1. Asks(c, OfSeries(f)) /\ OfSeries(f) \in Scope
      BY <1>4, ScopesAre DEF RescanSeries, RescanMany
    <2>2. caller' \in [Thread -> Request]
      BY <1>1, <1>2, <2>1 DEF Asks
    <2>3. calls' \in 0..MaxCalls
      BY <1>4, ScanAssumption DEF RescanSeries, RescanMany, Counted
    <2>4. scopes' \in [all : BOOLEAN, sources : SUBSET Source,
                       series : SUBSET Series]
      BY <1>4 DEF RescanSeries, RescanMany, queues
    <2>5. \A d \in Thread : caller'[d].at \in {"push", "unwatch"}
                             => caller'[d].scope.kind = "source"
      BY <1>1, <2>1 DEF Asks, Asking
    <2> QED BY <1>4, <2>2, <2>3, <2>4, <2>5
            DEF RescanSeries, RescanMany, rows, queues
  <1>5. ASSUME NEW s \in Source, AddSource(c, s) \/ RemoveSource(c, s)
        PROVE  TypeOK'
    <2>1. /\ [at |-> "push", scope |-> OfSource(s)] \in Request
          /\ [at |-> "unwatch", scope |-> OfSource(s)] \in Request
      BY ScopesAre DEF Request
    <2>2. caller' \in [Thread -> Request]
      BY <1>1, <1>5, <2>1 DEF AddSource, RemoveSource
    <2>3. calls' \in 0..MaxCalls
      BY <1>5, ScanAssumption DEF AddSource, RemoveSource, Counted
    <2>4. library' \in [Series -> 0..MaxVersion]
      BY <1>5, ScanAssumption DEF AddSource, RemoveSource
    <2>5. \A d \in Thread : caller'[d].at \in {"push", "unwatch"}
                             => caller'[d].scope.kind = "source"
      BY <1>1, <1>5 DEF AddSource, RemoveSource, OfSource
    <2> QED BY <1>5, <2>2, <2>3, <2>4, <2>5 DEF AddSource, RemoveSource, queues
  <1> QED BY <1>3, <1>4, <1>5

LEMMA ScanTypeStart ==
  ASSUME TypeOK, NEW c \in Thread, Start(c)
  PROVE  TypeOK'
  <1> USE DEF TypeOK
  <1>1. /\ caller[c] \in Request /\ caller[c].scope \in Scope
        /\ Free \in Request
        /\ \A a \in {"spawn", "remember", "ask", "respawn"} :
             [caller[c] EXCEPT !.at = a] \in Request
    BY ScopesAre DEF Request, Free
  <1>2. /\ caller' \in [Thread -> Request]
        /\ \A d \in Thread : caller'[d].at \in {"push", "unwatch"}
                               => caller'[d].scope.kind = "source"
    <2>1. \/ \E a \in {"spawn", "remember", "ask", "respawn"} :
                caller' = [caller EXCEPT ![c] = [caller[c] EXCEPT !.at = a]]
          \/ caller' = [caller EXCEPT ![c] = Free]
          \/ caller' = caller
      BY DEF Start, Push, Spawn, Remember, Ask, Respawn, Unwatch
    <2>2. /\ Free.at = "free"
          /\ \A a \in {"spawn", "remember", "ask", "respawn"} :
               [caller[c] EXCEPT !.at = a].at = a
      BY <1>1 DEF Free, Request
    <2> QED BY <1>1, <2>1, <2>2
  <1>3. CASE Push(c)
    <2>1. \A s \in Source : Root(s) \in Path
      BY ScanAssumption DEF Path
    <2>2. caller[c].scope.on \subseteq Source
      BY <1>1, <1>3, ScopesAre DEF Push
    <2>3. paths' \subseteq Path
      BY <1>3, <2>1, <2>2 DEF Push
    <2> QED BY <1>2, <1>3, <2>3 DEF Push, rows, counts
  <1>4. CASE Spawn(c) \/ Respawn(c)
    <2>1. job' \in ScanJob
      BY <1>1, <1>4, JobsAre, ScopesAre DEF Spawn, Respawn
    <2> QED BY <1>2, <1>4, <2>1 DEF Spawn, Respawn, rows, queues, counts
  <1>5. CASE Remember(c)
    <2>1. scopes' \in [all : BOOLEAN, sources : SUBSET Source,
                       series : SUBSET Series]
      BY <1>1, <1>5, ScopesAre DEF Remember, Remembered
    <2>2. paths' \subseteq Path
      BY <1>1, <1>5, ScopesAre DEF Remember
    <2> QED BY <1>2, <1>5, <2>1, <2>2 DEF Remember, rows, counts
  <1>6. CASE Ask(c)
    BY <1>2, <1>6 DEF Ask, rows, queues, counts
  <1>7. CASE Unwatch(c)
    BY <1>2, <1>7 DEF Unwatch, rows, queues, counts
  <1> QED BY <1>3, <1>4, <1>5, <1>6, <1>7 DEF Start

LEMMA TargetsAreSources ==
  ASSUME TypeOK, NEW x \in Scope
  PROVE  Targets(x) \subseteq sources
  BY DEF Targets

LEMMA OnwardIs ==
  ASSUME TypeOK, NEW ss \in SUBSET Source
  PROVE  /\ Onward(ss) \in ScanJob
         /\ Onward(ss).at = IF ss = {} THEN "next" ELSE "visit"
         /\ Onward(ss).left = ss /\ Onward(ss).walk = {}
         /\ Onward(ss).scope = job.scope
  <1>1. NoJob.read \in [Series -> 0..MaxVersion]
    BY JobsAre
  <1> QED BY <1>1 DEF Onward, TypeOK, ScanJob, Stage

LEMMA ScanTypeJob ==
  ASSUME TypeOK, Job \/ TargetFails \/ CutShort
  PROVE  TypeOK'
  <1> USE DEF TypeOK
  <1>1. caller' = caller
    BY DEF Job, Take, Resolve, Retain, Visit, Walk, Reconcile, TakeNextScope,
           LastLook, Deregister, TargetFails, CutShort
  <1>2. job.scope \in Scope /\ job.left \subseteq Source
        /\ job.walk \subseteq Source
        /\ \A a \in Stage : [job EXCEPT !.at = a] \in ScanJob
    BY DEF ScanJob
  <1>3. \A ss : SpokenFor(ss) \subseteq Series
    BY DEF SpokenFor
  <1>4. CASE Take
    <2>1. CASE job.scope.kind = "paths"
      <3>1. [job.scope EXCEPT !.on = @ \cup paths] \in Scope
        BY <1>2, <2>1 DEF Scope
      <3>2. job' = [job EXCEPT !.at = "resolve",
                               !.scope = [job.scope EXCEPT !.on = @ \cup paths]]
        BY <1>4, <2>1 DEF Take, ScanJob
      <3>3. job' \in ScanJob
        BY <3>1, <3>2 DEF ScanJob, Stage
      <3> QED BY <1>1, <1>4, <2>1, <3>3 DEF Take, rows, counts
    <2>2. CASE job.scope.kind # "paths"
      BY <1>1, <1>2, <1>4, <2>2 DEF Take, rows, counts, Stage
    <2> QED BY <2>1, <2>2
  <1>5. CASE Resolve
    <2>1. Targets(job.scope) \subseteq Source
      BY <1>2, TargetsAreSources
    <2>2. job' \in ScanJob
      BY <1>5, <2>1 DEF Resolve, ScanJob, Stage
    <2> QED BY <1>1, <1>5, <2>2 DEF Resolve, rows, queues, counts
  <1>6. CASE Retain
    <2>1. job' \in ScanJob
      BY <1>2, <1>6 DEF Retain, Stage
    <2>2. paths' \subseteq Path
      BY <1>6 DEF Retain
    <2> QED BY <1>1, <1>6, <2>1, <2>2 DEF Retain, rows, counts
  <1>7. CASE Visit
    <2>1. PICK s \in job.left : job' = [job EXCEPT !.at = "walk", !.walk = {s}]
                                /\ \/ watched' = watched \cup {s}
                                   \/ watched' = watched
      BY <1>7 DEF Visit
    <2>2. job' \in ScanJob
      <3>1. {s} \in {{}} \cup {{t} : t \in Source}
        BY <1>2
      <3> QED BY <2>1, <3>1 DEF ScanJob, Stage
    <2>3. faults' \in 0..MaxFaults
      BY <1>7, ScanAssumption DEF Visit, Fault
    <2> QED BY <1>1, <1>2, <1>7, <2>1, <2>2, <2>3 DEF Visit, rows, queues
  <1>8. CASE Walk
    <2> DEFINE rd == [f \in Series |->
                        IF f \in SpokenFor(job.walk) THEN disk[f] ELSE 0]
    <2>1. rd \in [Series -> 0..MaxVersion]
      BY ScanAssumption
    <2>2. job' = [job EXCEPT !.at = "reconcile", !.read = rd]
      BY <1>8 DEF Walk
    <2> HIDE DEF rd
    <2>3. job' \in ScanJob
      BY <2>1, <2>2 DEF ScanJob, Stage
    <2> QED BY <1>1, <1>8, <2>3 DEF Walk, rows, queues, counts
  <1>9. CASE Reconcile
    <2>1. job' \in ScanJob
      BY <1>2, <1>9, OnwardIs DEF Reconcile
    <2>2. library' \in [Series -> 0..MaxVersion]
      BY <1>9 DEF Reconcile, ScanJob
    <2> QED BY <1>1, <1>9, <2>1, <2>2 DEF Reconcile, queues, counts
  <1>10. CASE TargetFails
    <2>1. PICK s \in job.left \cup job.walk :
            job' = Onward(job.left \ {s}) /\ owed' = owed \cup SpokenFor({s})
      BY <1>10 DEF TargetFails
    <2>2. job' \in ScanJob
      BY <1>2, <2>1, OnwardIs
    <2>3. faults' \in 0..MaxFaults
      BY <1>10, ScanAssumption DEF TargetFails, Fault
    <2> QED BY <1>1, <1>3, <1>10, <2>1, <2>2, <2>3
            DEF TargetFails, rows, queues
  <1>11. CASE TakeNextScope
    <2>1. job' \in ScanJob
      BY <1>11, ScopesAre, JobsAre DEF TakeNextScope
    <2>2. scopes' \in [all : BOOLEAN, sources : SUBSET Source,
                       series : SUBSET Series]
      <3>1. \/ scopes' = NoScopes \/ scopes' = scopes
            \/ \E s : scopes' = [scopes EXCEPT !.sources = @ \ {s}]
            \/ \E f : scopes' = [scopes EXCEPT !.series = @ \ {f}]
        BY <1>11 DEF TakeNextScope
      <3>2. /\ scopes.all \in BOOLEAN
            /\ scopes.sources \in SUBSET Source
            /\ scopes.series \in SUBSET Series
        OBVIOUS
      <3>3. CASE \E s : scopes' = [scopes EXCEPT !.sources = @ \ {s}]
        <4>1. PICK s : scopes' = [scopes EXCEPT !.sources = @ \ {s}]
          BY <3>3
        <4>2. scopes.sources \ {s} \in SUBSET Source
          BY <3>2
        <4> QED BY <4>1, <4>2
      <3>4. CASE \E f : scopes' = [scopes EXCEPT !.series = @ \ {f}]
        <4>1. PICK f : scopes' = [scopes EXCEPT !.series = @ \ {f}]
          BY <3>4
        <4>2. scopes.series \ {f} \in SUBSET Series
          BY <3>2
        <4> QED BY <4>1, <4>2
      <3>5. CASE scopes' = NoScopes
        BY <3>5 DEF NoScopes
      <3>6. CASE scopes' = scopes
        BY <3>6
      <3> QED BY <3>1, <3>3, <3>4, <3>5, <3>6
    <2> QED BY <1>1, <1>11, <2>1, <2>2 DEF TakeNextScope, rows, counts
  <1>12. CASE LastLook \/ Deregister
    <2>1. job' \in ScanJob
      BY <1>12, JobsAre DEF LastLook, Deregister, ScanJob, Stage
    <2> QED BY <1>1, <1>12, <2>1 DEF LastLook, Deregister, rows, queues, counts
  <1>13. CASE CutShort
    <2>1. job' \in ScanJob
      BY <1>13, JobsAre DEF CutShort, ScanJob, Stage
    <2>2. owed' \subseteq Series
      BY <1>3, <1>13 DEF CutShort, InHand
    <2>3. faults' \in 0..MaxFaults
      BY <1>13, ScanAssumption DEF CutShort, Fault
    <2> QED BY <1>1, <1>13, <2>1, <2>2, <2>3 DEF CutShort, rows, queues
  <1> QED BY <1>4, <1>5, <1>6, <1>7, <1>8, <1>9, <1>10, <1>11, <1>12, <1>13
          DEF Job

LEMMA ScanTypeStep == TypeOK /\ [Next]_vars => TypeOK'
  <1> SUFFICES ASSUME TypeOK, [Next]_vars PROVE TypeOK'
    OBVIOUS
  <1>1. CASE OnWatchTriggers \/ WatchOverflow
    <2> USE DEF TypeOK
    <2>1. OfPaths({}) \in Scope /\ All \in Scope /\ Notify \in Thread
      BY ScopesAre DEF Thread
    <2>2. PICK x \in Scope : caller' = [caller EXCEPT ![Notify] = Asking(x)]
      BY <1>1, <2>1 DEF OnWatchTriggers, WatchOverflow, Asks
    <2>3. Asking(x) \in Request /\ Asking(x).at = "spawn"
      BY DEF Asking, Request
    <2>4. /\ caller' \in [Thread -> Request]
          /\ \A d \in Thread : caller'[d].at \in {"push", "unwatch"}
                               => caller'[d].scope.kind = "source"
      BY <2>1, <2>2, <2>3
    <2>5. faults' \in 0..MaxFaults
      BY <1>1, ScanAssumption DEF OnWatchTriggers, WatchOverflow, Fault, counts
    <2> QED BY <1>1, <2>4, <2>5 DEF OnWatchTriggers, WatchOverflow, rows,
                                    queues, counts
  <1>2. ASSUME NEW f \in Series, Change(f)
        PROVE  TypeOK'
    <2> USE DEF TypeOK
    <2>1. disk' \in [Series -> 0..MaxVersion]
      BY <1>2, ScanAssumption DEF Change
    <2>2. events' \subseteq Path /\ owed' \subseteq Series
      <3>1. Reported[f] \in Path
        BY ScanAssumption
      <3>2. \/ events' = events \cup {Reported[f]} /\ owed' = owed
            \/ owed' = owed \cup {f} /\ events' = events
        BY <1>2 DEF Change
      <3> QED BY <3>1, <3>2
    <2> QED BY <1>2, <2>1, <2>2 DEF Change, rows, queues, counts
  <1>3. CASE UNCHANGED vars
    BY <1>3 DEF vars, TypeOK
  <1> QED BY <1>1, <1>2, <1>3, ScanTypeAsks, ScanTypeStart, ScanTypeJob
          DEF Next

\* What the scan keeps is of its kind, whoever asks and whatever fails: a
\* source is never queued as a series, nor a path as a source.
THEOREM ScanTypeOK == Spec => []TypeOK
  BY ScanTypeInit, ScanTypeStep, PTL DEF Spec

-----------------------------------------------------------------------------
(* What is behind is waited for                                            *)

\* A scope that a request made for a change of f, or for all of its source,
\* has.
Covers(scope, f) ==
  \/ scope.kind = "all"
  \/ scope.kind = "source" /\ Home[f] \in scope.on
  \/ scope.kind = "paths" /\ Reported[f] \in scope.on

\* Something is still to be taken in hand that reaches f.
Ahead(f) ==
  \/ Reported[f] \in events \cup paths
  \/ scopes.all \/ Home[f] \in scopes.sources
  \/ \E c \in Thread : /\ caller[c].at \in {"push", "spawn", "remember"}
                       /\ Covers(caller[c].scope, f)

\* The pass under way will read f, or has read what is there.
Targeted(f) == Home[f] \in job.left /\ Reaches(job.scope, f)
InPass(f) ==
  \/ job.at \in {"take", "resolve"} /\ Covers(job.scope, f)
  \/ job.at \in {"retain", "visit", "walk"} /\ Targeted(f)
  \/ /\ job.at = "reconcile" /\ Targeted(f)
     /\ Home[f] \in job.walk => job.read[f] = disk[f]

Excused(f) == Home[f] \notin sources \/ f \in owed

\* A series that is behind is waited for, ...
BehindInv ==
  \A f \in Series : Excused(f) \/ library[f] = disk[f] \/ Ahead(f) \/ InPass(f)
\* ... and so is one that was read before it changed, ...
ReadInv ==
  job.at = "reconcile" =>
    \A f \in SpokenFor(job.walk) :
      Excused(f) \/ job.read[f] = disk[f] \/ Ahead(f)
\* ... where a pass walks one of its targets at a time.
WalkInv ==
  IF job.at \in {"walk", "reconcile"}
  THEN \E s \in job.left : job.walk = {s} ELSE job.walk = {}

SInv == TypeOK /\ WalkInv /\ BehindInv /\ ReadInv

\* The files of a series are reported at a path that no other series shares:
\* a rescan of another one does not take it off the queue.
OwnFolders ==
  \A f, g \in Series : Under(Reported[f], g) \/ Under(g, Reported[f])
                         => Under(f, g) \/ Under(g, f)

LEMMA CoveredIsReached ==
  ASSUME NEW x \in Scope, NEW f \in Series, Covers(x, f)
  PROVE  /\ Reaches(x, f)
         /\ Home[f] \in sources => Home[f] \in Targets(x)
  <1>1. Reaches(x, f)
    BY ScanAssumption DEF Covers, Reaches, Whole
  <1>2. Home[f] \in sources => Home[f] \in Targets(x)
    <2>1. CASE x.kind = "paths"
      <3>1. Home[Reported[f]] = Home[f] /\ Reported[f] \in x.on
        BY <2>1, ScanAssumption DEF Covers
      <3> QED BY <2>1, <3>1 DEF Targets
    <2>2. CASE x.kind # "paths"
      BY <2>2 DEF Covers, Targets
    <2> QED BY <2>1, <2>2
  <1> QED BY <1>1, <1>2

\* What Retain drops of f, the pass reads.
LEMMA DroppedIsTargeted ==
  ASSUME TypeOK, OwnFolders, NEW f \in Series, CoveredBy(Reported[f]),
         job.scope.kind # "paths"
  PROVE  Targeted(f)
  <1>1. Home[f] \in job.left
    BY ScanAssumption DEF CoveredBy
  <1>2. job.scope \in Scope
    BY DEF TypeOK, ScanJob
  <1>3. Reaches(job.scope, f)
    <2>1. CASE Whole(job.scope)
      BY <2>1 DEF Reaches
    <2>2. CASE ~Whole(job.scope)
      <3>1. job.scope.on \subseteq Series
        BY <1>2, <2>2, ScopesAre DEF Whole
      <3>2. PICK r \in job.scope.on :
              Under(Reported[f], r) \/ Under(r, Reported[f])
        BY <2>2 DEF CoveredBy, Reaches
      <3> QED BY <3>1, <3>2 DEF OwnFolders, Reaches
    <2> QED BY <2>1, <2>2
  <1> QED BY <1>1, <1>3 DEF Targeted

\* A step beside the job: no request for what is behind is lost, and what
\* gets behind is asked for or excused.
LEMMA BesideKeeps ==
  ASSUME WalkInv, BehindInv, ReadInv, job' = job,
         \A f \in Series : Ahead(f) => Ahead(f)',
         \A f \in Series : Excused(f) => Excused(f)' \/ Ahead(f)',
         \A f \in Series : \/ Excused(f)' \/ Ahead(f)'
                           \/ library'[f] = library[f] /\ disk'[f] = disk[f]
  PROVE  WalkInv' /\ BehindInv' /\ ReadInv'
  <1>1. WalkInv'
    BY DEF WalkInv
  <1>2. BehindInv'
    <2> SUFFICES ASSUME NEW f \in Series, ~Excused(f)', ~Ahead(f)'
                 PROVE  library'[f] = disk'[f] \/ InPass(f)'
      BY DEF BehindInv
    <2>1. library'[f] = library[f] /\ disk'[f] = disk[f]
      OBVIOUS
    <2>2. library[f] = disk[f] \/ InPass(f)
      BY DEF BehindInv
    <2> QED BY <2>1, <2>2 DEF InPass, Targeted
  <1>3. ReadInv'
    <2> SUFFICES ASSUME job.at = "reconcile", NEW f \in SpokenFor(job.walk),
                        ~Excused(f)', ~Ahead(f)'
                 PROVE  job.read[f] = disk'[f]
      BY DEF ReadInv, SpokenFor
    <2>1. f \in Series
      BY DEF SpokenFor
    <2> QED BY <2>1 DEF ReadInv
  <1> QED BY <1>1, <1>2, <1>3

\* A thread that had nothing to ask takes nothing away.
LEMMA AskingKeepsAhead ==
  ASSUME TypeOK, NEW c \in Thread, NEW x,
         caller[c] = Free, caller' = [caller EXCEPT ![c] = x],
         events \cup paths \subseteq events' \cup paths',
         scopes.all => scopes'.all,
         scopes'.all \/ scopes.sources \subseteq scopes'.sources
  PROVE  \A f \in Series : Ahead(f) => Ahead(f)'
  <1>1. \A d \in Thread : caller[d].at # "free" => caller'[d] = caller[d]
    BY DEF TypeOK, Free
  <1> QED BY <1>1 DEF Ahead, Covers

LEMMA CallsKeepBehind ==
  ASSUME SInv, NEW c \in Caller,
         \/ Scan(c)
         \/ \E f \in Series : RescanSeries(c, f) \/ RescanMany(c, f)
         \/ \E s \in Source : AddSource(c, s) \/ RemoveSource(c, s)
  PROVE  WalkInv' /\ BehindInv' /\ ReadInv'
  <1> USE DEF SInv
  <1>1. c \in Thread
    BY DEF Thread
  <1>2. CASE Scan(c) \/ \E f \in Series : RescanSeries(c, f)
    <2>1. /\ UNCHANGED <<sources, library, disk, paths, scopes, job, events,
                         owed>>
          /\ \E x : caller[c] = Free /\ caller' = [caller EXCEPT ![c] = x]
      BY <1>2 DEF Scan, RescanSeries, Asks, rows, queues
    <2>2. \A f \in Series : Ahead(f) => Ahead(f)'
      BY <1>1, <2>1, AskingKeepsAhead
    <2> QED BY <2>1, <2>2, BesideKeeps DEF Excused
  <1>3. ASSUME NEW g \in Series, RescanMany(c, g)
        PROVE  WalkInv' /\ BehindInv' /\ ReadInv'
    <2>1. /\ UNCHANGED <<sources, library, disk, paths, job, events, owed>>
          /\ \E x : caller[c] = Free /\ caller' = [caller EXCEPT ![c] = x]
      BY <1>3 DEF RescanMany, Asks, rows
    <2>2. scopes'.all = scopes.all /\ scopes'.sources = scopes.sources
      BY <1>3 DEF RescanMany, TypeOK
    <2>3. \A f \in Series : Ahead(f) => Ahead(f)'
      BY <1>1, <2>1, <2>2, AskingKeepsAhead
    <2> QED BY <2>1, <2>3, BesideKeeps DEF Excused
  <1>4. ASSUME NEW s \in Source, AddSource(c, s)
        PROVE  WalkInv' /\ BehindInv' /\ ReadInv'
    <2> DEFINE x == [at |-> "push", scope |-> OfSource(s)]
    <2>1. /\ UNCHANGED <<library, disk, paths, scopes, job, events, owed>>
          /\ sources' = sources \cup {s}
          /\ caller[c] = Free /\ caller' = [caller EXCEPT ![c] = x]
      BY <1>4 DEF AddSource, queues
    <2>2. \A f \in Series : Ahead(f) => Ahead(f)'
      BY <1>1, <2>1, AskingKeepsAhead
    <2>3. \A f \in Series : Home[f] = s => Ahead(f)'
      <3>1. caller'[c] = x /\ x.at = "push"
        BY <1>1, <2>1 DEF TypeOK
      <3>2. \A f \in Series : Home[f] = s => Covers(x.scope, f)
        BY DEF Covers, OfSource
      <3> QED BY <1>1, <3>1, <3>2 DEF Ahead, Covers
    <2>4. \A f \in Series : Excused(f) => Excused(f)' \/ Ahead(f)'
      BY <2>1, <2>3 DEF Excused
    <2> QED BY <2>1, <2>2, <2>4, BesideKeeps
  <1>5. ASSUME NEW s \in Source, RemoveSource(c, s)
        PROVE  WalkInv' /\ BehindInv' /\ ReadInv'
    <2>1. /\ UNCHANGED <<disk, paths, scopes, job, events, owed>>
          /\ sources' = sources \ {s}
          /\ \E x : caller[c] = Free /\ caller' = [caller EXCEPT ![c] = x]
          /\ \A f \in Series : Home[f] # s => library'[f] = library[f]
      BY <1>5 DEF RemoveSource, queues
    <2>2. \A f \in Series : Ahead(f) => Ahead(f)'
      BY <1>1, <2>1, AskingKeepsAhead
    <2>3. \A f \in Series : /\ Excused(f) => Excused(f)'
                            /\ Home[f] = s => Excused(f)'
      BY <2>1 DEF Excused
    <2> QED BY <2>1, <2>2, <2>3, BesideKeeps
  <1> QED BY <1>2, <1>3, <1>4, <1>5

LEMMA WatcherKeepsBehind ==
  ASSUME SInv, OnWatchTriggers \/ WatchOverflow \/ \E f \in Series : Change(f)
  PROVE  WalkInv' /\ BehindInv' /\ ReadInv'
  <1> USE DEF SInv
  <1>1. Notify \in Thread
    BY DEF Thread
  <1>2. CASE OnWatchTriggers
    <2>1. /\ UNCHANGED <<sources, library, disk, scopes, job, owed>>
          /\ paths' = paths \cup events /\ events' = {}
          /\ \E x : caller[Notify] = Free
                    /\ caller' = [caller EXCEPT ![Notify] = x]
      BY <1>2 DEF OnWatchTriggers, Asks, rows
    <2>2. \A f \in Series : Ahead(f) => Ahead(f)'
      BY <1>1, <2>1, AskingKeepsAhead
    <2> QED BY <2>1, <2>2, BesideKeeps DEF Excused
  <1>3. CASE WatchOverflow
    <2>1. /\ UNCHANGED <<sources, library, disk, paths, scopes, job, owed>>
          /\ caller' = [caller EXCEPT ![Notify] = Asking(All)]
      BY <1>3 DEF WatchOverflow, Asks, rows, queues
    <2>2. \A f \in Series : Ahead(f)'
      <3>1. caller'[Notify] = Asking(All)
        BY <1>1, <2>1 DEF TypeOK
      <3>2. \A f \in Series : Covers(caller'[Notify].scope, f)
        BY <3>1 DEF Covers, Asking, All
      <3> QED BY <1>1, <3>1, <3>2 DEF Ahead, Asking, Covers
    <2> QED BY <2>1, <2>2, BesideKeeps
  <1>4. ASSUME NEW g \in Series, Change(g)
        PROVE  WalkInv' /\ BehindInv' /\ ReadInv'
    <2>1. UNCHANGED <<sources, library, paths, scopes, job, caller>>
      BY <1>4 DEF Change, rows, queues
    <2>2. \A f \in Series \ {g} : disk'[f] = disk[f]
      BY <1>4 DEF Change, TypeOK
    <2>3. /\ events \subseteq events' /\ owed \subseteq owed'
          /\ Reported[g] \in events' \/ g \in owed'
      BY <1>4 DEF Change
    <2>4. \A f \in Series : Ahead(f) => Ahead(f)'
      BY <2>1, <2>3 DEF Ahead, Covers
    <2>5. \A f \in Series : Excused(f) => Excused(f)'
      BY <2>1, <2>3 DEF Excused
    <2>6. Excused(g)' \/ Ahead(g)'
      BY <2>3 DEF Excused, Ahead
    <2> QED BY <2>1, <2>2, <2>4, <2>5, <2>6, BesideKeeps
  <1> QED BY <1>2, <1>3, <1>4

\* A job that starts has taken nothing yet, and takes what it was started for.
LEMMA JobStarts ==
  ASSUME SInv, NEW x \in Scope, job.at \in {"none", "next"},
         job' \in {Spawned(x), Again(x)},
         UNCHANGED <<sources, library, disk, owed>>,
         \A f \in Series : Ahead(f) => Ahead(f)' \/ Covers(x, f)
  PROVE  WalkInv' /\ BehindInv' /\ ReadInv'
  <1>1. job'.at = "take" /\ job'.scope = x /\ job'.walk = {}
    BY DEF Spawned, Again, NoJob
  <1>2. WalkInv' /\ ReadInv'
    BY <1>1 DEF WalkInv, ReadInv
  <1>3. BehindInv'
    <2> SUFFICES ASSUME NEW f \in Series, ~Excused(f)', library'[f] # disk'[f]
                 PROVE  Ahead(f)' \/ InPass(f)'
      BY DEF BehindInv
    <2>1. ~InPass(f)
      BY DEF InPass
    <2>2. Ahead(f)
      BY <2>1 DEF SInv, BehindInv, Excused
    <2>3. Covers(x, f) => InPass(f)'
      BY <1>1 DEF InPass, Covers
    <2> QED BY <2>2, <2>3
  <1> QED BY <1>2, <1>3

LEMMA StartKeepsBehind ==
  ASSUME SInv, NEW c \in Thread, Start(c)
  PROVE  WalkInv' /\ BehindInv' /\ ReadInv'
  <1> USE DEF SInv
  <1> DEFINE x == caller[c].scope
  <1>1. x \in Scope /\ x \in [kind : {x.kind}, on : {x.on}]
    BY DEF TypeOK, Request, Scope
  <1>2. UNCHANGED <<sources, library, disk, owed, events>>
    BY DEF Start, Push, Spawn, Remember, Ask, Respawn, Unwatch, rows
  <1>3. \A f \in Series : Excused(f) => Excused(f)'
    BY <1>2 DEF Excused
  <1>4. \A d \in Thread \ {c} : caller'[d] = caller[d]
    BY DEF TypeOK, Start, Push, Spawn, Remember, Ask, Respawn, Unwatch
  <1>5. CASE Push(c)
    <2>1. /\ caller'[c].at = "spawn" /\ caller'[c].scope = x
          /\ paths \subseteq paths' /\ scopes' = scopes /\ job' = job
      BY <1>5 DEF Push, TypeOK, Request
    <2>2. \A f \in Series : Ahead(f) => Ahead(f)'
      BY <1>2, <1>4, <2>1 DEF Ahead, Covers
    <2> QED BY <1>2, <1>3, <2>1, <2>2, BesideKeeps
  <1>6. CASE Spawn(c)
    <2>1. paths' = paths /\ scopes' = scopes
      BY <1>6 DEF Spawn, queues
    <2>2. CASE job.at = "none"
      <3>1. job' = Spawned(x)
        BY <1>6, <2>2 DEF Spawn
      <3>2. \A f \in Series : Ahead(f) => Ahead(f)' \/ Covers(x, f)
        BY <1>2, <1>4, <2>1 DEF Ahead, Covers
      <3> QED BY <1>1, <1>2, <2>2, <3>1, <3>2, JobStarts
    <2>3. CASE job.at # "none"
      <3>1. /\ caller'[c].at = "remember" /\ caller'[c].scope = x
            /\ job' = job
        BY <1>6, <2>3 DEF Spawn, TypeOK, Request
      <3>2. \A f \in Series : Ahead(f) => Ahead(f)'
        BY <1>2, <1>4, <2>1, <3>1 DEF Ahead, Covers
      <3> QED BY <1>2, <1>3, <3>1, <3>2, BesideKeeps
    <2> QED BY <2>2, <2>3
  <1>7. CASE Remember(c)
    <2>1. /\ job' = job /\ scopes' = Remembered(x)
          /\ paths' = IF x.kind = "paths" THEN paths \cup x.on ELSE paths
      BY <1>7 DEF Remember
    <2>2. /\ scopes.all => scopes'.all
          /\ scopes'.all \/ scopes.sources \subseteq scopes'.sources
          /\ x.kind = "all" => scopes'.all
          /\ x.kind = "source" => scopes'.all \/ x.on \subseteq scopes'.sources
      BY <1>1, <2>1 DEF Remembered, TypeOK
    <2>3. \A f \in Series : Ahead(f) => Ahead(f)'
      BY <1>2, <1>4, <2>1, <2>2 DEF Ahead, Covers
    <2> QED BY <1>2, <1>3, <2>1, <2>3, BesideKeeps
  <1>8. CASE Ask(c) \/ Respawn(c) \/ Unwatch(c)
    <2>1. paths' = paths /\ scopes' = scopes
      BY <1>8 DEF Ask, Respawn, Unwatch, queues
    <2>2. \A f \in Series : Ahead(f) => Ahead(f)'
      BY <1>2, <1>4, <1>8, <2>1 DEF Ahead, Covers, Ask, Respawn, Unwatch
    <2>3. CASE job' = job
      BY <1>2, <1>3, <2>2, <2>3, BesideKeeps
    <2>4. CASE job' # job
      <3>1. job.at = "none" /\ job' = Spawned(OfPaths({}))
        BY <1>8, <2>4 DEF Ask, Respawn, Unwatch
      <3> QED BY <1>2, <2>2, <3>1, ScopesAre, JobStarts
    <2> QED BY <2>3, <2>4
  <1> QED BY <1>5, <1>6, <1>7, <1>8 DEF Start

\* A step of the job that reaches no series: the requests stand, or the pass
\* has taken them in hand, and it keeps what it had.
LEMMA PassGoesOn ==
  ASSUME SInv, WalkInv', job'.at # "reconcile",
         UNCHANGED <<sources, library, disk>>,
         \A f \in Series : Excused(f) => Excused(f)',
         \A f \in Series : ~Excused(f)' =>
           /\ Ahead(f) => Ahead(f)' \/ InPass(f)'
           /\ InPass(f) => InPass(f)'
  PROVE  WalkInv' /\ BehindInv' /\ ReadInv'
  BY DEF SInv, BehindInv, ReadInv

LEMMA PlanKeepsBehind ==
  ASSUME SInv, OwnFolders, Take \/ Resolve \/ Retain \/ Visit
  PROVE  WalkInv' /\ BehindInv' /\ ReadInv'
  <1> USE DEF SInv
  <1>1. job.scope \in Scope /\ job \in ScanJob
    BY DEF TypeOK, ScanJob
  <1>2. UNCHANGED <<sources, library, disk, owed, events, scopes, caller>>
    BY DEF Take, Resolve, Retain, Visit, rows, queues
  <1>3. \A f \in Series : Excused(f) = Excused(f)'
    BY <1>2 DEF Excused
  <1>4. CASE Take
    <2>1. job'.at = "resolve" /\ job'.walk = job.walk
      BY <1>1, <1>4 DEF Take, ScanJob
    <2>2. WalkInv'
      BY <1>4, <2>1 DEF WalkInv, Take
    <2>3. CASE job.scope.kind = "paths"
      <3>1. /\ job'.scope.kind = "paths"
            /\ job'.scope.on = job.scope.on \cup paths
            /\ paths' = {}
        <4>1. job'.scope = [job.scope EXCEPT !.on = @ \cup paths]
              /\ paths' = {}
          BY <1>1, <1>4, <2>3 DEF Take, ScanJob
        <4> QED BY <1>1, <2>3, <4>1 DEF Scope
      <3>2. \A f \in Series : /\ Ahead(f) => Ahead(f)' \/ InPass(f)'
                              /\ InPass(f) => InPass(f)'
        BY <1>2, <1>4, <2>1, <2>3, <3>1 DEF Ahead, InPass, Covers, Take
      <3> QED BY <1>2, <1>3, <2>1, <2>2, <3>2, PassGoesOn
    <2>4. CASE job.scope.kind # "paths"
      <3>1. job'.scope = job.scope /\ paths' = paths
        BY <1>1, <1>4, <2>4 DEF Take, ScanJob
      <3>2. \A f \in Series : /\ Ahead(f) => Ahead(f)' \/ InPass(f)'
                              /\ InPass(f) => InPass(f)'
        BY <1>2, <1>4, <2>1, <3>1 DEF Ahead, InPass, Covers, Take
      <3> QED BY <1>2, <1>3, <2>1, <2>2, <3>2, PassGoesOn
    <2> QED BY <2>3, <2>4
  <1>5. CASE Resolve
    <2>1. /\ job.at = "resolve" /\ job'.at = "retain"
          /\ job'.left = Targets(job.scope)
          /\ job'.walk = job.walk /\ job'.scope = job.scope /\ paths' = paths
      BY <1>1, <1>5 DEF Resolve, ScanJob, queues
    <2>2. WalkInv'
      BY <2>1 DEF WalkInv
    <2>3. ASSUME NEW f \in Series, ~Excused(f)'
          PROVE  /\ Ahead(f) => Ahead(f)'
                 /\ InPass(f) => InPass(f)'
      <3>1. Ahead(f) => Ahead(f)'
        BY <1>2, <2>1 DEF Ahead, Covers
      <3>2. Home[f] \in sources
        BY <1>2, <2>3 DEF Excused
      <3>3. InPass(f) => Covers(job.scope, f)
        BY <2>1 DEF InPass
      <3>4. Covers(job.scope, f) => Targeted(f)'
        BY <1>1, <2>1, <3>2, CoveredIsReached DEF Targeted, Reaches, Whole
      <3> QED BY <2>1, <3>1, <3>3, <3>4 DEF InPass
    <2> QED BY <1>2, <1>3, <2>1, <2>2, <2>3, PassGoesOn
  <1>6. CASE Retain
    <2>1. /\ job.at = "retain" /\ job'.left = job.left
          /\ job'.at = IF job.left = {} THEN "next" ELSE "visit"
          /\ job'.walk = job.walk /\ job'.scope = job.scope
      BY <1>1, <1>6 DEF Retain, ScanJob
    <2>2. WalkInv'
      BY <2>1 DEF WalkInv
    <2>3. ASSUME NEW f \in Series
          PROVE  /\ Ahead(f) => Ahead(f)' \/ InPass(f)'
                 /\ InPass(f) => InPass(f)'
      <3>1. Targeted(f) => InPass(f)'
        BY <2>1 DEF Targeted, Reaches, InPass, Whole
      <3>2. Reported[f] \in paths => Reported[f] \in paths' \/ Targeted(f)
        BY <1>6, DroppedIsTargeted DEF Retain
      <3>3. InPass(f) => Targeted(f)
        BY <2>1 DEF InPass
      <3> QED BY <1>2, <3>1, <3>2, <3>3 DEF Ahead, Covers
    <2>4. job'.at # "reconcile"
      BY <2>1
    <2> QED BY <1>2, <1>3, <2>2, <2>3, <2>4, PassGoesOn
  <1>7. CASE Visit
    <2>1. PICK s \in job.left : job' = [job EXCEPT !.at = "walk", !.walk = {s}]
      BY <1>7 DEF Visit
    <2>2. /\ job'.at = "walk" /\ job'.left = job.left /\ job'.scope = job.scope
          /\ job'.walk = {s} /\ job.at = "visit" /\ paths' = paths
      BY <1>1, <1>7, <2>1 DEF Visit, ScanJob, queues
    <2>3. WalkInv'
      BY <2>2 DEF WalkInv
    <2>4. \A f \in Series : Ahead(f) => Ahead(f)'
      BY <1>2, <2>2 DEF Ahead, Covers
    <2>5. \A f \in Series : InPass(f) => InPass(f)'
      BY <2>2 DEF InPass, Targeted, Reaches, Whole
    <2> QED BY <1>2, <1>3, <2>2, <2>3, <2>4, <2>5, PassGoesOn
  <1> QED BY <1>4, <1>5, <1>6, <1>7

LEMMA ReadKeepsBehind ==
  ASSUME SInv, Walk \/ Reconcile \/ TargetFails
  PROVE  WalkInv' /\ BehindInv' /\ ReadInv'
  <1> USE DEF SInv
  <1>1. /\ job \in ScanJob /\ job.left \subseteq Source
        /\ job.walk \subseteq Source
    BY DEF TypeOK, ScanJob
  <1>2. UNCHANGED <<sources, disk, events, scopes, caller, paths>>
    BY DEF Walk, Reconcile, TargetFails, rows, queues
  <1>3. \A f \in Series : Ahead(f) = Ahead(f)'
    BY <1>2 DEF Ahead, Covers
  <1>4. CASE Walk
    <2>1. /\ job.at = "walk" /\ job'.at = "reconcile"
          /\ job'.left = job.left /\ job'.walk = job.walk
          /\ job'.scope = job.scope /\ library' = library
          /\ owed' = owed \ SpokenFor(job.walk)
      BY <1>1, <1>4 DEF Walk, ScanJob, rows
    <2>2. \A f \in SpokenFor(job.walk) : job'.read[f] = disk[f]
      BY <1>1, <1>4 DEF Walk, ScanJob, SpokenFor
    <2>3. job.walk \subseteq job.left /\ WalkInv'
      BY <2>1 DEF WalkInv
    <2>4. SpokenFor(job.walk)' = SpokenFor(job.walk)
      BY <2>1 DEF SpokenFor, Reaches, Whole
    <2>5. ReadInv'
      BY <1>2, <2>2, <2>4 DEF ReadInv
    <2>6. ASSUME NEW f \in Series, ~Excused(f)'
          PROVE  library'[f] = disk'[f] \/ Ahead(f)' \/ InPass(f)'
      <3>1. Targeted(f)' = Targeted(f)
        BY <2>1 DEF Targeted, Reaches, Whole
      <3>2. CASE f \in SpokenFor(job.walk)
        <4>1. Targeted(f) /\ job'.read[f] = disk'[f]
          BY <1>2, <2>2, <2>3, <3>2 DEF SpokenFor, Targeted
        <4> QED BY <2>1, <3>1, <4>1 DEF InPass
      <3>3. CASE f \notin SpokenFor(job.walk)
        <4>1. ~Excused(f)
          BY <1>2, <2>1, <2>6, <3>3 DEF Excused
        <4>2. InPass(f) => Targeted(f) /\ Home[f] \notin job.walk
          BY <2>1, <3>3 DEF InPass, Targeted, SpokenFor
        <4>3. InPass(f) => InPass(f)'
          BY <2>1, <3>1, <4>2 DEF InPass
        <4> QED BY <1>2, <1>3, <2>1, <4>1, <4>3 DEF BehindInv
      <3> QED BY <3>2, <3>3
    <2> QED BY <2>3, <2>5, <2>6 DEF BehindInv
  <1>5. CASE Reconcile
    <2>1. PICK s \in job.left : job.walk = {s}
      BY <1>5 DEF WalkInv, Reconcile
    <2>2. /\ job.at = "reconcile" /\ job' = Onward(job.left \ {s})
          /\ owed' = owed
      BY <1>5, <2>1 DEF Reconcile
    <2>3. /\ job'.at = IF job.left \ {s} = {} THEN "next" ELSE "visit"
          /\ job'.left = job.left \ {s} /\ job'.walk = {}
          /\ job'.scope = job.scope
      BY <1>1, <2>2, OnwardIs
    <2>4. WalkInv' /\ ReadInv'
      BY <2>3 DEF WalkInv, ReadInv
    <2>5. ASSUME NEW f \in Series, ~Excused(f)'
          PROVE  library'[f] = disk'[f] \/ Ahead(f)' \/ InPass(f)'
      <3>1. ~Excused(f)
        BY <1>2, <2>2, <2>5 DEF Excused
      <3>2. CASE f \in SpokenFor(job.walk)
        <4>1. job.walk \subseteq sources
          BY <2>1, <3>1, <3>2 DEF SpokenFor, Excused
        <4>2. library'[f] = job.read[f]
          BY <1>5, <3>2, <4>1 DEF Reconcile
        <4>3. job.read[f] = disk[f] \/ Ahead(f)
          BY <2>2, <3>1, <3>2 DEF ReadInv
        <4> QED BY <1>2, <1>3, <4>2, <4>3
      <3>3. CASE f \notin SpokenFor(job.walk)
        <4>1. library'[f] = library[f]
          BY <1>5, <3>3 DEF Reconcile
        <4>2. InPass(f) => Home[f] \in job'.left /\ Reaches(job.scope, f)
          BY <2>1, <2>2, <2>3, <3>3 DEF InPass, Targeted, SpokenFor
        <4>3. InPass(f) => InPass(f)'
          BY <2>3, <4>2 DEF InPass, Targeted, Reaches, Whole
        <4> QED BY <1>2, <1>3, <3>1, <4>1, <4>3 DEF BehindInv
      <3> QED BY <3>2, <3>3
    <2> QED BY <2>4, <2>5 DEF BehindInv
  <1>6. CASE TargetFails
    <2>1. PICK s \in Source : /\ job' = Onward(job.left \ {s})
                              /\ owed' = owed \cup SpokenFor({s})
      BY <1>1, <1>6 DEF TargetFails
    <2>2. /\ job'.at = IF job.left \ {s} = {} THEN "next" ELSE "visit"
          /\ job'.left = job.left \ {s} /\ job'.walk = {}
          /\ job'.scope = job.scope
      BY <1>1, <2>1, OnwardIs
    <2>3. WalkInv'
      BY <2>2 DEF WalkInv
    <2>4. job.at \in {"visit", "walk", "reconcile"} /\ library' = library
      BY <1>6 DEF TargetFails, rows
    <2>5. \A f \in Series : Excused(f) => Excused(f)'
      BY <1>2, <2>1 DEF Excused
    <2>6. ASSUME NEW f \in Series, ~Excused(f)', InPass(f)
          PROVE  InPass(f)'
      <3>1. Targeted(f)
        BY <2>4, <2>6 DEF InPass
      <3>2. Home[f] # s
        BY <2>1, <2>6, <3>1 DEF Excused, SpokenFor, Targeted
      <3> QED BY <2>2, <3>1, <3>2 DEF InPass, Targeted, Reaches, Whole
    <2>7. job'.at # "reconcile"
      BY <2>2
    <2> QED BY <1>2, <1>3, <2>3, <2>4, <2>5, <2>6, <2>7, PassGoesOn
  <1> QED BY <1>4, <1>5, <1>6

LEMMA EndKeepsBehind ==
  ASSUME SInv, TakeNextScope \/ LastLook \/ Deregister \/ CutShort
  PROVE  WalkInv' /\ BehindInv' /\ ReadInv'
  <1> USE DEF SInv
  <1>1. UNCHANGED <<sources, library, disk, events, paths, caller>>
    BY DEF TakeNextScope, LastLook, Deregister, CutShort, rows, queues
  <1>2. CASE TakeNextScope
    <2>1. PICK x \in Scope :
            /\ job' = Again(x)
            /\ \A f \in Series : Ahead(f) => Ahead(f)' \/ Covers(x, f)
      <3>1. CASE scopes.all /\ job' = Again(All) /\ scopes' = NoScopes
        <4>1. \A f \in Series : Covers(All, f)
          BY DEF Covers, All
        <4> QED BY <3>1, <4>1, ScopesAre
      <3>2. ASSUME NEW s \in scopes.sources, job' = Again(OfSource(s)),
                   scopes' = [scopes EXCEPT !.sources = @ \ {s}]
            PROVE  \E x \in Scope :
                     /\ job' = Again(x)
                     /\ \A f \in Series : Ahead(f) => Ahead(f)' \/ Covers(x, f)
        <4>1. s \in Source /\ OfSource(s) \in Scope
          BY ScopesAre DEF TypeOK
        <4>2. /\ scopes'.all = scopes.all
              /\ scopes'.sources = scopes.sources \ {s}
          BY <3>2 DEF TypeOK
        <4>3. \A f \in Series : Home[f] = s => Covers(OfSource(s), f)
          BY DEF Covers, OfSource
        <4>4. \A f \in Series :
                Ahead(f) => Ahead(f)' \/ Covers(OfSource(s), f)
          <5> SUFFICES ASSUME NEW f \in Series, Ahead(f), Home[f] # s
                       PROVE  Ahead(f)'
            BY <4>3
          <5> QED BY <1>1, <4>2 DEF Ahead, Covers
        <4> QED BY <3>2, <4>1, <4>4
      <3>3. CASE \/ \E f \in scopes.series :
                      /\ job' = Again(OfSeries(f))
                      /\ scopes' = [scopes EXCEPT !.series = @ \ {f}]
                 \/ job' = Again(OfPaths({})) /\ scopes' = scopes
        <4>1. \E x \in Scope : job' = Again(x)
          BY <3>3, ScopesAre DEF TypeOK
        <4>2. scopes'.all = scopes.all /\ scopes'.sources = scopes.sources
          BY <3>3 DEF TypeOK
        <4>3. \A f \in Series : Ahead(f) => Ahead(f)'
          BY <1>1, <4>2 DEF Ahead, Covers
        <4> QED BY <4>1, <4>3
      <3> QED BY <1>2, <3>1, <3>2, <3>3 DEF TakeNextScope
    <2>2. job.at = "next" /\ owed' = owed
      BY <1>2 DEF TakeNextScope
    <2> QED BY <1>1, <2>1, <2>2, JobStarts
  <1>3. CASE LastLook \/ Deregister \/ CutShort
    <2>1. /\ job'.at \in {"ending", "none"} /\ job'.walk = {}
          /\ scopes' = scopes /\ owed \subseteq owed'
      BY <1>3 DEF LastLook, Deregister, CutShort, queues, NoJob
    <2>2. WalkInv'
      BY <2>1 DEF WalkInv
    <2>3. \A f \in Series : Ahead(f) => Ahead(f)'
      BY <1>1, <2>1 DEF Ahead, Covers
    <2>4. \A f \in Series : Excused(f) => Excused(f)'
      BY <1>1, <2>1 DEF Excused
    <2>5. ASSUME NEW f \in Series, InPass(f)
          PROVE  Excused(f)'
      <3>1. job.scope \in Scope /\ Home[f] \in Source
        BY ScanAssumption DEF TypeOK, ScanJob, Path
      <3>2. CutShort
        BY <1>3, <2>5 DEF InPass, LastLook, Deregister
      <3>3. f \in InHand
        BY <2>5, <3>1, <3>2, CoveredIsReached
           DEF InPass, InHand, SpokenFor, Targeted, CutShort
      <3> QED BY <3>2, <3>3 DEF CutShort, Excused
    <2>6. job'.at # "reconcile"
      BY <2>1
    <2> QED BY <1>1, <2>2, <2>3, <2>4, <2>5, <2>6, PassGoesOn
  <1> QED BY <1>2, <1>3

LEMMA ScanInvariant ==
  ASSUME OwnFolders
  PROVE  Spec => []SInv
  <1>1. Init => SInv
    <2> SUFFICES ASSUME Init PROVE SInv
      OBVIOUS
    <2>1. WalkInv /\ ReadInv
      BY DEF Init, NoJob, WalkInv, ReadInv
    <2>2. \A f \in Series : Ahead(f)
      <3>1. PICK c \in Caller :
              caller = [d \in Thread |-> IF d = c THEN Asking(All) ELSE Free]
        BY DEF Init
      <3>2. c \in Thread /\ caller[c] = Asking(All)
        BY <3>1 DEF Thread
      <3> QED BY <3>2 DEF Ahead, Covers, Asking, All
    <2> QED BY <2>1, <2>2, ScanTypeInit DEF SInv, BehindInv
  <1>2. SInv /\ [Next]_vars => SInv'
    <2> SUFFICES ASSUME SInv, [Next]_vars
                 PROVE  WalkInv' /\ BehindInv' /\ ReadInv'
      BY ScanTypeStep DEF SInv
    <2>1. CASE UNCHANGED vars
      BY <2>1 DEF vars, SInv, WalkInv, BehindInv, ReadInv, Excused, Ahead,
                  InPass, Targeted, Covers, Reaches, Whole, SpokenFor
    <2> QED BY <2>1, CallsKeepBehind, WatcherKeepsBehind, StartKeepsBehind,
               PlanKeepsBehind, ReadKeepsBehind, EndKeepsBehind
            DEF Next, Job
  <1> QED BY <1>1, <1>2, PTL DEF Spec

\* Where no two series share the folder their files are reported at, nothing
\* that happens while scans walk, queue and fail is missed: once nothing runs
\* and nothing is queued, the rows are behind the disk only for a series that
\* a scan could not finish or that changed unwatched (the queues, the drain
\* loop and the passes of library/scan.rs, beside the watcher of core.rs).
THEOREM ScanUpToDateWhenQuiet ==
  ASSUME OwnFolders
  PROVE  Spec => []UpToDateWhenQuiet
  <1>1. SInv => UpToDateWhenQuiet
    <2> SUFFICES ASSUME SInv, Quiet, NEW f \in Series, ~Excused(f)
                 PROVE  library[f] = disk[f]
      BY DEF UpToDateWhenQuiet, Excused
    <2>1. ~Ahead(f)
      BY DEF Quiet, Ahead, NoScopes, Free
    <2>2. ~InPass(f)
      BY DEF Quiet, InPass
    <2> QED BY <2>1, <2>2 DEF SInv, BehindInv
  <1> QED BY <1>1, ScanInvariant, PTL

\* The rows of a pass are those of the source it walks, and it writes them
\* only while that source has a row: Reconcile (the transaction of
\* src/core/src/library/scan.rs) cannot bring back a series of a source that
\* RemoveSource took away while the tree was being walked.
THEOREM ScanRemovedStaysGone == Spec => []RemovedStaysGone
<1>1. Init => RemovedStaysGone
  BY DEF Init, RemovedStaysGone
<1>2. RemovedStaysGone /\ [Next]_vars => RemovedStaysGone'
  <2> SUFFICES ASSUME RemovedStaysGone, [Next]_vars
               PROVE  RemovedStaysGone'
    OBVIOUS
  <2> USE DEF RemovedStaysGone
  <2>1. CASE library' = library /\ sources \subseteq sources'
    BY <2>1
  <2>2. ASSUME NEW c \in Caller, NEW s \in Source, RemoveSource(c, s)
        PROVE  RemovedStaysGone'
    BY <2>2 DEF RemoveSource
  <2>3. CASE Reconcile
    <3>1. CASE job.walk \subseteq sources
      <4>1. library' = [f \in Series |-> IF f \in SpokenFor(job.walk)
                                         THEN job.read[f] ELSE library[f]]
        BY <2>3, <3>1 DEF Reconcile
      <4>2. \A f \in SpokenFor(job.walk) : Home[f] \in sources
        BY <3>1 DEF SpokenFor
      <4>3. sources' = sources
        BY <2>3 DEF Reconcile
      <4> QED BY <4>1, <4>2, <4>3
    <3>2. CASE ~(job.walk \subseteq sources)
      BY <2>3, <3>2 DEF Reconcile
    <3> QED BY <3>1, <3>2
  <2>4. ASSUME NEW c \in Caller, NEW s \in Source, AddSource(c, s)
        PROVE  library' = library /\ sources \subseteq sources'
    BY <2>4 DEF AddSource
  <2>5. ASSUME NEW c \in Caller,
               \/ Scan(c)
               \/ \E f \in Series : RescanSeries(c, f) \/ RescanMany(c, f)
        PROVE  library' = library /\ sources' = sources
    BY <2>5 DEF Scan, RescanSeries, RescanMany, rows
  <2>6. ASSUME NEW t \in Thread, Start(t)
        PROVE  library' = library /\ sources' = sources
    BY <2>6 DEF Start, Push, Spawn, Remember, Ask, Respawn, Unwatch, rows
  <2>7. CASE Job /\ ~Reconcile
    <3>1. library' = library /\ sources' = sources
      BY <2>7 DEF Job, Take, Resolve, Retain, Visit, Walk, TakeNextScope,
                  LastLook, Deregister, rows
    <3> QED BY <3>1, <2>1
  <2>8. CASE OnWatchTriggers \/ WatchOverflow \/ TargetFails \/ CutShort
    <3>1. library' = library /\ sources' = sources
      BY <2>8 DEF OnWatchTriggers, WatchOverflow, TargetFails, CutShort, rows
    <3> QED BY <3>1, <2>1
  <2>9. ASSUME NEW f \in Series, Change(f)
        PROVE  library' = library /\ sources' = sources
    BY <2>9 DEF Change, rows
  <2>10. CASE UNCHANGED vars
    BY <2>10, <2>1 DEF vars
  <2> QED
    BY <2>1, <2>2, <2>3, <2>4, <2>5, <2>6, <2>7, <2>8, <2>9, <2>10 DEF Next
<1> QED
  BY <1>1, <1>2, PTL DEF Spec
================================================================================
