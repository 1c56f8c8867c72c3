--------------------------- MODULE PlaybackSession ---------------------------
(***************************************************************************)
(* The player's sessions over one file of the library                      *)
(* (src/core/src/playback/session.rs, with the writer thread of            *)
(* src/core/src/store/mod.rs behind it).                                   *)
(*                                                                         *)
(* A shell opens a session, sends a tick a second and closes it.  Each     *)
(* tick runs the four rules (view, mark, complete, resume) over the        *)
(* session under the lock of the sessions' map, and applies what fired     *)
(* after the lock is dropped: a view and a completion wait for the         *)
(* writer, a resume point is posted and not waited for.                    *)
(*                                                                         *)
(* Calls come from the shell's thread and from other devices' requests,    *)
(* each served on a thread of its own: Caller holds those threads.         *)
(*                                                                         *)
(* Left out: the rows' stamps (a view only replaces an older one), the     *)
(* Discord presence, the paused flag it reads, the profile, and the cards  *)
(* pushed after a completion.                                              *)
(*                                                                         *)
(* Positions are whole seconds of a scaled file, and the thresholds are    *)
(* constants: only their order and their distances matter to the rules.    *)
(***************************************************************************)
EXTENDS Integers, Sequences, FiniteSets

CONSTANTS
  Caller,      \* threads that call the core
  MaxSession,  \* bound: sessions opened in a behaviour
  MaxOpen,     \* bound: sessions open at once
  MaxQueued,   \* bound: tasks waiting at the writer when a call comes in
  Shape,       \* what the file may be: "episode", "film", "extra"
  Length,      \* the file's length, which its chapters' report carries
  Outro,       \* where the skip windows' lookup may find an outro
  ViewSecs, MaxTickDelta, MarkPercent, ResumeHead, Interval, ResumeTail

ASSUME PlaybackAssumption ==
  /\ MaxSession \in Nat /\ MaxOpen \in Nat /\ MaxQueued \in Nat
  /\ Shape \subseteq {"episode", "film", "extra"}
  /\ Length \in Nat \ {0}
  /\ Outro \subseteq 0..Length
  /\ ViewSecs \in Nat /\ MaxTickDelta \in Nat /\ ResumeHead \in Nat
  /\ Interval \in Nat /\ ResumeTail \in Nat /\ MarkPercent \in 0..100
  /\ "none" \notin Caller

Session == 1..MaxSession
Position == 0..Length
Bad == -1                \* a position that is not finite, or below nought
Never == -1              \* no last position, no outro, no point written
None == "none"

VARIABLES
  shape,    \* what the file is: is_extra, is_film
  next,     \* Sessions::next: ids handed out so far
  open,     \* the ids in Sessions::map
  session,  \* session[s]: its record while it is open
  lookup,   \* lookup[s]: the SkipWindows job: "none", "looking", "done"
  caller,   \* caller[c]: the call it is serving
  queue,    \* the store's channel: tasks not yet run
  store,    \* "open", or "closed" when its sender was taken
  point,    \* the row of resume_points
  shown,    \* the position the last ResumePointChanged carried
  tally,    \* tally[s]: how often each effect of s was stored (a history)
  word,     \* the last close: whose, at which position (a history)
  lost      \* a write failed or was dropped (a history)

vars == <<shape, next, open, session, lookup, caller, queue, store,
          point, shown, tally, word, lost>>

-----------------------------------------------------------------------------
(* The rules: effects over one tick                                        *)

NewSession ==
  [duration |-> FALSE, outro |-> Never, last |-> Never, watched |-> 0,
   viewed |-> FALSE, marked |-> FALSE, completed |-> FALSE,
   written |-> Never]

Kind == {"playing", "paused", "closing"}

\* Forward movement at roughly real time; anything else is a seek.
Played(x, p, k) ==
  /\ k # "paused"
  /\ x.last # Never
  /\ p > x.last
  /\ p - x.last <= MaxTickDelta

\* watched_secs, no further than the one threshold it is compared with.
Watched(x, p, k) ==
  IF ~Played(x, p, k) THEN x.watched
  ELSE IF x.watched + (p - x.last) >= ViewSecs THEN ViewSecs
       ELSE x.watched + (p - x.last)

\* Whether the mark line is known, and reached: the outro's start, or 85
\* percent of the duration when no outro is known.
PastFinish(x, p) ==
  IF x.outro # Never THEN p >= x.outro
  ELSE x.duration /\ 100 * p >= MarkPercent * Length

InTail(x, p) == x.duration /\ p >= Length - ResumeTail

Views(x, p, k) ==
  ~x.viewed /\ shape # "extra" /\ Watched(x, p, k) >= ViewSecs

\* Mutant: the mark rule forgets that it fired.
MarksAgain(x, p) == shape # "extra" /\ PastFinish(x, p)

Marks(x, p) == ~x.marked /\ shape # "extra" /\ PastFinish(x, p)

Completes(x, p, k) ==
  /\ ~x.completed
  /\ \/ InTail(x, p)
     \/ shape = "episode" /\ Played(x, p, k) /\ PastFinish(x, p)

Moved(x, p) ==
  \/ x.written = Never
  \/ p - x.written >= Interval
  \/ x.written - p >= Interval

\* Mutant: a completed session goes on writing resume points.
ResumesAnyway(x, p, k) ==
  /\ ~Completes(x, p, k)
  /\ p >= ResumeHead
  /\ Moved(x, p) \/ k # "playing"

\* Mutant: the throttle holds for the last tick too.
ResumesThrottled(x, p, k) ==
  /\ ~Completes(x, p, k) /\ ~x.completed
  /\ p >= ResumeHead
  /\ Moved(x, p) \/ k = "paused"

Resumes(x, p, k) ==
  /\ ~Completes(x, p, k) /\ ~x.completed
  /\ p >= ResumeHead
  /\ Moved(x, p) \/ k # "playing"

\* The session after the tick.
Ticked(x, p, k) ==
  IF p = Bad THEN x
  ELSE [x EXCEPT
          !.watched = Watched(x, p, k),
          !.last = p,
          !.viewed = x.viewed \/ Views(x, p, k),
          !.marked = x.marked \/ Marks(x, p),
          !.completed = x.completed \/ Completes(x, p, k),
          !.written = IF Resumes(x, p, k) THEN p ELSE x.written]

If(b, e) == IF b THEN <<e>> ELSE <<>>
Effect(what, p) == [what |-> what, at |-> p]

\* What the tick asks for, in the order the rules fire: the three that fire
\* once, then the resume point.
Latched(x, p, k) ==
  IF p = Bad THEN <<>>
  ELSE If(Views(x, p, k), Effect("view", p))
       \o If(Marks(x, p), Effect("mark", p))
       \o If(Completes(x, p, k), Effect("complete", p))

Effects(x, p, k) ==
  Latched(x, p, k) \o If(p # Bad /\ Resumes(x, p, k), Effect("resume", p))

-----------------------------------------------------------------------------
(* State                                                                   *)

Idle == [at |-> "idle", s |-> 0, todo |-> <<>>, watched |-> FALSE]
EffectSet == [what : {"view", "mark", "complete", "resume"}, at : Position]
Task == [do : {"view", "complete", "resume"}, s : Session, at : Position,
         log : BOOLEAN, for : Caller \cup {None}]
Row == [at : Position, by : Session]
NoRow == [at |-> Never, by |-> 0]
Stage == {"idle", "apply", "wait", "replied", "failed", "say"}
Call == [at : Stage, s : Session \cup {0}, todo : Seq(EffectSet),
         watched : BOOLEAN]
Tally == [view : Nat, mark : Nat, complete : Nat, finish : Nat]
Opened == [duration : BOOLEAN, outro : Outro \cup {Never},
           last : Position \cup {Never}, watched : 0..ViewSecs,
           viewed : BOOLEAN, marked : BOOLEAN, completed : BOOLEAN,
           written : Position \cup {Never}]

TypeOK ==
  /\ shape \in Shape
  /\ next \in 0..MaxSession
  /\ open \subseteq 1..next
  /\ session \in [Session -> Opened]
  /\ lookup \in [Session -> {"none", "looking", "done"}]
  /\ caller \in [Caller -> Call]
  /\ queue \in Seq(Task)
  /\ store \in {"open", "closed"}
  /\ point \in Row \cup {NoRow}
  /\ shown \in Position \cup {Never}
  /\ tally \in [Session -> Tally]
  /\ word \in [by : Session \cup {0}, at : Position \cup {Bad},
               done : BOOLEAN]
  /\ lost \in BOOLEAN

Init ==
  /\ shape \in Shape
  /\ next = 0
  /\ open = {}
  /\ session = [s \in Session |-> NewSession]
  /\ lookup = [s \in Session |-> "none"]
  /\ caller = [c \in Caller |-> Idle]
  /\ queue = <<>>
  /\ store = "open"
  /\ point = NoRow
  /\ shown = Never
  /\ tally = [s \in Session |->
                [view |-> 0, mark |-> 0, complete |-> 0, finish |-> 0]]
  /\ word = [by |-> 0, at |-> Bad, done |-> FALSE]
  /\ lost = FALSE

rows == <<store, point, shown, tally, lost>>

-----------------------------------------------------------------------------
(* The calls                                                               *)

\* Mutant: the id is the counter before it moved, nought for the first.
OpenPlaybackAsCounted ==
  /\ next < MaxSession /\ Cardinality(open) < MaxOpen
  /\ next' = next + 1
  /\ open' = open \cup {next}
  /\ UNCHANGED <<shape, session, lookup, caller, queue, word, rows>>

\* OpenPlayback: the session joins the map under the next id.
OpenPlayback ==
  /\ next < MaxSession /\ Cardinality(open) < MaxOpen
  /\ next' = next + 1
  /\ open' = open \cup {next'}
  /\ UNCHANGED <<shape, session, lookup, caller, queue, word, rows>>

\* ReportChapters: the duration lands at once, the SkipWindows job looks for
\* an outro.
ReportChapters(s) ==
  /\ s \in open /\ lookup[s] = "none"
  /\ lookup' = [lookup EXCEPT ![s] = "looking"]
  /\ session' = [session EXCEPT ![s].duration = TRUE]
  /\ UNCHANGED <<shape, next, open, caller, queue, word, rows>>

\* The job's answer.  A session closed meanwhile takes nothing.
LookupEnds(s, o) ==
  /\ lookup[s] = "looking"
  /\ lookup' = [lookup EXCEPT ![s] = "done"]
  /\ session' = IF s \in open /\ o # Never
                THEN [session EXCEPT ![s].outro = o] ELSE session
  /\ UNCHANGED <<shape, next, open, caller, queue, word, rows>>

\* The thread goes on to apply what fired, with a copy of the session.
Serving(s, x, fired) ==
  IF fired = <<>> THEN Idle
  ELSE [at |-> "apply", s |-> s, todo |-> fired, watched |-> x.viewed]

\* Tick: the rules under the lock of the map.
Tick(c, s, p, k) ==
  /\ caller[c] = Idle /\ Len(queue) < MaxQueued
  /\ s \in open
  /\ session' = [session EXCEPT ![s] = Ticked(session[s], p, k)]
  /\ caller' = [caller EXCEPT ![c] =
                  Serving(s, session'[s], Effects(session[s], p, k))]
  /\ UNCHANGED <<shape, next, open, lookup, queue, word, rows>>

\* What a close applies: its own tick, and the completion the end of the
\* file implies, which takes the place of that tick's resume point.
ClosingEffects(x, p, reason) ==
  IF reason = "ended" /\ ~Ticked(x, p, "closing").completed
    THEN Latched(x, p, "closing") \o <<Effect("complete", Length)>>
    ELSE Effects(x, p, "closing")

\* ClosePlayback: the session leaves the map, then its last tick is applied.
\* A second close of the same session finds nothing and does nothing.
ClosePlayback(c, s, p, reason) ==
  /\ caller[c] = Idle /\ Len(queue) < MaxQueued
  /\ s \in open
  /\ LET x == Ticked(session[s], p, "closing") IN
       /\ caller' = [caller EXCEPT ![c] =
                       Serving(s, x, ClosingEffects(session[s], p, reason))]
       /\ word' = [by |-> s, at |-> p,
                   done |-> x.completed \/ reason = "ended"]
  /\ open' = open \ {s}
  /\ session' = [session EXCEPT ![s] = NewSession]
  /\ UNCHANGED <<shape, next, lookup, queue, rows>>

-----------------------------------------------------------------------------
(* Applying the effects                                                    *)

Now(c) == caller[c].todo[1]
Applying(c, what) == caller[c].at = "apply" /\ Now(c).what = what

\* The next effect, or the reply to the shell when there is none.
Served(c) ==
  IF Len(caller[c].todo) = 1 THEN Idle
  ELSE [caller[c] EXCEPT !.at = "apply", !.todo = Tail(caller[c].todo)]

\* record_view and complete: a task sent to the writer, and the thread waits.
\* A closed store refuses, and the effects left are dropped with the call.
Send(c) ==
  /\ Applying(c, "view") \/ Applying(c, "complete")
  /\ IF store = "open"
     THEN /\ queue' = Append(queue,
               [do |-> Now(c).what, s |-> caller[c].s, at |-> Now(c).at,
                log |-> caller[c].watched, for |-> c])
          /\ caller' = [caller EXCEPT ![c].at = "wait"]
          /\ UNCHANGED lost
     ELSE /\ caller' = [caller EXCEPT ![c] = Idle]
          /\ lost' = TRUE
          /\ UNCHANGED queue
  /\ UNCHANGED <<shape, next, open, session, lookup, store, point, shown,
                 tally, word>>

\* mark: the Mark job is asked for; whatever it answers, the tick goes on.
Mark(c) ==
  /\ Applying(c, "mark")
  /\ tally' = [tally EXCEPT ![caller[c].s].mark = @ + 1]
  /\ caller' = [caller EXCEPT ![c] = Served(c)]
  /\ UNCHANGED <<shape, next, open, session, lookup, queue, store, point,
                 shown, word, lost>>

\* write_resume: posted, and dropped in silence by a closed store.
Post(c) ==
  /\ Applying(c, "resume")
  /\ queue' = IF store = "open"
              THEN Append(queue, [do |-> "resume", s |-> caller[c].s,
                                  at |-> Now(c).at, log |-> FALSE,
                                  for |-> None])
              ELSE queue
  /\ lost' = (lost \/ store = "closed")
  /\ caller' = [caller EXCEPT ![c].at = "say"]
  /\ UNCHANGED <<shape, next, open, session, lookup, store, point, shown,
                 tally, word>>

\* ... and announced at once, without waiting for the row.
Say(c) ==
  /\ caller[c].at = "say"
  /\ shown' = Now(c).at
  /\ caller' = [caller EXCEPT ![c] = Served(c)]
  /\ UNCHANGED <<shape, next, open, session, lookup, queue, store, point,
                 tally, word, lost>>

\* Mutant: a completion is not announced.
RepliedSilent(c) ==
  /\ caller[c].at = "replied"
  /\ shown' = shown
  /\ caller' = [caller EXCEPT ![c] = Served(c)]
  /\ UNCHANGED <<shape, next, open, session, lookup, queue, store, point,
                 tally, word, lost>>

\* The writer has answered: a completion is announced.
Replied(c) ==
  /\ caller[c].at = "replied"
  /\ shown' = IF Now(c).what = "complete" THEN Never ELSE shown
  /\ caller' = [caller EXCEPT ![c] = Served(c)]
  /\ UNCHANGED <<shape, next, open, session, lookup, queue, store, point,
                 tally, word, lost>>

\* The writer has answered with an error: the rest of the effects go.
Failed(c) ==
  /\ caller[c].at = "failed"
  /\ caller' = [caller EXCEPT ![c] = Idle]
  /\ UNCHANGED <<shape, next, open, session, lookup, queue, word, rows>>

-----------------------------------------------------------------------------
(* The writer thread                                                       *)

\* Mutant: what is run after the store closed is answered to nobody.
AnsweredWhileOpen(task, how) ==
  IF task.for = None \/ store = "closed" THEN caller
  ELSE [caller EXCEPT ![task.for].at = how]

\* The thread waiting for the task, if one is, goes on.
Answered(task, how) ==
  IF task.for = None THEN caller
  ELSE [caller EXCEPT ![task.for].at = how]

\* The resume row after a task: an upsert, a delete, or left alone.
PointAfter(task) ==
  IF task.do = "resume" THEN [at |-> task.at, by |-> task.s]
  ELSE IF task.do = "complete" THEN NoRow ELSE point

\* The rows of views, completed and the watch log a task adds.
Tallied(task) ==
  LET n == tally[task.s]
  IN [tally EXCEPT ![task.s] =
        [n EXCEPT !.view = IF task.do = "view" THEN @ + 1 ELSE @,
                  !.complete = IF task.do = "complete" THEN @ + 1 ELSE @,
                  !.finish = IF task.do = "complete" /\ task.log
                                /\ shape # "extra" THEN @ + 1 ELSE @]]

\* One task, run to its end; the queue is first in, first out, and drained
\* before the thread ends.
RunTask ==
  /\ queue # <<>>
  /\ point' = PointAfter(queue[1])
  /\ tally' = Tallied(queue[1])
  /\ caller' = Answered(queue[1], "replied")
  /\ queue' = Tail(queue)
  /\ UNCHANGED <<shape, next, open, session, lookup, store, shown, word,
                 lost>>

\* The statement or the transaction fails: the rows stay as they were.
TaskFails ==
  /\ queue # <<>>
  /\ caller' = Answered(queue[1], "failed")
  /\ queue' = Tail(queue)
  /\ lost' = TRUE
  /\ UNCHANGED <<shape, next, open, session, lookup, store, point, shown,
                 tally, word>>

\* Store::close takes the sender.
CloseStore ==
  /\ store = "open"
  /\ store' = "closed"
  /\ UNCHANGED <<shape, next, open, session, lookup, caller, queue, point,
                 shown, tally, word, lost>>

Apply(c) == Send(c) \/ Mark(c) \/ Post(c) \/ Say(c) \/ Replied(c) \/ Failed(c)
Writer == RunTask \/ TaskFails

Next ==
  \/ OpenPlayback
  \/ \E s \in Session : ReportChapters(s)
  \/ \E s \in Session, o \in Outro \cup {Never} : LookupEnds(s, o)
  \/ \E c \in Caller, s \in Session, p \in Position \cup {Bad} :
       \/ \E k \in {"playing", "paused"} : Tick(c, s, p, k)
       \/ \E reason \in {"stopped", "ended"} : ClosePlayback(c, s, p, reason)
  \/ \E c \in Caller : Apply(c)
  \/ Writer
  \/ CloseStore

Spec == Init /\ [][Next]_vars

\* A thread goes on with its call and the writer with its queue; when the
\* shell ticks, and whether the store closes, is nobody's promise.
FairSpec == Spec /\ WF_vars(Writer) /\ \A c \in Caller : WF_vars(Apply(c))

-----------------------------------------------------------------------------
(* Properties                                                              *)

\* "Four things happen to a session, each at most once" (session.rs:5-6):
\* whatever threads tick and close it, one view, one mark, one completion
\* and one finish in the watch log come of it.
AtMostOnce ==
  \A s \in Session : /\ tally[s].view <= 1 /\ tally[s].mark <= 1
                     /\ tally[s].complete <= 1 /\ tally[s].finish <= 1

\* A completion clears the episode's resume point, and the session that
\* completed does not bring it back: "a completion that deletes the row still
\* runs after the upsert before it" (write_resume).
CompletedForgets == point # NoRow => tally[point.by].complete = 0

\* Each of a session's rules has its effect once, and keeps it.
RulesHold == TypeOK /\ AtMostOnce /\ CompletedForgets

Quiet == queue = <<>> /\ \A c \in Caller : caller[c] = Idle

\* Once every call is answered and the writer is idle, the last
\* ResumePointChanged the shell heard is what the table holds, unless a write
\* failed or the store had closed.
ShownIsStored ==
  Quiet /\ ~lost => shown = point.at

\* The playhead is resumed where the last session to close left it: its last
\* position is what the row holds, or the row is gone if it completed ("a
\* session's last tick ... could be the last word", TickKind).
LastWordKept ==
  Quiet /\ ~lost /\ open = {} /\ word.by # 0 /\ word.at >= ResumeHead
    => point = IF word.done THEN NoRow ELSE [at |-> word.at, by |-> word.by]

\* Every tick and every close is answered, the store closing under it or not.
CallsReturn == \A c \in Caller : caller[c] # Idle ~> caller[c] = Idle

\* "Only played across: completion clears the resume point, so a seek to peek
\* at the credits must not" (session.rs:206-209): a session that was marked
\* past the line without completing there completes before the tail only by
\* playing over the line again.
PeekLeavesPoint ==
  [][\A s \in open \cap open' :
       session[s].marked /\ session'[s].completed /\ ~session[s].completed
         => \/ InTail(session[s], session'[s].last)
            \/ ~PastFinish(session[s], session[s].last)]_vars
=============================================================================
