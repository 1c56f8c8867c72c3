-------------------------------- MODULE Jobs --------------------------------
(***************************************************************************)
(* The job registry and the reporting throttle of the core                 *)
(* (src/core/src/jobs.rs).                                                 *)
(*                                                                         *)
(* A job is registered by the thread that answers a call, announced with   *)
(* JobStarted, and handed to the runtime.  Its runner races the body       *)
(* against the cancellation token, leaves the registry, flushes what the   *)
(* throttles still hold and emits the terminal event.  A body that panics, *)
(* or a runtime that goes away, leaves the same work to JobGuard::drop.    *)
(* Beside them run the throttles' scheduled flushes, tasks of their own.   *)
(*                                                                         *)
(* The two throttles (progress, changed series) are one shape: a window    *)
(* opened 250 ms after the last emission, a map of pending values, and at  *)
(* most one scheduled flush.  Progress is the map with a single key.       *)
(* Values are versions: the n-th thing a body said about an item.          *)
(***************************************************************************)
EXTENDS Naturals, FiniteSets

CONSTANTS
  Job,        \* ids a behaviour may hand out (bounds the behaviour)
  Kind,       \* job kinds
  Exclusive,  \* the kinds of JobKind::one_at_a_time
  Progress,   \* the one item the progress throttle carries
  Series,     \* series whose cards the changed throttle carries
  MaxSaid     \* bound: versions a body reports of one item

ASSUME JobsAssumption ==
  /\ Exclusive \subseteq Kind
  /\ Progress \notin Series
  /\ MaxSaid \in Nat

Item == Series \cup {Progress}
Channel == {"progress", "changed"}
ItemsOf(ch) == IF ch = "progress" THEN {Progress} ELSE Series
Untaken == "unused"      \* the kind of an id no call has taken yet

VARIABLES
  phase,      \* phase[j]: where job j's runner stands
  kind,       \* kind[j]: the kind it was started with
  registered, \* the ids in Jobs::running
  cancel,     \* the ids whose cancellation token is set
  finished,   \* finished[j]: JobCtx::finished
  outcome,    \* outcome[j]: the terminal event emitted, or "none"
  ends,       \* ends[j]: how many terminal events were emitted (a history)
  window,     \* window[j][ch]: "open" when an emission is due
  pending,    \* pending[j][i]: the version buffered for item i, 0 for none
  flush,      \* flush[j][ch]: the scheduled flush of that throttle
  inHand,     \* inHand[j][i]: what a flush took and has not emitted yet
  said,       \* said[j][i]: the last version the body reported
  emitted,    \* emitted[j][i]: the last version listeners were given
  runtime     \* "up", "cancelling" (shutdown called cancel_all), "down"

lifecycle == <<phase, kind, registered, cancel, outcome, ends>>
throttles == <<window, pending, flush, inHand, said, emitted>>
vars == <<phase, kind, registered, cancel, finished, outcome, ends,
          window, pending, flush, inHand, said, emitted, runtime>>

Phase == {"unused", "inserted", "spawned", "body",
          "resolved", "removed", "progress", "changed", "ending",
          "dropped", "silenced", "dropEnding", "ended", "lost"}
Outcome == {"none", "completed", "failed", "cancelled", "panicked", "dropped"}
Flush == {"none", "asleep", "awake", "holding"}

TypeOK ==
  /\ phase \in [Job -> Phase]
  /\ kind \in [Job -> Kind \cup {Untaken}]
  /\ registered \in SUBSET Job
  /\ cancel \in SUBSET Job
  /\ finished \in [Job -> BOOLEAN]
  /\ outcome \in [Job -> Outcome]
  /\ ends \in [Job -> Nat]
  /\ window \in [Job -> [Channel -> {"open", "shut"}]]
  /\ pending \in [Job -> [Item -> Nat]]
  /\ flush \in [Job -> [Channel -> Flush]]
  /\ inHand \in [Job -> [Item -> Nat]]
  /\ said \in [Job -> [Item -> Nat]]
  /\ emitted \in [Job -> [Item -> Nat]]
  /\ runtime \in {"up", "cancelling", "down"}

Init ==
  /\ phase = [j \in Job |-> "unused"]
  /\ kind = [j \in Job |-> Untaken]
  /\ registered = {}
  /\ cancel = {}
  /\ finished = [j \in Job |-> FALSE]
  /\ outcome = [j \in Job |-> "none"]
  /\ ends = [j \in Job |-> 0]
  /\ window = [j \in Job |-> [ch \in Channel |-> "open"]]
  /\ pending = [j \in Job |-> [i \in Item |-> 0]]
  /\ flush = [j \in Job |-> [ch \in Channel |-> "none"]]
  /\ inHand = [j \in Job |-> [i \in Item |-> 0]]
  /\ said = [j \in Job |-> [i \in Item |-> 0]]
  /\ emitted = [j \in Job |-> [i \in Item |-> 0]]
  /\ runtime = "up"

MoveTo(j, p) == phase' = [phase EXCEPT ![j] = p]

-----------------------------------------------------------------------------
(* Starting a job                                                          *)

\* Mutant: only a job whose body runs counts, not one just registered.
BusyOncePolled(k) ==
  k \in Exclusive /\ \E j \in registered : kind[j] = k /\ phase[j] = "body"

\* An exclusive kind with a job registered hands that job's id back and
\* starts nothing.
Busy(k) == k \in Exclusive /\ \E j \in registered : kind[j] = k

\* Mutant: the registry is keyed by kind.
StartKeyedByKind(j, k) ==
  /\ phase[j] = "unused"
  /\ ~Busy(k)
  /\ MoveTo(j, "inserted")
  /\ kind' = [kind EXCEPT ![j] = k]
  /\ registered' = registered \cup {k}
  /\ UNCHANGED <<cancel, finished, outcome, ends, throttles, runtime>>

\* start_reporting under the registry lock: the check and the insertion are
\* one step.  Which unused id is taken does not matter: ids only differ.
StartReporting(j, k) ==
  /\ phase[j] = "unused"
  /\ ~Busy(k)
  /\ MoveTo(j, "inserted")
  /\ kind' = [kind EXCEPT ![j] = k]
  /\ registered' = registered \cup {j}
  /\ UNCHANGED <<cancel, finished, outcome, ends, throttles, runtime>>

\* After the lock is dropped: JobStarted is emitted and the runner spawned.
\* A runtime already shut down drops the task at once, unpolled.
Announce(j) ==
  /\ phase[j] = "inserted"
  /\ MoveTo(j, IF runtime = "down" THEN "lost" ELSE "spawned")
  /\ UNCHANGED <<kind, registered, cancel, finished, outcome, ends,
                 throttles, runtime>>

\* Mutant: a runner that finds itself cancelled at its first poll returns.
PollUnlessCancelled(j) ==
  /\ phase[j] = "spawned"
  /\ runtime # "down"
  /\ MoveTo(j, IF j \in cancel THEN "lost" ELSE "body")
  /\ UNCHANGED <<kind, registered, cancel, finished, outcome, ends,
                 throttles, runtime>>

\* First poll of the runner: the guard is armed and select! polls the body.
Poll(j) ==
  /\ phase[j] = "spawned"
  /\ runtime # "down"
  /\ MoveTo(j, "body")
  /\ UNCHANGED <<kind, registered, cancel, finished, outcome, ends,
                 throttles, runtime>>

-----------------------------------------------------------------------------
(* What a running body reports                                             *)

\* f with channel ch's items replaced by what g says of them.
OnChannel(ch, f, g) == [i \in Item |-> IF i \in ItemsOf(ch) THEN g[i] ELSE f[i]]
Nothing == [i \in Item |-> 0]

\* f with the items a body reports on at their next version.
Updated(j, items, f) ==
  [i \in Item |-> IF i \in items THEN said[j][i] + 1 ELSE f[i]]

\* The last versions known to listeners once the non-zero ones of `batch`
\* have been emitted to them.
Delivered(j, batch) ==
  [i \in Item |-> IF batch[i] # 0 THEN batch[i] ELSE emitted[j][i]]

\* Mutant: what was sent stays buffered.
ClearedNothing(j, ch) == pending[j]

\* The buffer of one throttle taken.
Cleared(j, ch) == OnChannel(ch, pending[j], Nothing)

\* Mutant: a flush lets go of the lock before it emits.
LockNeverHeld(j, ch) == TRUE

\* The throttle's lock: only a flush keeps it over a step.
LockFree(j, ch) == flush[j][ch] # "holding"

HasPending(j, ch) == \E i \in ItemsOf(ch) : pending[j][i] # 0

\* progress / changed_all.  The emission of the due branch follows the drop
\* of the throttle's lock; nothing can be pending in between, because only
\* the body, this caller, adds to it, so the two are one step here.
Report(j, ch, items) ==
  /\ phase[j] = "body"
  /\ runtime # "down"
  /\ LockFree(j, ch)
  /\ \A i \in items : said[j][i] < MaxSaid
  /\ said' = [said EXCEPT ![j] = Updated(j, items, @)]
  /\ \/ /\ window[j][ch] = "open"
        /\ window' = [window EXCEPT ![j][ch] = "shut"]
        /\ emitted' = [emitted EXCEPT ![j] =
             Delivered(j, OnChannel(ch, Nothing, Updated(j, items, pending[j])))]
        /\ pending' = [pending EXCEPT ![j] = Cleared(j, ch)]
        /\ UNCHANGED flush
     \/ /\ window[j][ch] = "shut"
        /\ pending' = [pending EXCEPT ![j] = Updated(j, items, @)]
        /\ flush' = [flush EXCEPT ![j][ch] = IF @ = "none" THEN "asleep" ELSE @]
        /\ UNCHANGED <<window, emitted>>
  /\ UNCHANGED <<lifecycle, finished, inHand, runtime>>

\* 250 ms have passed since the last emission.  A flush that sleeps was told
\* to wait for exactly this moment, so its timer fires with it; the task
\* itself runs later, whenever the runtime polls it.
IntervalPasses(j, ch) ==
  /\ window[j][ch] = "shut"
  /\ window' = [window EXCEPT ![j][ch] = "open"]
  /\ flush' = [flush EXCEPT ![j][ch] = IF @ = "asleep" THEN "awake" ELSE @]
  /\ UNCHANGED <<lifecycle, finished, pending, inHand, said, emitted, runtime>>

\* The woken flush takes the throttle's lock, clears flush_scheduled and
\* looks at `finished`.  With something to say it takes it, starts the
\* window again and keeps the lock until it has emitted.
FlushChecks(j, ch) ==
  /\ flush[j][ch] = "awake"
  /\ runtime # "down"
  /\ IF ~finished[j] /\ HasPending(j, ch)
       THEN /\ flush' = [flush EXCEPT ![j][ch] = "holding"]
            /\ inHand' = [inHand EXCEPT ![j] = OnChannel(ch, @, pending[j])]
            /\ pending' = [pending EXCEPT ![j] = Cleared(j, ch)]
            /\ window' = [window EXCEPT ![j][ch] = "shut"]
       ELSE /\ flush' = [flush EXCEPT ![j][ch] = "none"]
            /\ UNCHANGED <<inHand, pending, window>>
  /\ UNCHANGED <<lifecycle, finished, said, emitted, runtime>>

\* The rest of the scheduled flush: emit, release the lock.
FlushEmits(j, ch) ==
  /\ flush[j][ch] = "holding"
  /\ emitted' = [emitted EXCEPT ![j] =
       Delivered(j, OnChannel(ch, Nothing, inHand[j]))]
  /\ inHand' = [inHand EXCEPT ![j] = OnChannel(ch, @, Nothing)]
  /\ flush' = [flush EXCEPT ![j][ch] = "none"]
  /\ UNCHANGED <<lifecycle, finished, window, pending, said, runtime>>

-----------------------------------------------------------------------------
(* The end of a job whose select! resolved                                 *)

\* select! resolves: by the token, or by the body's own result.
Resolve(j, how) ==
  /\ phase[j] = "body"
  /\ runtime # "down"
  /\ how = "cancelled" => j \in cancel
  /\ MoveTo(j, "resolved")
  /\ outcome' = [outcome EXCEPT ![j] = how]
  /\ UNCHANGED <<kind, registered, cancel, finished, ends, throttles, runtime>>

Deregister(j) ==
  /\ phase[j] = "resolved"
  /\ MoveTo(j, "removed")
  /\ registered' = registered \ {j}
  /\ UNCHANGED <<kind, cancel, finished, outcome, ends, throttles, runtime>>

\* Mutant: finish sets the flag and trusts the scheduled flushes.
MarkFinishedOnly(j) ==
  /\ phase[j] = "removed"
  /\ MoveTo(j, "ending")
  /\ finished' = [finished EXCEPT ![j] = TRUE]
  /\ UNCHANGED <<kind, registered, cancel, outcome, ends, throttles, runtime>>

\* JobCtx::finish: the flag first, then the two flushes, each under its lock.
MarkFinished(j) ==
  /\ phase[j] = "removed"
  /\ MoveTo(j, "progress")
  /\ finished' = [finished EXCEPT ![j] = TRUE]
  /\ UNCHANGED <<kind, registered, cancel, outcome, ends, throttles, runtime>>

\* flush_progress and flush_changed: under the lock, whatever is buffered.
FinalFlush(j, ch) ==
  /\ phase[j] = ch
  /\ LockFree(j, ch)
  /\ MoveTo(j, IF ch = "progress" THEN "changed" ELSE "ending")
  /\ emitted' = [emitted EXCEPT ![j] =
       Delivered(j, OnChannel(ch, Nothing, pending[j]))]
  /\ pending' = [pending EXCEPT ![j] = Cleared(j, ch)]
  /\ window' = [window EXCEPT ![j][ch] = IF HasPending(j, ch) THEN "shut" ELSE @]
  /\ UNCHANGED <<kind, registered, cancel, finished, outcome, ends, flush,
                 inHand, said, runtime>>

\* Mutant: the guard is never disarmed, so it ends the job a second time.
EmitTerminalStillArmed(j) ==
  /\ phase[j] \in {"ending", "dropEnding"}
  /\ MoveTo(j, IF phase[j] = "ending" THEN "dropped" ELSE "ended")
  /\ ends' = [ends EXCEPT ![j] = @ + 1]
  /\ UNCHANGED <<kind, registered, cancel, finished, outcome, throttles,
                 runtime>>

EmitTerminal(j) ==
  /\ phase[j] \in {"ending", "dropEnding"}
  /\ MoveTo(j, "ended")
  /\ ends' = [ends EXCEPT ![j] = @ + 1]
  /\ UNCHANGED <<kind, registered, cancel, finished, outcome, throttles,
                 runtime>>

-----------------------------------------------------------------------------
(* The end of a job whose body unwound or was dropped: JobGuard::drop      *)

BodyPanics(j) ==
  /\ phase[j] = "body"
  /\ runtime # "down"
  /\ MoveTo(j, "dropped")
  /\ outcome' = [outcome EXCEPT ![j] = "panicked"]
  /\ UNCHANGED <<kind, registered, cancel, finished, ends, throttles, runtime>>

\* A runtime shutting down drops the tasks it holds: a body that had been
\* polled takes its guard with it, a runner never polled had no guard yet.
RuntimeDrops(j) ==
  /\ runtime = "down"
  /\ \/ /\ phase[j] = "body"
        /\ MoveTo(j, "dropped")
        /\ outcome' = [outcome EXCEPT ![j] = "dropped"]
     \/ /\ phase[j] = "spawned"
        /\ MoveTo(j, "lost")
        /\ UNCHANGED outcome
  /\ UNCHANGED <<kind, registered, cancel, finished, ends, throttles, runtime>>

\* Without the throttles' locks, and without a last flush.
GuardMarksFinished(j) ==
  /\ phase[j] = "dropped"
  /\ MoveTo(j, "silenced")
  /\ finished' = [finished EXCEPT ![j] = TRUE]
  /\ UNCHANGED <<kind, registered, cancel, outcome, ends, throttles, runtime>>

GuardDeregisters(j) ==
  /\ phase[j] = "silenced"
  /\ MoveTo(j, "dropEnding")
  /\ registered' = registered \ {j}
  /\ UNCHANGED <<kind, cancel, finished, outcome, ends, throttles, runtime>>

-----------------------------------------------------------------------------
(* Cancelling and shutting down                                            *)

\* Mutant: cancelling takes the entry out of the registry at once.
CancelRemoves(j) ==
  /\ j \in registered \ cancel
  /\ cancel' = cancel \cup {j}
  /\ registered' = registered \ {j}
  /\ UNCHANGED <<phase, kind, finished, outcome, ends, throttles, runtime>>

\* cancel: an id no longer registered is NotFound and changes nothing.
Cancel(j) ==
  /\ j \in registered \ cancel
  /\ cancel' = cancel \cup {j}
  /\ UNCHANGED <<phase, kind, registered, finished, outcome, ends, throttles,
                 runtime>>

\* Core::shutdown: cancel_all, then the runtime is taken down.
CancelAll ==
  /\ runtime = "up"
  /\ runtime' = "cancelling"
  /\ cancel' = cancel \cup registered
  /\ UNCHANGED <<phase, kind, registered, finished, outcome, ends, throttles>>

RuntimeDown ==
  /\ runtime = "cancelling"
  /\ runtime' = "down"
  /\ flush' = [j \in Job |-> [ch \in Channel |->
                 IF flush[j][ch] = "holding" THEN "holding" ELSE "none"]]
  /\ UNCHANGED <<lifecycle, finished, window, pending, inHand, said, emitted>>

-----------------------------------------------------------------------------
\* The steps of j's runner that come without anyone asking for them.
Runner(j) ==
  \/ Announce(j) \/ Poll(j) \/ Deregister(j) \/ MarkFinished(j)
  \/ (\E ch \in Channel : FinalFlush(j, ch)) \/ EmitTerminal(j)
  \/ GuardMarksFinished(j) \/ GuardDeregisters(j) \/ RuntimeDrops(j)

Flusher(j, ch) == FlushChecks(j, ch) \/ FlushEmits(j, ch)

JobStep(j) ==
  \/ \E k \in Kind : StartReporting(j, k)
  \/ Runner(j)
  \/ \E ch \in Channel :
       \/ \E items \in SUBSET ItemsOf(ch) \ {{}} : Report(j, ch, items)
       \/ IntervalPasses(j, ch)
       \/ Flusher(j, ch)
  \/ \E how \in {"completed", "failed", "cancelled"} : Resolve(j, how)
  \/ BodyPanics(j)
  \/ Cancel(j)

Next == (\E j \in Job : JobStep(j)) \/ CancelAll \/ RuntimeDown

\* The runtime polls every ready task, timers fire, and a cancelled select!
\* is polled: nothing is assumed of the body, which may never return.
Fairness ==
  \A j \in Job :
    /\ WF_vars(Runner(j))
    /\ WF_vars(Resolve(j, "cancelled"))
    /\ \A ch \in Channel :
         /\ WF_vars(IntervalPasses(j, ch))
         /\ WF_vars(Flusher(j, ch))

Spec == Init /\ [][Next]_vars
FairSpec == Spec /\ Fairness

-----------------------------------------------------------------------------
(* Properties                                                              *)

\* The guard ended the job, not the runner's own path.
ByGuard(j) == outcome[j] \in {"panicked", "dropped"}

\* The registry never holds two jobs of a kind that runs one at a time
\* (start_reporting's check and insertion under one lock).
OneAtATime ==
  \A j1, j2 \in registered :
    kind[j1] = kind[j2] /\ kind[j1] \in Exclusive => j1 = j2

\* No two bodies of an exclusive kind run at the same time: an entry leaves
\* the registry only when its body has returned, was dropped or unwound, so
\* the registry's promise is also one about the code that runs.
OneBody ==
  \A j1, j2 \in Job :
    /\ phase[j1] = "body" /\ phase[j2] = "body"
    /\ kind[j1] = kind[j2] /\ kind[j1] \in Exclusive
    => j1 = j2

\* However a job ends, and whatever cancels, panics or shuts down at the same
\* moment, listeners get at most one terminal event for it, and by then its
\* slot is free: who reacts to the event by starting the kind again is not
\* handed the dead job's id.
EndsOnceAndFree ==
  \A j \in Job :
    /\ ends[j] <= 1
    /\ ends[j] = 1 => j \notin registered

\* No job leaves its runner's normal path with a report still buffered or in
\* a flush's hand: when its terminal event goes out, listeners have the last
\* progress and the last card of every series ("latest value always flushed",
\* jobs.rs:16).
LatestFlushed ==
  \A j \in Job :
    phase[j] \in {"ending", "ended"} /\ ~ByGuard(j) => emitted[j] = said[j]

\* A listener never sees a report older than one it already has: a due
\* emission leaves nothing stale behind for a scheduled flush.
ReportsInOrder ==
  [][\A j \in Job, i \in Item : emitted'[j][i] >= emitted[j][i]]_vars

\* After the terminal event of a job that ended on the normal path nothing
\* more is reported for it, not even by a flush that had looked at
\* `finished` before it was set.
QuietAfterEnd ==
  [][\A j \in Job : ends[j] = 1 /\ ~ByGuard(j) => emitted'[j] = emitted[j]]_vars

\* A cancelled job ends, whatever its body does, unless the runtime went away
\* before its runner was ever polled.
CancelledEnds ==
  \A j \in Job :
    j \in cancel ~> (ends[j] = 1 \/ (phase[j] = "lost" /\ runtime = "down"))

\* How far the registry and the runner have brought a job, as those outside
\* see it: its slot, and its terminal event.
Standing(j) ==
  CASE phase[j] = "unused" -> "unused"
    [] phase[j] \in {"removed", "progress", "changed", "ending", "dropEnding"}
         -> "let go"
    [] phase[j] = "ended" /\ ~ByGuard(j) -> "complete"
    [] phase[j] = "ended" /\ ByGuard(j) -> "abandoned"
    [] OTHER -> "holding"

Promise == INSTANCE JobPromise
             WITH state <- [j \in Job |-> Standing(j)], heard <- emitted

\* Through all its locks, timers and buffers the registry does what JobPromise
\* says: "one at a time per JobKind::one_at_a_time", "latest value always
\* flushed", nothing stale, and nothing after a complete end (jobs.rs:15-38).
KeepsPromise == Promise!Spec

(* What the code's comments say, and the code does not do.                 *)

\* "No further scheduled flush should emit for a job ending this way either"
\* (jobs.rs:319, in the guard's drop).
QuietAfterGuard ==
  [][\A j \in Job : ends[j] = 1 => emitted'[j] = emitted[j]]_vars

\* "only the latest value, flushed 250 ms after the last emit" (jobs.rs:138-139),
\* "at most four events a second per job" (jobs.rs:16): a scheduled flush does
\* not emit while the window of another emission is still shut.
Spaced ==
  [][\A j \in Job, ch \in Channel :
       flush[j][ch] # "holding" /\ flush'[j][ch] = "holding"
         => window[j][ch] = "open"]_vars

\* "every job's terminal event guaranteed" (jobs.rs:38).
TerminalGuaranteed == \A j \in Job : j \in cancel ~> ends[j] = 1

=============================================================================
