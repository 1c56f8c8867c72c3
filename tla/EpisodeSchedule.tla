---------------------------- MODULE EpisodeSchedule ----------------------------
(* The rows that say when a followed show's episodes air, and the world that  *)
(* changes them: the clock, the airing refresh, the tracker lists, the        *)
(* torrent client's rules, the scan and the launch.  One show.  Read by the   *)
(* alarm of aired.rs and the watches of downloads/watch.rs.                   *)
EXTENDS Integers, FiniteSets, FiniteSetsExt, Functions
CONSTANTS
  Episode,   \* the episodes of the show, by number
  AirTime,   \* when they may air
  MaxClock,  \* bound: the last moment
  None,      \* no date, no alarm, nothing under way
  Budgets    \* bounds: what may happen at most, one of these per behaviour

ASSUME ScheduleAssumption ==
  /\ IsFiniteSet(Episode)
  /\ AirTime \subseteq Nat
  /\ MaxClock \in Nat
  /\ None \notin Int
  /\ Budgets \subseteq
       [runs : SUBSET {"out", "watch"}, changes : Nat, arrivals : Nat,
        naps : Nat, steps : Nat, ends : Nat, faults : Nat]

VARIABLES
  now,      \* the wall clock
  date,     \* anilist_episodes.aired_at
  listed,   \* the show is on a Watching list
  shelf,    \* its row: shown, hidden by the user, or its folder missing
  here,     \* episodes the library holds a file of
  up,       \* the core runs
  slept,    \* for the properties: the clock once went without the runtime
  left      \* what is left of the budget

scheduleVars == <<now, date, listed, shelf, here, up, slept, left>>

Time == 0..MaxClock
ScheduleTypeOK ==
  /\ now \in Time
  /\ date \in [Episode -> AirTime \cup {None}]
  /\ listed \in BOOLEAN
  /\ shelf \in {"shown", "hidden", "missing"}
  /\ here \subseteq Episode
  /\ {up, slept} \subseteq BOOLEAN

ScheduleInit ==
  /\ now = 0
  /\ date \in [Episode -> AirTime \cup {None}]
  /\ listed = TRUE
  /\ shelf = "shown"
  /\ here = {}
  /\ up = TRUE
  /\ slept = FALSE
  /\ left \in Budgets

\* The two readers write nothing the other reads: each may be looked at alone.
Runs(reader) == reader \in left.runs

Spend(what) ==
  /\ left[what] > 0
  /\ left' = [left EXCEPT ![what] = @ - 1]

Ticks ==
  /\ now < MaxClock
  /\ now' = now + 1
  /\ UNCHANGED <<date, listed, shelf, here, up, slept, left>>

\* The machine sleeps: the wall clock goes on, nothing else does.
Sleeps ==
  /\ now < MaxClock
  /\ Spend("naps")
  /\ now' = now + 1
  /\ slept' = TRUE
  /\ UNCHANGED <<date, listed, shelf, here, up>>

\* Somebody sets the clock back.
SetBack ==
  /\ now > 0
  /\ Spend("steps")
  /\ now' = now - 1
  /\ slept' = TRUE
  /\ UNCHANGED <<date, listed, shelf, here, up>>

\* write_episodes: a row moves, or a coming episode the provider dropped goes.
Reschedules(e, at) ==
  /\ up
  /\ at # date[e]
  /\ at = None => now < date[e]
  /\ Spend("changes")
  /\ date' = [date EXCEPT ![e] = at]
  /\ UNCHANGED <<now, listed, shelf, here, up, slept>>

\* A tracker's list is read again, or the user edits it.
ListMoves ==
  /\ up
  /\ Spend("changes")
  /\ listed' = ~listed
  /\ UNCHANGED <<now, date, shelf, here, up, slept>>

\* The user hides the show or takes it back; a scan misses its folder or
\* finds it again.
ShelfMoves(to) ==
  /\ up
  /\ to # shelf
  /\ "shown" \in {to, shelf}
  /\ Spend("changes")
  /\ shelf' = to
  /\ UNCHANGED <<now, date, listed, here, up, slept>>

\* A scan finds the episode's file, which stays.
Arrives(e) ==
  /\ up
  /\ e \notin here
  /\ Spend("arrivals")
  /\ here' = here \cup {e}
  /\ UNCHANGED <<now, date, listed, shelf, up, slept>>

Ends ==
  /\ up
  /\ Spend("ends")
  /\ up' = FALSE
  /\ UNCHANGED <<now, date, listed, shelf, here, slept>>

Starts ==
  /\ ~up
  /\ up' = TRUE
  /\ UNCHANGED <<now, date, listed, shelf, here, slept, left>>

AirsIn(e, from, to) == date[e] # None /\ from < date[e] /\ date[e] <= to
AirsAfter(e, moment) == date[e] # None /\ moment < date[e]
=============================================================================
