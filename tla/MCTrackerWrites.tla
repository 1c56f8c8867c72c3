-------------------------- MODULE MCTrackerWrites --------------------------
(* Instances of TrackerWrites for TLC: a show of two episodes.             *)
EXTENDS TrackerWrites, TLC
CONSTANTS j1, j2

TwoJobs == {j1, j2}
CallsAlike == Permutations(TwoJobs)
BothTrackers == {"anilist", "mal"}
OnlyMal == {"mal"}

Mark(n) == [kind |-> "mark", n |-> n, status |-> None]
SetProgress(n) == [kind |-> "progress", n |-> n, status |-> None]
SetScore == [kind |-> "score", n |-> 0, status |-> None]
SetStatus(s) == [kind |-> "status", n |-> 0, status |-> s]
SetNotes == [kind |-> "notes", n |-> 0, status |-> None]

MarkLast == {Mark(2)}
EveryKind == {Mark(2), SetProgress(0), SetScore, SetStatus("completed"), SetNotes}

Listed(s, n) == [status |-> s, flag |-> FALSE, progress |-> n, repeat |-> 0]
Finished == {Listed("completed", 2)}
\* A list past the published total, and one with MAL's rewatch flag set.
PastOrFlagged == {Listed("completed", 3), [Listed("watching", 1) EXCEPT !.flag = TRUE]}
TakenOff == {Listed(None, 0)}
=============================================================================
