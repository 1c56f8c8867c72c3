------------------------------- MODULE Episodes -------------------------------
(* One schedule, read by the alarm that says an episode is out and by the      *)
(* watches that look for its file.                                             *)
EXTENDS EpisodeOut, EpisodeWatch

vars == <<scheduleVars, outVars, watchVars>>

TypeOK == ScheduleTypeOK /\ OutTypeOK /\ WatchTypeOK

Init == ScheduleInit /\ OutInit /\ WatchInit

\* Hours pass, slower than anything the runtime has to do.
Tick ==
  /\ Runs("out") => OutPrompt
  /\ Runs("watch") => WatchPrompt
  /\ Ticks
  /\ IF Runs("out") THEN OutTicks ELSE UNCHANGED outVars
  /\ UNCHANGED watchVars

Sleep == Sleeps /\ UNCHANGED <<outVars, watchVars>>

ClockSetBack ==
  /\ SetBack
  /\ IF Runs("watch") THEN WatchUntold ELSE UNCHANGED watchVars
  /\ UNCHANGED outVars

Hears == IF Runs("out") THEN OutHears ELSE UNCHANGED outVars

\* A RefreshAiring job that changed something arms the watches, and its end is
\* the alarm's event, which may come at any moment after the change here.
RefreshAiring(e, at) ==
  /\ Reschedules(e, at)
  /\ IF Runs("watch") THEN Refreshed ELSE UNCHANGED watchVars
  /\ Hears

\* A fetch of the whole record, and a read of the watching list that carries
\* the next broadcast, write the same rows and arm no watch.
FetchMetadata(e, at) ==
  /\ Runs("watch")
  /\ Reschedules(e, at)
  /\ WatchUntold
  /\ Hears

MoveList == Runs("out") /\ ListMoves /\ OutHears /\ UNCHANGED watchVars

MoveShelf(to) ==
  /\ ShelfMoves(to)
  /\ IF Runs("watch") THEN WatchUntold ELSE UNCHANGED watchVars
  /\ Hears

EpisodeArrives(e) ==
  /\ Runs("watch")
  /\ Arrives(e)
  /\ UNCHANGED <<outVars, watchVars>>

ReadRules(followed) ==
  /\ Runs("watch")
  /\ up
  /\ Spend("changes")
  /\ Remembers(followed)
  /\ UNCHANGED <<now, date, listed, shelf, here, up, slept, outVars>>

Faults ==
  /\ Spend("faults")
  /\ UNCHANGED <<now, date, listed, shelf, here, up, slept>>
  /\ \/ Runs("out") /\ AnnounceFails /\ UNCHANGED watchVars
     \/ /\ Runs("watch")
        /\ \/ \E a \in Armer : ArmFails(a)
           \/ \E k \in Key : LookFails(k) \/ GiveUpFails(k)
        /\ UNCHANGED outVars

End == Ends /\ OutEnds /\ WatchEnds

Start == Starts /\ OutStarts /\ WatchStarts

OutMoves ==
  /\ Runs("out")
  /\ OutStep
  /\ UNCHANGED <<scheduleVars, watchVars>>

WatchMoves ==
  /\ Runs("watch")
  /\ \/ \E a \in Armer : ArmReads(a) \/ ArmSets(a)
     \/ \E k \in Key :
          \/ Begins(k)
          \/ Looks(k)
          \/ Goes(k)
          \/ GivesUp(k)
          \/ SaysMissed(k)
          \/ EndedReads(k)
          \/ EndedSets(k)
  /\ UNCHANGED <<scheduleVars, outVars>>

Next ==
  \/ Tick
  \/ Sleep
  \/ ClockSetBack
  \/ \E e \in Episode, at \in AirTime \cup {None} : RefreshAiring(e, at) \/ FetchMetadata(e, at)
  \/ MoveList
  \/ \E to \in {"shown", "hidden", "missing"} : MoveShelf(to)
  \/ \E e \in Episode : EpisodeArrives(e)
  \/ \E followed \in BOOLEAN : ReadRules(followed)
  \/ Faults
  \/ End \/ Start
  \/ OutMoves
  \/ WatchMoves

Spec == Init /\ [][Next]_vars

\* Whatever is still to come is waited for by someone: the alarm by a timer,
\* a missing episode by a watch.
AlarmsKept == TypeOK /\ Watchful /\ Watched

\* The runtime runs what it is given, and time passes.
FairSpec ==
  /\ Spec
  /\ WF_vars(Tick)
  /\ WF_vars(OutMoves)
  /\ WF_vars(WatchMoves)
=============================================================================
