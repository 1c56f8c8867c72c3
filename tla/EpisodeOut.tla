------------------------------ MODULE EpisodeOut ------------------------------
(* aired.rs: an episode of a show on the Watching list that airs is said once. *)
(* One alarm waits for the next broadcast; a change of the schedule or the     *)
(* list sets it again; a mark in the store tells what has been said.           *)
EXTENDS EpisodeSchedule
CONSTANTS
  CatchUp,   \* CATCH_UP_SECS
  MarkStep   \* MARK_STEP

ASSUME OutAssumption == CatchUp \in Nat /\ MarkStep \in Nat

VARIABLES
  mark,     \* settings::EPISODES_OUT_AT
  alarm,    \* the broadcast the alarm waits for
  rested,   \* LONGEST_SLEEP has passed since it was set
  queued,   \* Aired::queued
  news,     \* a change whose event has not reached the listener
  waiting,  \* calls of arm that wait for `saying`
  arming,   \* the call that holds it: what is out, what comes next
  lost,     \* for the properties: the last arm could not read the store
  said      \* and: how often each episode was said, by its date

outVars == <<mark, alarm, rested, queued, news, waiting, arming, lost, said>>

Arming == [out : SUBSET (Episode \X AirTime), next : AirTime \cup {None}]

ASSUME ArmingAssumption == None \notin Arming

OutTypeOK ==
  /\ mark \in Time \cup {None}
  /\ alarm \in AirTime \cup {None}
  /\ {rested, queued, news, lost} \subseteq BOOLEAN
  /\ waiting \in 0..3
  /\ arming \in Arming \cup {None}
  /\ said \in [Episode \X AirTime -> Nat]

\* listen: the first arm of a launch.
OutInit ==
  /\ mark = None
  /\ alarm = None
  /\ rested = FALSE
  /\ queued = FALSE
  /\ news = FALSE
  /\ waiting = 1
  /\ arming = None
  /\ lost = FALSE
  /\ said = [k \in Episode \X AirTime |-> 0]

Followed == listed /\ shelf # "hidden"

Larger(a, b) == IF a < b THEN b ELSE a

NextAt ==
  LET coming == {date[e] : e \in {f \in Episode : AirsAfter(f, now)}}
  IN  IF Followed /\ coming # {} THEN Min(coming) ELSE None

Since == IF mark = None THEN now ELSE Larger(mark, now - CatchUp)

\* Mutant: an episode that airs this very second is left for later.
OutSinceBefore ==
  {<<e, date[e]>> : e \in {f \in Episode : Followed /\ AirsIn(f, Since, now - 1)}}

OutSince ==
  {<<e, date[e]>> : e \in {f \in Episode : Followed /\ AirsIn(f, Since, now)}}

-----------------------------------------------------------------------------
\* Bound: how many calls of arm may wait at a time.
Room == waiting < 3

\* The listener: one re-arm waits out SETTLE, whatever comes meanwhile.
OnEvent ==
  /\ up
  /\ news
  /\ news' = FALSE
  /\ queued' = TRUE
  /\ UNCHANGED <<mark, alarm, rested, waiting, arming, lost, said>>

Settled ==
  /\ queued
  /\ Room
  /\ queued' = FALSE
  /\ waiting' = waiting + 1
  /\ UNCHANGED <<mark, alarm, rested, news, arming, lost, said>>

\* The alarm's sleep is over: LONGEST_SLEEP ends it before its moment, a
\* machine that slept after it.
AlarmRings ==
  /\ alarm # None
  /\ rested \/ alarm <= now
  /\ Room
  /\ alarm' = None
  /\ waiting' = waiting + 1
  /\ UNCHANGED <<mark, rested, queued, news, arming, lost, said>>

\* The mark never goes back.
Moved == IF mark = None THEN now ELSE Larger(mark, now)

\* Mutant: a mark that may lag does, whatever was out.
MarkAfterLagging ==
  IF mark = None \/ Moved - mark >= MarkStep THEN Moved ELSE mark

MarkAfter ==
  IF OutSince # {} \/ mark = None \/ Moved - mark >= MarkStep
    THEN Moved
    ELSE mark

\* announce's transaction.
Announces ==
  /\ arming = None
  /\ waiting > 0
  /\ waiting' = waiting - 1
  /\ arming' = [out |-> OutSince, next |-> NextAt]
  /\ mark' = MarkAfter
  /\ lost' = FALSE
  /\ UNCHANGED <<alarm, rested, queued, news, said>>

AnnounceFails ==
  /\ arming = None
  /\ waiting > 0
  /\ waiting' = waiting - 1
  /\ arming' = [out |-> {}, next |-> None]
  /\ lost' = TRUE
  /\ UNCHANGED <<mark, alarm, rested, queued, news, said>>

Says(k) ==
  /\ arming # None
  /\ k \in arming.out
  /\ arming' = [arming EXCEPT !.out = @ \ {k}]
  /\ said' = [said EXCEPT ![k] = @ + 1]
  /\ UNCHANGED <<mark, alarm, rested, queued, news, waiting, lost>>

\* Mutant: an alarm already set is left as it is.
SetsAlarmOnce ==
  /\ arming # None
  /\ arming.out = {}
  /\ alarm' = IF alarm # None THEN alarm ELSE arming.next
  /\ rested' = FALSE
  /\ arming' = None
  /\ UNCHANGED <<mark, queued, news, waiting, lost, said>>

\* arm's end: the alarm before is aborted.
SetsAlarm ==
  /\ arming # None
  /\ arming.out = {}
  /\ alarm' = arming.next
  /\ rested' = FALSE
  /\ arming' = None
  /\ UNCHANGED <<mark, queued, news, waiting, lost, said>>

OutEnds ==
  /\ alarm' = None
  /\ queued' = FALSE
  /\ news' = FALSE
  /\ waiting' = 0
  /\ arming' = None
  /\ UNCHANGED <<mark, rested, lost, said>>

OutStarts ==
  /\ waiting' = 1
  /\ UNCHANGED <<mark, alarm, rested, queued, news, arming, lost, said>>

\* A change lands; its event is still to come.
OutHears ==
  /\ news' = TRUE
  /\ UNCHANGED <<mark, alarm, rested, queued, waiting, arming, lost, said>>

OutStep ==
  \/ OnEvent
  \/ Settled
  \/ AlarmRings
  \/ Announces
  \/ \E k \in Episode \X AirTime : Says(k)
  \/ SetsAlarm

OutTicks ==
  /\ rested' = TRUE
  /\ UNCHANGED <<mark, alarm, queued, news, waiting, arming, lost, said>>

\* What the runtime does before an hour goes by.
OutPrompt ==
  ~news /\ ~queued /\ waiting = 0 /\ arming = None
    /\ (alarm # None => now < alarm)

-----------------------------------------------------------------------------
\* Said once at most, through restarts, clocks set back and re-arms.
SaidOnce == \A k \in Episode \X AirTime : said[k] <= 1

Due(e) == Followed /\ date[e] # None /\ date[e] > Since

\* With nothing under way, an alarm is set for every followed episode that is
\* still to be said, no later than it airs.
Watchful ==
  up /\ ~news /\ ~queued /\ waiting = 0 /\ arming = None /\ ~lost =>
    \A e \in Episode : Due(e) => alarm # None /\ alarm <= date[e]

\* An episode that aired and is followed is said, unless the machine slept
\* until it was too old.
Heard ==
  \A k \in Episode \X AirTime :
    LET e == k[1]
        stands == Runs("out") /\ up /\ ~lost /\ Followed /\ date[e] = k[2]
    IN  (stands /\ AirsIn(e, Since, now)) ~>
          (said[k] > 0 \/ ~stands \/ (slept /\ k[2] <= now - CatchUp))
=============================================================================
