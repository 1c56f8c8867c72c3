---------------------------- MODULE EpisodesProofs ----------------------------
(* Both lines about an episode are said at most once: "is out" by the mark,    *)
(* "has not turned up" by the first insert into follow_misses; and whatever is *)
(* still to come is waited for, by the alarm and by a watch.                   *)
EXTENDS Episodes, FiniteSetTheorems, WellFoundedInduction, TLAPS

\* Every step keeps the schedule's rows what they are.
LEMMA ScheduleStays ==
  ASSUME ScheduleTypeOK, [Next]_vars
  PROVE  ScheduleTypeOK'
<1> USE ScheduleAssumption DEF ScheduleTypeOK, Time
<1>1. CASE Tick
  BY <1>1 DEF Tick, Ticks
<1>2. CASE Sleep
  BY <1>2 DEF Sleep, Sleeps
<1>3. CASE ClockSetBack
  BY <1>3 DEF ClockSetBack, SetBack
<1>4. ASSUME NEW e \in Episode, NEW at \in AirTime \cup {None},
             RefreshAiring(e, at)
      PROVE  ScheduleTypeOK'
  BY <1>4 DEF RefreshAiring, Reschedules
<1>5. CASE MoveList
  BY <1>5 DEF MoveList, ListMoves
<1>13. ASSUME NEW e \in Episode, NEW at \in AirTime \cup {None},
              FetchMetadata(e, at)
       PROVE  ScheduleTypeOK'
  BY <1>13 DEF FetchMetadata, Reschedules
<1>6. ASSUME NEW to \in {"shown", "hidden", "missing"}, MoveShelf(to)
      PROVE  ScheduleTypeOK'
  BY <1>6 DEF MoveShelf, ShelfMoves
<1>7. ASSUME NEW e \in Episode, EpisodeArrives(e)
      PROVE  ScheduleTypeOK'
  BY <1>7 DEF EpisodeArrives, Arrives
<1>8. ASSUME NEW followed \in BOOLEAN, ReadRules(followed)
      PROVE  ScheduleTypeOK'
  BY <1>8 DEF ReadRules
<1>9. CASE Faults
  BY <1>9 DEF Faults
<1>10. CASE End
  BY <1>10 DEF End, Ends
<1>11. CASE Start
  BY <1>11 DEF Start, Starts
<1>12. CASE OutMoves \/ WatchMoves \/ UNCHANGED vars
  BY <1>12 DEF OutMoves, WatchMoves, vars, scheduleVars
<1> QED
  BY <1>1, <1>2, <1>3, <1>4, <1>5, <1>6, <1>7, <1>8, <1>9, <1>10, <1>11, <1>12,
     <1>13
     DEF Next

\* What a step is to the alarm: nothing it reads of the schedule changes, or it
\* hears of the change, or it does not run at all.
LEMMA OutSteps ==
  ASSUME [Next]_vars
  PROVE  \/ /\ UNCHANGED <<date, listed, shelf, up>>
            /\ \/ UNCHANGED outVars
               \/ OutTicks
               \/ Runs("out") /\ (OutStep \/ AnnounceFails)
         \/ UNCHANGED up /\ Runs("out") /\ OutHears
         \/ UNCHANGED up /\ ~Runs("out") /\ UNCHANGED outVars
         \/ ~up' /\ OutEnds
         \/ OutStarts
<1>1. CASE Tick \/ Sleep \/ ClockSetBack
  BY <1>1 DEF Tick, Ticks, Sleep, Sleeps, ClockSetBack, SetBack
<1>2. CASE OutMoves \/ WatchMoves
  BY <1>2 DEF OutMoves, WatchMoves, scheduleVars
<1>3. CASE Faults
  BY <1>3 DEF Faults
<1>4. CASE End \/ Start
  BY <1>4 DEF End, Ends, Start
<1>5. CASE MoveList
  BY <1>5 DEF MoveList, ListMoves
<1>6. CASE \/ \E e \in Episode, at \in AirTime \cup {None} :
                RefreshAiring(e, at) \/ FetchMetadata(e, at)
           \/ \E to \in {"shown", "hidden", "missing"} : MoveShelf(to)
  BY <1>6 DEF RefreshAiring, FetchMetadata, Reschedules, MoveShelf, ShelfMoves,
              Hears
<1>7. CASE \/ \E e \in Episode : EpisodeArrives(e)
           \/ \E followed \in BOOLEAN : ReadRules(followed)
  BY <1>7 DEF EpisodeArrives, Arrives, ReadRules
<1>8. CASE UNCHANGED vars
  BY <1>8 DEF vars, scheduleVars
<1> QED
  BY <1>1, <1>2, <1>3, <1>4, <1>5, <1>6, <1>7, <1>8 DEF Next

\* What a step is to the watches: time and files they may find, a change that
\* calls arm or that nothing tells them of, or a step of their own.
LEMMA WatchSteps ==
  ASSUME [Next]_vars
  PROVE  \/ /\ UNCHANGED watchVars
            /\ UNCHANGED <<date, shelf, up>>
            /\ here \subseteq here'
            /\ now' = now \/ now' = now + 1
         \/ UNCHANGED up /\ UNCHANGED watchVars /\ ~Runs("watch")
         \/ /\ UNCHANGED up /\ Runs("watch")
            /\ \/ WatchUntold
               \/ Refreshed
               \/ \E followed \in BOOLEAN : Remembers(followed)
               \/ \E a \in Armer : ArmFails(a)
         \/ /\ UNCHANGED <<now, date, shelf, here, up>> /\ Runs("watch")
            /\ \/ \E k \in Key : LookFails(k) \/ GiveUpFails(k)
               \/ WatchMoves
         \/ ~up' /\ WatchEnds
         \/ WatchStarts
<1>1. CASE Tick \/ Sleep \/ MoveList \/ OutMoves
  BY <1>1 DEF Tick, Ticks, Sleep, Sleeps, MoveList, ListMoves, OutMoves,
              scheduleVars
<1>2. CASE ClockSetBack
  BY <1>2 DEF ClockSetBack, SetBack
<1>3. CASE Faults
  BY <1>3 DEF Faults
<1>4. CASE End \/ Start
  BY <1>4 DEF End, Ends, Start
<1>5. CASE WatchMoves
  BY <1>5 DEF WatchMoves, scheduleVars
<1>6. CASE \/ \E e \in Episode, at \in AirTime \cup {None} :
                RefreshAiring(e, at) \/ FetchMetadata(e, at)
           \/ \E to \in {"shown", "hidden", "missing"} : MoveShelf(to)
  BY <1>6 DEF RefreshAiring, FetchMetadata, Reschedules, MoveShelf, ShelfMoves
<1>7. CASE \E e \in Episode : EpisodeArrives(e)
  BY <1>7 DEF EpisodeArrives, Arrives
<1>8. CASE \E followed \in BOOLEAN : ReadRules(followed)
  BY <1>8 DEF ReadRules
<1>9. CASE UNCHANGED vars
  BY <1>9 DEF vars, scheduleVars
<1> QED
  BY <1>1, <1>2, <1>3, <1>4, <1>5, <1>6, <1>7, <1>8, <1>9 DEF Next

-----------------------------------------------------------------------------
(* The alarm                                                               *)

\* What the mark vouches for: whatever was said, or is being said, aired by it.
MarkCovers ==
  /\ mark \in Int \cup {None}
  /\ arming # None => arming = [out |-> arming.out, next |-> arming.next]
  /\ said \in [Episode \X AirTime -> Nat]
  /\ \A k \in Episode \X AirTime :
       /\ said[k] <= 1
       /\ said[k] = 1 => mark # None /\ k[2] <= mark
       /\ arming # None /\ k \in arming.out =>
            said[k] = 0 /\ mark # None /\ k[2] <= mark

\* A step that leaves the mark and the lines alone, and starts no arming.
LEMMA NoArming ==
  ASSUME MarkCovers, mark' = mark, said' = said,
         arming' = arming \/ arming' = None
  PROVE  MarkCovers'
BY DEF MarkCovers

\* The transaction: what it found is newer than the mark it read and no newer
\* than the one it leaves.
LEMMA AnnounceCovers ==
  ASSUME MarkCovers, ScheduleTypeOK, Announces
  PROVE  MarkCovers'
<1> USE ScheduleAssumption, OutAssumption
<1>1. /\ now \in Int
      /\ AirTime \subseteq Int
      /\ date \in [Episode -> AirTime \cup {None}]
      /\ mark \in Int \cup {None}
  BY DEF ScheduleTypeOK, Time, MarkCovers
<1>2. /\ mark' = MarkAfter
      /\ arming' = [out |-> OutSince, next |-> NextAt]
      /\ said' = said
  BY DEF Announces
<1>3. Moved \in Int /\ now <= Moved /\ (mark # None => mark <= Moved)
  BY <1>1 DEF Moved, Larger
<1>4. Since \in Int /\ (mark # None => mark <= Since)
  BY <1>1 DEF Since, Larger
<1>5. mark' \in Int /\ (mark # None => mark <= mark')
  BY <1>1, <1>2, <1>3 DEF MarkAfter
<1>6. OutSince # {} => mark' = Moved
  BY <1>2 DEF MarkAfter
<1>7. ASSUME NEW k \in OutSince
      PROVE  k \in Episode \X AirTime /\ Since < k[2] /\ k[2] <= now
  <2>1. PICK e \in Episode : k = <<e, date[e]>> /\ AirsIn(e, Since, now)
    BY DEF OutSince
  <2> QED
    BY <1>1, <2>1 DEF AirsIn
<1>8. ASSUME NEW k \in Episode \X AirTime
      PROVE  /\ said'[k] <= 1
             /\ said'[k] = 1 => mark' # None /\ k[2] <= mark'
             /\ arming' # None /\ k \in arming'.out =>
                  said'[k] = 0 /\ mark' # None /\ k[2] <= mark'
  <2>1. k[2] \in Int /\ said[k] \in Nat /\ said[k] <= 1
    BY <1>1 DEF MarkCovers
  <2>2. said[k] = 1 => mark # None /\ k[2] <= mark
    BY DEF MarkCovers
  <2>3. mark' # None
    BY <1>5
  <2>4. said'[k] <= 1 /\ (said'[k] = 1 => k[2] <= mark')
    BY <1>1, <1>2, <1>5, <2>1, <2>2
  <2>5. ASSUME k \in OutSince PROVE said[k] = 0 /\ k[2] <= mark'
    <3>1. Since < k[2] /\ k[2] <= now /\ mark' = Moved
      BY <1>6, <1>7, <2>5
    <3>2. said[k] # 1
      BY <1>1, <1>4, <2>1, <2>2, <3>1
    <3> QED
      BY <1>1, <1>3, <2>1, <3>1, <3>2
  <2>6. arming'.out = OutSince
    BY <1>2
  <2> QED
    BY <1>2, <2>3, <2>4, <2>5, <2>6
<1>9. arming' = [out |-> arming'.out, next |-> arming'.next]
  BY <1>2
<1> QED
  BY <1>2, <1>5, <1>8, <1>9 DEF MarkCovers

\* A line said is one the arming holds, said for the first time.
LEMMA SaysCovers ==
  ASSUME MarkCovers, NEW k \in Episode \X AirTime, Says(k)
  PROVE  MarkCovers'
<1>1. /\ arming # None
      /\ arming = [out |-> arming.out, next |-> arming.next]
      /\ k \in arming.out
      /\ said[k] = 0 /\ mark # None /\ k[2] <= mark
  BY DEF MarkCovers, Says
<1>2. /\ arming' = [out |-> arming.out \ {k}, next |-> arming.next]
      /\ said' = [said EXCEPT ![k] = 1]
      /\ mark' = mark
  <2>1. arming' = [arming EXCEPT !.out = @ \ {k}]
    BY DEF Says
  <2>2. arming' = [out |-> arming.out \ {k}, next |-> arming.next]
    BY <1>1, <2>1
  <2>3. said' = [said EXCEPT ![k] = said[k] + 1] /\ mark' = mark
    BY DEF Says
  <2> QED
    BY <1>1, <2>2, <2>3
<1>3. ASSUME NEW j \in Episode \X AirTime
      PROVE  /\ said'[j] <= 1
             /\ said'[j] = 1 => mark' # None /\ j[2] <= mark'
             /\ arming' # None /\ j \in arming'.out =>
                  said'[j] = 0 /\ mark' # None /\ j[2] <= mark'
  <2>1. CASE j = k
    BY <1>1, <1>2, <2>1 DEF MarkCovers
  <2>2. CASE j # k
    BY <1>1, <1>2, <2>2 DEF MarkCovers
  <2> QED
    BY <2>1, <2>2
<1>4. said' \in [Episode \X AirTime -> Nat]
  BY <1>2 DEF MarkCovers
<1>5. arming' = [out |-> arming'.out, next |-> arming'.next]
  BY <1>2
<1>6. mark' \in Int \cup {None}
  BY <1>2 DEF MarkCovers
<1> QED
  BY <1>3, <1>4, <1>5, <1>6 DEF MarkCovers

LEMMA CoversStays ==
  ASSUME MarkCovers, ScheduleTypeOK, [Next]_vars
  PROVE  MarkCovers'
<1>1. CASE UNCHANGED outVars
  BY <1>1, NoArming DEF outVars
<1>2. CASE OutTicks \/ OutHears \/ OutStarts \/ OutEnds
  BY <1>2, NoArming DEF OutTicks, OutHears, OutStarts, OutEnds
<1>3. CASE OutStep
  <2>1. CASE OnEvent \/ Settled \/ AlarmRings \/ SetsAlarm
    BY <2>1, NoArming DEF OnEvent, Settled, AlarmRings, SetsAlarm
  <2>2. CASE Announces
    BY <2>2, AnnounceCovers
  <2>3. CASE \E k \in Episode \X AirTime : Says(k)
    BY <2>3, SaysCovers
  <2> QED
    BY <1>3, <2>1, <2>2, <2>3 DEF OutStep
<1>4. CASE AnnounceFails
  BY <1>4 DEF AnnounceFails, MarkCovers
<1> QED
  BY <1>1, <1>2, <1>3, <1>4, OutSteps

\* Through re-arms, failed reads, clocks set back and restarts, "is out" is
\* said at most once of an episode and its date (aired.rs's mark).
THEOREM EpisodesSaidOnce == Spec => []SaidOnce
<1>1. Init => ScheduleTypeOK /\ MarkCovers
  <2> SUFFICES ASSUME Init PROVE ScheduleTypeOK /\ MarkCovers
    OBVIOUS
  <2>1. ScheduleTypeOK
    <3>1. MaxClock \in Nat
      BY ScheduleAssumption
    <3>2. 0 \in Time
      BY <3>1 DEF Time
    <3> QED
      BY <3>2 DEF Init, ScheduleInit, ScheduleTypeOK
  <2>2. MarkCovers
    BY DEF Init, OutInit, MarkCovers
  <2> QED
    BY <2>1, <2>2
<1>2. ScheduleTypeOK /\ MarkCovers /\ [Next]_vars
        => ScheduleTypeOK' /\ MarkCovers'
  BY ScheduleStays, CoversStays
<1>3. ScheduleTypeOK /\ MarkCovers => SaidOnce
  BY DEF MarkCovers, SaidOnce
<1> QED
  BY <1>1, <1>2, <1>3, PTL DEF Spec

-----------------------------------------------------------------------------
(* The watches                                                             *)

\* Who may say that an episode has not turned up: the one watch that was first
\* to write it into follow_misses, and nobody once it was said.
MissCovers ==
  /\ misses \subseteq Episode
  /\ lines \in [Episode -> Nat]
  /\ watch = [k \in Key |-> watch[k]]
  /\ \A e \in Episode : lines[e] <= 1 /\ (lines[e] = 1 => e \in misses)
  /\ \A k \in Key :
       Watching(k, "says") => k[1] \in misses /\ lines[k[1]] = 0
  /\ \A j, k \in Key :
       Watching(j, "says") /\ Watching(k, "says") /\ j[1] = k[1] => j = k

\* A step that says nothing and lets no further watch say it.
LEMMA NobodySays ==
  ASSUME MissCovers, misses' = misses, lines' = lines,
         watch' = [k \in Key |-> watch'[k]],
         \A k \in Key : Watching(k, "says")' => Watching(k, "says")
  PROVE  MissCovers'
BY DEF MissCovers

\* A watch that turns to something else than the line.
LEMMA TurnsQuiet ==
  ASSUME MissCovers, misses' = misses, lines' = lines, NEW k \in Key, NEW to,
         Turns(k, to), to = None \/ to.at # "says"
  PROVE  MissCovers'
<1>1. watch' = [watch EXCEPT ![k] = to] /\ watch = [j \in Key |-> watch[j]]
  BY DEF Turns, MissCovers
<1>2. watch' = [j \in Key |-> IF j = k THEN to ELSE watch[j]]
  BY <1>1
<1>3. \A j \in Key : Watching(j, "says")' => Watching(j, "says")
  BY <1>2 DEF Watching
<1> QED
  BY <1>2, <1>3, NobodySays

\* New watches look before they say anything.
LEMMA ArmedQuiet ==
  ASSUME NEW keys, NEW k \in Key, Armed(keys)[k] # None,
         Armed(keys)[k].at = "says"
  PROVE  Watching(k, "says")
BY DEF Armed, Watching

LEMMA GivesUpCovers ==
  ASSUME MissCovers, NEW k \in Key, GivesUp(k)
  PROVE  MissCovers'
<1>1. /\ watch = [j \in Key |-> watch[j]]
      /\ misses' = misses \cup {k[1]} /\ lines' = lines /\ k[1] \in Episode
      /\ Watching(k, "gives")
  BY DEF GivesUp, MissCovers, Key
<1>2. watch' = [watch EXCEPT ![k] =
                  At(IF k[1] \in misses THEN "ended" ELSE "says")]
  BY DEF GivesUp, Turns
<1>3. watch' = [j \in Key |-> IF j = k
                  THEN At(IF k[1] \in misses THEN "ended" ELSE "says")
                  ELSE watch[j]]
  BY <1>1, <1>2
<1>4. ASSUME NEW j \in Key, Watching(j, "says")'
      PROVE  \/ j # k /\ Watching(j, "says")
             \/ j = k /\ k[1] \notin misses
  BY <1>3, <1>4 DEF Watching, At
<1>5. /\ misses' \subseteq Episode
      /\ lines' \in [Episode -> Nat]
      /\ watch' = [j \in Key |-> watch'[j]]
      /\ \A e \in Episode : lines'[e] <= 1 /\ (lines'[e] = 1 => e \in misses')
  BY <1>1, <1>3 DEF MissCovers
<1>6. ASSUME NEW j \in Key, Watching(j, "says")'
      PROVE  j[1] \in misses' /\ lines'[j[1]] = 0
  <2>1. CASE j # k /\ Watching(j, "says")
    BY <1>1, <2>1 DEF MissCovers
  <2>2. CASE j = k /\ k[1] \notin misses
    BY <1>1, <2>2 DEF MissCovers
  <2> QED
    BY <1>4, <1>6, <2>1, <2>2
<1>7. ASSUME NEW i \in Key, NEW j \in Key,
             Watching(i, "says")', Watching(j, "says")', i[1] = j[1]
      PROVE  i = j
  <2>1. CASE Watching(i, "says") /\ Watching(j, "says")
    BY <1>7, <2>1 DEF MissCovers
  <2>2. ASSUME NEW a \in Key, a[1] = k[1], Watching(a, "says")
        PROVE  k[1] \in misses
    BY <2>2 DEF MissCovers
  <2> QED
    BY <1>4, <1>7, <2>1, <2>2
<1> QED
  BY <1>5, <1>6, <1>7 DEF MissCovers

LEMMA SaysMissedCovers ==
  ASSUME MissCovers, NEW k \in Key, SaysMissed(k)
  PROVE  MissCovers'
<1>1. /\ watch = [j \in Key |-> watch[j]]
      /\ misses' = misses /\ k[1] \in Episode /\ k[1] \in misses
      /\ Watching(k, "says") /\ lines[k[1]] = 0
  BY DEF SaysMissed, MissCovers, Key
<1>2. /\ watch' = [watch EXCEPT ![k] = At("ended")]
      /\ lines' = [lines EXCEPT ![k[1]] = lines[k[1]] + 1]
  BY DEF SaysMissed, Turns
<1>3. watch' = [j \in Key |-> IF j = k THEN At("ended") ELSE watch[j]]
  BY <1>1, <1>2
<1>4. lines' = [lines EXCEPT ![k[1]] = 1] /\ lines \in [Episode -> Nat]
  BY <1>1, <1>2 DEF MissCovers
<1>5. ASSUME NEW j \in Key, Watching(j, "says")'
      PROVE  j # k /\ Watching(j, "says") /\ j[1] # k[1]
  <2>1. j # k /\ Watching(j, "says")
    BY <1>3, <1>5 DEF Watching, At
  <2> QED
    BY <1>1, <2>1 DEF MissCovers
<1>6. /\ misses' \subseteq Episode
      /\ lines' \in [Episode -> Nat]
      /\ watch' = [j \in Key |-> watch'[j]]
      /\ \A e \in Episode : lines'[e] <= 1 /\ (lines'[e] = 1 => e \in misses')
  BY <1>1, <1>3, <1>4 DEF MissCovers
<1>7. \A j \in Key :
        Watching(j, "says")' => j[1] \in misses' /\ lines'[j[1]] = 0
  BY <1>1, <1>4, <1>5 DEF MissCovers, Key
<1>8. \A i, j \in Key :
        Watching(i, "says")' /\ Watching(j, "says")' /\ i[1] = j[1] => i = j
  BY <1>5 DEF MissCovers
<1> QED
  BY <1>6, <1>7, <1>8 DEF MissCovers

\* What a step of a watch, or of arm, does to who may say the line.
LEMMA WatchStepCovers ==
  ASSUME MissCovers, WatchMoves
  PROVE  MissCovers'
<1>1. ASSUME NEW a \in Armer, ArmReads(a) PROVE MissCovers'
  BY <1>1 DEF ArmReads, MissCovers, Watching
<1>2. ASSUME NEW a \in Armer, ArmSets(a) PROVE MissCovers'
  <2>1. watch' = Armed(armer[a].due) /\ misses' = misses /\ lines' = lines
    BY <1>2 DEF ArmSets
  <2>2. watch' = [k \in Key |-> watch'[k]]
    BY <2>1 DEF Armed
  <2>3. \A k \in Key : Watching(k, "says")' => Watching(k, "says")
    BY <2>1, ArmedQuiet DEF Watching
  <2> QED
    BY <2>1, <2>2, <2>3, NobodySays
<1>3. ASSUME NEW k \in Key, Begins(k) PROVE MissCovers'
  BY <1>3, TurnsQuiet DEF Begins, Naps
<1>4. ASSUME NEW k \in Key, Looks(k) PROVE MissCovers'
  <2>1. PICK to : Turns(k, to) /\ (to = At("ended") \/ to = At("gone")
                                     \/ to = At("gives") \/ to = Onward(k))
    BY <1>4 DEF Looks, Standing
  <2>2. to.at # "says"
    BY <2>1 DEF At, Onward, Naps
  <2> QED
    BY <1>4, <2>1, <2>2, TurnsQuiet DEF Looks
<1>5. ASSUME NEW k \in Key, Goes(k) PROVE MissCovers'
  BY <1>5, TurnsQuiet DEF Goes
<1>6. ASSUME NEW k \in Key, EndedReads(k) PROVE MissCovers'
  BY <1>6, TurnsQuiet DEF EndedReads
<1>7. ASSUME NEW k \in Key, EndedSets(k) PROVE MissCovers'
  <2>1. /\ watch' = [Armed(watch[k].due) EXCEPT ![k] = None]
        /\ misses' = misses /\ lines' = lines
    BY <1>7 DEF EndedSets
  <2>2. watch' = [j \in Key |-> IF j = k THEN None
                                ELSE Armed(watch[k].due)[j]]
    BY <2>1 DEF Armed
  <2>3. \A j \in Key : Watching(j, "says")' => Watching(j, "says")
    BY <2>2, ArmedQuiet DEF Watching
  <2> QED
    BY <2>1, <2>2, <2>3, NobodySays
<1> QED
  BY <1>1, <1>2, <1>3, <1>4, <1>5, <1>6, <1>7, GivesUpCovers, SaysMissedCovers
     DEF WatchMoves

LEMMA MissesStay ==
  ASSUME MissCovers, [Next]_vars
  PROVE  MissCovers'
<1>1. CASE UNCHANGED <<misses, lines, watch>>
  BY <1>1 DEF MissCovers, Watching
<1>2. CASE WatchEnds
  <2>1. watch' = [k \in Key |-> None] /\ misses' = misses /\ lines' = lines
    BY <1>2 DEF WatchEnds
  <2>2. \A k \in Key : ~Watching(k, "says")'
    BY <2>1 DEF Watching
  <2> QED
    BY <2>1, <2>2, NobodySays
<1>3. CASE WatchMoves
  BY <1>3, WatchStepCovers
<1>4. ASSUME NEW k \in Key, LookFails(k) PROVE MissCovers'
  <2>1. Onward(k).at # "says"
    BY DEF Onward, At, Naps
  <2> QED
    BY <1>4, <2>1, TurnsQuiet DEF LookFails
<1>5. ASSUME NEW k \in Key, GiveUpFails(k) PROVE MissCovers'
  BY <1>5, TurnsQuiet DEF GiveUpFails, At
<1>6. CASE \/ WatchUntold \/ Refreshed
           \/ \E followed \in BOOLEAN : Remembers(followed)
           \/ \E a \in Armer : ArmFails(a)
           \/ WatchStarts \/ UNCHANGED watchVars
  BY <1>1, <1>6 DEF WatchUntold, Refreshed, Remembers, ArmFails, WatchStarts,
                    watchVars
<1> QED
  BY <1>2, <1>3, <1>4, <1>5, <1>6, WatchSteps

\* However arms and watches cross, fail, end and start again, "has not turned
\* up" is said at most once ever of an episode (give_up in watch.rs).
THEOREM EpisodesMissSaidOnce == Spec => []MissSaidOnce
<1>1. Init => MissCovers
  <2> SUFFICES ASSUME Init PROVE MissCovers
    OBVIOUS
  <2>1. /\ misses = {}
        /\ lines = [e \in Episode |-> 0]
        /\ watch = [k \in Key |-> None]
    BY DEF Init, WatchInit
  <2> QED
    BY <2>1 DEF MissCovers, Watching
<1>2. MissCovers /\ [Next]_vars => MissCovers'
  BY MissesStay
<1>3. MissCovers => MissSaidOnce
  BY DEF MissCovers, MissSaidOnce
<1> QED
  BY <1>1, <1>2, <1>3, PTL DEF Spec

\* Moments and steps are numbers: of some there is a first.
LEMMA HasLeast ==
  ASSUME NEW S \in SUBSET Nat, S # {}
  PROVE  \E m \in S : \A x \in S : m <= x
<1>1. PICK m \in S : \A x \in S : <<x, m>> \notin OpToRel(<, Nat)
  <2>1. IsWellFoundedOn(OpToRel(<, Nat), Nat)
    BY NatLessThanWellFounded
  <2> QED
    BY <2>1, WFMin
<1>2. ASSUME NEW x \in S
      PROVE  m <= x
  <2>1. <<x, m>> \notin OpToRel(<, Nat)
    BY <1>1
  <2>2. ~(x < m)
    BY <2>1 DEF OpToRel
  <2> QED
    BY <2>2
<1> QED
  BY <1>2

LEMMA MinIsLeast ==
  ASSUME NEW S \in SUBSET Nat, S # {}
  PROVE  Min(S) \in S /\ \A x \in S : Min(S) <= x
BY HasLeast DEF Min

\* Of some steps there is a last: the least bound of them is one of them.
LEMMA MaxIsMember ==
  ASSUME NEW n \in Nat, NEW S \in SUBSET (1..n), S # {}
  PROVE  Max(S) \in S
<1> DEFINE Bounds == {m \in Nat : \A x \in S : x <= m}
<1>1. n \in Bounds
  OBVIOUS
<1>2. PICK m \in Bounds : \A b \in Bounds : m <= b
  <2>1. Bounds \in SUBSET Nat /\ Bounds # {}
    BY <1>1
  <2> HIDE DEF Bounds
  <2> QED
    BY <2>1, HasLeast
<1>3. m \in Nat /\ \A x \in S : x \in Nat /\ 1 <= x /\ x <= m
  BY <1>2
<1>4. m \in S
  <2> SUFFICES ASSUME m \notin S PROVE FALSE
    OBVIOUS
  <2>1. PICK y \in S : TRUE
    OBVIOUS
  <2>2. m - 1 \in Nat /\ \A x \in S : x <= m - 1
    BY <1>3, <2>1
  <2>3. m - 1 \in Bounds
    BY <2>2
  <2>4. m <= m - 1
    BY <1>2, <2>3
  <2> QED
    BY <1>3, <2>4
<1>5. \E x \in S : \A y \in S : x >= y
  BY <1>3, <1>4
<1> QED
  BY <1>5 DEF Max

-----------------------------------------------------------------------------
(* What every step leaves alone                                            *)

BudgetOK ==
  left \in [runs : SUBSET {"out", "watch"}, changes : Nat, arrivals : Nat,
            naps : Nat, steps : Nat, ends : Nat, faults : Nat]

\* What may happen is spent, who runs stays.
LEMMA SpendKeeps ==
  ASSUME BudgetOK,
         NEW what \in
           {"changes", "arrivals", "naps", "steps", "ends", "faults"},
         Spend(what)
  PROVE  BudgetOK' /\ left'.runs = left.runs
<1>1. left[what] \in Nat /\ left[what] > 0
  BY DEF BudgetOK, Spend
<1>2. left[what] - 1 \in Nat
  BY <1>1
<1>3. left' = [left EXCEPT ![what] = left[what] - 1]
  BY DEF Spend
<1>4. /\ what = "changes" \/ what = "arrivals" \/ what = "naps"
         \/ what = "steps" \/ what = "ends" \/ what = "faults"
  OBVIOUS
<1> QED
  BY <1>2, <1>3, <1>4 DEF BudgetOK

LEMMA RunsStay ==
  ASSUME BudgetOK, [Next]_vars
  PROVE  BudgetOK' /\ left'.runs = left.runs
<1>1. CASE left' = left
  BY <1>1 DEF BudgetOK
<1>2. ASSUME NEW what \in
               {"changes", "arrivals", "naps", "steps", "ends", "faults"},
             Spend(what)
      PROVE  BudgetOK' /\ left'.runs = left.runs
  BY <1>2, SpendKeeps
<1>3. \/ left' = left
      \/ \E what \in
           {"changes", "arrivals", "naps", "steps", "ends", "faults"} :
             Spend(what)
  <2>1. CASE \/ Tick \/ Sleep \/ ClockSetBack \/ MoveList
    BY <2>1 DEF Tick, Ticks, Sleep, Sleeps, ClockSetBack, SetBack, MoveList,
                ListMoves
  <2>2. CASE \/ Faults \/ End \/ Start \/ OutMoves \/ WatchMoves
    BY <2>2 DEF Faults, End, Ends, Start, Starts, OutMoves, WatchMoves,
                scheduleVars
  <2>3. CASE \/ \E e \in Episode, at \in AirTime \cup {None} :
                  RefreshAiring(e, at) \/ FetchMetadata(e, at)
             \/ \E to \in {"shown", "hidden", "missing"} : MoveShelf(to)
             \/ \E e \in Episode : EpisodeArrives(e)
             \/ \E followed \in BOOLEAN : ReadRules(followed)
    BY <2>3 DEF RefreshAiring, FetchMetadata, Reschedules, MoveShelf,
                ShelfMoves, EpisodeArrives, Arrives, ReadRules
  <2>4. CASE UNCHANGED vars
    BY <2>4 DEF vars, scheduleVars
  <2> QED
    BY <2>1, <2>2, <2>3, <2>4 DEF Next
<1> QED
  BY <1>1, <1>2, <1>3

-----------------------------------------------------------------------------
(* What comes next, and what is out                                        *)

Coming == {date[e] : e \in {f \in Episode : AirsAfter(f, now)}}

\* The next broadcast is the first of those to come, of a followed show.
LEMMA NextAtIs ==
  ASSUME ScheduleTypeOK
  PROVE  /\ NextAt \in AirTime \cup {None}
         /\ NextAt # None => NextAt \in Nat
         /\ \A e \in Episode :
              Followed /\ AirsAfter(e, now) =>
                NextAt # None /\ NextAt <= date[e]
<1>1. Coming \subseteq AirTime /\ AirTime \subseteq Nat /\ None \notin Nat
  BY ScheduleAssumption DEF ScheduleTypeOK, Coming, AirsAfter
<1>2. NextAt = IF Followed /\ Coming # {} THEN Min(Coming) ELSE None
  BY DEF NextAt, Coming
<1>3. Coming # {} =>
        Min(Coming) \in Coming /\ \A x \in Coming : Min(Coming) <= x
  BY <1>1, MinIsLeast
<1>4. \A e \in Episode : AirsAfter(e, now) => date[e] \in Coming
  BY DEF Coming
<1> QED
  BY <1>1, <1>2, <1>3, <1>4

LEMMA OutSinceIs ==
  ASSUME ScheduleTypeOK
  PROVE  OutSince \in SUBSET (Episode \X AirTime)
BY DEF ScheduleTypeOK, OutSince, AirsIn

\* The mark goes to the present at least, and never back.
LEMMA MarkGoesOn ==
  ASSUME ScheduleTypeOK, OutTypeOK
  PROVE  /\ Moved \in Time /\ now <= Moved
         /\ mark # None => mark \in Int /\ mark <= Moved
         /\ MarkAfter \in Time
         /\ mark # None => mark <= MarkAfter
<1>1. MaxClock \in Nat /\ now \in 0..MaxClock /\ None \notin Int
      /\ mark \in 0..MaxClock \cup {None}
  BY ScheduleAssumption DEF ScheduleTypeOK, OutTypeOK, Time
<1> QED
  BY <1>1 DEF Moved, Larger, MarkAfter, Time

LEMMA AnnounceTypes ==
  ASSUME ScheduleTypeOK, OutTypeOK, Announces
  PROVE  /\ mark' \in Time
         /\ arming' \in Arming
         /\ waiting' \in 0..3
<1>1. MarkAfter \in Time
  BY MarkGoesOn
<1>2. OutSince \in SUBSET (Episode \X AirTime) /\ NextAt \in AirTime \cup {None}
  BY OutSinceIs, NextAtIs
<1>3. waiting \in 0..3 /\ waiting > 0
  BY DEF OutTypeOK, Announces
<1> QED
  BY <1>1, <1>2, <1>3 DEF Announces, Arming

LEMMA OutTypesStay ==
  ASSUME ScheduleTypeOK, MarkCovers, OutTypeOK, [Next]_vars
  PROVE  OutTypeOK'
<1>0. said' \in [Episode \X AirTime -> Nat]
  <2>1. MarkCovers'
    BY CoversStays
  <2> QED
    BY <2>1 DEF MarkCovers
<1>1. CASE UNCHANGED outVars
  BY <1>1 DEF outVars, OutTypeOK
<1>2. CASE OutTicks \/ OutHears
  <2>1. /\ rested' \in BOOLEAN /\ queued' \in BOOLEAN
        /\ news' \in BOOLEAN /\ lost' \in BOOLEAN
    BY <1>2 DEF OutTicks, OutHears, OutTypeOK
  <2>2. UNCHANGED <<mark, alarm, waiting, arming>>
    BY <1>2 DEF OutTicks, OutHears
  <2> QED
    BY <1>0, <2>1, <2>2 DEF OutTypeOK
<1>3. CASE OutStarts \/ OutEnds
  <2>1. /\ rested' \in BOOLEAN /\ queued' \in BOOLEAN
        /\ news' \in BOOLEAN /\ lost' \in BOOLEAN
    BY <1>3 DEF OutStarts, OutEnds, OutTypeOK
  <2>2. /\ mark' = mark /\ waiting' \in 0..3
        /\ alarm' = alarm \/ alarm' = None
        /\ arming' = arming \/ arming' = None
    BY <1>3 DEF OutStarts, OutEnds
  <2> QED
    BY <1>0, <2>1, <2>2 DEF OutTypeOK
<1>4. CASE OnEvent \/ Settled \/ AlarmRings
  <2>1. /\ rested' \in BOOLEAN /\ queued' \in BOOLEAN
        /\ news' \in BOOLEAN /\ lost' \in BOOLEAN
    BY <1>4 DEF OnEvent, Settled, AlarmRings, OutTypeOK
  <2>2. /\ mark' = mark /\ arming' = arming /\ waiting' \in 0..3
        /\ alarm' = alarm \/ alarm' = None
    BY <1>4 DEF OnEvent, Settled, AlarmRings, OutTypeOK, Room
  <2> QED
    BY <1>0, <2>1, <2>2 DEF OutTypeOK
<1>5. CASE Announces
  BY <1>0, <1>5, AnnounceTypes DEF Announces, OutTypeOK
<1>6. ASSUME NEW k \in Episode \X AirTime, Says(k) PROVE OutTypeOK'
  <2>1. arming \in Arming
    BY <1>6 DEF OutTypeOK, Says
  <2>2. arming' = [arming EXCEPT !.out = @ \ {k}]
    BY <1>6 DEF Says
  <2>3. arming' \in Arming
    BY <2>1, <2>2 DEF Arming
  <2> QED
    BY <1>0, <1>6, <2>3 DEF Says, OutTypeOK
<1>7. CASE SetsAlarm
  BY <1>0, <1>7 DEF SetsAlarm, OutTypeOK, Arming
<1>8. CASE AnnounceFails
  BY <1>0, <1>8 DEF AnnounceFails, OutTypeOK, Arming
<1> QED
  BY <1>1, <1>2, <1>3, <1>4, <1>5, <1>6, <1>7, <1>8, OutSteps DEF OutStep

-----------------------------------------------------------------------------
(* The alarm covers what is to come                                        *)

\* Of a followed show, every date past the mark is waited for by then.
CoveredBy(moment) ==
  \A e \in Episode :
    Followed /\ date[e] # None /\ mark < date[e] =>
      moment # None /\ moment <= date[e]

\* Nothing is on its way that would arm again.
Settles == ~news /\ ~queued /\ waiting = 0 /\ ~lost

AlarmCovers ==
  /\ up /\ ~Runs("out") => waiting = 1
  /\ up /\ Settles =>
       mark # None /\ CoveredBy(IF arming = None THEN alarm ELSE arming.next)

\* What is past the mark and not found out by announce is still to air: a mark
\* that lags does so by less than MARK_STEP, and so is what the catch-up leaves
\* out older than it.
LEMMA AnnounceCoversComing ==
  ASSUME ScheduleTypeOK, OutTypeOK, MarkStep <= CatchUp, Announces,
         UNCHANGED <<date, listed, shelf>>
  PROVE  mark' # None /\ CoveredBy(arming.next)'
<1> USE OutAssumption
<1>1. /\ MaxClock \in Nat /\ now \in 0..MaxClock /\ None \notin Int
      /\ mark \in 0..MaxClock \cup {None}
      /\ AirTime \subseteq Nat /\ date \in [Episode -> AirTime \cup {None}]
      /\ CatchUp \in Nat /\ MarkStep \in Nat
  BY ScheduleAssumption DEF ScheduleTypeOK, OutTypeOK, Time
<1>2. /\ mark' = MarkAfter /\ arming'.next = NextAt
      /\ MarkAfter \in Int /\ Moved \in Int /\ now <= Moved
  BY <1>1, MarkGoesOn DEF Announces, Time
<1>3. mark' # None
  BY <1>1, <1>2
<1>4. ASSUME NEW e \in Episode, Followed, date[e] # None, MarkAfter < date[e]
      PROVE  AirsAfter(e, now)
  <2>0. date[e] \in Nat
    BY <1>1, <1>4
  <2>1. date[e] \in Int /\ now \in Int /\ MarkAfter \in Int
    BY <1>1, <1>2, <2>0
  <2> SUFFICES ASSUME date[e] <= now PROVE FALSE
    BY <1>4, <2>1 DEF AirsAfter
  <2>2. MarkAfter # Moved
    BY <1>2, <1>4, <2>1
  <2>3. /\ OutSince = {} /\ mark # None
        /\ MarkAfter = mark /\ Moved - mark < MarkStep
    BY <1>1, <1>2, <2>2 DEF MarkAfter
  <2>4. Since = Larger(mark, now - CatchUp)
    BY <2>3 DEF Since
  <2>5. now - CatchUp < mark
    BY <1>1, <1>2, <2>3
  <2>6. Since = mark
    BY <1>1, <2>3, <2>4, <2>5 DEF Larger
  <2>7. <<e, date[e]>> \in OutSince
    BY <1>4, <2>3, <2>6 DEF OutSince, AirsIn
  <2> QED
    BY <2>3, <2>7
<1>5. ASSUME NEW e \in Episode, Followed, date[e] # None, MarkAfter < date[e]
      PROVE  NextAt # None /\ NextAt <= date[e]
  BY <1>4, <1>5, NextAtIs
<1>6. ASSUME NEW e \in Episode, Followed', date'[e] # None, mark' < date'[e]
      PROVE  arming'.next # None /\ arming'.next <= date'[e]
  <2>1. date' = date /\ Followed
    BY <1>6 DEF Followed
  <2> QED
    BY <1>2, <1>5, <1>6, <2>1
<1> QED
  BY <1>3, <1>6 DEF CoveredBy

\* What the runtime is about to wait for.
Awaited == IF arming = None THEN alarm ELSE arming.next

\* A step that changes nothing the alarm reads, and arms nothing.
LEMMA CoverKept ==
  ASSUME AlarmCovers, BudgetOK, [Next]_vars,
         UNCHANGED <<date, listed, shelf, up, mark>>,
         ~Runs("out") => UNCHANGED waiting,
         Settles' => Settles /\ Awaited' = Awaited
  PROVE  AlarmCovers'
<1>1. left'.runs = left.runs
  BY RunsStay
<1>2. up' /\ ~Runs("out")' => waiting' = 1
  BY <1>1 DEF AlarmCovers, Runs
<1>3. ASSUME up', Settles'
      PROVE  mark' # None /\ CoveredBy(Awaited)'
  <2>1. mark # None /\ CoveredBy(Awaited)
    BY <1>3 DEF AlarmCovers, Awaited
  <2>2. Awaited' = Awaited
    BY <1>3
  <2> HIDE DEF Awaited
  <2> QED
    BY <2>1, <2>2 DEF CoveredBy, Followed
<1> QED
  BY <1>2, <1>3 DEF AlarmCovers, Awaited

LEMMA OutStepCovers ==
  ASSUME AlarmCovers, BudgetOK, ScheduleTypeOK, OutTypeOK,
         MarkStep <= CatchUp, [Next]_vars,
         UNCHANGED <<date, listed, shelf, up>>, Runs("out"), OutStep
  PROVE  AlarmCovers'
<1>1. left'.runs = left.runs
  BY RunsStay
<1>2. Runs("out")'
  BY <1>1 DEF Runs
<1>3. CASE OnEvent
  BY <1>3, CoverKept DEF OnEvent, Settles
<1>4. CASE Settled \/ AlarmRings
  <2>1. waiting' # 0 /\ mark' = mark
    BY <1>4 DEF Settled, AlarmRings, OutTypeOK
  <2> QED
    BY <2>1, CoverKept DEF Settles
<1>5. CASE Announces
  <2>1. mark' # None /\ CoveredBy(arming.next)'
    BY <1>5, AnnounceCoversComing
  <2>2. arming' # None
    BY <1>5, AnnounceTypes, ArmingAssumption
  <2> QED
    BY <1>2, <2>1, <2>2 DEF AlarmCovers
<1>6. ASSUME NEW k \in Episode \X AirTime, Says(k) PROVE AlarmCovers'
  <2>1. arming \in Arming
    BY <1>6 DEF OutTypeOK, Says
  <2>2. arming' = [arming EXCEPT !.out = @ \ {k}]
    BY <1>6 DEF Says
  <2>3. arming' # None /\ arming # None /\ arming'.next = arming.next
    BY <2>1, <2>2, ArmingAssumption DEF Arming
  <2>4. Awaited' = Awaited
    BY <2>3 DEF Awaited
  <2> QED
    BY <1>6, <2>4, CoverKept DEF Says, Settles
<1>7. CASE SetsAlarm
  <2>1. Awaited' = Awaited
    BY <1>7 DEF SetsAlarm, Awaited
  <2> QED
    BY <1>7, <2>1, CoverKept DEF SetsAlarm, Settles
<1> QED
  BY <1>3, <1>4, <1>5, <1>6, <1>7 DEF OutStep

LEMMA AlarmCoversStays ==
  ASSUME AlarmCovers, BudgetOK, ScheduleTypeOK, OutTypeOK,
         MarkStep <= CatchUp, [Next]_vars
  PROVE  AlarmCovers'
<1>1. left'.runs = left.runs
  BY RunsStay
<1>2. CASE /\ UNCHANGED <<date, listed, shelf, up>>
           /\ UNCHANGED outVars \/ OutTicks
  BY <1>2, CoverKept DEF outVars, OutTicks, Settles, Awaited
<1>3. CASE UNCHANGED <<date, listed, shelf, up>> /\ Runs("out") /\ OutStep
  BY <1>3, OutStepCovers
<1>4. CASE UNCHANGED <<date, listed, shelf, up>> /\ Runs("out") /\ AnnounceFails
  BY <1>1, <1>4 DEF AnnounceFails, AlarmCovers, Settles, Runs
<1>5. CASE UNCHANGED up /\ Runs("out") /\ OutHears
  BY <1>1, <1>5 DEF OutHears, AlarmCovers, Settles, Runs
<1>6. CASE UNCHANGED up /\ ~Runs("out") /\ UNCHANGED outVars
  BY <1>1, <1>6 DEF outVars, AlarmCovers, Settles, Runs
<1>7. CASE ~up' /\ OutEnds
  BY <1>7 DEF AlarmCovers
<1>8. CASE OutStarts
  BY <1>8 DEF OutStarts, AlarmCovers, Settles
<1> QED
  BY <1>2, <1>3, <1>4, <1>5, <1>6, <1>7, <1>8, OutSteps

LEMMA CoversWatch ==
  ASSUME AlarmCovers, ScheduleTypeOK, OutTypeOK
  PROVE  Watchful
<1> SUFFICES ASSUME up, ~news, ~queued, waiting = 0, arming = None, ~lost,
                    NEW e \in Episode, Due(e)
             PROVE  alarm # None /\ alarm <= date[e]
  BY DEF Watchful
<1>1. mark # None /\ CoveredBy(alarm)
  BY DEF AlarmCovers, Settles
<1>2. /\ MaxClock \in Nat /\ now \in 0..MaxClock /\ None \notin Int
      /\ mark \in 0..MaxClock \cup {None}
      /\ AirTime \subseteq Nat /\ date[e] \in AirTime \cup {None}
      /\ CatchUp \in Nat
  BY ScheduleAssumption, OutAssumption DEF ScheduleTypeOK, OutTypeOK, Time
<1>3. date[e] \in Nat
  BY <1>2 DEF Due
<1>4. mark < date[e]
  BY <1>1, <1>2, <1>3 DEF Due, Since, Larger
<1> QED
  BY <1>1, <1>4 DEF CoveredBy, Due

-----------------------------------------------------------------------------
(* What a watch may be at                                                  *)

LEMMA StepsAre == GiveUp \in Nat /\ 1 \in Step /\ Step = 1..GiveUp
<1>1. GiveUp \in Nat /\ Step = 1..GiveUp /\ Step # {}
  BY WatchAssumption, FS_CardinalityType DEF GiveUp
<1>2. PICK i \in 1..GiveUp : TRUE
  BY <1>1
<1>3. 1 \in 1..GiveUp
  BY <1>1, <1>2
<1> QED
  BY <1>1, <1>3

LEMMA DueKeysAre ==
  ASSUME ScheduleTypeOK
  PROVE  DueKeys \in SUBSET Key
BY DEF ScheduleTypeOK, DueKeys, NextToAir, AiredMissing, AirsAfter, AirsIn, Key

LEMMA FirstStepIs ==
  ASSUME NEW k \in Key
  PROVE  FirstStep(k) \in Step
<1>1. CASE Past(k) = {}
  BY <1>1, StepsAre DEF FirstStep
<1>2. CASE Past(k) # {}
  <2>1. Past(k) \in SUBSET (1..GiveUp) /\ GiveUp \in Nat
    BY StepsAre DEF Past
  <2>2. Max(Past(k)) \in Past(k)
    BY <1>2, <2>1, MaxIsMember
  <2> QED
    BY <1>2, <2>2 DEF FirstStep, Past
<1> QED
  BY <1>1, <1>2

LEMMA StagesAre ==
  /\ [at |-> "new"] \in Stage
  /\ \A step \in Step : Naps(step) \in Stage
  /\ \A at \in {"gone", "gives", "says", "ended"} : At(at) \in Stage
  /\ \A due \in SUBSET Key : [at |-> "arms", due |-> due] \in Stage
BY DEF Stage, Naps, At

\* What a watch at a place holds there.
LEMMA StageHolds ==
  ASSUME NEW s \in Stage
  PROVE  /\ s.at \in {"new", "naps", "gone", "gives", "says", "ended", "arms"}
         /\ s.at = "naps" => s.step \in Step
         /\ s.at = "arms" => s.due \in SUBSET Key
BY DEF Stage

Arm == {Reads, Rests} \cup [at : {"sets"}, due : SUBSET Key]

LEMMA ArmsAre ==
  /\ Reads \in Arm /\ Rests \in Arm /\ Reads # Rests
  /\ \A due \in SUBSET Key : [at |-> "sets", due |-> due] \in Arm
  /\ \A a \in Arm : a.at = "sets" => a.due \in SUBSET Key
  /\ Reads.at = "reads" /\ Rests.at = "rests"
BY DEF Arm, Reads, Rests

\* The watches and the callers, apart from what is said.
PlacesOK ==
  /\ follows \in BOOLEAN
  /\ excused \in BOOLEAN
  /\ watch \in [Key -> Stage \cup {None}]
  /\ armer \in [Armer -> Arm]

LEMMA OnwardIs ==
  ASSUME PlacesOK, NEW k \in Key, Watching(k, "naps")
  PROVE  /\ Onward(k) \in Stage
         /\ Onward(k).at \in {"ended", "naps"}
<1>1. watch[k] \in Stage /\ watch[k].at = "naps"
  BY DEF PlacesOK, Watching
<1>2. watch[k].step \in 1..GiveUp /\ GiveUp \in Nat
  BY <1>1, StageHolds, StepsAre
<1>3. watch[k].step # GiveUp => watch[k].step + 1 \in Step
  BY <1>2, StepsAre
<1> QED
  BY <1>3, StagesAre DEF Onward, At, Naps

\* What the look of a watch leads to.
LEMMA LooksTo ==
  ASSUME PlacesOK, NEW k \in Key, Looks(k)
  PROVE  \E to \in Stage :
           /\ Turns(k, to)
           /\ \/ to.at \in {"ended", "gives"}
              \/ to.at = "gone" /\ Standing(k) = "stale"
              \/ to.at = "naps" /\ Standing(k) = "missing"
<1>1. PICK to :
        /\ Turns(k, to)
        /\ \/ to = At("ended") \/ to = At("gives")
           \/ to = At("gone") /\ Standing(k) = "stale"
           \/ to = Onward(k) /\ Standing(k) = "missing"
  BY DEF Looks, Standing
<1>2. Watching(k, "naps")
  BY DEF Looks
<1>3. Onward(k) \in Stage /\ Onward(k).at \in {"ended", "naps"}
  BY <1>2, OnwardIs
<1>4. to \in Stage
  BY <1>1, <1>3, StagesAre
<1>5. \/ to.at \in {"ended", "gives"}
      \/ to.at = "gone" /\ Standing(k) = "stale"
      \/ to.at = "naps" /\ Standing(k) = "missing"
  BY <1>1, <1>3 DEF At
<1> QED
  BY <1>1, <1>4, <1>5

LEMMA TurnsPlaces ==
  ASSUME PlacesOK, NEW k \in Key, NEW to \in Stage \cup {None}, Turns(k, to),
         UNCHANGED <<follows, armer, excused>>
  PROVE  PlacesOK'
BY DEF PlacesOK, Turns

LEMMA ArmedIs ==
  ASSUME PlacesOK, NEW keys
  PROVE  Armed(keys) \in [Key -> Stage \cup {None}]
BY StagesAre DEF PlacesOK, Armed

LEMMA CallsPlaces ==
  ASSUME PlacesOK, NEW a \in Armer, NEW what \in Arm, Calls(a, what),
         follows' \in BOOLEAN, excused' \in BOOLEAN,
         watch' \in [Key -> Stage \cup {None}]
  PROVE  PlacesOK'
BY DEF PlacesOK, Calls

LEMMA WatchMovesPlaces ==
  ASSUME PlacesOK, ScheduleTypeOK, WatchMoves
  PROVE  PlacesOK'
<1>0. DueKeys \in SUBSET Key
  BY DueKeysAre
<1>1. ASSUME NEW a \in Armer, ArmReads(a) PROVE PlacesOK'
  <2>1. [at |-> "sets", due |-> DueKeys] \in Arm
    BY <1>0, ArmsAre
  <2>2. excused' \in BOOLEAN /\ follows' \in BOOLEAN
        /\ watch' \in [Key -> Stage \cup {None}]
    BY <1>1 DEF ArmReads, PlacesOK
  <2> QED
    BY <1>1, <2>1, <2>2, CallsPlaces DEF ArmReads
<1>2. ASSUME NEW a \in Armer, ArmSets(a) PROVE PlacesOK'
  <2>1. excused' \in BOOLEAN /\ follows' \in BOOLEAN
    BY <1>2 DEF ArmSets, PlacesOK
  <2>2. watch' \in [Key -> Stage \cup {None}]
    BY <1>2, ArmedIs DEF ArmSets
  <2> QED
    BY <1>2, <2>1, <2>2, ArmsAre, CallsPlaces DEF ArmSets
<1>3. ASSUME NEW k \in Key, Begins(k) PROVE PlacesOK'
  <2>1. Naps(FirstStep(k)) \in Stage
    BY FirstStepIs, StagesAre
  <2> QED
    BY <1>3, <2>1, TurnsPlaces DEF Begins
<1>4. ASSUME NEW k \in Key, Looks(k) PROVE PlacesOK'
  <2>1. PICK to \in Stage : Turns(k, to)
    BY <1>4, LooksTo
  <2> QED
    BY <1>4, <2>1, TurnsPlaces DEF Looks
<1>5. ASSUME NEW k \in Key, Goes(k) PROVE PlacesOK'
  BY <1>5, TurnsPlaces DEF Goes
<1>6. ASSUME NEW k \in Key, GivesUp(k) PROVE PlacesOK'
  <2>1. At("ended") \in Stage /\ At("says") \in Stage
    BY StagesAre
  <2>2. At(IF k[1] \in misses THEN "ended" ELSE "says") \in Stage
    BY <2>1
  <2> QED
    BY <1>6, <2>2, TurnsPlaces DEF GivesUp
<1>7. ASSUME NEW k \in Key, SaysMissed(k) PROVE PlacesOK'
  BY <1>7, StagesAre, TurnsPlaces DEF SaysMissed
<1>8. ASSUME NEW k \in Key, EndedReads(k) PROVE PlacesOK'
  <2>1. [at |-> "arms", due |-> DueKeys] \in Stage
    BY <1>0, StagesAre
  <2> QED
    BY <1>8, <2>1, TurnsPlaces DEF EndedReads
<1>9. ASSUME NEW k \in Key, EndedSets(k) PROVE PlacesOK'
  <2>1. Armed(watch[k].due) \in [Key -> Stage \cup {None}]
    BY ArmedIs
  <2>2. watch' = [Armed(watch[k].due) EXCEPT ![k] = None]
        /\ excused' \in BOOLEAN /\ UNCHANGED <<follows, armer>>
    BY <1>9 DEF EndedSets, PlacesOK
  <2>3. watch' \in [Key -> Stage \cup {None}]
    BY <2>1, <2>2
  <2> QED
    BY <2>2, <2>3 DEF PlacesOK
<1> QED
  BY <1>1, <1>2, <1>3, <1>4, <1>5, <1>6, <1>7, <1>8, <1>9 DEF WatchMoves

LEMMA PlacesStay ==
  ASSUME PlacesOK, ScheduleTypeOK, [Next]_vars
  PROVE  PlacesOK'
<1>1. CASE UNCHANGED watchVars
  BY <1>1 DEF watchVars, PlacesOK
<1>2. CASE WatchUntold
  BY <1>2 DEF WatchUntold, PlacesOK
<1>3. CASE Refreshed
  <2>1. "refresh" \in Armer /\ Calls("refresh", Reads)
        /\ UNCHANGED <<follows, watch, excused>>
    BY <1>3 DEF Refreshed, Armer
  <2> QED
    BY <2>1, ArmsAre, CallsPlaces DEF PlacesOK
<1>4. ASSUME NEW followed \in BOOLEAN, Remembers(followed) PROVE PlacesOK'
  <2>1. "rules" \in Armer /\ Calls("rules", Reads) /\ follows' = followed
        /\ UNCHANGED <<watch, excused>>
    BY <1>4 DEF Remembers, Armer
  <2> QED
    BY <2>1, ArmsAre, CallsPlaces DEF PlacesOK
<1>5. ASSUME NEW a \in Armer, ArmFails(a) PROVE PlacesOK'
  BY <1>5, ArmsAre, CallsPlaces DEF ArmFails, PlacesOK
<1>6. ASSUME NEW k \in Key, LookFails(k) PROVE PlacesOK'
  <2>1. Onward(k) \in Stage
    BY <1>6, OnwardIs DEF LookFails
  <2> QED
    BY <1>6, <2>1, TurnsPlaces DEF LookFails
<1>7. ASSUME NEW k \in Key, GiveUpFails(k) PROVE PlacesOK'
  BY <1>7, StagesAre, TurnsPlaces DEF GiveUpFails
<1>8. CASE WatchMoves
  BY <1>8, WatchMovesPlaces
<1>9. CASE WatchEnds
  BY <1>9, ArmsAre DEF WatchEnds, PlacesOK
<1>10. CASE WatchStarts
  <2>1. "launch" \in Armer /\ Calls("launch", Reads)
        /\ UNCHANGED <<follows, watch, excused>>
    BY <1>10 DEF WatchStarts, Armer
  <2> QED
    BY <2>1, ArmsAre, CallsPlaces DEF PlacesOK
<1> QED
  BY <1>1, <1>2, <1>3, <1>4, <1>5, <1>6, <1>7, <1>8, <1>9, <1>10, WatchSteps

-----------------------------------------------------------------------------
(* Someone looks for what is due                                           *)

\* An episode a look does not find stale, as long as the show is wanted.
Looked(k) == k[1] \in here \/ date[k[1]] = k[2]

Useful(keys) == \E k \in keys : Looked(k)

\* A watch that arms the next one when it ends, or has read what it will arm.
Leads(k) ==
  /\ watch[k] # None
  /\ \/ watch[k].at \in {"new", "naps"} /\ Looked(k)
     \/ watch[k].at \in {"gives", "says", "ended"}
     \/ watch[k].at = "arms" /\ Useful(watch[k].due)

Attended ==
  \/ \E a \in Armer : armer[a] = Reads
  \/ \E a \in Armer : armer[a].at = "sets" /\ Useful(armer[a].due)
  \/ \E k \in Key : Leads(k)

WatchLeads ==
  /\ up /\ ~Runs("watch") => armer["launch"] = Reads
  /\ up /\ ~excused /\ DueKeys # {} => Attended

LEMMA DueAreUseful ==
  ASSUME DueKeys # {}
  PROVE  Useful(DueKeys) /\ Wanted
BY DEF DueKeys, Useful, Looked

\* As time passes and files arrive nothing falls due that nothing led up to:
\* there is a next one until the last has aired.
LEMMA DueLasts ==
  ASSUME ScheduleTypeOK, UNCHANGED <<date, shelf, follows>>,
         here \subseteq here', misses \subseteq misses',
         now' = now \/ now' = now + 1, DueKeys' # {}
  PROVE  DueKeys # {}
<1>1. /\ now \in Int /\ AirTime \subseteq Nat
      /\ \A e \in Episode : date[e] # None => date[e] \in Nat
  <2>1. now \in Int /\ AirTime \subseteq Nat
    BY ScheduleAssumption DEF ScheduleTypeOK, Time
  <2>2. date \in [Episode -> AirTime \cup {None}]
    BY DEF ScheduleTypeOK
  <2> QED
    BY <2>1, <2>2
<1>2. ASSUME NEW f \in Episode, AirsAfter(f, now)
      PROVE  NextToAir # {}
  <2> DEFINE coming == {e \in Episode : AirsAfter(e, now)}
             dates == {date[e] : e \in coming}
  <2>1. dates \in SUBSET Nat /\ dates # {}
    BY <1>1, <1>2 DEF AirsAfter
  <2>2. PICK m \in dates : \A x \in dates : m <= x
    <3> HIDE DEF dates
    <3> QED
      BY <2>1, HasLeast
  <2>3. PICK e \in coming : m = date[e]
    BY <2>2
  <2>4. \A g \in coming : date[e] <= date[g]
    BY <2>2, <2>3
  <2> QED
    BY <2>3, <2>4 DEF NextToAir
<1>3. Wanted' = Wanted /\ Wanted'
  BY DEF Wanted, DueKeys
<1>4. PICK e \in Episode :
        AirsAfter(e, now)' \/ (AirsIn(e, now - Window - 1, now)'
                                 /\ e \notin here' \cup misses')
  BY DEF DueKeys, NextToAir, AiredMissing
<1>5. NextToAir \cup AiredMissing # {}
  <2>1. CASE AirsAfter(e, now)'
    <3>1. AirsAfter(e, now)
      BY <1>1, <2>1 DEF AirsAfter
    <3> QED
      BY <1>2, <3>1
  <2>2. CASE AirsIn(e, now - Window - 1, now)' /\ e \notin here' \cup misses'
    <3>1. /\ date[e] # None /\ date[e] \in Nat
          /\ now' - Window - 1 < date[e] /\ date[e] <= now'
      BY <1>1, <2>2 DEF AirsIn
    <3>2. CASE now < date[e]
      <4>1. AirsAfter(e, now)
        BY <3>1, <3>2 DEF AirsAfter
      <4> QED
        BY <1>2, <4>1
    <3>3. CASE date[e] <= now
      <4>1. AirsIn(e, now - Window - 1, now)
        BY <1>1, <3>1, <3>3, WatchAssumption DEF AirsIn
      <4> QED
        BY <2>2, <4>1 DEF AiredMissing
    <3> QED
      BY <1>1, <3>1, <3>2, <3>3
  <2> QED
    BY <1>4, <2>1, <2>2
<1> QED
  BY <1>3, <1>5 DEF DueKeys

\* What led somewhere still does, as files arrive.
LEMMA AttendedStays ==
  ASSUME Attended, UNCHANGED <<date, watch, armer>>, here \subseteq here'
  PROVE  Attended'
<1>1. ASSUME NEW keys PROVE Useful(keys) => Useful(keys)'
  BY DEF Useful, Looked
<1>2. ASSUME NEW k \in Key, Leads(k) PROVE Leads(k)'
  BY <1>1, <1>2 DEF Leads, Looked
<1> QED
  BY <1>1, <1>2 DEF Attended

\* A watch that turns to what leads on, if it led anywhere.
LEMMA TurnsAttended ==
  ASSUME Attended, PlacesOK, NEW k \in Key, NEW to, Turns(k, to),
         UNCHANGED <<date, here, armer>>,
         Leads(k) => Leads(k)'
  PROVE  Attended'
<1>1. watch' = [watch EXCEPT ![k] = to] /\ watch \in [Key -> Stage \cup {None}]
  BY DEF Turns, PlacesOK
<1>2. ASSUME NEW j \in Key, j # k, Leads(j) PROVE Leads(j)'
  <2>1. watch'[j] = watch[j]
    BY <1>1, <1>2
  <2> QED
    BY <1>2, <2>1 DEF Leads, Useful, Looked
<1>3. ASSUME NEW a \in Armer, armer[a].at = "sets", Useful(armer[a].due)
      PROVE  armer'[a].at = "sets" /\ Useful(armer[a].due)'
  BY <1>3 DEF Useful, Looked
<1> QED
  BY <1>2, <1>3 DEF Attended

\* Of keys that arm does not pass over, one worth a look is watched.
LEMMA ArmedLeads ==
  ASSUME PlacesOK, NEW keys \in SUBSET Key, Useful(keys), ~PassesOver(keys)
  PROVE  \E j \in Key :
           /\ Looked(j)
           /\ Armed(keys)[j] # None
           /\ Armed(keys)[j].at \in {"new", "naps", "gives", "says"}
           /\ watch[j] # None => watch[j].at # "arms"
<1>1. PICK j \in keys : Looked(j)
  BY DEF Useful
<1>2. Armed(keys)[j] =
        IF watch[j] = None THEN [at |-> "new"] ELSE watch[j]
  BY DEF Armed
<1>3. CASE watch[j] = None
  <2>1. Armed(keys)[j] = [at |-> "new"] /\ [at |-> "new"] # None
    BY <1>2, <1>3, StagesAre, StageAssumption
  <2> QED
    BY <1>1, <1>3, <2>1
<1>4. CASE watch[j] # None
  <2>1. watch[j] \in Stage
    BY <1>4 DEF PlacesOK
  <2>2. watch[j].at \notin {"gone", "ended", "arms"}
    BY <1>4 DEF PassesOver
  <2> QED
    BY <1>1, <1>2, <1>4, <2>1, <2>2, StageHolds
<1> QED
  BY <1>3, <1>4

\* arm leaves the watches there are.
LEMMA ArmedKeeps ==
  ASSUME NEW keys, NEW j \in Key, watch[j] # None
  PROVE  Armed(keys)[j] = watch[j]
BY DEF Armed

\* The steps of arm.
LEMMA ArmAttended ==
  ASSUME PlacesOK, ScheduleTypeOK, NEW a \in Armer,
         UNCHANGED <<now, date, shelf, here>>,
         ~excused /\ DueKeys # {} => Attended,
         ArmReads(a) \/ ArmSets(a), ~excused', DueKeys' # {}
  PROVE  Attended'
<1>1. CASE ArmReads(a)
  <2>1. /\ armer' = [armer EXCEPT ![a] = [at |-> "sets", due |-> DueKeys]]
        /\ DueKeys' = DueKeys
    BY <1>1 DEF ArmReads, Calls, DueKeys, NextToAir, AiredMissing, AirsAfter,
                AirsIn, Wanted
  <2>2. armer'[a].at = "sets" /\ armer'[a].due = DueKeys
    BY <2>1 DEF PlacesOK
  <2>3. Useful(DueKeys)
    BY <2>1, DueAreUseful
  <2>4. Useful(armer[a].due)'
    BY <2>2, <2>3 DEF Useful, Looked
  <2> QED
    BY <2>2, <2>4 DEF Attended
<1>2. CASE ArmSets(a)
  <2>1. /\ armer' = [armer EXCEPT ![a] = Rests] /\ armer[a].at = "sets"
        /\ watch' = Armed(armer[a].due)
        /\ excused' = (excused \/ PassesOver(armer[a].due))
        /\ UNCHANGED <<follows, misses>>
    BY <1>2 DEF ArmSets, Calls
  <2>2. armer[a] \in Arm /\ armer[a].due \in SUBSET Key
    BY <2>1, ArmsAre DEF PlacesOK
  <2>3. DueKeys' = DueKeys
    BY <2>1 DEF DueKeys, NextToAir, AiredMissing, AirsAfter, AirsIn, Wanted
  <2>4. Attended /\ ~PassesOver(armer[a].due)
    BY <2>1, <2>3
  <2>5. ASSUME NEW b \in Armer, b # a PROVE armer'[b] = armer[b]
    BY <2>1, <2>5 DEF PlacesOK
  <2>6. ASSUME NEW b \in Armer, armer[b] = Reads PROVE Attended'
    <3>1. b # a
      BY <2>1, <2>6, ArmsAre
    <3> QED
      BY <2>5, <2>6, <3>1 DEF Attended
  <2>7. ASSUME NEW b \in Armer, armer[b].at = "sets", Useful(armer[b].due)
        PROVE  Attended'
    <3>1. CASE b # a
      <4>1. armer'[b] = armer[b]
        BY <2>5, <3>1
      <4>2. Useful(armer[b].due)'
        BY <2>7, <4>1 DEF Useful, Looked
      <4> QED
        BY <2>7, <4>1, <4>2 DEF Attended
    <3>2. CASE b = a
      <4>1. PICK j \in Key :
              /\ Looked(j)
              /\ Armed(armer[a].due)[j] # None
              /\ Armed(armer[a].due)[j].at \in {"new", "naps", "gives", "says"}
        BY <2>2, <2>4, <2>7, <3>2, ArmedLeads
      <4>2. Leads(j)'
        BY <2>1, <4>1 DEF Leads, Looked
      <4> QED
        BY <4>2 DEF Attended
    <3> QED
      BY <3>1, <3>2
  <2>8. ASSUME NEW k \in Key, Leads(k) PROVE Attended'
    <3>1. watch'[k] = watch[k]
      BY <2>1, <2>8, ArmedKeeps DEF Leads
    <3>2. Leads(k)'
      BY <2>8, <3>1 DEF Leads, Useful, Looked
    <3> QED
      BY <3>2 DEF Attended
  <2> QED
    BY <2>4, <2>6, <2>7, <2>8 DEF Attended
<1> QED
  BY <1>1, <1>2

\* A watch's look that turns to a place.
LEMMA PlaceLeads ==
  ASSUME PlacesOK, NEW k \in Key, NEW to \in Stage, Turns(k, to),
         UNCHANGED <<date, here>>,
         \/ to.at \in {"gives", "says", "ended"}
         \/ to.at \in {"new", "naps"} /\ Looked(k)
         \/ to.at = "arms" /\ Useful(to.due)
  PROVE  Leads(k)'
<1>1. watch'[k] = to
  BY DEF Turns, PlacesOK
<1>2. to # None
  BY StageAssumption
<1> QED
  BY <1>1, <1>2 DEF Leads, Looked, Useful

LEMMA LookAttended ==
  ASSUME Attended, Wanted, PlacesOK, NEW k \in Key, Looks(k),
         UNCHANGED <<date, here>>
  PROVE  Attended'
<1>1. PICK to \in Stage :
        /\ Turns(k, to)
        /\ \/ to.at \in {"ended", "gives"}
           \/ to.at = "gone" /\ Standing(k) = "stale"
           \/ to.at = "naps" /\ Standing(k) = "missing"
  BY LooksTo
<1>2. armer' = armer /\ Watching(k, "naps")
  BY DEF Looks
<1>3. Standing(k) = "missing" => Looked(k)
  BY DEF Standing, Looked
<1>4. Standing(k) = "stale" => ~Leads(k)
  BY <1>2 DEF Standing, Looked, Leads, Watching
<1>5. Leads(k) => Leads(k)'
  BY <1>1, <1>3, <1>4, PlaceLeads
<1> QED
  BY <1>1, <1>2, <1>5, TurnsAttended

\* The last step of a watch that ended: what it read is armed but for itself.
LEMMA EndedSetsAttended ==
  ASSUME Attended, PlacesOK, NEW k \in Key, EndedSets(k), ~excused',
         UNCHANGED <<date, here>>
  PROVE  Attended'
<1>1. /\ watch' = [Armed(watch[k].due) EXCEPT ![k] = None]
      /\ excused' = (excused \/ PassesOver(watch[k].due))
      /\ armer' = armer /\ Watching(k, "arms")
  BY DEF EndedSets
<1>2. watch[k] \in Stage /\ watch[k].due \in SUBSET Key
  BY <1>1, StageHolds DEF Watching, PlacesOK
<1>3. ASSUME NEW j \in Key, j # k PROVE watch'[j] = Armed(watch[k].due)[j]
  BY <1>1, <1>3 DEF Armed
<1>4. ASSUME NEW a \in Armer, armer[a].at = "sets", Useful(armer[a].due)
      PROVE  armer'[a].at = "sets" /\ Useful(armer[a].due)'
  BY <1>1, <1>4 DEF Useful, Looked
<1>5. ASSUME NEW j \in Key, Leads(j) PROVE Attended'
  <2>1. CASE j # k
    <3>1. watch'[j] = watch[j]
      BY <1>3, <1>5, <2>1, ArmedKeeps DEF Leads
    <3>2. Leads(j)'
      BY <1>5, <3>1 DEF Leads, Useful, Looked
    <3> QED
      BY <3>2 DEF Attended
  <2>2. CASE j = k
    <3>1. Useful(watch[k].due) /\ ~PassesOver(watch[k].due)
      BY <1>1, <1>5, <2>2 DEF Leads, Watching
    <3>2. PICK i \in Key :
            /\ Looked(i)
            /\ Armed(watch[k].due)[i] # None
            /\ Armed(watch[k].due)[i].at \in {"new", "naps", "gives", "says"}
            /\ watch[i] # None => watch[i].at # "arms"
      BY <1>2, <3>1, ArmedLeads
    <3>3. i # k
      BY <1>1, <3>2 DEF Watching
    <3>4. Leads(i)'
      BY <1>3, <3>2, <3>3 DEF Leads, Looked
    <3> QED
      BY <3>4 DEF Attended
  <2> QED
    BY <2>1, <2>2
<1> QED
  BY <1>1, <1>4, <1>5 DEF Attended

\* The steps of a watch.
LEMMA WatchAttended ==
  ASSUME Attended, Wanted, DueKeys # {}, PlacesOK, ScheduleTypeOK,
         UNCHANGED <<date, here>>, ~excused', NEW k \in Key,
         \/ Begins(k) \/ Looks(k) \/ LookFails(k) \/ Goes(k) \/ GivesUp(k)
         \/ GiveUpFails(k) \/ SaysMissed(k) \/ EndedReads(k) \/ EndedSets(k)
  PROVE  Attended'
<1>1. CASE Begins(k)
  <2> DEFINE to == Naps(FirstStep(k))
  <2>1. to \in Stage /\ to.at = "naps"
    BY FirstStepIs, StagesAre DEF Naps
  <2>2. Turns(k, to) /\ armer' = armer /\ Watching(k, "new")
    BY <1>1 DEF Begins
  <2>3. Leads(k) => Looked(k)
    BY <2>2 DEF Leads, Watching
  <2> HIDE DEF to
  <2> QED
    BY <2>1, <2>2, <2>3, PlaceLeads, TurnsAttended
<1>2. CASE Looks(k)
  BY <1>2, LookAttended
<1>3. CASE LookFails(k)
  <2> DEFINE to == Onward(k)
  <2>1. Turns(k, to) /\ armer' = armer /\ Watching(k, "naps")
    BY <1>3 DEF LookFails
  <2>2. to \in Stage /\ to.at \in {"ended", "naps"}
    BY <2>1, OnwardIs
  <2>3. Leads(k) => Looked(k)
    BY <2>1 DEF Leads, Watching
  <2> HIDE DEF to
  <2> QED
    BY <2>1, <2>2, <2>3, PlaceLeads, TurnsAttended
<1>4. CASE Goes(k)
  <2>1. ~Leads(k)
    BY <1>4 DEF Goes, Leads, Watching
  <2> QED
    BY <1>4, <2>1, TurnsAttended DEF Goes
<1>5. CASE GivesUp(k)
  <2> DEFINE to == At(IF k[1] \in misses THEN "ended" ELSE "says")
  <2>1. Turns(k, to) /\ armer' = armer
    BY <1>5 DEF GivesUp
  <2>2. to \in Stage /\ to.at \in {"ended", "says"}
    BY StagesAre DEF At
  <2> HIDE DEF to
  <2> QED
    BY <2>1, <2>2, PlaceLeads, TurnsAttended
<1>6. CASE GiveUpFails(k) \/ SaysMissed(k)
  <2>1. Turns(k, At("ended")) /\ armer' = armer
    BY <1>6 DEF GiveUpFails, SaysMissed
  <2>2. At("ended") \in Stage /\ At("ended").at = "ended"
    BY StagesAre DEF At
  <2> QED
    BY <2>1, <2>2, PlaceLeads, TurnsAttended
<1>7. CASE EndedReads(k)
  <2> DEFINE to == [at |-> "arms", due |-> DueKeys]
  <2>1. Turns(k, to) /\ armer' = armer
    BY <1>7 DEF EndedReads
  <2>2. to \in Stage /\ to.at = "arms" /\ Useful(to.due)
    BY DueKeysAre, DueAreUseful, StagesAre
  <2> HIDE DEF to
  <2> QED
    BY <2>1, <2>2, PlaceLeads, TurnsAttended
<1>8. CASE EndedSets(k)
  BY <1>8, EndedSetsAttended
<1> QED
  BY <1>1, <1>2, <1>3, <1>4, <1>5, <1>6, <1>7, <1>8

LEMMA WatchLeadsStays ==
  ASSUME WatchLeads, BudgetOK, ScheduleTypeOK, PlacesOK, [Next]_vars
  PROVE  WatchLeads'
<1>1. Runs("watch")' = Runs("watch")
  BY RunsStay DEF Runs
<1>2. CASE /\ UNCHANGED watchVars
           /\ UNCHANGED <<date, shelf, up>>
           /\ here \subseteq here'
           /\ now' = now \/ now' = now + 1
  <2>1. UNCHANGED <<follows, misses, watch, armer, excused>>
    BY <1>2 DEF watchVars
  <2>2. ASSUME up', ~excused', DueKeys' # {} PROVE Attended'
    <3>1. DueKeys # {}
      BY <1>2, <2>1, <2>2, DueLasts
    <3>2. Attended
      BY <1>2, <2>1, <2>2, <3>1 DEF WatchLeads
    <3> QED
      BY <1>2, <2>1, <3>2, AttendedStays
  <2> QED
    BY <1>1, <1>2, <2>1, <2>2 DEF WatchLeads
<1>3. CASE UNCHANGED up /\ UNCHANGED watchVars /\ ~Runs("watch")
  <2>1. up' => armer'["launch"] = Reads
    BY <1>3 DEF WatchLeads, watchVars
  <2> QED
    BY <2>1 DEF WatchLeads, Attended, Armer
<1>4. CASE Runs("watch") /\ (WatchUntold \/ \E a \in Armer : ArmFails(a))
  BY <1>1, <1>4 DEF WatchLeads, WatchUntold, ArmFails
<1>5. CASE Runs("watch") /\ (Refreshed \/ \E f \in BOOLEAN : Remembers(f))
  <2>1. \E a \in Armer : armer'[a] = Reads
    BY <1>5 DEF Refreshed, Remembers, Calls, PlacesOK, Armer
  <2> QED
    BY <1>1, <1>5, <2>1 DEF WatchLeads, Attended
<1>6. CASE /\ UNCHANGED <<now, date, shelf, here, up>> /\ Runs("watch")
           /\ (\E k \in Key : LookFails(k) \/ GiveUpFails(k)) \/ WatchMoves
  <2>1. ASSUME up', ~excused', DueKeys' # {} PROVE Attended'
    <3>1. CASE \E a \in Armer : ArmReads(a) \/ ArmSets(a)
      BY <1>6, <2>1, <3>1, ArmAttended DEF WatchLeads
    <3>2. ASSUME NEW k \in Key,
                 \/ Begins(k) \/ Looks(k) \/ LookFails(k) \/ Goes(k)
                 \/ GivesUp(k) \/ GiveUpFails(k) \/ SaysMissed(k)
                 \/ EndedReads(k) \/ EndedSets(k)
          PROVE  Attended'
      <4>1. /\ UNCHANGED follows
            /\ misses \subseteq misses'
            /\ excused => excused'
        <5>1. CASE EndedSets(k)
          BY <5>1, Zenon DEF EndedSets
        <5>2. CASE \/ Begins(k) \/ Looks(k) \/ LookFails(k) \/ Goes(k)
                   \/ GivesUp(k) \/ GiveUpFails(k) \/ SaysMissed(k)
                   \/ EndedReads(k)
          BY <5>2 DEF Begins, Looks, LookFails, Goes, GivesUp, GiveUpFails,
                      SaysMissed, EndedReads
        <5> QED
          BY <3>2, <5>1, <5>2
      <4>2. DueKeys # {}
        BY <1>6, <2>1, <4>1, DueLasts
      <4>3. Wanted /\ Attended
        BY <1>6, <2>1, <4>1, <4>2, DueAreUseful DEF WatchLeads
      <4> QED
        BY <1>6, <2>1, <3>2, <4>2, <4>3, WatchAttended
    <3> QED
      BY <1>6, <3>1, <3>2 DEF WatchMoves
  <2> QED
    BY <1>1, <1>6, <2>1 DEF WatchLeads
<1>7. CASE ~up' /\ WatchEnds
  BY <1>7 DEF WatchLeads
<1>8. CASE WatchStarts
  <2>1. "launch" \in Armer /\ armer'["launch"] = Reads
    BY <1>8 DEF WatchStarts, Calls, PlacesOK, Armer
  <2> QED
    BY <2>1 DEF WatchLeads, Attended
<1> QED
  BY <1>2, <1>3, <1>4, <1>5, <1>6, <1>7, <1>8, WatchSteps

LEMMA LeadsWatch ==
  ASSUME WatchLeads, PlacesOK
  PROVE  Watched
<1> SUFFICES ASSUME up, \A a \in Armer : armer[a] = Rests, DueKeys # {},
                    ~excused
             PROVE  \E k \in Key : watch[k] # None
  BY DEF Watched
<1>1. Attended
  BY DEF WatchLeads
<1>2. PICK k \in Key : Leads(k)
  BY <1>1, ArmsAre DEF Attended
<1> QED
  BY <1>2 DEF Leads

-----------------------------------------------------------------------------
AlarmsInv ==
  /\ ScheduleTypeOK /\ BudgetOK /\ OutTypeOK /\ PlacesOK
  /\ MarkCovers /\ MissCovers
  /\ AlarmCovers /\ WatchLeads

LEMMA AlarmsInit ==
  ASSUME Init
  PROVE  AlarmsInv
<1>1. MaxClock \in Nat /\ 0 \in Time
  BY ScheduleAssumption DEF Time
<1>2. ScheduleTypeOK /\ BudgetOK
  BY <1>1, ScheduleAssumption DEF Init, ScheduleInit, ScheduleTypeOK, BudgetOK
<1>3. OutTypeOK
  <2>1. OutInit
    BY DEF Init
  <2>2. /\ mark \in Time \cup {None} /\ alarm \in AirTime \cup {None}
        /\ waiting \in 0..3 /\ arming \in Arming \cup {None}
        /\ said \in [Episode \X AirTime -> Nat]
    BY <2>1 DEF OutInit
  <2>3. /\ rested \in BOOLEAN /\ queued \in BOOLEAN
        /\ news \in BOOLEAN /\ lost \in BOOLEAN
    BY <2>1 DEF OutInit
  <2> QED
    BY <2>2, <2>3 DEF OutTypeOK
<1>4. PlacesOK
  BY ArmsAre DEF Init, WatchInit, PlacesOK
<1>5. MarkCovers
  BY DEF Init, OutInit, MarkCovers
<1>6. MissCovers
  <2>1. /\ misses = {}
        /\ lines = [e \in Episode |-> 0]
        /\ watch = [k \in Key |-> None]
    BY DEF Init, WatchInit
  <2> QED
    BY <2>1 DEF MissCovers, Watching
<1>7. AlarmCovers
  BY DEF Init, OutInit, AlarmCovers, Settles
<1>8. WatchLeads
  <2>1. "launch" \in Armer /\ armer["launch"] = Reads
    BY DEF Init, WatchInit, Armer
  <2> QED
    BY <2>1 DEF WatchLeads, Attended
<1> QED
  BY <1>2, <1>3, <1>4, <1>5, <1>6, <1>7, <1>8 DEF AlarmsInv

\* Whatever is still to come is waited for by someone, through every crossing
\* of re-arms, events, refreshes, restarts and failed reads: the alarm stands
\* no later than the next followed episode airs (aired.rs), and an episode due
\* to be looked for has a watch set (downloads/watch.rs).  A mark may lag by
\* MARK_STEP, so what the catch-up leaves out must be older than that.
THEOREM EpisodesAlarmsKept ==
  ASSUME MarkStep <= CatchUp
  PROVE  Spec => []AlarmsKept
<1>1. Init => AlarmsInv
  BY AlarmsInit
<1>2. AlarmsInv /\ [Next]_vars => AlarmsInv'
  BY ScheduleStays, RunsStay, OutTypesStay, PlacesStay, CoversStays,
     MissesStay, AlarmCoversStays, WatchLeadsStays DEF AlarmsInv
<1>3. AlarmsInv => AlarmsKept
  <2> SUFFICES ASSUME AlarmsInv PROVE AlarmsKept
    OBVIOUS
  <2>1. WatchTypeOK
    BY DEF AlarmsInv, PlacesOK, MissCovers, WatchTypeOK, Arm
  <2>2. Watchful /\ Watched
    BY CoversWatch, LeadsWatch DEF AlarmsInv
  <2> QED
    BY <2>1, <2>2 DEF AlarmsInv, AlarmsKept, TypeOK
<1> QED
  BY <1>1, <1>2, <1>3, PTL DEF Spec
=============================================================================
