----------------------------- MODULE EpisodeWatch -----------------------------
(* downloads/watch.rs: a followed show's next episode is looked for when it    *)
(* airs, a few steps on again, and given up on with one line.                  *)
EXTENDS EpisodeSchedule
CONSTANTS
  After,   \* STEPS: how long after the episode aired each one comes
  Window   \* WINDOW

Step == DOMAIN After

ASSUME WatchAssumption ==
  /\ IsFiniteSet(Step) /\ Step # {}
  /\ Step = 1..Cardinality(Step)
  /\ After \in [Step -> Nat]
  /\ \A i, j \in Step : i < j => After[i] < After[j]
  /\ Window \in Nat

VARIABLES
  follows,  \* the rules as last read follow the show
  misses,   \* follow_misses
  lines,    \* how often "has not turned up" was said of each episode
  watch,    \* ARMED, and what each armed watch is at
  armer,    \* the calls of arm from outside the watches: what each found due
  excused   \* for the properties: a change no arm followed, or one that failed

watchVars == <<follows, misses, lines, watch, armer, excused>>

\* A new date is a new key.
Key == Episode \X AirTime

GiveUp == Cardinality(Step)

Stage == [at : {"new"}] \cup [at : {"naps"}, step : Step]
  \cup [at : {"gone", "gives", "says", "ended"}]
  \cup [at : {"arms"}, due : SUBSET Key]

ASSUME StageAssumption == None \notin Stage

\* Who calls arm: the launch, an airing refresh, and a read of the rules.
Armer == {"launch", "refresh", "rules"}
Reads == [at |-> "reads"]
Rests == [at |-> "rests"]

WatchTypeOK ==
  /\ follows \in BOOLEAN
  /\ misses \subseteq Episode
  /\ lines \in [Episode -> Nat]
  /\ watch \in [Key -> Stage \cup {None}]
  /\ armer \in
       [Armer -> {Reads, Rests} \cup [at : {"sets"}, due : SUBSET Key]]
  /\ excused \in BOOLEAN

\* The launch arms once its scan is through.
WatchInit ==
  /\ follows = TRUE
  /\ misses = {}
  /\ lines = [e \in Episode |-> 0]
  /\ watch = [k \in Key |-> None]
  /\ armer = [a \in Armer |-> IF a = "launch" THEN Reads ELSE Rests]
  /\ excused = FALSE

-----------------------------------------------------------------------------
(* What is due, and where a watched episode stands: reads of the store       *)

NextToAir ==
  LET coming == {f \in Episode : AirsAfter(f, now)}
  IN  {e \in coming : \A f \in coming : date[e] <= date[f]}

AiredMissing ==
  {e \in Episode : AirsIn(e, now - Window - 1, now)} \ (here \cup misses)

Wanted == follows /\ shelf = "shown"

DueKeys ==
  {<<e, date[e]>> : e \in IF Wanted THEN NextToAir \cup AiredMissing ELSE {}}

Standing(k) ==
  IF k[1] \in here THEN "arrived"
  ELSE IF ~Wanted \/ date[k[1]] # k[2] THEN "stale"
  ELSE "missing"

-----------------------------------------------------------------------------
(* arm                                                                     *)

Armed(keys) ==
  [k \in Key |-> IF k \in keys /\ watch[k] = None THEN [at |-> "new"]
                 ELSE watch[k]]

\* A key arm passes over though its watch is about to go.
PassesOver(keys) ==
  \E k \in keys : watch[k] # None /\ watch[k].at \in {"gone", "ended", "arms"}

Calls(a, what) == armer' = [armer EXCEPT ![a] = what]

ArmReads(a) ==
  /\ armer[a] = Reads
  /\ Calls(a, [at |-> "sets", due |-> DueKeys])
  /\ excused' = FALSE
  /\ UNCHANGED <<follows, misses, lines, watch>>

ArmFails(a) ==
  /\ armer[a] = Reads
  /\ Calls(a, Rests)
  /\ excused' = TRUE
  /\ UNCHANGED <<follows, misses, lines, watch>>

ArmSets(a) ==
  /\ armer[a].at = "sets"
  /\ watch' = Armed(armer[a].due)
  /\ excused' = (excused \/ PassesOver(armer[a].due))
  /\ Calls(a, Rests)
  /\ UNCHANGED <<follows, misses, lines>>

\* remember: the rules are the truth about what is followed.
Remembers(followed) ==
  /\ armer["rules"] = Rests
  /\ follows' = followed
  /\ Calls("rules", Reads)
  /\ UNCHANGED <<misses, lines, watch, excused>>

\* Mutant: an airing refresh leaves the timers to the next launch.
RefreshedQuietly ==
  /\ armer["refresh"] = Rests
  /\ UNCHANGED watchVars

\* An airing refresh that changed a date arms before its job ends.
Refreshed ==
  /\ armer["refresh"] = Rests
  /\ Calls("refresh", Reads)
  /\ UNCHANGED <<follows, misses, lines, watch, excused>>

-----------------------------------------------------------------------------
(* A watch                                                                 *)

Watching(k, place) == watch[k] # None /\ watch[k].at = place
Turns(k, to) == watch' = [watch EXCEPT ![k] = to]
Naps(step) == [at |-> "naps", step |-> step]
At(at) == [at |-> at]

Past(k) == {i \in Step : k[2] + After[i] <= now}

\* steps_ahead: the last step already past is done now, the ones before not.
FirstStep(k) == IF Past(k) = {} THEN 1 ELSE Max(Past(k))

Begins(k) ==
  /\ Watching(k, "new")
  /\ Turns(k, Naps(FirstStep(k)))
  /\ UNCHANGED <<follows, misses, lines, armer, excused>>

IsTime(k) == k[2] + After[watch[k].step] <= now

\* Mutant: the steps are counted one too far.
OnwardPast(k) ==
  IF watch[k].step > GiveUp THEN At("ended") ELSE Naps(watch[k].step + 1)

\* After the last step the watch has ended.
Onward(k) ==
  IF watch[k].step = GiveUp THEN At("ended") ELSE Naps(watch[k].step + 1)

\* A step: done if the episode is here; else the feeds are asked again, which
\* changes nothing here; the last step gives up.
Looks(k) ==
  /\ Watching(k, "naps")
  /\ IsTime(k)
  /\ LET standing == Standing(k)
     IN  Turns(k, CASE standing = "arrived" -> At("ended")
                    [] standing = "stale" -> At("gone")
                    [] standing = "missing" ->
                         IF watch[k].step = GiveUp THEN At("gives")
                         ELSE Onward(k))
  /\ UNCHANGED <<follows, misses, lines, armer, excused>>

LookFails(k) ==
  /\ Watching(k, "naps")
  /\ IsTime(k)
  /\ Turns(k, Onward(k))
  /\ UNCHANGED <<follows, misses, lines, armer, excused>>

\* A stale watch arms nothing: the arming that read the new date did.
Goes(k) ==
  /\ Watching(k, "gone")
  /\ Turns(k, None)
  /\ UNCHANGED <<follows, misses, lines, armer, excused>>

\* Mutant: the line does not ask whether it was said before.
GivesUpAgain(k) ==
  /\ Watching(k, "gives")
  /\ misses' = misses \cup {k[1]}
  /\ Turns(k, At("says"))
  /\ UNCHANGED <<follows, lines, armer, excused>>

\* give_up's insert, which tells whether it was the first.
GivesUp(k) ==
  /\ Watching(k, "gives")
  /\ misses' = misses \cup {k[1]}
  /\ Turns(k, At(IF k[1] \in misses THEN "ended" ELSE "says"))
  /\ UNCHANGED <<follows, lines, armer, excused>>

\* The insert fails: neither a miss nor a line, and the watch ends.
GiveUpFails(k) ==
  /\ Watching(k, "gives")
  /\ Turns(k, At("ended"))
  /\ UNCHANGED <<follows, misses, lines, armer, excused>>

SaysMissed(k) ==
  /\ Watching(k, "says")
  /\ lines' = [lines EXCEPT ![k[1]] = @ + 1]
  /\ Turns(k, At("ended"))
  /\ UNCHANGED <<follows, misses, armer, excused>>

\* Mutant: a watch that ended leaves the next one to others.
EndedAlone(k) ==
  /\ Watching(k, "ended")
  /\ Turns(k, None)
  /\ UNCHANGED <<follows, misses, lines, armer, excused>>

\* A watch that ended arms the next one, its own place in ARMED still held.
EndedReads(k) ==
  /\ Watching(k, "ended")
  /\ Turns(k, [at |-> "arms", due |-> DueKeys])
  /\ UNCHANGED <<follows, misses, lines, armer, excused>>

EndedSets(k) ==
  /\ Watching(k, "arms")
  /\ watch' = [Armed(watch[k].due) EXCEPT ![k] = None]
  /\ excused' = (excused \/ PassesOver(watch[k].due))
  /\ UNCHANGED <<follows, misses, lines, armer>>

WatchEnds ==
  /\ watch' = [k \in Key |-> None]
  /\ armer' = [a \in Armer |-> Rests]
  /\ UNCHANGED <<follows, misses, lines, excused>>

WatchStarts ==
  /\ Calls("launch", Reads)
  /\ UNCHANGED <<follows, misses, lines, watch, excused>>

\* What no call of arm follows: a show hidden and taken back, a clock set back,
\* a date another job than the airing refresh wrote.
WatchUntold ==
  /\ excused' = TRUE
  /\ UNCHANGED <<follows, misses, lines, watch, armer>>

\* What the runtime does before the clock goes on.
WatchPrompt ==
  /\ \A a \in Armer : armer[a] = Rests
  /\ \A k \in Key : watch[k] # None => watch[k].at = "naps" /\ ~IsTime(k)

-----------------------------------------------------------------------------
\* "said once ever".
MissSaidOnce == \A e \in Episode : lines[e] <= 1

\* With nothing under way, a show with an episode due has a watch set, which
\* arms the next when it ends.
Watched ==
  up /\ (\A a \in Armer : armer[a] = Rests) /\ DueKeys # {} =>
    excused \/ \E k \in Key : watch[k] # None

\* An episode due to be looked for turns up or is given up on.
Resolved ==
  \A k \in Key :
    LET stands == /\ Runs("watch") /\ up /\ ~excused /\ ~slept
                  /\ Wanted /\ date[k[1]] = k[2]
    IN  (stands /\ k \in DueKeys) ~> (k[1] \in here \cup misses \/ ~stands)
=============================================================================
