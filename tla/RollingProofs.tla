----------------------------- MODULE RollingProofs -----------------------------
(* For any number of episodes and any window: a pass takes off the disk what  *)
(* was watched and no more, for good, and never undoes what the user set; a   *)
(* quiet roll is where its window says, and a released one holds nothing.     *)
EXTENDS Rolling, FiniteSetTheorems, TLAPS

\* One pass at a time, on a roll that is stored, of the kind it was planned.
PassInv ==
  /\ pass # None => roll # None /\ pass.roll.batch = left.batch
  /\ roll # None => roll.batch = left.batch /\ UsersPart(roll) = wish

\* What is noted as watched was watched, and what is to be erased lies behind.
Behind(e) == e \in completed /\ \E f \in completed : e + Keep < f

WatchedInv ==
  /\ roll # None => roll.watched \subseteq completed
  /\ pass # None =>
       /\ pass.roll.watched \subseteq completed
       /\ \A e \in pass.erase : Behind(e)
  /\ OnlyWatchedErased

\* The roll that counts: the pass's copy, until it is saved.
Current == IF pass # None THEN pass.roll ELSE roll

\* What was erased is known to be gone, and a batch's client skips it.
GoneInv ==
  ~torn =>
    /\ erased \cap disk = {}
    /\ roll # None => erased \subseteq Current.gone
    /\ left.batch => \A e \in erased : prio[e] = "skip"

\* A single is handed over once: what was ever listed is among the added, and
\* is not on its way to the client.
Reported ==
  listed \cup (UNION {read[r] : r \in DOMAIN read})
         \cup (IF pass # None THEN pass.torrents ELSE {})

SinglesInv ==
  ~torn /\ ~left.batch =>
    /\ roll # None => handed \cup Reported \subseteq Current.added
    /\ handed \cap Reported = {}
    /\ erased \cap (handed \cup listed) = {}

RInv == TypeOK /\ PassInv /\ WatchedInv /\ GoneInv /\ SinglesInv

-----------------------------------------------------------------------------
(* The window                                                              *)

\* A finite set of numbers has a greatest: of the subsets without one, a least
\* would leave another when an element is taken out.
LEMMA HasMost ==
  ASSUME NEW S \in SUBSET Int, IsFiniteSet(S), S # {}
  PROVE  \E m \in S : \A x \in S : m >= x
  <1> DEFINE Lacks == {T \in FiniteSubsetsOf(S) :
                         T # {} /\ ~ \E m \in T : \A x \in T : m >= x}
  <1>1. SUFFICES ASSUME Lacks # {} PROVE FALSE
    BY DEF FiniteSubsetsOf
  <1>2. PICK T \in Lacks :
          \A U \in Lacks : <<U, T>> \notin StrictSubsetOrdering(S)
    <2>1. IsWellFoundedOn(StrictSubsetOrdering(S), FiniteSubsetsOf(S))
      BY FS_StrictSubsetOrderingWellFounded
    <2>2. Lacks \subseteq FiniteSubsetsOf(S)
      OBVIOUS
    <2> HIDE DEF Lacks
    <2> QED BY <1>1, <2>1, <2>2, WFMin
  <1>3. PICK t \in T : TRUE
    OBVIOUS
  <1>4. T \subseteq S /\ IsFiniteSet(T)
    BY DEF FiniteSubsetsOf
  <1>5. T \ {t} \notin Lacks
    BY <1>2, <1>3, <1>4 DEF StrictSubsetOrdering
  <1>6. T \ {t} \in FiniteSubsetsOf(S)
    BY <1>4, FS_RemoveElement DEF FiniteSubsetsOf
  <1>7. CASE T = {t}
    BY <1>4, <1>7
  <1>8. CASE T # {t}
    <2>1. PICK m \in T \ {t} : \A x \in T \ {t} : m >= x
      BY <1>5, <1>6, <1>8
    <2>2. \A x \in T : x \in Int
      BY <1>4
    <2>3. CASE t >= m
      BY <2>1, <2>2, <2>3
    <2>4. CASE m >= t
      BY <2>1, <2>2, <2>4
    <2> QED BY <2>2, <2>3, <2>4
  <1> QED BY <1>7, <1>8

\* The last one watched is one that was watched.
LEMMA LastWatched ==
  ASSUME NEW r \in Roll
  PROVE  /\ Last(r) \in Nat
         /\ Last(r) > 0 => Last(r) \in r.watched
  <1>1. r.watched \subseteq Ep /\ Ep \subseteq Int /\ \A e \in Ep : e \in Nat
    BY WindowAssumption DEF Roll, Ep
  <1>2. IsFiniteSet(r.watched)
    <2>1. Count \in Int /\ 1 \in Int
      BY WindowAssumption
    <2>2. IsFiniteSet(Ep)
      BY <2>1, FS_Interval DEF Ep
    <2> QED BY <1>1, <2>2, FS_Subset
  <1>3. CASE r.watched = {}
    BY <1>3 DEF Last
  <1>4. CASE r.watched # {}
    <2>1. \E m \in r.watched : \A x \in r.watched : m >= x
      BY <1>1, <1>2, <1>4, HasMost
    <2>2. Max(r.watched) \in r.watched
      BY <2>1 DEF Max
    <2> QED BY <1>1, <1>4, <2>2 DEF Last
  <1> QED BY <1>3, <1>4

\* The window reaches an episode of the download.
LEMMA ReachTypes ==
  ASSUME NEW r \in Roll
  PROVE  Reach(r) \in Ep
  <1>1. Last(r) \in Nat /\ r.ahead \in Nat
    BY LastWatched DEF Roll
  <1>2. r.until = None \/ r.until \in Nat
    BY WindowAssumption DEF Roll, Ep
  <1> QED BY <1>1, <1>2, WindowAssumption
          DEF Reach, Ep, Smaller, Greater

\* What leaves the disk was watched, and lies behind the ones kept.
LEMMA ToEraseBehind ==
  ASSUME NEW r \in Roll, r.watched \subseteq completed, NEW e \in ToErase(r)
  PROVE  e \in Ep /\ Behind(e)
  <1>1. /\ e \in Known(r) /\ e \in r.watched /\ e < Last(r) /\ ~Kept(r, e)
    BY DEF ToErase, Held
  <1>2. e \in Ep /\ e \in Nat /\ Keep \in Nat
    BY <1>1, WindowAssumption DEF Known, Ep
  <1>3. Last(r) \in Nat /\ Last(r) > 0
    BY <1>1, <1>2, LastWatched
  <1>4. e + Keep < Last(r)
    BY <1>1, <1>2, <1>3 DEF Kept
  <1>5. Last(r) \in completed
    BY <1>3, LastWatched
  <1> QED BY <1>1, <1>2, <1>4, <1>5 DEF Behind

-----------------------------------------------------------------------------
(* What a pass does to its own record                                      *)

\* What is spent of the budget leaves what is downloaded as it is.
LEMMA Spends ==
  ASSUME left \in Allowance,
         \/ UNCHANGED left
         \/ Spend("edits") \/ Spend("views") \/ Spend("polls")
         \/ Spend("removes") \/ Spend("faults") \/ Spend("ages")
  PROVE  /\ left' \in Allowance
         /\ left'.batch = left.batch /\ left'.here = left.here
         /\ left'.over = left.over
  BY DEF Spend, Allowance

\* Whatever a pass found or did, it is still a pass over the same list of
\* torrents and the same roll, of which it knows no less.
Goes ==
  /\ pass # None /\ pass' # None
  /\ pass' \in Pass
  /\ pass'.torrents = pass.torrents
  /\ pass'.by = pass.by
  /\ pass'.before = pass.before
  /\ pass'.roll.batch = pass.roll.batch
  /\ pass.roll.gone \subseteq pass'.roll.gone
  /\ pass.roll.added \subseteq pass'.roll.added

\* What it does not notice before the next one looks.
Handles ==
  /\ Goes
  /\ pass'.roll.watched = pass.roll.watched
  /\ pass'.erase \subseteq pass.erase

\* A survey: the pass has a record of the same roll, and what it is to erase.
LEMMA SurveysGoes ==
  ASSUME TypeOK, WatchedInv, pass # None,
         NEW files \in BOOLEAN, NEW rows \in SUBSET completed,
         Surveys(files, rows)
  PROVE  /\ Goes
         /\ pass'.roll.gone = pass.roll.gone
         /\ pass'.roll.added = pass.roll.added
         /\ pass'.roll.watched \subseteq completed
         /\ pass'.erase = pass.erase \/ pass'.erase = ToErase(pass'.roll)
  <1> DEFINE r == pass.roll
             found == Found(r, files)
             small == found.counted /\ found.over # None /\ Count <= found.over
             judged == Judged(found)
             seen == [judged EXCEPT !.watched =
                        @ \cup Watched(judged, files, rows)]
  <1>1. pass \in Pass /\ r \in Roll
    BY DEF TypeOK, Data, Pass
  <1>2. /\ found \in Roll
        /\ found.batch = r.batch /\ found.gone = r.gone
        /\ found.added = r.added /\ found.watched = r.watched
    <2>1. /\ r.seen \cup ((r.added \ r.left) \cap pass.torrents) \in SUBSET Parts
          /\ r.left \cup (((r.added \ r.left) \cap r.seen) \ pass.torrents)
               \in SUBSET Parts
      BY <1>1 DEF Roll, Pass
    <2> QED BY <1>1, <2>1 DEF Found, Roll, Here
  <1> HIDE DEF found
  <1>3. /\ judged \in Roll
        /\ judged.batch = r.batch /\ judged.gone = r.gone
        /\ judged.added = r.added /\ judged.watched = r.watched
    BY <1>2 DEF Judged, Roll
  <1> HIDE DEF judged
  <1>4. Watched(judged, files, rows) \subseteq completed
    BY DEF Watched
  <1>5. completed \subseteq Ep /\ r.watched \subseteq completed
    BY DEF TypeOK, Data, WatchedInv
  <1>6. /\ seen \in Roll
        /\ seen.batch = r.batch /\ seen.gone = r.gone
        /\ seen.added = r.added /\ seen.watched \subseteq completed
    <2>1. judged.watched \cup Watched(judged, files, rows) \in SUBSET Ep
      BY <1>3, <1>4, <1>5
    <2> QED BY <1>3, <1>4, <1>5, <2>1 DEF Roll
  <1> HIDE DEF seen
  <1>7. small \in BOOLEAN
    BY DEF found
  <1>8. \/ pass' = [pass EXCEPT !.at = "saves", !.roll = found, !.drop = small]
        \/ pass' = [pass EXCEPT !.at = "acts", !.roll = seen, !.files = files,
                                !.erase = ToErase(seen)]
    BY DEF Surveys, found, judged, seen
  <1>9. ToErase(seen) \in SUBSET Ep
    BY <1>6, ToEraseBehind
  <1> HIDE DEF small
  <1>10. pass' \in Pass
    BY <1>1, <1>2, <1>6, <1>7, <1>8, <1>9, Zenon DEF Pass
  <1>11. /\ pass'.torrents = pass.torrents /\ pass'.by = pass.by
         /\ pass'.before = pass.before
         /\ \/ pass'.roll = found /\ pass'.erase = pass.erase
            \/ pass'.roll = seen /\ pass'.erase = ToErase(seen)
    BY <1>1, <1>8 DEF Pass
  <1>12. pass' # None
    BY <1>10, NothingAssumption
  <1> QED BY <1>2, <1>5, <1>6, <1>10, <1>11, <1>12 DEF Goes

\* Acting adds to the record and forgets nothing.
LEMMA ActsGoes ==
  ASSUME TypeOK, pass # None, NEW refused \in SUBSET Prio, Acts(refused)
  PROVE  /\ Handles
         /\ pass'.roll.gone = pass.roll.gone
         /\ pass'.erase = pass.erase
  <1>1. pass \in Pass /\ pass.roll \in Roll
    BY DEF TypeOK, Data, Pass
  <1>2. PICK b \in BOOLEAN :
          \/ pass' = [Moving EXCEPT !.drop = b]
          \/ pass' = [Moving EXCEPT !.roll.added = @ \cup ToAdd(pass.roll),
                                    !.drop = b]
    BY Zenon DEF Acts, SetsPriorities, AddsHeld, Freed
  <1>3. ToAdd(pass.roll) \in SUBSET Parts
    BY DEF ToAdd, Held, Known, Parts
  <1>4. pass' \in Pass
    <2>1. CASE pass' = [Moving EXCEPT !.drop = b]
      BY <1>1, <2>1, Zenon DEF Pass, Moving
    <2>2. CASE pass' = [Moving EXCEPT
                          !.roll.added = @ \cup ToAdd(pass.roll), !.drop = b]
      <3>1. pass.roll.added \cup ToAdd(pass.roll) \in SUBSET Parts
        BY <1>1, <1>3 DEF Roll
      <3>2. [pass.roll EXCEPT !.added = @ \cup ToAdd(pass.roll)] \in Roll
        BY <1>1, <3>1, Zenon DEF Roll
      <3>3. pass' = [pass EXCEPT !.at = "erases", !.drop = b,
                       !.roll = [pass.roll EXCEPT
                                   !.added = @ \cup ToAdd(pass.roll)]]
        BY <1>1, <2>2 DEF Moving, Pass, Roll
      <3> QED BY <1>1, <3>2, <3>3, Zenon DEF Pass
    <2> QED BY <1>2, <2>1, <2>2
  <1>5. /\ pass'.torrents = pass.torrents /\ pass'.by = pass.by
        /\ pass'.before = pass.before /\ pass'.erase = pass.erase
        /\ \/ pass'.roll = pass.roll
           \/ pass'.roll = [pass.roll EXCEPT !.added = @ \cup ToAdd(pass.roll)]
    BY <1>1, <1>2 DEF Moving, Pass
  <1>6. pass' # None
    BY <1>4, NothingAssumption
  <1> QED BY <1>1, <1>4, <1>5, <1>6 DEF Handles, Goes, Roll

\* An erasure notes the episode as gone.
LEMMA ErasesGoes ==
  ASSUME TypeOK, pass # None, NEW e \in Ep,
         ErasesSingle(e) \/ ErasesFile(e) \/ Leaves(e) \/ EraseFails(e)
  PROVE  /\ Handles
         /\ e \in pass.erase
         /\ pass'.roll.added = pass.roll.added
         /\ ErasesSingle(e) \/ ErasesFile(e) => e \in pass'.roll.gone
  <1>1. pass \in Pass /\ pass.roll \in Roll
    BY DEF TypeOK, Data, Pass
  <1>2. e \in pass.erase
    BY DEF ErasesSingle, ErasesFile, Leaves, EraseFails, Erasing
  <1> DEFINE gone == [pass.roll EXCEPT !.gone = @ \cup {e}]
             left2 == [gone EXCEPT !.left = @ \cup {e}]
  <1>3. gone \in Roll /\ left2 \in Roll
    <2>1. pass.roll.gone \cup {e} \in SUBSET Ep
      BY <1>1 DEF Roll
    <2>2. pass.roll.left \cup {e} \in SUBSET Parts
      BY <1>1 DEF Roll, Parts
    <2>3. gone \in Roll
      BY <1>1, <2>1, Zenon DEF Roll
    <2>4. gone.left = pass.roll.left
      BY <1>1 DEF Roll
    <2> QED BY <2>2, <2>3, <2>4, Zenon DEF Roll
  <1>4. pass.erase \ {e} \in SUBSET Ep
    BY <1>1 DEF Pass
  <1>5. CASE ErasesSingle(e)
    <2>1. pass' = [pass EXCEPT !.erase = @ \ {e}, !.roll = left2]
      <3>1. Erased(e) = [pass EXCEPT !.erase = @ \ {e}, !.roll = gone]
        BY <1>1 DEF Erased, Pass
      <3>2. pass' = [[pass EXCEPT !.erase = @ \ {e}, !.roll = gone]
                       EXCEPT !.roll.left = @ \cup {e}]
        BY <1>5, <3>1 DEF ErasesSingle
      <3> HIDE DEF gone
      <3> QED BY <1>1, <3>2 DEF Pass
    <2>2. pass' \in Pass
      BY <1>1, <1>3, <1>4, <2>1, Zenon DEF Pass
    <2>3. /\ pass'.roll = left2 /\ pass'.erase = pass.erase \ {e}
          /\ pass'.torrents = pass.torrents /\ pass'.by = pass.by
          /\ pass'.before = pass.before
      BY <1>1, <2>1 DEF Pass
    <2>4. pass' # None
      BY <2>2, NothingAssumption
    <2> QED BY <1>1, <1>2, <2>2, <2>3, <2>4 DEF Handles, Goes, Roll
  <1>6. CASE ErasesFile(e)
    <2>1. PICK b \in BOOLEAN :
            pass' = [pass EXCEPT !.erase = @ \ {e}, !.roll = gone,
                                 !.recheck = b]
      <3>1. (pass.recheck \/ e \in disk) \in BOOLEAN
        OBVIOUS
      <3>2. pass' = [pass EXCEPT !.erase = @ \ {e}, !.roll = gone,
                                 !.recheck = pass.recheck \/ e \in disk]
        BY <1>1, <1>6 DEF ErasesFile, Erased, Pass
      <3> QED BY <3>1, <3>2
    <2>2. pass' \in Pass
      BY <1>1, <1>3, <1>4, <2>1, Zenon DEF Pass
    <2>3. /\ pass'.roll = gone /\ pass'.erase = pass.erase \ {e}
          /\ pass'.torrents = pass.torrents /\ pass'.by = pass.by
          /\ pass'.before = pass.before
      BY <1>1, <2>1 DEF Pass
    <2>4. pass' # None
      BY <2>2, NothingAssumption
    <2> QED BY <1>1, <1>2, <2>2, <2>3, <2>4 DEF Handles, Goes, Roll
  <1>7. CASE ~ErasesSingle(e) /\ ~ErasesFile(e)
    <2>1. pass' = [pass EXCEPT !.erase = @ \ {e}]
      BY <1>7 DEF Leaves, EraseFails
    <2>2. pass' \in Pass
      BY <1>1, <1>4, <2>1, Zenon DEF Pass
    <2>3. /\ pass'.roll = pass.roll /\ pass'.erase = pass.erase \ {e}
          /\ pass'.torrents = pass.torrents /\ pass'.by = pass.by
          /\ pass'.before = pass.before
      BY <1>1, <2>1 DEF Pass
    <2>4. pass' # None
      BY <2>2, NothingAssumption
    <2> QED BY <1>2, <1>7, <2>2, <2>3, <2>4 DEF Handles, Goes
  <1> QED BY <1>5, <1>6, <1>7

\* A pass that only moves on keeps its record.
LEMMA MovesOn ==
  ASSUME TypeOK, pass # None, NEW place \in {"erases", "saves"},
         pass' = [pass EXCEPT !.at = place]
  PROVE  /\ Handles
         /\ pass'.roll = pass.roll
  <1>1. pass \in Pass
    BY DEF TypeOK, Data
  <1>2. pass' \in Pass
    BY <1>1, Zenon DEF Pass
  <1>3. /\ pass'.roll = pass.roll /\ pass'.erase = pass.erase
        /\ pass'.torrents = pass.torrents /\ pass'.by = pass.by
        /\ pass'.before = pass.before
    BY <1>1 DEF Pass
  <1> QED BY <1>2, <1>3, NothingAssumption DEF Handles, Goes

-----------------------------------------------------------------------------
(* Types                                                                   *)

\* The invariant holds of a roll just planned.
LEMMA RollingInit == Init => RInv
  <1> SUFFICES ASSUME Init PROVE RInv
    OBVIOUS
  <1>1. left \in Allowance
    BY RollingAssumption DEF Init
  <1>2. Flags
    BY Zenon DEF Init, Flags
  <1>3. /\ roll \in Roll /\ roll.batch = left.batch /\ roll.added \in SUBSET Parts
        /\ roll.watched = {} /\ roll.gone = {}
    <2>1. 1 \in Ep /\ Ep \subseteq Parts /\ Whole \in Parts
      BY WindowAssumption DEF Ep, Parts
    <2>2. (IF left.batch THEN {Whole} ELSE {1}) \in SUBSET Parts
      BY <2>1
    <2>3. roll = [batch |-> left.batch, ahead |-> 1, delete |-> left.delete,
                  until |-> None, released |-> FALSE,
                  over |-> IF left.batch THEN left.over ELSE None,
                  counted |-> ~left.batch,
                  added |-> IF left.batch THEN {Whole} ELSE {1},
                  seen |-> {}, left |-> {}, watched |-> {}, gone |-> {}]
      BY DEF Init, Planned
    <2>4. /\ left.batch \in BOOLEAN /\ left.delete \in BOOLEAN
          /\ (IF left.batch THEN left.over ELSE None) \in {None} \cup Nat
      BY <1>1 DEF Allowance
    <2>5. (~left.batch) \in BOOLEAN
      OBVIOUS
    <2>6. roll \in Roll
      BY <2>2, <2>3, <2>4, <2>5, Zenon DEF Roll
    <2> QED BY <2>2, <2>3, <2>6
  <1>4. Data
    <2>1. prio \in [Ep -> Prio]
      BY DEF Init, Prio
    <2>2. read \in [{} -> SUBSET Parts]
      BY DEF Init
    <2>3. \E waiting \in SUBSET Reader : read \in [waiting -> SUBSET Parts]
      BY <2>2
    <2> QED BY <1>1, <1>3, <2>1, <2>3 DEF Init, Data
  <1>5. PassInv
    BY <1>3 DEF Init, PassInv
  <1>6. WatchedInv
    BY <1>3 DEF Init, WatchedInv, OnlyWatchedErased
  <1>7. GoneInv
    BY <1>3 DEF Init, GoneInv
  <1>8. SinglesInv
    BY <1>3 DEF Init, SinglesInv, Reported, Current
  <1> QED BY <1>2, <1>4, <1>5, <1>6, <1>7, <1>8 DEF RInv, TypeOK

\* A step of the pass that holds PASS.
PassStep ==
  \/ \E rows \in SUBSET (completed \ disk) :
       SurveysWell(rows) \/ SurveysBlind(rows)
  \/ ActsWell \/ SomeRefused \/ AddFails
  \/ Erases \/ ErasesNot
  \/ Rechecks \/ RecheckFails

\* What a pass may touch, and what it leaves alone.
LEMMA PassStepSpares ==
  ASSUME TypeOK, WatchedInv, PassStep
  PROVE  /\ Goes
         /\ UNCHANGED <<store, readers, completed, old, torn>>
         /\ left' \in Allowance /\ left'.batch = left.batch
         /\ pass'.roll.watched \subseteq completed
         /\ \A e \in pass'.erase : Behind(e)
  <1> USE DEF TypeOK, Data
  <1>1. ASSUME NEW rows \in SUBSET (completed \ disk),
               SurveysWell(rows) \/ SurveysBlind(rows)
        PROVE  /\ pass # None
               /\ \E files \in BOOLEAN : Surveys(files, rows)
               /\ left' = left \/ Spend("faults")
    <2>1. CASE SurveysWell(rows)
      <3>1. Readable \in BOOLEAN
        BY DEF Readable
      <3> QED BY <2>1, <3>1 DEF SurveysWell, At
    <2>2. CASE SurveysBlind(rows)
      BY <2>2 DEF SurveysBlind, At, Faulting
    <2> QED BY <1>1, <2>1, <2>2
  <1>2. CASE \E rows \in SUBSET (completed \ disk) :
               SurveysWell(rows) \/ SurveysBlind(rows)
    <2>1. PICK rows \in SUBSET (completed \ disk), files \in BOOLEAN :
            /\ pass # None /\ Surveys(files, rows)
            /\ left' = left \/ Spend("faults")
      BY <1>1, <1>2
    <2>2. /\ Goes /\ pass'.roll.watched \subseteq completed
          /\ pass'.erase = pass.erase \/ pass'.erase = ToErase(pass'.roll)
      BY <2>1, SurveysGoes
    <2>3. pass'.roll \in Roll
      BY <2>2 DEF Goes, Pass
    <2>4. \A e \in pass'.erase : Behind(e)
      BY <2>1, <2>2, <2>3, ToEraseBehind DEF WatchedInv
    <2>5. left' \in Allowance /\ left'.batch = left.batch
      BY <2>1, Spends
    <2> QED BY <2>1, <2>2, <2>4, <2>5 DEF Surveys, client, history
  <1>3. ASSUME Handles
        PROVE  /\ Goes /\ pass'.roll.watched \subseteq completed
               /\ \A e \in pass'.erase : Behind(e)
    BY <1>3 DEF Handles, Goes, WatchedInv
  <1>4. CASE ActsWell \/ SomeRefused
    <2>1. PICK refused \in SUBSET Prio : Acts(refused)
      BY <1>4 DEF ActsWell, SomeRefused, Faulting
    <2>2. pass # None
      BY <2>1 DEF Acts, At
    <2>3. Handles
      BY <2>1, <2>2, ActsGoes
    <2>4. left' \in Allowance /\ left'.batch = left.batch
      BY <1>4, Spends DEF ActsWell, SomeRefused, Faulting
    <2> QED BY <1>3, <2>1, <2>3, <2>4 DEF Acts
  <1>5. CASE AddFails
    <2>1. Handles
      BY <1>5, MovesOn DEF AddFails, Moving, At
    <2>2. left' \in Allowance /\ left'.batch = left.batch
      BY <1>5, Spends DEF AddFails
    <2> QED BY <1>5, <1>3, <2>1, <2>2 DEF AddFails
  <1>6. CASE Erases \/ ErasesNot
    <2>1. PICK e \in Ep :
            ErasesSingle(e) \/ ErasesFile(e) \/ Leaves(e) \/ EraseFails(e)
      BY <1>6 DEF Erases, ErasesNot, Faulting
    <2>2. pass # None
      BY <2>1
      DEF ErasesSingle, ErasesFile, Leaves, EraseFails, Erasing, At
    <2>3. Handles
      BY <2>1, <2>2, ErasesGoes
    <2>4. left' \in Allowance /\ left'.batch = left.batch
      BY <1>6, Spends DEF Erases, ErasesNot, Faulting
    <2> QED BY <1>6, <1>3, <2>3, <2>4 DEF Erases, ErasesNot, Faulting
  <1>7. CASE Rechecks \/ RecheckFails
    <2>1. PICK works \in BOOLEAN : Rechecked(works)
      BY <1>7 DEF Rechecks, RecheckFails, Faulting
    <2>2. Handles
      BY <2>1, MovesOn DEF Rechecked, At
    <2>3. left' \in Allowance /\ left'.batch = left.batch
      BY <1>7, Spends DEF Rechecks, RecheckFails, Faulting
    <2> QED BY <1>3, <2>1, <2>2, <2>3 DEF Rechecked
  <1> QED BY <1>2, <1>4, <1>5, <1>6, <1>7 DEF PassStep

\* The flags stay flags.
LEMMA StepFlags ==
  ASSUME TypeOK, [Next]_vars
  PROVE  Flags'
  <1> USE DEF TypeOK, Flags
  <1>1. CASE UNCHANGED vars
    BY <1>1, Zenon DEF vars, readers, kicks, history
  <1>2. ASSUME NEW q \in Reader, Reads(q) \/ TakesPass(q)
        PROVE  Flags'
    <2>1. /\ asked' \in {asked, FALSE} /\ lost' \in {lost, FALSE}
          /\ UNCHANGED <<old, faulted, torn>>
          /\ bursting' = bursting \/ bursting' \in BOOLEAN
      <3>1. CASE Reads(q)
        BY <3>1 DEF Reads, Reader, kicks, history
      <3>2. CASE TakesPass(q)
        BY <3>2 DEF TakesPass, BurstAfter, kicks, history
      <3> QED BY <1>2, <3>1, <3>2
    <2> QED BY <2>1, Zenon
  <1>3. CASE Passing
    BY <1>3, Zenon DEF Passing, Surveying, SurveysWell, Surveys, ActsWell,
        Acts, Erases, Rechecks, Rechecked, Saves, BurstAfter, readers, kicks,
        history
  <1>4. CASE Faults
    BY <1>4, Zenon DEF Faults, KickFails, BurstEnds, SurveysBlind, Surveys,
        SomeRefused, Faulting, Acts, AddFails, ErasesNot, RecheckFails,
        Rechecked, SaveFails, BurstAfter, End, readers, kicks, history
  <1>5. CASE User
    BY <1>5, Zenon DEF User, Watches, SetsOne, SetRoll, RollMore, Edits,
        Removes, readers, kicks, history
  <1>6. CASE Client \/ Ages
    BY <1>6, Zenon DEF Client, Lists, Fetches, Ages, readers, kicks, history
  <1> QED BY <1>1, <1>2, <1>3, <1>4, <1>5, <1>6 DEF Next, Reading

-----------------------------------------------------------------------------
(* The readers and the end of a pass                                       *)

\* A reader's list adds nothing to what was reported.
LEMMA ReadsKeep ==
  ASSUME RInv, NEW q \in Reader, Reads(q)
  PROVE  Data' /\ PassInv' /\ WatchedInv' /\ GoneInv' /\ SinglesInv'
  <1>1. /\ UNCHANGED <<store, bursting, pass, client, completed, old, fresh,
                       history>>
        /\ read' = With(q)
        /\ left' = left \/ Spend("polls")
    BY DEF Reads, Reader
  <1>2. left' \in Allowance /\ left'.batch = left.batch
    BY <1>1, Spends DEF RInv, TypeOK, Data
  <1>3. /\ DOMAIN read' = DOMAIN read \cup {q}
        /\ \A r \in DOMAIN read' : read'[r] = IF r = q THEN listed ELSE read[r]
    BY <1>1 DEF With
  <1>4. PICK waiting \in SUBSET Reader : read \in [waiting -> SUBSET Parts]
    BY DEF RInv, TypeOK, Data
  <1>5. read' \in [waiting \cup {q} -> SUBSET Parts]
    <2>1. listed \in SUBSET Parts
      BY DEF RInv, TypeOK, Data
    <2> QED BY <1>1, <1>4, <2>1 DEF With
  <1>6. waiting \cup {q} \in SUBSET Reader
    OBVIOUS
  <1> USE <1>1, <1>2 DEF RInv, TypeOK, store, client, history
  <1>7. Data'
    BY <1>5, <1>6 DEF Data
  <1>8. PassInv' /\ WatchedInv' /\ GoneInv'
    BY DEF PassInv, WatchedInv, OnlyWatchedErased, Behind, GoneInv, Current
  <1>9. SinglesInv'
    <2>1. Reported' \subseteq Reported
      BY <1>3 DEF Reported
    <2> QED BY <2>1 DEF SinglesInv, Current, PassInv, Reported
  <1> QED BY <1>7, <1>8, <1>9

\* A pass begins with the stored roll and a list already reported.
LEMMA TakesPassKeeps ==
  ASSUME RInv, NEW q \in Reader, TakesPass(q)
  PROVE  Data' /\ PassInv' /\ WatchedInv' /\ GoneInv' /\ SinglesInv'
  <1>1. /\ UNCHANGED <<store, client, completed, old, fresh, history, left>>
        /\ pass = None /\ q \in DOMAIN read
        /\ read' = Without(q)
    BY DEF TakesPass
  <1>2. IF roll = None THEN pass' = None
        ELSE pass' = [at |-> "surveys", by |-> q, torrents |-> read[q],
                      before |-> UsersPart(roll), roll |-> roll,
                      files |-> FALSE, erase |-> {}, recheck |-> FALSE,
                      drop |-> FALSE]
    BY DEF TakesPass
  <1>3. PICK waiting \in SUBSET Reader : read \in [waiting -> SUBSET Parts]
    BY DEF RInv, TypeOK, Data
  <1>4. read' \in [waiting \ {q} -> SUBSET Parts]
    BY <1>1, <1>3 DEF Without
  <1>5. waiting \ {q} \in SUBSET Reader
    OBVIOUS
  <1>6. /\ roll = None => pass' = None
        /\ roll # None => pass' \in Pass
    <2>1. CASE roll = None
      BY <1>2, <2>1
    <2>2. CASE roll # None
      <3>1. roll \in Roll
        BY <2>2 DEF RInv, TypeOK, Data
      <3>2. UsersPart(roll) \in Nat \X BOOLEAN \X ({None} \cup Ep) \X BOOLEAN
        BY <3>1 DEF UsersPart, Roll
      <3>3. read[q] \in SUBSET Parts
        BY <1>1, <1>3
      <3>4. "surveys" \in {"surveys", "acts", "erases", "rechecks", "saves"}
        OBVIOUS
      <3>5. {} \in SUBSET Ep /\ FALSE \in BOOLEAN
        OBVIOUS
      <3>6. pass' = [at |-> "surveys", by |-> q, torrents |-> read[q],
                     before |-> UsersPart(roll), roll |-> roll,
                     files |-> FALSE, erase |-> {}, recheck |-> FALSE,
                     drop |-> FALSE]
        BY <1>2, <2>2
      <3>7. pass' \in Pass
        BY <3>1, <3>2, <3>3, <3>4, <3>5, <3>6, Zenon DEF Pass
      <3> QED BY <2>2, <3>7
    <2> QED BY <2>1, <2>2
  <1> USE <1>1 DEF RInv, TypeOK, store, client, history
  <1>7. Data'
    BY <1>4, <1>5, <1>6 DEF Data
  <1>8. roll # None => pass' # None /\ pass'.roll = roll /\ pass'.erase = {}
                         /\ pass'.torrents = read[q]
    <2>1. ASSUME roll # None
          PROVE  /\ pass'.roll = roll /\ pass'.erase = {}
                 /\ pass'.torrents = read[q]
      BY <1>2, <2>1
    <2> QED BY <1>6, <2>1, NothingAssumption
  <1>9. PassInv' /\ WatchedInv' /\ GoneInv'
    BY <1>2, <1>8
    DEF PassInv, WatchedInv, OnlyWatchedErased, Behind, GoneInv, Current
  <1>10. SinglesInv'
    <2>1. /\ DOMAIN read' = DOMAIN read \ {q}
          /\ \A r \in DOMAIN read' : read'[r] = read[r]
      BY DEF Without
    <2>2. read[q] \subseteq Reported
      BY <1>1 DEF Reported
    <2>3. \A r \in DOMAIN read' : read'[r] \subseteq Reported
      BY <2>1 DEF Reported
    <2>4. Reported' \subseteq Reported
      <3>1. CASE roll = None
        BY <1>6, <2>3, <3>1 DEF Reported
      <3>2. CASE roll # None
        <4>1. pass' # None /\ pass'.torrents \subseteq Reported
          BY <1>8, <2>2, <3>2
        <4>2. listed' \subseteq Reported
          BY DEF Reported
        <4>3. UNION {read'[r] : r \in DOMAIN read'} \subseteq Reported
          BY <2>3
        <4> QED BY <4>1, <4>2, <4>3 DEF Reported
      <3> QED BY <3>1, <3>2
    <2>5. Current' = Current
      BY <1>2, <1>8 DEF Current
    <2> QED BY <2>4, <2>5 DEF SinglesInv
  <1> QED BY <1>7, <1>9, <1>10

\* What a pass leaves: its copy with the user's settings, or no roll.
LEMMA SavesRoll ==
  ASSUME TypeOK, PassInv, Saves
  PROVE  /\ pass' = None /\ pass # None
         /\ roll' \in Roll \cup {None}
         /\ roll' # None /\ ~torn' =>
              /\ roll'.watched = pass.roll.watched
              /\ roll'.gone = pass.roll.gone
              /\ roll'.added = pass.roll.added
         /\ roll' # None =>
              /\ roll'.batch = left.batch
              /\ UsersPart(roll') = wish
              /\ roll' = roll \/ roll'.watched = pass.roll.watched
  <1>1. pass # None /\ pass' = None
    BY DEF Saves, At
  <1>2. roll \in Roll /\ pass.roll \in Roll
    BY <1>1 DEF TypeOK, Data, PassInv, Pass
  <1>3. CASE Drops
    <2>1. roll' = None \/ (roll' = roll /\ torn')
      BY <1>3 DEF Saves
    <2> QED BY <1>1, <1>2, <2>1 DEF PassInv
  <1>4. CASE ~Drops
    <2>1. roll' = [pass.roll EXCEPT
                     !.ahead = roll.ahead, !.delete = roll.delete,
                     !.until = roll.until, !.released = roll.released]
      BY <1>4 DEF Saves
    <2>2. roll' \in Roll
      BY <1>2, <2>1, Zenon DEF Roll
    <2> QED BY <1>1, <1>2, <2>1, <2>2 DEF Roll, PassInv, UsersPart
  <1> QED BY <1>3, <1>4

\* A roll that leaves is one the user has not changed since the pass began.
LEMMA SavesEnds ==
  ASSUME TypeOK, PassInv, Saves, roll' = None
  PROVE  pass.before = wish
  <1>1. pass # None /\ roll \in Roll /\ pass.roll \in Roll
    BY DEF Saves, At, TypeOK, Data, PassInv, Pass
  <1>2. CASE Drops /\ Edited
    BY <1>1, <1>2, NothingAssumption DEF Saves
  <1>3. CASE Drops /\ ~Edited
    BY <1>1, <1>3 DEF Edited, PassInv
  <1>4. CASE ~Drops
    <2>1. roll' = [pass.roll EXCEPT
                     !.ahead = roll.ahead, !.delete = roll.delete,
                     !.until = roll.until, !.released = roll.released]
      BY <1>4 DEF Saves
    <2>2. roll' \in Roll
      BY <1>1, <2>1, Zenon DEF Roll
    <2> QED BY <2>2, NothingAssumption
  <1> QED BY <1>2, <1>3, <1>4

\* A save loses nothing a pass found, unless it is torn.
LEMMA SavesKeep ==
  ASSUME RInv, Saves
  PROVE  Data' /\ PassInv' /\ WatchedInv' /\ GoneInv' /\ SinglesInv'
  <1>1. /\ UNCHANGED <<wish, read, kicks, client, completed, old, fresh,
                       erased, faulted, left>>
        /\ torn => torn'
    BY DEF Saves
  <1> USE <1>1, SavesRoll, NothingAssumption DEF RInv, TypeOK, client
  <1>2. Data'
    BY DEF Data
  <1>3. PassInv'
    BY DEF PassInv
  <1>4. WatchedInv'
    BY DEF WatchedInv, OnlyWatchedErased
  <1>5. GoneInv'
    BY DEF GoneInv, Current, PassInv
  <1>6. SinglesInv'
    <2>1. Reported' \subseteq Reported
      BY DEF Reported
    <2> QED BY <2>1 DEF SinglesInv, Current, PassInv, Reported
  <1> QED BY <1>2, <1>3, <1>4, <1>5, <1>6

\* A pass that ends unsaved leaves the roll as it was.
LEMMA EndsKeep ==
  ASSUME RInv, SaveFails \/ End \/ KickFails \/ BurstEnds
  PROVE  Data' /\ PassInv' /\ WatchedInv' /\ GoneInv' /\ SinglesInv'
  <1>1. /\ UNCHANGED <<store, client, completed, old, fresh, erased>>
        /\ left' \in Allowance /\ left'.batch = left.batch
    BY Spends DEF RInv, TypeOK, Data, SaveFails, End, KickFails, BurstEnds,
           history
  <1>2. /\ pass' = None \/ pass' = pass
        /\ read' = read \/ read' = <<>>
        /\ torn => torn'
        /\ pass' # pass => torn'
    <2>1. CASE SaveFails
      BY <2>1 DEF SaveFails
    <2>2. CASE End
      BY <2>2 DEF End
    <2>3. CASE KickFails \/ BurstEnds
      <3>1. UNCHANGED <<read, pass, torn>>
        BY <2>3 DEF KickFails, BurstEnds, history
      <3> QED BY <3>1, Zenon
    <2> QED BY <2>1, <2>2, <2>3
  <1> USE <1>1, <1>2, NothingAssumption DEF RInv, TypeOK, store, client
  <1>3. Data'
    <2>1. \E waiting \in SUBSET Reader : read' \in [waiting -> SUBSET Parts]
      <3>1. <<>> \in [{} -> SUBSET Parts]
        OBVIOUS
      <3> QED BY <3>1 DEF Data
    <2> QED BY <2>1 DEF Data
  <1>4. PassInv' /\ WatchedInv'
    BY DEF PassInv, WatchedInv, OnlyWatchedErased, Behind
  <1>5. GoneInv'
    BY DEF GoneInv, Current
  <1>6. SinglesInv'
    <2>1. Reported' \subseteq Reported
      BY DEF Reported
    <2> QED BY <2>1 DEF SinglesInv, Current, Reported
  <1> QED BY <1>3, <1>4, <1>5, <1>6

-----------------------------------------------------------------------------
(* What a pass does to the client and the disk                             *)

ClientData ==
  /\ handed \cup listed \cup fresh \subseteq Parts
  /\ prio \in [Ep -> Prio]
  /\ have \cup disk \cup erased \subseteq Ep

\* The rest of what a step must keep, once its own record is known to.
Effects == ClientData' /\ OnlyWatchedErased' /\ GoneInv' /\ SinglesInv'

\* A pass knows no less than before, of the same list of torrents.
LEMMA PassKnows ==
  ASSUME RInv, PassStep
  PROVE  /\ Goes
         /\ UNCHANGED <<store, readers, completed, old, torn>>
         /\ left'.batch = left.batch
         /\ roll # None /\ pass.roll.batch = left.batch
         /\ Current = pass.roll /\ Current' = pass'.roll
         /\ listed' \subseteq listed => Reported' \subseteq Reported
  <1>1. /\ Goes /\ UNCHANGED <<store, readers, completed, old, torn>>
        /\ left'.batch = left.batch
    BY PassStepSpares DEF RInv
  <1>2. pass # None /\ pass' # None /\ pass'.torrents = pass.torrents
    BY <1>1 DEF Goes
  <1>3. roll # None /\ pass.roll.batch = left.batch
    BY <1>2 DEF RInv, PassInv
  <1>4. Current = pass.roll /\ Current' = pass'.roll
    BY <1>2 DEF Current
  <1>5. read' = read
    BY <1>1 DEF readers, kicks
  <1>6. listed' \subseteq listed => Reported' \subseteq Reported
    BY <1>2, <1>5 DEF Reported
  <1> QED BY <1>1, <1>3, <1>4, <1>6

\* A step of the pass that leaves the client and the disk alone.
LEMMA SparesEffects ==
  ASSUME RInv, PassStep, have' \subseteq have,
         UNCHANGED <<handed, listed, prio, disk, fresh, erased>>
  PROVE  Effects
  <1>1. ClientData'
    BY DEF RInv, TypeOK, Data, ClientData
  <1>2. OnlyWatchedErased'
    BY PassKnows DEF RInv, WatchedInv, OnlyWatchedErased
  <1>3. GoneInv'
    BY PassKnows DEF RInv, GoneInv, Goes, store
  <1>4. SinglesInv'
    BY PassKnows DEF RInv, SinglesInv, Goes, store
  <1> QED BY <1>1, <1>2, <1>3, <1>4 DEF Effects

\* A file the roll deleted stays skipped.
LEMMA SetsEffects ==
  ASSUME RInv, PassStep, NEW refused \in SUBSET Prio, Acts(refused), pass.files
  PROVE  Effects
  <1>1. /\ UNCHANGED <<handed, fresh, listed, have, disk, erased>>
        /\ SetsPriorities(refused)
    <2>1. SetsPriorities(refused) /\ UNCHANGED <<listed, have, disk, erased>>
      BY DEF Acts
    <2>2. UNCHANGED <<handed, fresh>>
      BY <2>1, Zenon DEF SetsPriorities
    <2> QED BY <2>1, <2>2
  <1>2. /\ DOMAIN prio' = Ep
        /\ \A e \in Ep : prio'[e] \in {prio[e], Wish(pass.roll, e)}
        /\ prio' = [e \in Ep |-> prio'[e]]
    BY <1>1, Zenon DEF SetsPriorities
  <1>3. \A e \in Ep : Wish(pass.roll, e) \in Prio
    BY DEF Wish, Prio
  <1>4. ClientData'
    <2>1. prio \in [Ep -> Prio]
      BY DEF RInv, TypeOK, Data
    <2>2. \A e \in Ep : prio'[e] \in Prio
      BY <1>2, <1>3, <2>1
    <2>3. prio' \in [Ep -> Prio]
      BY <1>2, <2>2
    <2> QED BY <1>1, <2>3 DEF RInv, TypeOK, Data, ClientData
  <1>5. OnlyWatchedErased'
    BY <1>1, PassKnows DEF RInv, WatchedInv, OnlyWatchedErased
  <1>6. GoneInv'
    <2>1. SUFFICES ASSUME ~torn
                   PROVE  left.batch => \A e \in erased : prio'[e] = "skip"
      BY <1>1, PassKnows DEF RInv, GoneInv, Goes, store
    <2>2. SUFFICES ASSUME left.batch, NEW e \in erased PROVE prio'[e] = "skip"
      OBVIOUS
    <2>3. e \in pass.roll.gone /\ prio[e] = "skip" /\ e \in Ep
      BY <2>1, <2>2, PassKnows DEF RInv, GoneInv, TypeOK, Data
    <2>4. Wish(pass.roll, e) = "skip"
      BY <2>3 DEF Wish
    <2> QED BY <1>2, <2>3, <2>4
  <1>7. SinglesInv'
    BY <1>1, PassKnows DEF RInv, SinglesInv, Goes, store
  <1> QED BY <1>4, <1>5, <1>6, <1>7 DEF Effects

\* A single is added once, and not again when its file is gone.
LEMMA AddsEffects ==
  ASSUME RInv, PassStep, NEW refused \in SUBSET Prio, Acts(refused), ~pass.files
  PROVE  Effects
  <1> DEFINE more == ToAdd(pass.roll)
  <1>1. /\ UNCHANGED <<listed, have, disk, erased, prio>>
        /\ handed' = handed \cup (more \ listed)
        /\ fresh' = fresh \cup more
        /\ pass' = [Moving EXCEPT
                      !.roll.added = @ \cup more,
                      !.drop = Freed(pass.roll,
                                     ~pass.roll.batch \/ Whole \in pass.roll.left)]
    BY DEF Acts, AddsHeld
  <1>2. /\ more \subseteq Ep
        /\ more \cap (pass.roll.gone \cup pass.roll.added) = {}
    BY DEF ToAdd, Held, Known
  <1>3. ClientData'
    BY <1>1, <1>2 DEF RInv, TypeOK, Data, ClientData, Parts
  <1>4. OnlyWatchedErased'
    BY <1>1, PassKnows DEF RInv, WatchedInv, OnlyWatchedErased
  <1>5. GoneInv'
    BY <1>1, PassKnows DEF RInv, GoneInv, Goes, store
  <1>6. pass'.roll.added = pass.roll.added \cup more
    <2>1. pass \in Pass /\ pass.roll \in Roll
      BY PassKnows DEF Goes, RInv, TypeOK, Data, Pass
    <2> HIDE DEF more
    <2> QED BY <1>1, <2>1 DEF Moving, Pass, Roll
  <1>7. SinglesInv'
    <2>1. SUFFICES ASSUME ~torn, ~left.batch
                   PROVE  /\ handed' \cup Reported \subseteq pass'.roll.added
                          /\ handed' \cap Reported = {}
                          /\ erased \cap (handed' \cup listed) = {}
      BY <1>1, PassKnows DEF SinglesInv, store
    <2>2. /\ handed \cup Reported \subseteq pass.roll.added
          /\ handed \cap Reported = {}
          /\ erased \cap (handed \cup listed) = {}
          /\ erased \subseteq pass.roll.gone
      BY <2>1, PassKnows DEF RInv, SinglesInv, GoneInv
    <2> HIDE DEF more
    <2> QED BY <1>1, <1>2, <1>6, <2>2
  <1> QED BY <1>3, <1>4, <1>5, <1>7 DEF Effects

\* A watched single leaves the client with its file, if the client still has
\* it; it was not on its way.
LEMMA ErasesSingleEffects ==
  ASSUME RInv, PassStep, NEW e \in Ep, ErasesSingle(e), UNCHANGED fresh
  PROVE  Effects
  <1> DEFINE deleted == listed \cap {e}
  <1>1. /\ UNCHANGED <<handed, prio>>
        /\ listed' = listed \ deleted /\ have' = have \ deleted
        /\ disk' = disk \ deleted /\ erased' = erased \cup deleted
        /\ e \in pass.erase /\ e \in pass.torrents /\ ~pass.roll.batch
    BY DEF ErasesSingle, Erasing, Here
  <1>2. pass # None /\ pass' # None
    BY PassKnows DEF Goes
  <1>3. e \in pass'.roll.gone
    BY <1>2, ErasesGoes DEF RInv
  <1>4. ClientData'
    BY <1>1 DEF RInv, TypeOK, Data, ClientData
  <1>5. OnlyWatchedErased'
    BY <1>1, <1>2, PassKnows DEF RInv, WatchedInv, OnlyWatchedErased, Behind
  <1>6. ~left.batch
    BY <1>1, PassKnows
  <1>7. GoneInv'
    <2>1. SUFFICES ASSUME ~torn
                   PROVE  /\ erased' \cap disk' = {}
                          /\ erased' \subseteq pass'.roll.gone
      BY <1>6, PassKnows DEF GoneInv, store
    <2>2. erased \cap disk = {} /\ erased \subseteq pass'.roll.gone
      BY <2>1, PassKnows DEF RInv, GoneInv, Goes
    <2> QED BY <1>1, <1>3, <2>2
  <1>8. SinglesInv'
    <2>1. SUFFICES ASSUME ~torn
                   PROVE  /\ handed \cup Reported \subseteq pass'.roll.added
                          /\ handed \cap Reported = {}
                          /\ erased' \cap (handed \cup listed') = {}
      BY <1>1, PassKnows DEF SinglesInv, store
    <2>2. /\ handed \cup Reported \subseteq pass.roll.added
          /\ handed \cap Reported = {}
          /\ erased \cap (handed \cup listed) = {}
      BY <1>6, <2>1, PassKnows DEF RInv, SinglesInv
    <2>3. e \in Reported
      BY <1>1, <1>2 DEF Reported
    <2> QED BY <1>1, <2>2, <2>3, PassKnows DEF Goes
  <1> QED BY <1>4, <1>5, <1>7, <1>8 DEF Effects

\* A file of a batch leaves the disk once the client skips it.
LEMMA ErasesFileEffects ==
  ASSUME RInv, PassStep, NEW e \in Ep, ErasesFile(e), UNCHANGED fresh
  PROVE  Effects
  <1>1. /\ UNCHANGED <<handed, listed, prio, have>>
        /\ disk' = disk \ {e}
        /\ erased' = erased \cup (disk \cap {e})
        /\ e \in pass.erase /\ prio[e] = "skip" /\ pass.roll.batch
    BY DEF ErasesFile, Erasing, Erasable
  <1>2. pass # None /\ pass' # None
    BY PassKnows DEF Goes
  <1>3. e \in pass'.roll.gone
    BY <1>2, ErasesGoes DEF RInv
  <1>4. ClientData'
    BY <1>1 DEF RInv, TypeOK, Data, ClientData
  <1>5. OnlyWatchedErased'
    BY <1>1, <1>2, PassKnows DEF RInv, WatchedInv, OnlyWatchedErased, Behind
  <1>6. left.batch
    BY <1>1, PassKnows
  <1>7. GoneInv'
    <2>1. SUFFICES ASSUME ~torn
                   PROVE  /\ erased' \cap disk' = {}
                          /\ erased' \subseteq pass'.roll.gone
                          /\ \A f \in erased' : prio'[f] = "skip"
      BY PassKnows DEF GoneInv, store
    <2>2. /\ erased \cap disk = {} /\ erased \subseteq pass'.roll.gone
          /\ \A f \in erased : prio[f] = "skip"
      BY <1>6, <2>1, PassKnows DEF RInv, GoneInv, Goes
    <2> QED BY <1>1, <1>3, <2>2
  <1>8. SinglesInv'
    BY <1>6, PassKnows DEF SinglesInv
  <1> QED BY <1>4, <1>5, <1>7, <1>8 DEF Effects

\* Every step of a pass keeps the invariant.
LEMMA PassKeeps ==
  ASSUME RInv, PassStep
  PROVE  Data' /\ PassInv' /\ WatchedInv' /\ GoneInv' /\ SinglesInv'
  <1>1. Effects
    <2>1. CASE \E rows \in SUBSET (completed \ disk) :
                 SurveysWell(rows) \/ SurveysBlind(rows)
      BY <2>1, SparesEffects
      DEF SurveysWell, SurveysBlind, Faulting, Surveys, client
    <2>2. CASE ActsWell \/ SomeRefused
      <3>1. PICK refused \in SUBSET Prio : Acts(refused)
        BY <2>2 DEF ActsWell, SomeRefused, Faulting
      <3> QED BY <3>1, SetsEffects, AddsEffects
    <2>3. CASE AddFails
      BY <2>3, SparesEffects DEF AddFails, client
    <2>4. CASE Erases \/ ErasesNot
      <3>1. PICK e \in Ep :
              ErasesSingle(e) \/ ErasesFile(e) \/ Leaves(e) \/ EraseFails(e)
        BY <2>4 DEF Erases, ErasesNot, Faulting
      <3>2. UNCHANGED fresh
        BY <2>4 DEF Erases, ErasesNot
      <3>3. CASE Leaves(e) \/ EraseFails(e)
        BY <3>2, <3>3, SparesEffects DEF Leaves, EraseFails, client
      <3> QED BY <3>1, <3>2, <3>3, ErasesSingleEffects, ErasesFileEffects
    <2>5. CASE Rechecks \/ RecheckFails
      <3>1. PICK works \in BOOLEAN : Rechecked(works)
        BY <2>5 DEF Rechecks, RecheckFails, Faulting
      <3> QED BY <3>1, SparesEffects DEF Rechecked
    <2> QED BY <2>1, <2>2, <2>3, <2>4, <2>5 DEF PassStep
  <1>2. Data'
    BY <1>1, PassStepSpares
    DEF Effects, ClientData, Data, Goes, store, readers, kicks, RInv, TypeOK
  <1>3. PassInv'
    BY PassKnows DEF PassInv, Goes, store, RInv
  <1>4. WatchedInv'
    BY <1>1, PassStepSpares
    DEF Effects, WatchedInv, RInv, store, Behind
  <1> QED BY <1>1, <1>2, <1>3, <1>4 DEF Effects

-----------------------------------------------------------------------------
(* The client, the user and time                                           *)

\* An edit changes what the user sets and nothing a pass found.
LEMMA EditsRoll ==
  ASSUME TypeOK, PassInv, (roll # None /\ SetsOne) \/ RollMore(1)
  PROVE  /\ roll # None /\ roll' \in Roll /\ wish' = UsersPart(roll')
         /\ roll'.batch = roll.batch /\ roll'.added = roll.added
         /\ roll'.watched = roll.watched /\ roll'.gone = roll.gone
         /\ roll'.seen = roll.seen /\ roll'.left = roll.left
         /\ roll'.over = roll.over /\ roll'.counted = roll.counted
         /\ asked' /\ Spend("edits")
         /\ UNCHANGED <<read, bursting, pass, client, completed, old, fresh,
                        history>>
  <1>1. roll # None /\ roll \in Roll
    BY DEF RollMore, TypeOK, Data
  <1>2. PICK r \in {roll'} :
          /\ Edits(r)
          /\ \/ r = More(roll, 1)
             \/ \E ahead \in Nat, delete \in BOOLEAN, released \in BOOLEAN :
                  r = [roll EXCEPT !.ahead = ahead, !.delete = delete,
                                   !.released = released]
    <2>1. CASE SetsOne
      <3>1. PICK ahead \in Nat, delete \in BOOLEAN, release \in BOOLEAN :
              SetRoll(ahead, delete, release)
        <4>1. roll.ahead \in Nat /\ roll.delete \in BOOLEAN
              /\ (~roll.delete) \in BOOLEAN
          BY <1>1 DEF Roll
        <4> QED BY <2>1, <4>1 DEF SetsOne
      <3>2. (roll.released \/ release) \in BOOLEAN
        OBVIOUS
      <3> QED BY <3>1, <3>2 DEF SetRoll, Edits
    <2>2. CASE RollMore(1)
      BY <2>2 DEF RollMore, Edits
    <2> QED BY <2>1, <2>2
  <1>3. /\ roll' \in Roll
        /\ roll'.batch = roll.batch /\ roll'.added = roll.added
        /\ roll'.watched = roll.watched /\ roll'.gone = roll.gone
        /\ roll'.seen = roll.seen /\ roll'.left = roll.left
        /\ roll'.over = roll.over /\ roll'.counted = roll.counted
    <2>1. CASE r = More(roll, 1)
      <3>1. Smaller(Count, Reach(roll) + 1) \in {None} \cup Ep
        BY <1>1, ReachTypes, WindowAssumption DEF Smaller, Ep
      <3>2. roll' = roll
            \/ roll' = [roll EXCEPT !.until = Smaller(Count, Reach(roll) + 1)]
        BY <1>2, <2>1 DEF More
      <3> HIDE DEF Smaller
      <3> QED BY <1>1, <3>1, <3>2 DEF Roll
    <2>2. CASE \E ahead \in Nat, delete \in BOOLEAN, released \in BOOLEAN :
                  r = [roll EXCEPT !.ahead = ahead, !.delete = delete,
                                   !.released = released]
      <3>1. PICK ahead \in Nat, delete \in BOOLEAN, released \in BOOLEAN :
              roll' = [roll EXCEPT !.ahead = ahead, !.delete = delete,
                                   !.released = released]
        BY <1>2, <2>2
      <3>2. roll' \in Roll
        BY <1>1, <3>1, Zenon DEF Roll
      <3> QED BY <1>1, <3>1, <3>2 DEF Roll
    <2> QED BY <1>2, <2>1, <2>2
  <1> QED BY <1>1, <1>2, <1>3 DEF Edits

\* So does every step of the client, the user and time.
LEMMA WorldKeeps ==
  ASSUME RInv, User \/ Client \/ Ages
  PROVE  Data' /\ PassInv' /\ WatchedInv' /\ GoneInv' /\ SinglesInv'
  <1> USE DEF RInv, TypeOK
  <1>1. ASSUME NEW e \in Ep, Watches(e)
        PROVE  Data' /\ PassInv' /\ WatchedInv' /\ GoneInv' /\ SinglesInv'
    <2>1. /\ UNCHANGED <<store, read, pass, client, fresh, history>>
          /\ completed' = completed \cup {e}
      BY <1>1 DEF Watches
    <2>2. left' \in Allowance /\ left'.batch = left.batch
      BY <1>1, Spends DEF Watches, Data
    <2> QED BY <2>1, <2>2
            DEF Data, PassInv, WatchedInv, OnlyWatchedErased, Behind, GoneInv,
                SinglesInv, Reported, Current, store, client, history
  <1>2. ASSUME (roll # None /\ SetsOne) \/ RollMore(1)
        PROVE  Data' /\ PassInv' /\ WatchedInv' /\ GoneInv' /\ SinglesInv'
    <2>1. /\ UNCHANGED <<read, pass, client, completed, fresh, history>>
          /\ roll # None /\ roll' \in Roll /\ wish' = UsersPart(roll')
          /\ roll'.batch = roll.batch /\ roll'.added = roll.added
          /\ roll'.watched = roll.watched /\ roll'.gone = roll.gone
      BY <1>2, EditsRoll
    <2>2. left' \in Allowance /\ left'.batch = left.batch
      BY <1>2, EditsRoll, Spends DEF Data
    <2>3. roll' # None
      BY <2>1, NothingAssumption
    <2> USE <2>1, <2>2, <2>3 DEF client, history
    <2>4. Data'
      BY DEF Data
    <2>5. PassInv' /\ WatchedInv'
      BY DEF PassInv, WatchedInv, OnlyWatchedErased, Behind
    <2>6. GoneInv' /\ SinglesInv'
      BY DEF GoneInv, SinglesInv, Reported, Current
    <2> QED BY <2>4, <2>5, <2>6
  <1>3. ASSUME NEW p \in Parts, Removes(p)
        PROVE  Data' /\ PassInv' /\ WatchedInv' /\ GoneInv' /\ SinglesInv'
    <2>1. /\ UNCHANGED <<store, read, pass, handed, prio, have, disk, completed,
                         fresh, history>>
          /\ listed' = listed \ {p}
      BY <1>3 DEF Removes, readers, kicks
    <2>2. left' \in Allowance /\ left'.batch = left.batch
      BY <1>3, Spends DEF Removes, Data
    <2>3. Reported' \subseteq Reported
      BY <2>1 DEF Reported
    <2> QED BY <2>1, <2>2, <2>3
            DEF Data, PassInv, WatchedInv, OnlyWatchedErased, Behind, GoneInv,
                SinglesInv, Current, store, history
  <1>4. ASSUME Ages
        PROVE  Data' /\ PassInv' /\ WatchedInv' /\ GoneInv' /\ SinglesInv'
    <2>1. /\ UNCHANGED <<store, read, pass, client, completed, history>>
          /\ fresh' = {}
      BY <1>4 DEF Ages, readers, kicks
    <2>2. left' \in Allowance /\ left'.batch = left.batch
      BY <1>4, Spends DEF Ages, Data
    <2> QED BY <2>1, <2>2
            DEF Data, PassInv, WatchedInv, OnlyWatchedErased, Behind, GoneInv,
                SinglesInv, Reported, Current, store, client, history
  <1>5. ASSUME NEW p \in Parts, Lists(p)
        PROVE  Data' /\ PassInv' /\ WatchedInv' /\ GoneInv' /\ SinglesInv'
    <2>1. /\ UNCHANGED <<store, read, pass, prio, have, disk, completed, fresh,
                         history, left>>
          /\ p \in handed /\ handed' = handed \ {p}
          /\ listed' = listed \cup {p}
      BY <1>5 DEF Lists, readers, kicks
    <2>2. Data' /\ PassInv' /\ WatchedInv' /\ GoneInv'
      BY <2>1 DEF Data, PassInv, WatchedInv, OnlyWatchedErased, Behind, GoneInv,
                  Current, store, history
    <2>3. Reported' = Reported \cup {p} /\ Current' = Current
      BY <2>1 DEF Reported, Current, store
    <2>4. SinglesInv'
      BY <2>1, <2>3 DEF SinglesInv, store, history
    <2> QED BY <2>2, <2>4
  <1>6. ASSUME NEW e \in Ep, Fetches(e)
        PROVE  Data' /\ PassInv' /\ WatchedInv' /\ GoneInv' /\ SinglesInv'
    <2>1. /\ UNCHANGED <<store, read, pass, handed, listed, prio, completed,
                         fresh, history, left>>
          /\ Part(e) \in listed /\ left.batch => prio[e] # "skip"
          /\ have' = have \cup {e} /\ disk' = disk \cup {e}
      BY <1>6 DEF Fetches, readers, kicks
    <2>2. Data' /\ PassInv' /\ WatchedInv' /\ SinglesInv'
      BY <2>1 DEF Data, PassInv, WatchedInv, OnlyWatchedErased, Behind,
                  SinglesInv, Reported, Current, store, history
    <2>3. ~torn => e \notin erased
      BY <1>6 DEF GoneInv, SinglesInv, Fetches, Part
    <2>4. GoneInv'
      BY <2>1, <2>3 DEF GoneInv, Current, store, history
    <2> QED BY <2>2, <2>4
  <1> QED BY <1>1, <1>2, <1>3, <1>4, <1>5, <1>6 DEF User, Client

\* The invariant is inductive.
LEMMA RollingStep ==
  ASSUME RInv, [Next]_vars
  PROVE  RInv'
  <1>1. Flags'
    BY StepFlags DEF RInv
  <1>2. Data' /\ PassInv' /\ WatchedInv' /\ GoneInv' /\ SinglesInv'
    <2>1. CASE UNCHANGED vars
      BY <2>1 DEF RInv, TypeOK, Data, PassInv, WatchedInv, OnlyWatchedErased,
          Behind, GoneInv, SinglesInv, Reported, Current,
          vars, store, readers, kicks, client, history
    <2>2. CASE Reading
      BY <2>2, ReadsKeep, TakesPassKeeps DEF Reading
    <2>3. CASE PassStep
      BY <2>3, PassKeeps
    <2>4. CASE Saves
      BY <2>4, SavesKeep
    <2>5. CASE SaveFails \/ End \/ KickFails \/ BurstEnds
      BY <2>5, EndsKeep
    <2>6. CASE User \/ Client \/ Ages
      BY <2>6, WorldKeeps
    <2> QED BY <2>1, <2>2, <2>3, <2>4, <2>5, <2>6
            DEF Next, Passing, Surveying, Faults, PassStep
  <1> QED BY <1>1, <1>2 DEF RInv, TypeOK

\* What holds throughout: the invariant the theorems below rest on.
LEMMA RollingInvariant == Spec => []RInv
  <1>1. RInv /\ [Next]_vars => RInv'
    BY RollingStep
  <1> QED BY <1>1, RollingInit, PTL DEF Spec

\* A pass takes off the disk what was watched, behind the episodes kept, and
\* the client does not fetch it again, unless a save of a pass was lost.
THEOREM RollingErasesRight == Spec => []ErasesRight
  <1>1. RInv => ErasesRight
    BY DEF RInv, WatchedInv, GoneInv, ErasesRight, ErasedStays
  <1> QED BY <1>1, RollingInvariant, PTL

\* A step stores what the user last set, and only a pass that saw it ends the
\* roll.
LEMMA EditsStandStep ==
  ASSUME RInv, RInv', [Next]_vars
  PROVE  /\ roll' # None => UsersPart(roll') = wish'
         /\ roll # None /\ roll' = None => pass.before = wish
  <1>1. roll' # None => UsersPart(roll') = wish'
    BY DEF RInv, PassInv
  <1>2. ASSUME roll # None, roll' = None
        PROVE  pass.before = wish
    <2>1. CASE UNCHANGED store
      BY <1>2, <2>1 DEF store
    <2>2. CASE Saves
      BY <1>2, <2>2, SavesEnds DEF RInv
    <2>3. CASE (roll # None /\ SetsOne) \/ RollMore(1)
      BY <1>2, <2>3, EditsRoll, NothingAssumption DEF RInv
    <2>4. UNCHANGED store \/ Saves \/ (roll # None /\ SetsOne) \/ RollMore(1)
      <3>1. CASE PassStep
        BY <3>1, PassKnows
      <3>2. CASE Reading
        BY <3>2 DEF Reading, Reads, TakesPass
      <3>3. CASE SaveFails \/ End \/ KickFails \/ BurstEnds
        BY <3>3 DEF SaveFails, End, KickFails, BurstEnds
      <3>4. CASE User \/ Client \/ Ages
        BY <3>4 DEF User, Watches, Removes, Client, Lists, Fetches, Ages
      <3> QED BY <3>1, <3>2, <3>3, <3>4
              DEF Next, Passing, Surveying, Faults, PassStep, vars
    <2> QED BY <2>1, <2>2, <2>3, <2>4
  <1> QED BY <1>1, <1>2

\* Nothing the passes do undoes what the user set, whatever the order of edits,
\* passes, failed saves and restarts.
THEOREM RollingEditsStand == Spec => EditsStand
  <1>1. RInv /\ RInv' /\ [Next]_vars =>
          [/\ roll' # None => UsersPart(roll') = wish'
           /\ roll # None /\ roll' = None => pass.before = wish]_vars
    BY EditsStandStep
  <1> QED BY <1>1, RollingInvariant, PTL DEF Spec, EditsStand

-----------------------------------------------------------------------------
(* A released roll leaves with nothing held back                            *)

\* A record as passes leave it: what left or was seen was added, what was
\* watched was seen, and only a batch waits to be counted and judged.
Record(r) ==
  /\ r.left \subseteq r.added /\ r.seen \subseteq r.added
  /\ \A e \in r.watched : PartOf(r, e) \in r.seen
  /\ r.over \in {None, left.over}
  /\ r.batch => r.added = {Whole} /\ (r.counted => Whole \in r.seen)
  /\ ~r.batch => r.counted /\ r.over = None

\* The pass works on a list that has every torrent its copy takes for present.
PassRecord ==
  /\ Record(pass.roll)
  /\ UsersPart(pass.roll) = pass.before
  /\ ~pass.roll.batch => pass.erase \subseteq pass.roll.added
  /\ pass.files => pass.roll.batch /\ Whole \in pass.torrents
  /\ pass.at # "surveys" =>
       pass.roll.seen \ pass.roll.left \subseteq pass.torrents
  /\ pass.at \in {"surveys", "saves"} => pass.erase = {}
  /\ pass.at = "acts" => pass.erase = ToErase(pass.roll)
  /\ pass.at \in {"surveys", "acts"} => ~pass.drop

RecordInv ==
  /\ roll # None => Record(roll)
  /\ pass # None => PassRecord

\* A batch too small to roll: every pass ends at once.
Small == left.batch /\ left.over # None /\ Count <= left.over

\* Nothing of the roll is held back.
FreeNow(r) ==
  \A e \in Ep :
    \/ e \in r.watched \cup r.gone
    \/ IF r.batch THEN Whole \in r.left \/ prio[e] # "skip" ELSE e \in r.added

FreeInv ==
  /\ Small =>
       /\ \A e \in Ep : prio[e] # "skip"
       /\ roll # None => roll.over = left.over
       /\ pass # None =>
            pass.roll.over = left.over /\ pass.at \in {"surveys", "saves"}
  /\ pass # None /\ pass.drop => Small \/ FreeNow(pass.roll)

FInv == RInv /\ RecordInv /\ FreeInv

\* What a pass finds: the parts in its list are seen, the ones that were and
\* are not have left; the rest follows from the count.
SeenBy ==
  pass.roll.seen \cup
    ((pass.roll.added \ pass.roll.left) \cap pass.torrents)
LeftBy ==
  pass.roll.left \cup
    (((pass.roll.added \ pass.roll.left) \cap pass.roll.seen) \ pass.torrents)

\* A survey field by field: a roll not yet judged, or small, goes to its end.
LEMMA SurveyFinds ==
  ASSUME TypeOK, pass # None, NEW files \in BOOLEAN,
         NEW rows \in SUBSET completed, Surveys(files, rows)
  PROVE  /\ pass.at = "surveys"
         /\ pass'.torrents = pass.torrents /\ pass'.before = pass.before
         /\ UsersPart(pass'.roll) = UsersPart(pass.roll)
         /\ pass'.roll.batch = pass.roll.batch
         /\ pass'.roll.added = pass.roll.added
         /\ pass'.roll.gone = pass.roll.gone
         /\ pass'.roll.seen = SeenBy /\ pass'.roll.left = LeftBy
         /\ pass'.roll.counted = (pass.roll.counted \/ files)
         /\ \/ /\ pass'.at = "saves" /\ pass'.erase = pass.erase
               /\ pass'.roll.over = pass.roll.over /\ pass.roll.over # None
               /\ pass'.roll.watched = pass.roll.watched
               /\ pass'.files = pass.files
               /\ pass'.drop =
                    (pass'.roll.counted /\ Count <= pass.roll.over)
               /\ ~pass'.drop => ~pass'.roll.counted
            \/ /\ pass'.at = "acts" /\ pass'.erase = ToErase(pass'.roll)
               /\ pass'.roll.over = None
               /\ \/ pass.roll.over = None
                  \/ pass'.roll.counted /\ ~(Count <= pass.roll.over)
               /\ pass'.roll.watched =
                    pass.roll.watched \cup Watched(pass'.roll, files, rows)
               /\ pass'.files = files
               /\ pass'.drop = pass.drop
  <1> DEFINE r == pass.roll
             found == Found(r, files)
             small == found.counted /\ found.over # None /\ Count <= found.over
             judged == Judged(found)
             seen == [judged EXCEPT !.watched =
                        @ \cup Watched(judged, files, rows)]
  <1>1. pass \in Pass /\ r \in Roll
    BY DEF TypeOK, Data, Pass
  <1>2. found = [r EXCEPT !.seen = SeenBy, !.left = LeftBy,
                          !.counted = r.counted \/ files]
    BY <1>1 DEF Found, SeenBy, LeftBy, Roll
  <1>3. /\ found.batch = r.batch /\ found.added = r.added
        /\ found.gone = r.gone /\ found.watched = r.watched
        /\ found.over = r.over
        /\ found.ahead = r.ahead /\ found.delete = r.delete
        /\ found.until = r.until /\ found.released = r.released
        /\ found.seen = SeenBy /\ found.left = LeftBy
        /\ found.counted = (r.counted \/ files)
        /\ DOMAIN found = DOMAIN r
    BY <1>1, <1>2 DEF Roll
  <1> HIDE DEF found
  <1>4. /\ judged.batch = r.batch /\ judged.added = r.added
        /\ judged.gone = r.gone /\ judged.watched = r.watched
        /\ judged.over = IF found.counted THEN None ELSE r.over
        /\ judged.ahead = r.ahead /\ judged.delete = r.delete
        /\ judged.until = r.until /\ judged.released = r.released
        /\ judged.seen = SeenBy /\ judged.left = LeftBy
        /\ judged.counted = (r.counted \/ files)
        /\ DOMAIN judged = DOMAIN r
    BY <1>1, <1>3 DEF Judged, Roll
  <1> HIDE DEF judged
  <1>5. /\ seen.batch = r.batch /\ seen.added = r.added
        /\ seen.gone = r.gone
        /\ seen.watched = r.watched \cup Watched(judged, files, rows)
        /\ seen.over = judged.over
        /\ seen.ahead = r.ahead /\ seen.delete = r.delete
        /\ seen.until = r.until /\ seen.released = r.released
        /\ seen.seen = SeenBy /\ seen.left = LeftBy
        /\ seen.counted = (r.counted \/ files)
    BY <1>1, <1>4 DEF Roll
  <1> HIDE DEF seen
  <1>6. Watched(judged, files, rows) = Watched(seen, files, rows)
    BY <1>4, <1>5 DEF Watched, Known, PartOf
  <1>7. IF small \/ judged.over # None
          THEN pass' = [pass EXCEPT !.at = "saves", !.roll = found,
                                    !.drop = small]
          ELSE pass' = [pass EXCEPT !.at = "acts", !.roll = seen,
                                    !.files = files, !.erase = ToErase(seen)]
    BY DEF Surveys, found, judged, seen
  <1>8. pass.at = "surveys"
    BY DEF Surveys, At
  <1>9. CASE small \/ judged.over # None
    <2>1. pass' = [pass EXCEPT !.at = "saves", !.roll = found, !.drop = small]
      BY <1>7, <1>9
    <2>2. /\ pass'.roll = found /\ pass'.at = "saves"
          /\ pass'.drop = small /\ pass'.erase = pass.erase
          /\ pass'.files = pass.files
          /\ pass'.torrents = pass.torrents /\ pass'.before = pass.before
      BY <1>1, <2>1 DEF Pass
    <2>3. r.over # None
      BY <1>3, <1>4, <1>9
    <2>4. pass'.drop = (pass'.roll.counted /\ Count <= pass.roll.over)
      BY <1>3, <2>2, <2>3
    <2>5. ~pass'.drop => ~pass'.roll.counted
      BY <1>3, <1>4, <1>9, <2>2
    <2>6. UsersPart(pass'.roll) = UsersPart(pass.roll)
      BY <1>3, <2>2 DEF UsersPart
    <2> HIDE DEF small
    <2> QED BY <1>3, <1>8, <2>2, <2>3, <2>4, <2>5, <2>6
  <1>10. CASE ~(small \/ judged.over # None)
    <2>1. pass' = [pass EXCEPT !.at = "acts", !.roll = seen, !.files = files,
                               !.erase = ToErase(seen)]
      BY <1>7, <1>10
    <2>2. /\ pass'.roll = seen /\ pass'.at = "acts"
          /\ pass'.drop = pass.drop /\ pass'.erase = ToErase(seen)
          /\ pass'.files = files
          /\ pass'.torrents = pass.torrents /\ pass'.before = pass.before
      BY <1>1, <2>1 DEF Pass
    <2>3. seen.over = None
      BY <1>5, <1>10
    <2>4. r.over = None \/ (seen.counted /\ ~(Count <= r.over))
      BY <1>3, <1>4, <1>5, <1>10
    <2>5. UsersPart(pass'.roll) = UsersPart(pass.roll)
      BY <1>5, <2>2 DEF UsersPart
    <2> HIDE DEF small
    <2> QED BY <1>5, <1>6, <1>8, <2>2, <2>3, <2>4, <2>5
  <1> QED BY <1>9, <1>10

\* What only the survey finds.
Alike(r, s) ==
  /\ s.batch = r.batch /\ s.watched = r.watched /\ s.seen = r.seen
  /\ s.over = r.over /\ s.counted = r.counted
  /\ s.ahead = r.ahead /\ s.delete = r.delete
  /\ s.until = r.until /\ s.released = r.released

\* The same pass, further on.
Onward ==
  /\ pass'.torrents = pass.torrents /\ pass'.before = pass.before
  /\ pass'.files = pass.files
  /\ Alike(pass.roll, pass'.roll)

\* Acting field by field: priorities set, or singles added.
LEMMA ActsDo ==
  ASSUME TypeOK, pass # None, NEW refused \in SUBSET Prio, Acts(refused)
  PROVE  /\ pass.at = "acts" /\ pass'.at = "erases" /\ Onward
         /\ pass'.erase = pass.erase
         /\ pass'.roll.gone = pass.roll.gone
         /\ pass'.roll.left = pass.roll.left
         /\ \/ /\ pass.files /\ handed' = handed
               /\ pass'.roll.added = pass.roll.added
               /\ (refused = {} /\ Whole \in listed) \/ pass'.drop =>
                    \A e \in Ep : prio'[e] = Wish(pass.roll, e)
               /\ pass'.drop => pass.roll.released /\ ToAdd(pass.roll) = {}
            \/ /\ ~pass.files /\ prio' = prio
               /\ handed' = handed \cup (ToAdd(pass.roll) \ listed)
               /\ pass'.roll.added = pass.roll.added \cup ToAdd(pass.roll)
               /\ pass'.drop =>
                    /\ pass.roll.released /\ ToAdd(pass.roll) = {}
                    /\ ~pass.roll.batch \/ Whole \in pass.roll.left
  <1>1. pass \in Pass /\ pass.roll \in Roll
    BY DEF TypeOK, Data, Pass
  <1>2. pass.at = "acts"
    BY DEF Acts, At
  <1>3. CASE pass.files
    <2> DEFINE r == pass.roll
               wishes == [e \in Ep |-> Wish(r, e)]
               changed == {wishes[e] : e \in {f \in Ep : prio[f] # wishes[f]}}
               failed == IF Whole \in listed THEN changed \cap refused
                         ELSE changed
    <2>1. SetsPriorities(refused)
      BY <1>3 DEF Acts
    <2>2. /\ prio' = [e \in Ep |-> IF wishes[e] \in failed THEN prio[e]
                                   ELSE wishes[e]]
          /\ pass' = [Moving EXCEPT !.drop = Freed(r, failed = {})]
          /\ handed' = handed
      BY <2>1 DEF SetsPriorities
    <2>3. (refused = {} /\ Whole \in listed) \/ failed = {} =>
            \A e \in Ep : prio'[e] = Wish(r, e)
      <3>1. refused = {} /\ Whole \in listed => failed = {}
        OBVIOUS
      <3> HIDE DEF failed
      <3> QED BY <2>2, <3>1
    <2> HIDE DEF failed
    <2>4. /\ pass'.roll = pass.roll /\ pass'.at = "erases"
          /\ pass'.erase = pass.erase /\ pass'.torrents = pass.torrents
          /\ pass'.before = pass.before /\ pass'.files = pass.files
          /\ pass'.drop = Freed(r, failed = {})
      BY <1>1, <2>2 DEF Moving, Pass
    <2>5. pass'.drop => r.released /\ ToAdd(r) = {} /\ failed = {}
      BY <2>4 DEF Freed
    <2> QED BY <1>2, <1>3, <2>2, <2>3, <2>4, <2>5 DEF Onward, Alike
  <1>4. CASE ~pass.files
    <2> DEFINE r == pass.roll
               more == ToAdd(r)
               set == ~r.batch \/ Whole \in r.left
    <2>1. /\ prio' = prio
          /\ handed' = handed \cup (more \ listed)
          /\ pass' = [Moving EXCEPT !.roll.added = @ \cup more,
                                    !.drop = Freed(r, set)]
      BY <1>4 DEF Acts, AddsHeld
    <2>2. Freed(r, set) => r.released /\ more = {} /\ set
      BY DEF Freed
    <2> HIDE DEF more, set
    <2>3. /\ pass'.roll = [r EXCEPT !.added = @ \cup more]
          /\ pass'.at = "erases"
          /\ pass'.erase = pass.erase /\ pass'.torrents = pass.torrents
          /\ pass'.before = pass.before /\ pass'.files = pass.files
          /\ pass'.drop = Freed(r, set)
      BY <1>1, <2>1 DEF Moving, Pass
    <2>4. /\ Alike(r, pass'.roll)
          /\ pass'.roll.gone = r.gone /\ pass'.roll.left = r.left
          /\ pass'.roll.added = r.added \cup more
      BY <1>1, <2>3 DEF Alike, Roll
    <2> QED BY <1>2, <1>4, <2>1, <2>2, <2>3, <2>4 DEF Onward, more, set
  <1> QED BY <1>3, <1>4

\* An erasure field by field, of whatever kind.
LEMMA ErasesDo ==
  ASSUME TypeOK, pass # None, NEW e \in Ep,
         ErasesSingle(e) \/ ErasesFile(e) \/ Leaves(e) \/ EraseFails(e)
  PROVE  /\ pass.at = "erases" /\ pass'.at = "erases" /\ Onward
         /\ e \in pass.erase /\ pass'.erase = pass.erase \ {e}
         /\ pass'.drop = pass.drop
         /\ pass'.roll.added = pass.roll.added
         /\ UNCHANGED <<handed, prio>>
         /\ pass'.roll.gone =
              IF ErasesSingle(e) \/ ErasesFile(e) THEN pass.roll.gone \cup {e}
              ELSE pass.roll.gone
         /\ pass'.roll.left =
              IF ErasesSingle(e) THEN pass.roll.left \cup {e}
              ELSE pass.roll.left
  <1>1. pass \in Pass /\ pass.roll \in Roll
    BY DEF TypeOK, Data, Pass
  <1>2. e \in pass.erase /\ pass.at = "erases"
    BY DEF ErasesSingle, ErasesFile, Leaves, EraseFails, Erasing, At
  <1> DEFINE gone == [pass.roll EXCEPT !.gone = @ \cup {e}]
             left2 == [gone EXCEPT !.left = @ \cup {e}]
  <1>3. /\ Alike(pass.roll, gone) /\ gone.added = pass.roll.added
        /\ gone.gone = pass.roll.gone \cup {e} /\ gone.left = pass.roll.left
        /\ Alike(pass.roll, left2) /\ left2.added = pass.roll.added
        /\ left2.gone = pass.roll.gone \cup {e}
        /\ left2.left = pass.roll.left \cup {e}
    BY <1>1 DEF Alike, Roll
  <1>4. Alike(pass.roll, pass.roll)
    BY DEF Alike
  <1>5. Erased(e) = [pass EXCEPT !.erase = @ \ {e}, !.roll = gone]
    BY <1>1 DEF Erased, Pass
  <1>6. CASE ErasesSingle(e)
    <2>1. pass' = [pass EXCEPT !.erase = @ \ {e}, !.roll = left2]
      <3>2. pass' = [[pass EXCEPT !.erase = @ \ {e}, !.roll = gone]
                       EXCEPT !.roll.left = @ \cup {e}]
        BY <1>6, <1>5 DEF ErasesSingle
      <3> HIDE DEF gone
      <3> QED BY <1>1, <3>2 DEF Pass
    <2> HIDE DEF left2
    <2>2. /\ pass'.roll = left2 /\ pass'.erase = pass.erase \ {e}
          /\ pass'.at = pass.at /\ pass'.drop = pass.drop
          /\ pass'.torrents = pass.torrents /\ pass'.before = pass.before
          /\ pass'.files = pass.files
      BY <1>1, <2>1 DEF Pass
    <2>3. UNCHANGED <<handed, prio>>
      BY <1>6 DEF ErasesSingle
    <2> QED BY <1>2, <1>3, <1>6, <2>2, <2>3 DEF Onward
  <1>7. CASE ErasesFile(e) /\ ~ErasesSingle(e)
    <2>1. pass' = [pass EXCEPT !.erase = @ \ {e}, !.roll = gone,
                               !.recheck = pass.recheck \/ e \in disk]
      <3> HIDE DEF gone
      <3> QED BY <1>1, <1>5, <1>7 DEF ErasesFile, Pass
    <2> HIDE DEF gone
    <2>2. /\ pass'.roll = gone /\ pass'.erase = pass.erase \ {e}
          /\ pass'.at = pass.at /\ pass'.drop = pass.drop
          /\ pass'.torrents = pass.torrents /\ pass'.before = pass.before
          /\ pass'.files = pass.files
      BY <1>1, <2>1 DEF Pass
    <2>3. UNCHANGED <<handed, prio>>
      BY <1>7 DEF ErasesFile
    <2> QED BY <1>2, <1>3, <1>7, <2>2, <2>3 DEF Onward
  <1>8. CASE ~ErasesSingle(e) /\ ~ErasesFile(e)
    <2>1. pass' = [pass EXCEPT !.erase = @ \ {e}]
      BY <1>8 DEF Leaves, EraseFails
    <2>2. /\ pass'.roll = pass.roll /\ pass'.erase = pass.erase \ {e}
          /\ pass'.at = pass.at /\ pass'.drop = pass.drop
          /\ pass'.torrents = pass.torrents /\ pass'.before = pass.before
          /\ pass'.files = pass.files
      BY <1>1, <2>1 DEF Pass
    <2>3. UNCHANGED <<handed, prio>>
      BY <1>8 DEF Leaves, EraseFails, client
    <2> QED BY <1>2, <1>4, <1>8, <2>2, <2>3 DEF Onward
  <1> QED BY <1>6, <1>7, <1>8

\* A pass that only moves on, field by field.
LEMMA MovesDo ==
  ASSUME TypeOK, pass # None, NEW place \in {"erases", "saves"},
         pass' = [pass EXCEPT !.at = place]
  PROVE  /\ pass'.at = place /\ Onward /\ pass'.roll = pass.roll
         /\ pass'.erase = pass.erase /\ pass'.drop = pass.drop
  <1>1. pass \in Pass
    BY DEF TypeOK, Data
  <1>2. /\ pass'.roll = pass.roll /\ pass'.erase = pass.erase
        /\ pass'.at = place /\ pass'.drop = pass.drop
        /\ pass'.torrents = pass.torrents /\ pass'.before = pass.before
        /\ pass'.files = pass.files
    BY <1>1 DEF Pass
  <1> QED BY <1>2 DEF Onward, Alike

\* The budget says once what is downloaded and where.
LEMMA BudgetStands ==
  ASSUME RInv, [Next]_vars
  PROVE  /\ left' \in Allowance /\ left'.batch = left.batch
         /\ left'.over = left.over /\ left'.here = left.here
  <1>1. \/ UNCHANGED left
        \/ Spend("edits") \/ Spend("views") \/ Spend("polls")
        \/ Spend("removes") \/ Spend("faults") \/ Spend("ages")
    <2>1. CASE UNCHANGED vars
      BY <2>1 DEF vars
    <2>2. CASE Reading
      BY <2>2 DEF Reading, Reads, TakesPass, Reader
    <2>3. CASE Passing
      BY <2>3 DEF Passing, Surveying, SurveysWell, ActsWell, Erases, Rechecks,
                  Saves
    <2>4. CASE Faults
      BY <2>4 DEF Faults, KickFails, BurstEnds, SurveysBlind, SomeRefused,
                  Faulting, AddFails, ErasesNot, RecheckFails, SaveFails, End
    <2>5. CASE User
      BY <2>5 DEF User, Watches, SetsOne, SetRoll, RollMore, Edits, Removes
    <2>6. CASE Client \/ Ages
      BY <2>6 DEF Client, Lists, Fetches, Ages
    <2> QED BY <2>1, <2>2, <2>3, <2>4, <2>5, <2>6 DEF Next
  <1> QED BY <1>1, Spends DEF RInv, TypeOK, Data

\* Who touches the roll, the pass and the priorities.
LEMMA RollSteps ==
  ASSUME [Next]_vars
  PROVE  \/ UNCHANGED <<roll, pass, prio>>
         \/ PassStep
         \/ \E q \in Reader : TakesPass(q)
         \/ Saves
         \/ UNCHANGED <<roll, prio>> /\ pass' = None
         \/ (roll # None /\ SetsOne) \/ RollMore(1)
  <1>1. CASE UNCHANGED vars
    BY <1>1 DEF vars, store, client
  <1>2. CASE \E q \in Reader : Reads(q)
    BY <1>2 DEF Reads, store, client
  <1>3. CASE SaveFails \/ End \/ KickFails \/ BurstEnds
    BY <1>3 DEF SaveFails, End, KickFails, BurstEnds, store, client
  <1>4. CASE User \/ Client \/ Ages
    BY <1>4 DEF User, Watches, Removes, Client, Lists, Fetches, Ages, store,
                client
  <1> QED BY <1>1, <1>2, <1>3, <1>4
          DEF Next, Reading, Passing, Surveying, Faults, PassStep

\* A survey leaves a record of its list.
LEMMA SurveyRecords ==
  ASSUME FInv, pass # None, NEW files \in BOOLEAN,
         NEW rows \in SUBSET completed, Surveys(files, rows),
         files => Readable, [Next]_vars
  PROVE  PassRecord'
  <1>1. pass \in Pass /\ pass.roll \in Roll /\ TypeOK
    BY DEF FInv, RInv, TypeOK, Data, Pass
  <1> USE <1>1, SurveyFinds
  <1>2. PassRecord
    BY DEF FInv, RecordInv
  <1>3. /\ pass'.roll.left \subseteq pass'.roll.added
        /\ pass'.roll.seen \subseteq pass'.roll.added
        /\ pass.roll.seen \subseteq pass'.roll.seen
    BY <1>2 DEF PassRecord, Record, SeenBy, LeftBy
  <1>4. \A e \in pass'.roll.watched : PartOf(pass'.roll, e) \in pass'.roll.seen
    <2>1. \A e \in pass.roll.watched : PartOf(pass'.roll, e) \in pass'.roll.seen
      BY <1>2, <1>3 DEF PassRecord, Record, PartOf
    <2>2. \A e \in Watched(pass'.roll, files, rows) :
            PartOf(pass'.roll, e) \in pass'.roll.seen
      BY DEF Watched
    <2> QED BY <2>1, <2>2
  <1>5. files => /\ pass.roll.batch /\ Whole \in pass.torrents
                 /\ Whole \in pass'.roll.seen
    <2>1. files => /\ pass.roll.batch /\ Whole \in pass.torrents
                   /\ Whole \notin pass.roll.left
      BY DEF Readable
    <2>2. pass.roll.batch => Whole \in pass.roll.added
      BY <1>2 DEF PassRecord, Record
    <2> QED BY <2>1, <2>2 DEF SeenBy
  <1>6. pass'.roll.over \in {None, left'.over}
    BY <1>2, BudgetStands DEF PassRecord, Record, FInv
  <1>7. Record(pass.roll)'
    BY <1>2, <1>3, <1>4, <1>5, <1>6 DEF PassRecord, Record
  <1>8. pass'.roll.seen \ pass'.roll.left \subseteq pass'.torrents
    BY <1>2 DEF PassRecord, Record, SeenBy, LeftBy
  <1>9. /\ ~pass'.roll.batch => pass'.erase \subseteq pass'.roll.added
        /\ pass'.at \in {"surveys", "saves"} => pass'.erase = {}
        /\ pass'.at = "acts" => pass'.erase = ToErase(pass'.roll)
    BY <1>2 DEF PassRecord, ToErase
  <1>10. /\ pass'.at \in {"surveys", "acts"} => ~pass'.drop
         /\ UsersPart(pass'.roll) = pass'.before
         /\ pass'.files => pass'.roll.batch /\ Whole \in pass'.torrents
    BY <1>2, <1>5 DEF PassRecord
  <1> QED BY <1>7, <1>8, <1>9, <1>10 DEF PassRecord

\* What a pass does later changes nothing it found.
LEMMA OnwardRecords ==
  ASSUME FInv, pass # None, [Next]_vars, Onward,
         pass.at # "surveys", pass'.at \in {"erases", "saves"},
         pass.roll.added \subseteq pass'.roll.added,
         pass.roll.left \subseteq pass'.roll.left,
         pass'.roll.left \subseteq pass.roll.left \cup pass.erase,
         pass'.roll.left \subseteq pass'.roll.added,
         pass.roll.batch => pass'.roll.added = pass.roll.added,
         pass'.erase \subseteq pass.erase,
         pass'.at = "saves" => pass'.erase = {}
  PROVE  PassRecord'
  <1>1. PassRecord
    BY DEF FInv, RecordInv
  <1>2. Record(pass.roll)'
    BY <1>1, BudgetStands DEF PassRecord, Record, Onward, Alike, PartOf, FInv
  <1>3. UsersPart(pass'.roll) = pass'.before
    BY <1>1 DEF PassRecord, Onward, Alike, UsersPart
  <1> QED BY <1>1, <1>2, <1>3 DEF PassRecord, Onward, Alike

\* So does every step of a pass.
LEMMA PassRecords ==
  ASSUME FInv, PassStep, [Next]_vars
  PROVE  PassRecord'
  <1>1. pass # None /\ TypeOK
    BY PassKnows DEF Goes, FInv, RInv
  <1>2. PassRecord /\ Record(pass.roll)
    BY <1>1 DEF FInv, RecordInv, PassRecord
  <1>3. CASE \E rows \in SUBSET (completed \ disk) :
               SurveysWell(rows) \/ SurveysBlind(rows)
    <2>1. PICK rows \in SUBSET completed, files \in BOOLEAN :
            Surveys(files, rows) /\ (files => Readable)
      <3>1. PICK rows \in SUBSET (completed \ disk) :
              SurveysWell(rows) \/ SurveysBlind(rows)
        BY <1>3
      <3>2. CASE SurveysWell(rows)
        <4>1. Readable \in BOOLEAN
          BY DEF Readable
        <4> QED BY <3>2, <4>1 DEF SurveysWell
      <3>3. CASE SurveysBlind(rows)
        BY <3>3 DEF SurveysBlind, Faulting
      <3> QED BY <3>1, <3>2, <3>3
    <2> QED BY <1>1, <2>1, SurveyRecords
  <1>4. CASE ActsWell \/ SomeRefused
    <2>1. PICK refused \in SUBSET Prio : Acts(refused)
      BY <1>4 DEF ActsWell, SomeRefused, Faulting
    <2>2. pass.roll.batch => ToAdd(pass.roll) = {}
      BY DEF ToAdd
    <2>3. pass.roll.left \subseteq pass.roll.added
      BY <1>2 DEF Record
    <2> HIDE DEF ToAdd
    <2> QED BY <1>1, <2>1, <2>2, <2>3, ActsDo, OnwardRecords
  <1>5. CASE AddFails
    <2>1. pass' = [pass EXCEPT !.at = "erases"] /\ pass.at = "acts"
      BY <1>5 DEF AddFails, Moving, At
    <2> QED BY <1>1, <1>2, <2>1, MovesDo, OnwardRecords DEF Record
  <1>6. CASE Erases \/ ErasesNot
    <2>1. PICK e \in Ep :
            ErasesSingle(e) \/ ErasesFile(e) \/ Leaves(e) \/ EraseFails(e)
      BY <1>6 DEF Erases, ErasesNot, Faulting
    <2>2. ErasesSingle(e) => e \in pass.roll.added
      BY <1>1, <1>2, ErasesDo DEF PassRecord, ErasesSingle
    <2>3. /\ pass'.roll.left \subseteq pass.roll.left \cup pass.erase
          /\ pass.roll.left \subseteq pass'.roll.left
          /\ pass'.roll.left \subseteq pass'.roll.added
      BY <1>1, <1>2, <2>1, <2>2, ErasesDo DEF Record
    <2> QED BY <1>1, <2>1, <2>3, ErasesDo, OnwardRecords
  <1>7. CASE Rechecks \/ RecheckFails
    <2>1. /\ pass' = [pass EXCEPT !.at = "saves"]
          /\ pass.at = "erases" /\ pass.erase = {}
      BY <1>7 DEF Rechecks, RecheckFails, Faulting, Rechecked, At
    <2> QED BY <1>1, <1>2, <2>1, MovesDo, OnwardRecords DEF Record
  <1> QED BY <1>3, <1>4, <1>5, <1>6, <1>7 DEF PassStep

\* What is saved: what the pass found, with what the user sets, unless the
\* roll ends, or would have and was changed meanwhile.
LEMMA SavesDo ==
  ASSUME TypeOK, PassInv, Saves
  PROVE  /\ pass # None /\ pass' = None /\ pass.at = "saves" /\ roll # None
         /\ \/ roll' = None /\ Drops /\ ~Edited
            \/ roll' = roll /\ torn'
            \/ /\ roll' # None /\ ~Drops
               /\ roll'.batch = pass.roll.batch /\ roll'.added = pass.roll.added
               /\ roll'.seen = pass.roll.seen /\ roll'.left = pass.roll.left
               /\ roll'.over = pass.roll.over
               /\ roll'.counted = pass.roll.counted
               /\ roll'.watched = pass.roll.watched
               /\ roll'.gone = pass.roll.gone
               /\ UsersPart(roll') = UsersPart(roll)
  <1>1. pass # None /\ pass' = None /\ pass.at = "saves"
    BY DEF Saves, At
  <1>2. roll # None /\ roll \in Roll /\ pass.roll \in Roll
    BY <1>1, NothingAssumption DEF TypeOK, Data, PassInv, Pass
  <1>3. CASE Drops
    BY <1>1, <1>2, <1>3, Zenon DEF Saves
  <1>4. CASE ~Drops
    <2>1. roll' = [pass.roll EXCEPT
                     !.ahead = roll.ahead, !.delete = roll.delete,
                     !.until = roll.until, !.released = roll.released]
      BY <1>4 DEF Saves
    <2>2. roll' \in Roll
      BY <1>2, <2>1, Zenon DEF Roll
    <2> QED BY <1>1, <1>2, <1>4, <2>1, <2>2, NothingAssumption
            DEF Roll, UsersPart
  <1> QED BY <1>3, <1>4

\* Every step leaves such records.
LEMMA RecordStep ==
  ASSUME FInv, [Next]_vars
  PROVE  RecordInv'
  <1> USE BudgetStands DEF FInv
  <1>1. CASE UNCHANGED <<roll, pass, prio>>
    BY <1>1 DEF RecordInv, PassRecord, Record
  <1>2. CASE PassStep
    <2>1. UNCHANGED roll
      BY <1>2, PassKnows DEF store
    <2> QED BY <1>2, <2>1, PassRecords DEF RecordInv, Record
  <1>3. ASSUME NEW q \in Reader, TakesPass(q) PROVE RecordInv'
    <2>1. UNCHANGED roll
      BY <1>3 DEF TakesPass, store
    <2>2. CASE roll = None
      BY <1>3, <2>1, <2>2 DEF TakesPass, RecordInv
    <2>3. CASE roll # None
      <3>1. pass' = [at |-> "surveys", by |-> q, torrents |-> read[q],
                     before |-> UsersPart(roll), roll |-> roll,
                     files |-> FALSE, erase |-> {}, recheck |-> FALSE,
                     drop |-> FALSE]
        BY <1>3, <2>3 DEF TakesPass
      <3>2. /\ pass'.roll = roll /\ pass'.at = "surveys"
            /\ pass'.before = UsersPart(roll) /\ ~pass'.files /\ ~pass'.drop
            /\ pass'.erase = {}
        BY <3>1
      <3>3. Record(pass.roll)' /\ (roll' # None => Record(roll)')
        BY <2>1, <2>3, <3>2 DEF RecordInv, Record
      <3> QED BY <3>2, <3>3 DEF RecordInv, PassRecord
    <2> QED BY <2>2, <2>3
  <1>4. CASE Saves
    <2>1. Record(roll) /\ Record(pass.roll)
      BY <1>4, SavesDo DEF RecordInv, PassRecord, RInv
    <2> QED BY <1>4, <2>1, SavesDo DEF RecordInv, Record, PartOf, RInv
  <1>5. CASE UNCHANGED <<roll, prio>> /\ pass' = None
    BY <1>5 DEF RecordInv, Record
  <1>6. CASE (roll # None /\ SetsOne) \/ RollMore(1)
    <2>1. Record(roll) /\ UNCHANGED pass
      BY <1>6, EditsRoll DEF RecordInv, RInv
    <2> QED BY <1>6, <2>1, EditsRoll
            DEF RecordInv, PassRecord, Record, PartOf, RInv
  <1> QED BY <1>1, <1>2, <1>3, <1>4, <1>5, <1>6, RollSteps

\* A pass that is to end the roll for its release held nothing back.
LEMMA ReleasedHoldsNothing ==
  ASSUME FInv, pass # None, NEW refused \in SUBSET Prio, Acts(refused),
         pass'.drop
  PROVE  FreeNow(pass.roll)'
  <1>1. TypeOK /\ PassRecord /\ pass.roll \in Roll
    BY DEF FInv, RecordInv, RInv, TypeOK, Data, Pass
  <1>2. pass.roll.released /\ ToAdd(pass.roll) = {}
    BY <1>1, ActsDo
  <1>3. SUFFICES ASSUME NEW e \in Ep,
                        e \notin pass'.roll.watched \cup pass'.roll.gone
                 PROVE  IF pass'.roll.batch
                          THEN Whole \in pass'.roll.left \/ prio'[e] # "skip"
                          ELSE e \in pass'.roll.added
    BY DEF FreeNow
  <1>4. /\ pass'.roll.batch = pass.roll.batch
        /\ e \notin pass.roll.watched \cup pass.roll.gone
        /\ pass'.roll.left = pass.roll.left
        /\ pass.roll.added \subseteq pass'.roll.added
    BY <1>1, <1>3, ActsDo DEF Onward, Alike
  <1>5. Wanted(pass.roll, e) /\ Wish(pass.roll, e) = "normal"
    BY <1>2, <1>4 DEF Wanted, Wish
  <1>6. CASE pass.files
    BY <1>1, <1>4, <1>5, <1>6, ActsDo DEF PassRecord
  <1>7. CASE ~pass.files
    <2>1. CASE pass.roll.batch
      BY <1>1, <1>4, <1>7, <2>1, ActsDo
    <2>2. CASE ~pass.roll.batch
      <3>1. e \in Known(pass.roll) /\ PartOf(pass.roll, e) = e
        BY <1>1, <2>2 DEF PassRecord, Record, Known, PartOf
      <3>2. e \in pass.roll.left \/ e \in Held(pass.roll)
        BY <3>1 DEF Held
      <3>3. e \in pass.roll.added
        BY <1>1, <1>2, <1>4, <1>5, <2>2, <3>2
        DEF ToAdd, PassRecord, Record
      <3> QED BY <1>4, <2>2, <3>3
    <2> QED BY <2>1, <2>2
  <1> QED BY <1>6, <1>7

\* A pass about to end a released roll holds nothing back meanwhile.
LEMMA FreeKeeps ==
  ASSUME FInv, pass # None, pass.drop => Small \/ FreeNow(pass.roll),
         Onward, pass'.drop = pass.drop, prio' = prio, [Next]_vars,
         pass.roll.added \subseteq pass'.roll.added,
         pass.roll.gone \subseteq pass'.roll.gone,
         pass.roll.left \subseteq pass'.roll.left
  PROVE  pass'.drop => Small' \/ FreeNow(pass.roll)'
  BY BudgetStands DEF FInv, Small, FreeNow, Onward, Alike

\* No step of a pass holds back what it was to free.
LEMMA PassFrees ==
  ASSUME FInv, PassStep, [Next]_vars
  PROVE  FreeInv'
  <1> USE BudgetStands DEF FInv
  <1>1. pass # None /\ pass' # None /\ TypeOK /\ UNCHANGED roll
    BY PassKnows DEF Goes, RInv, store
  <1>2. PassRecord /\ Record(pass.roll) /\ pass.roll.batch = left.batch
    BY <1>1, PassKnows DEF RecordInv, PassRecord
  <1>3. /\ Small => /\ \A e \in Ep : prio[e] # "skip"
                    /\ roll # None => roll.over = left.over
                    /\ pass.roll.over = left.over
                    /\ pass.at \in {"surveys", "saves"}
        /\ pass.drop => Small \/ FreeNow(pass.roll)
        /\ Small' = Small
    BY <1>1 DEF FreeInv, Small
  <1>4. CASE \E rows \in SUBSET (completed \ disk) :
               SurveysWell(rows) \/ SurveysBlind(rows)
    <2>1. PICK rows \in SUBSET completed, files \in BOOLEAN :
            Surveys(files, rows)
      <3>1. PICK rows \in SUBSET (completed \ disk) :
              SurveysWell(rows) \/ SurveysBlind(rows)
        BY <1>4
      <3>2. Readable \in BOOLEAN
        BY DEF Readable
      <3> QED BY <3>1, <3>2 DEF SurveysWell, SurveysBlind, Faulting
    <2>2. UNCHANGED prio
      BY <2>1 DEF Surveys, client
    <2>3. Small => pass'.roll.over = left.over /\ pass'.at = "saves"
      BY <1>1, <1>3, <2>1, SurveyFinds DEF Small, RInv, TypeOK, Data, Allowance
    <2>4. pass'.drop => Small
      BY <1>1, <1>2, <2>1, SurveyFinds DEF PassRecord, Record, Small
    <2> QED BY <1>1, <1>3, <2>2, <2>3, <2>4 DEF FreeInv
  <1>5. CASE ActsWell \/ SomeRefused
    <2>1. PICK refused \in SUBSET Prio : Acts(refused)
      BY <1>5 DEF ActsWell, SomeRefused, Faulting
    <2>2. ~Small
      BY <1>1, <1>3, <2>1, ActsDo
    <2> QED BY <1>1, <1>3, <2>1, <2>2, ReleasedHoldsNothing DEF FreeInv
  <1>6. ASSUME pass'.at \in {"erases", "saves"}, pass.at # "saves",
               pass.at # "surveys",
               pass'.drop => Small' \/ FreeNow(pass.roll)'
        PROVE  FreeInv'
    BY <1>1, <1>3, <1>6 DEF FreeInv
  <1>7. CASE AddFails
    <2>1. /\ pass' = [pass EXCEPT !.at = "erases"] /\ pass.at = "acts"
          /\ prio' = prio
      BY <1>7 DEF AddFails, Moving, At, client
    <2>2. pass'.drop => Small' \/ FreeNow(pass.roll)'
      BY <1>1, <1>3, <2>1, MovesDo, FreeKeeps
    <2> QED BY <1>1, <1>6, <2>1, <2>2, MovesDo
  <1>8. CASE Erases \/ ErasesNot
    <2>1. PICK e \in Ep :
            ErasesSingle(e) \/ ErasesFile(e) \/ Leaves(e) \/ EraseFails(e)
      BY <1>8 DEF Erases, ErasesNot, Faulting
    <2>2. /\ Onward /\ pass'.drop = pass.drop /\ prio' = prio
          /\ pass.roll.added \subseteq pass'.roll.added
          /\ pass.roll.gone \subseteq pass'.roll.gone
          /\ pass.roll.left \subseteq pass'.roll.left
      BY <1>1, <2>1, ErasesDo
    <2>3. pass'.drop => Small' \/ FreeNow(pass.roll)'
      BY <1>1, <1>3, <2>2, FreeKeeps
    <2> QED BY <1>1, <1>6, <2>1, <2>3, ErasesDo
  <1>9. CASE Rechecks \/ RecheckFails
    <2>1. /\ pass' = [pass EXCEPT !.at = "saves"]
          /\ pass.at = "erases" /\ prio' = prio
      BY <1>9 DEF Rechecks, RecheckFails, Faulting, Rechecked, At
    <2>2. pass'.drop => Small' \/ FreeNow(pass.roll)'
      BY <1>1, <1>3, <2>1, MovesDo, FreeKeeps
    <2> QED BY <1>1, <1>6, <2>1, <2>2, MovesDo
  <1> QED BY <1>4, <1>5, <1>7, <1>8, <1>9 DEF PassStep

\* Nor does any other.
LEMMA FreeStep ==
  ASSUME FInv, [Next]_vars
  PROVE  FreeInv'
  <1> USE BudgetStands DEF FInv
  <1>1. CASE UNCHANGED <<roll, pass, prio>>
    BY <1>1 DEF FreeInv, Small, FreeNow
  <1>2. CASE PassStep
    BY <1>2, PassFrees
  <1>3. ASSUME NEW q \in Reader, TakesPass(q) PROVE FreeInv'
    <2>1. UNCHANGED <<roll, prio>>
      BY <1>3 DEF TakesPass, store, client
    <2>2. CASE roll = None
      BY <1>3, <2>1, <2>2 DEF TakesPass, FreeInv, Small
    <2>3. CASE roll # None
      <3>1. pass' = [at |-> "surveys", by |-> q, torrents |-> read[q],
                     before |-> UsersPart(roll), roll |-> roll,
                     files |-> FALSE, erase |-> {}, recheck |-> FALSE,
                     drop |-> FALSE]
        BY <1>3, <2>3 DEF TakesPass
      <3>2. pass'.roll = roll /\ pass'.at = "surveys" /\ ~pass'.drop
        BY <3>1
      <3> QED BY <2>1, <2>3, <3>2 DEF FreeInv, Small
    <2> QED BY <2>2, <2>3
  <1>4. CASE Saves
    <2>1. prio' = prio
      BY <1>4 DEF Saves, client
    <2> QED BY <1>4, <2>1, SavesDo DEF FreeInv, Small, RInv
  <1>5. CASE UNCHANGED <<roll, prio>> /\ pass' = None
    BY <1>5 DEF FreeInv, Small
  <1>6. CASE (roll # None /\ SetsOne) \/ RollMore(1)
    <2>1. UNCHANGED <<pass, prio>>
      BY <1>6, EditsRoll DEF RInv, client
    <2> QED BY <1>6, <2>1, EditsRoll DEF FreeInv, Small, FreeNow, RInv
  <1> QED BY <1>1, <1>2, <1>3, <1>4, <1>5, <1>6, RollSteps

\* Both hold of a roll just planned.
LEMMA FreeInit == Init => RecordInv /\ FreeInv
  <1> SUFFICES ASSUME Init PROVE RecordInv /\ FreeInv
    OBVIOUS
  <1>1. roll = Planned(left) /\ pass = None /\ prio = [e \in Ep |-> "normal"]
    BY DEF Init
  <1>2. /\ roll.batch = left.batch
        /\ roll.over = (IF left.batch THEN left.over ELSE None)
        /\ roll.counted = ~left.batch
        /\ roll.added = (IF left.batch THEN {Whole} ELSE {1})
        /\ roll.seen = {} /\ roll.left = {} /\ roll.watched = {}
    BY <1>1 DEF Planned
  <1>3. RecordInv
    BY <1>1, <1>2 DEF RecordInv, Record
  <1>4. FreeInv
    BY <1>1, <1>2 DEF FreeInv, Small
  <1> QED BY <1>3, <1>4

\* What the release rests on, throughout.
LEMMA RollFreeInvariant == Spec => []FInv
  <1>1. FInv /\ [Next]_vars => FInv'
    BY RollingStep, RecordStep, FreeStep DEF FInv
  <1>2. Init => FInv
    BY RollingInit, FreeInit DEF FInv
  <1> QED BY <1>1, <1>2, PTL DEF Spec

\* Only a pass ends the roll.
LEMMA RollEnds ==
  ASSUME RInv, [Next]_vars, roll # None, roll' = None
  PROVE  Saves /\ Drops /\ ~Edited
  <1>1. CASE PassStep
    BY <1>1, PassKnows DEF store
  <1>2. ASSUME NEW q \in Reader, TakesPass(q) PROVE FALSE
    BY <1>2 DEF TakesPass, store
  <1>3. CASE Saves
    BY <1>3, SavesDo DEF RInv
  <1>4. CASE (roll # None /\ SetsOne) \/ RollMore(1)
    BY <1>4, EditsRoll, NothingAssumption DEF RInv
  <1> QED BY <1>1, <1>2, <1>3, <1>4, RollSteps

\* A released roll that ends: its torrents left, one never came, or all is free.
LEMMA ReleaseStep ==
  ASSUME FInv, [Next]_vars, roll # None, roll' = None, roll.released
  PROVE  \/ AllLeft(pass.roll)
         \/ old /\ pass.roll.added \ pass.roll.seen # {}
         \/ FreeNow(pass.roll)
  <1>1. Saves /\ Drops /\ ~Edited
    BY RollEnds DEF FInv
  <1>2. pass # None /\ PassRecord /\ Record(pass.roll)
    BY <1>1, SavesDo DEF FInv, RInv, RecordInv, PassRecord
  <1>3. pass.roll.batch = left.batch
    BY <1>2 DEF FInv, RInv, PassInv
  <1>4. CASE pass.drop
    BY <1>2, <1>3, <1>4 DEF FInv, FreeInv, Small, FreeNow
  <1>5. CASE AllDone(pass.roll)
    <2>1. SUFFICES ASSUME NEW e \in Ep,
                          e \notin pass.roll.watched \cup pass.roll.gone
                   PROVE  IF pass.roll.batch THEN Whole \in pass.roll.left
                          ELSE e \in pass.roll.added
      BY DEF FreeNow
    <2>2. PartOf(pass.roll, e) \in pass.roll.left
      BY <1>5, <2>1 DEF AllDone, Held, Known
    <2> QED BY <1>2, <2>2 DEF PartOf, Record
  <1> QED BY <1>1, <1>4, <1>5 DEF Drops, Finished

\* A released roll is forgotten only when its torrents have left or nothing of
\* it is held back any more, whatever edits, faults and restarts came between.
THEOREM RollingReleaseFreesAll == Spec => ReleaseFreesAll
  <1>1. FInv /\ [Next]_vars =>
          [roll # None /\ roll' = None /\ roll.released =>
             LET r == pass.roll
             IN  \/ AllLeft(r)
                 \/ old /\ r.added \ r.seen # {}
                 \/ \A e \in Ep :
                      \/ e \in r.watched \cup r.gone
                      \/ IF r.batch THEN Whole \in r.left \/ prio[e] # "skip"
                         ELSE e \in r.added]_vars
    BY ReleaseStep DEF FreeNow
  <1> QED BY <1>1, RollFreeInvariant, PTL DEF Spec, ReleaseFreesAll

-----------------------------------------------------------------------------
(* The window holds                                                         *)

\* What was watched and not erased is on the disk, and the client knows it.
DiskInv ==
  /\ disk \subseteq have
  /\ ~torn /\ roll # None => completed \ Current.gone \subseteq disk

\* A batch on its way to the client was never listed, fetched or watched.
BatchInv ==
  left.batch =>
    /\ handed \cap Reported = {} /\ handed \cup Reported \subseteq {Whole}
    /\ Whole \in handed =>
         /\ disk = {} /\ completed = {}
         /\ roll # None => Whole \notin roll.seen
         /\ pass # None => Whole \notin pass.roll.seen

\* Nor was a single, and one on the disk is among the added.
SingleInv ==
  ~left.batch /\ ~torn =>
    /\ handed \cap (disk \cup completed) = {}
    /\ roll # None => disk \cup completed \subseteq Current.added

ClientInv == DiskInv /\ BatchInv /\ SingleInv

\* A kick or a nudge was not read for yet, or never will be.
Called == asked \/ lost

\* A change of the roll the pass has not seen has a pass to come.
EditedOwed == pass # None /\ Edited => Called \/ "task" \in DOMAIN read

Passes(place) == pass # None /\ pass.at = place

\* A pass to come, or yet to look, has the part in its list.
Coming(p) ==
  \/ Called
  \/ "task" \in DOMAIN read /\ p \in read["task"]
  \/ Passes("surveys") /\ p \in pass.torrents

\* Every list not yet looked at has it.
InAll(p) ==
  /\ \A q \in DOMAIN read : p \in read[q]
  /\ Passes("surveys") => p \in pass.torrents

\* An episode watched of a torrent the client and the roll have.
Stays(e) ==
  /\ roll # None /\ e \in completed
  /\ PartOf(Current, e) \in listed \ Current.left

\* A torrent is not taken for gone by a list older than itself alone.
StaleInv ==
  ~torn => \A e \in Ep : Stays(e) =>
    LET p == PartOf(Current, e)
    IN  p \in Current.seen \/ Coming(p) \/ InAll(p)

\* A pass is to come, is yet to look, or is about to end the roll.
Owed ==
  Called \/ "task" \in DOMAIN read \/ Passes("surveys")
    \/ (pass # None /\ pass.drop)

\* What was watched is noted, or will be.
NoteInv ==
  ~torn /\ ~faulted =>
    \A e \in Ep : Stays(e) /\ Current.counted /\ e \notin Current.gone =>
      \/ e \in Current.watched
      \/ Coming(PartOf(Current, e))
      \/ pass # None /\ pass.drop

\* A pass past its look has the files of a batch it found.
FilesInv ==
  ~faulted /\ (Passes("acts") \/ Passes("erases")) /\ pass.roll.batch
    /\ Whole \in (listed \cap pass.torrents) \ pass.roll.left => pass.files

\* The client was told what the record says.
Told(r) ==
  /\ r.batch /\ r.counted /\ Whole \in listed \ r.left =>
       \A e \in Ep : prio[e] = Wish(r, e)
  /\ ToAdd(r) = {}
  /\ (left.batch => left.here) =>
       \A e \in ToErase(r) :
         PartOf(r, e) \in listed => Passes("erases") /\ e \in pass.erase

ToldInv ==
  ~torn /\ ~faulted /\ roll # None =>
    Owed \/ Passes("acts") \/ Told(Current)

WInv ==
  /\ FInv /\ ClientInv /\ EditedOwed /\ StaleInv
  /\ NoteInv /\ FilesInv /\ ToldInv

\* The copy that counts is of the roll's kind, and well kept.
LEMMA CurrentKnown ==
  ASSUME FInv, roll # None
  PROVE  Current \in Roll /\ Current.batch = left.batch /\ Record(Current)
  BY DEF FInv, RInv, TypeOK, Data, PassInv, RecordInv, PassRecord, Pass, Current

\* What a pass does to the world while it goes: its record only grows, files
\* leave the disk into it, and a single is handed over as it is added.
LEMMA PassWorld ==
  ASSUME RInv, PassStep
  PROVE  /\ listed' \subseteq listed /\ disk' \subseteq disk
         /\ disk \ disk' \subseteq pass'.roll.gone
         /\ disk \subseteq have => disk' \subseteq have'
         /\ \/ handed' = handed
            \/ /\ handed' = handed \cup (ToAdd(pass.roll) \ listed)
               /\ pass'.roll.added = pass.roll.added \cup ToAdd(pass.roll)
         /\ pass.roll.seen \subseteq pass'.roll.seen
         /\ pass'.roll.seen \subseteq pass.roll.seen \cup pass.torrents
         /\ pass.roll.left \subseteq pass'.roll.left
         /\ pass'.at # "surveys"
  <1>1. pass # None /\ TypeOK
    BY PassKnows DEF Goes, RInv
  <1>2. CASE \E rows \in SUBSET (completed \ disk) :
               SurveysWell(rows) \/ SurveysBlind(rows)
    <2>1. PICK rows \in SUBSET completed, files \in BOOLEAN :
            Surveys(files, rows)
      <3>1. PICK rows \in SUBSET (completed \ disk) :
              SurveysWell(rows) \/ SurveysBlind(rows)
        BY <1>2
      <3>2. Readable \in BOOLEAN
        BY DEF Readable
      <3> QED BY <3>1, <3>2 DEF SurveysWell, SurveysBlind, Faulting
    <2>2. UNCHANGED <<handed, listed, have, disk>>
      BY <2>1 DEF Surveys, client
    <2> QED BY <1>1, <2>1, <2>2, SurveyFinds DEF SeenBy, LeftBy
  <1>3. ASSUME Onward, pass'.at # "surveys",
               pass.roll.left \subseteq pass'.roll.left
        PROVE  /\ pass.roll.seen \subseteq pass'.roll.seen
               /\ pass'.roll.seen \subseteq pass.roll.seen \cup pass.torrents
               /\ pass.roll.left \subseteq pass'.roll.left
               /\ pass'.at # "surveys"
    BY <1>3 DEF Onward, Alike
  <1>4. CASE ActsWell \/ SomeRefused
    <2>1. PICK refused \in SUBSET Prio : Acts(refused)
      BY <1>4 DEF ActsWell, SomeRefused, Faulting
    <2>2. UNCHANGED <<listed, have, disk>>
      BY <2>1 DEF Acts
    <2> QED BY <1>1, <1>3, <2>1, <2>2, ActsDo
  <1>5. CASE AddFails
    <2>1. /\ pass' = [pass EXCEPT !.at = "erases"]
          /\ UNCHANGED <<handed, listed, have, disk>>
      BY <1>5 DEF AddFails, Moving, client
    <2> QED BY <1>1, <1>3, <2>1, MovesDo
  <1>6. CASE Erases \/ ErasesNot
    <2>1. PICK e \in Ep :
            ErasesSingle(e) \/ ErasesFile(e) \/ Leaves(e) \/ EraseFails(e)
      BY <1>6 DEF Erases, ErasesNot, Faulting
    <2>2. /\ listed' \subseteq listed /\ disk' \subseteq disk
          /\ disk \ disk' \subseteq {e}
          /\ disk \subseteq have => disk' \subseteq have'
          /\ disk' # disk => ErasesSingle(e) \/ ErasesFile(e)
      BY <2>1 DEF ErasesSingle, ErasesFile, Leaves, EraseFails, client
    <2>3. disk \ disk' \subseteq pass'.roll.gone
      BY <1>1, <2>1, <2>2, ErasesDo
    <2> QED BY <1>1, <1>3, <2>1, <2>2, <2>3, ErasesDo
  <1>7. CASE Rechecks \/ RecheckFails
    <2>1. /\ pass' = [pass EXCEPT !.at = "saves"]
          /\ UNCHANGED <<handed, listed, disk>>
          /\ have' = have \/ have' = have \cap disk
      BY <1>7 DEF Rechecks, RecheckFails, Faulting, Rechecked
    <2> QED BY <1>1, <1>3, <2>1, MovesDo
  <1> QED BY <1>2, <1>4, <1>5, <1>6, <1>7 DEF PassStep

\* Every step is one of those below.
Calm == UNCHANGED <<roll, pass, read, Called, client, completed, history>>

LEMMA WindowSteps ==
  ASSUME [Next]_vars
  PROVE  \/ Calm
         \/ \E q \in Reader : Reads(q) \/ TakesPass(q)
         \/ PassStep \/ Saves \/ SaveFails \/ End
         \/ (roll # None /\ SetsOne) \/ RollMore(1)
         \/ \E e \in Ep : Watches(e) \/ Fetches(e)
         \/ \E p \in Parts : Removes(p) \/ Lists(p)
  <1>1. CASE UNCHANGED vars
    BY <1>1 DEF vars, store, readers, kicks, Called, Calm
  <1>2. CASE KickFails \/ BurstEnds \/ Ages
    BY <1>2 DEF KickFails, BurstEnds, Ages, store, readers, kicks, Called, Calm
  <1> QED BY <1>1, <1>2
          DEF Next, Reading, Passing, Surveying, Faults, User, Client, PassStep

-----------------------------------------------------------------------------
(* The client's side of it                                                  *)

\* What is reported was on its way before.
LEMMA ReportedSteps ==
  ASSUME RInv, [Next]_vars
  PROVE  Reported' \subseteq Reported \cup (handed \ handed')
  <1>1. CASE Calm
    BY <1>1 DEF Calm, client, Reported
  <1>2. ASSUME NEW q \in Reader, Reads(q)
        PROVE  Reported' \subseteq Reported
    <2>1. /\ UNCHANGED <<pass, listed>>
          /\ DOMAIN read' = DOMAIN read \cup {q}
          /\ \A r \in DOMAIN read' :
               read'[r] = IF r = q THEN listed ELSE read[r]
      BY <1>2 DEF Reads, With, client
    <2> QED BY <2>1 DEF Reported
  <1>3. ASSUME NEW q \in Reader, TakesPass(q)
        PROVE  Reported' \subseteq Reported
    <2>1. /\ UNCHANGED listed /\ q \in DOMAIN read
          /\ DOMAIN read' = DOMAIN read \ {q}
          /\ \A r \in DOMAIN read' : read'[r] = read[r]
      BY <1>3 DEF TakesPass, Without, client
    <2>2. pass' # None => pass'.torrents = read[q]
      <3>1. CASE roll = None
        BY <1>3, <3>1 DEF TakesPass
      <3>2. CASE roll # None
        <4>1. pass' = [at |-> "surveys", by |-> q, torrents |-> read[q],
                       before |-> UsersPart(roll), roll |-> roll,
                       files |-> FALSE, erase |-> {}, recheck |-> FALSE,
                       drop |-> FALSE]
          BY <1>3, <3>2 DEF TakesPass
        <4> QED BY <4>1
      <3> QED BY <3>1, <3>2
    <2>3. read[q] \subseteq UNION {read[r] : r \in DOMAIN read}
      BY <2>1
    <2>4. UNION {read'[r] : r \in DOMAIN read'}
            \subseteq UNION {read[r] : r \in DOMAIN read}
      BY <2>1
    <2> QED BY <2>1, <2>2, <2>3, <2>4 DEF Reported
  <1>4. CASE PassStep
    BY <1>4, PassKnows, PassWorld
  <1>5. CASE Saves \/ SaveFails \/ End
    <2>1. /\ pass' = None /\ UNCHANGED listed
          /\ read' = read \/ read' = <<>>
      BY <1>5 DEF Saves, SaveFails, End, client
    <2> QED BY <2>1 DEF Reported
  <1>6. CASE (roll # None /\ SetsOne) \/ RollMore(1)
    BY <1>6, EditsRoll DEF RInv, Called, Reported, client
  <1>7. ASSUME NEW e \in Ep, Watches(e) \/ Fetches(e)
        PROVE  Reported' \subseteq Reported
    BY <1>7 DEF Watches, Fetches, Reported, client, readers, kicks, Called
  <1>8. ASSUME NEW p \in Parts, Removes(p)
        PROVE  Reported' \subseteq Reported
    BY <1>8 DEF Removes, Reported, readers, kicks, Called
  <1>9. ASSUME NEW p \in Parts, Lists(p)
        PROVE  Reported' \subseteq Reported \cup (handed \ handed')
    BY <1>9 DEF Lists, Reported, readers, kicks, Called
  <1> QED BY <1>1, <1>2, <1>3, <1>4, <1>5, <1>6, <1>7, <1>8, <1>9, WindowSteps

\* The copy that counts is the same or knows more, but where changes are lost.
LEMMA CurrentSteps ==
  ASSUME FInv, [Next]_vars, roll' # None, ~torn'
  PROVE  /\ roll # None /\ ~torn
         /\ Current'.batch = Current.batch
         /\ Current.added \subseteq Current'.added
         /\ Current.gone \subseteq Current'.gone
         /\ Current.seen \subseteq Current'.seen
         /\ Current.left \subseteq Current'.left
         /\ PassStep \/ /\ Current'.added = Current.added
                        /\ Current'.seen = Current.seen
                        /\ Current'.left = Current.left
                        /\ Current'.gone = Current.gone
                        /\ Current'.watched = Current.watched
                        /\ Current'.counted = Current.counted
  <1> USE DEF FInv
  <1>1. CASE PassStep
    <2>1. /\ roll' = roll /\ torn' = torn /\ Goes
          /\ Current = pass.roll /\ Current' = pass'.roll
      BY <1>1, PassKnows DEF store
    <2> QED BY <1>1, <2>1, PassWorld DEF Goes
  <1>2. CASE Calm
    BY <1>2 DEF Calm, history, Current
  <1>3. ASSUME NEW q \in Reader, Reads(q)
        PROVE  roll # None /\ ~torn /\ Current' = Current
    BY <1>3 DEF Reads, store, history, Current
  <1>4. ASSUME NEW q \in Reader, TakesPass(q)
        PROVE  roll # None /\ ~torn /\ Current' = Current
    <2>1. UNCHANGED <<roll, torn>> /\ pass = None
      BY <1>4 DEF TakesPass, store, history
    <2>2. pass' = [at |-> "surveys", by |-> q, torrents |-> read[q],
                   before |-> UsersPart(roll), roll |-> roll,
                   files |-> FALSE, erase |-> {}, recheck |-> FALSE,
                   drop |-> FALSE]
      BY <1>4, <2>1 DEF TakesPass
    <2> QED BY <2>1, <2>2 DEF Current
  <1>5. CASE Saves
    <2>1. torn => torn'
      BY <1>5 DEF Saves
    <2> QED BY <1>5, <2>1, SavesDo DEF RInv, Current
  <1>6. CASE SaveFails \/ End
    BY <1>6 DEF SaveFails, End, store, Current
  <1>7. CASE (roll # None /\ SetsOne) \/ RollMore(1)
    BY <1>7, EditsRoll DEF RInv, Called, Current, history
  <1>8. ASSUME NEW e \in Ep, Watches(e) \/ Fetches(e)
        PROVE  roll # None /\ ~torn /\ Current' = Current
    BY <1>8 DEF Watches, Fetches, store, history, Current
  <1>9. ASSUME NEW p \in Parts, Removes(p) \/ Lists(p)
        PROVE  roll # None /\ ~torn /\ Current' = Current
    BY <1>9 DEF Removes, Lists, store, history, Current
  <1> QED BY <1>1, <1>2, <1>3, <1>4, <1>5, <1>6, <1>7, <1>8, <1>9, WindowSteps

\* Who touches the disk and what was watched.
LEMMA DiskSteps ==
  ASSUME RInv, [Next]_vars
  PROVE  \/ PassStep /\ completed' = completed
         \/ UNCHANGED <<have, disk, completed>> /\ handed' \subseteq handed
         \/ \E e \in disk : /\ UNCHANGED <<have, disk, handed>>
                            /\ completed' = completed \cup {e}
         \/ \E e \in Ep : /\ Part(e) \in listed
                          /\ UNCHANGED <<completed, handed, listed>>
                          /\ have' = have \cup {e} /\ disk' = disk \cup {e}
  <1>1. CASE Calm
    BY <1>1 DEF Calm, client
  <1>2. ASSUME NEW q \in Reader, Reads(q) \/ TakesPass(q)
        PROVE  UNCHANGED <<have, disk, completed, handed>>
    BY <1>2 DEF Reads, TakesPass, client
  <1>3. CASE PassStep
    BY <1>3, PassKnows
  <1>4. CASE Saves \/ SaveFails \/ End
    BY <1>4 DEF Saves, SaveFails, End, client
  <1>5. CASE (roll # None /\ SetsOne) \/ RollMore(1)
    BY <1>5, EditsRoll DEF RInv, Called, client
  <1>6. ASSUME NEW e \in Ep, Watches(e)
        PROVE  /\ e \in disk /\ UNCHANGED <<have, disk, handed>>
               /\ completed' = completed \cup {e}
    BY <1>6 DEF Watches, client
  <1>7. ASSUME NEW e \in Ep, Fetches(e)
        PROVE  /\ Part(e) \in listed /\ UNCHANGED <<completed, handed, listed>>
               /\ have' = have \cup {e} /\ disk' = disk \cup {e}
    BY <1>7 DEF Fetches
  <1>8. ASSUME NEW p \in Parts, Removes(p) \/ Lists(p)
        PROVE  UNCHANGED <<have, disk, completed>> /\ handed' \subseteq handed
    BY <1>8 DEF Removes, Lists
  <1> QED BY <1>1, <1>2, <1>3, <1>4, <1>5, <1>6, <1>7, <1>8, WindowSteps

\* What was watched stays on the disk until it is noted as gone.
LEMMA DiskStep ==
  ASSUME WInv, [Next]_vars
  PROVE  DiskInv'
  <1> USE DEF WInv, FInv
  <1>1. disk \subseteq have
    BY DEF ClientInv, DiskInv
  <1>2. disk' \subseteq have'
    BY <1>1, DiskSteps, PassWorld
  <1>3. ASSUME ~torn', roll' # None
        PROVE  completed' \ Current'.gone \subseteq disk'
    <2>1. /\ roll # None /\ ~torn
          /\ Current.gone \subseteq Current'.gone
      BY <1>3, CurrentSteps
    <2>2. completed \ Current.gone \subseteq disk
      BY <2>1 DEF ClientInv, DiskInv
    <2>3. CASE PassStep /\ completed' = completed
      <3>1. disk \ disk' \subseteq Current'.gone
        BY <2>3, PassWorld, PassKnows
      <3> QED BY <2>1, <2>2, <2>3, <3>1
    <2>4. CASE UNCHANGED <<have, disk, completed>>
      BY <2>1, <2>2, <2>4
    <2>5. ASSUME NEW e \in disk, UNCHANGED disk, completed' = completed \cup {e}
          PROVE  completed' \ Current'.gone \subseteq disk'
      BY <2>1, <2>2, <2>5
    <2>6. ASSUME NEW e \in Ep, UNCHANGED completed, disk' = disk \cup {e}
          PROVE  completed' \ Current'.gone \subseteq disk'
      BY <2>1, <2>2, <2>6
    <2> QED BY <2>3, <2>4, <2>5, <2>6, DiskSteps
  <1> QED BY <1>2, <1>3 DEF DiskInv

\* Where a copy's and the stored roll's seen come from.
LEMMA SeenSteps ==
  ASSUME RInv, [Next]_vars, NEW p, p \notin Reported,
         roll # None => p \notin roll.seen,
         pass # None => p \notin pass.roll.seen
  PROVE  /\ roll' # None => p \notin roll'.seen
         /\ pass' # None => p \notin pass'.roll.seen
  <1>1. CASE UNCHANGED <<roll, pass>> \/ (UNCHANGED roll /\ pass' = None)
    BY <1>1
  <1>2. CASE PassStep
    <2>1. UNCHANGED roll /\ pass # None
      BY <1>2, PassKnows DEF store, Goes
    <2>2. pass.torrents \subseteq Reported
      BY <2>1 DEF Reported
    <2> QED BY <1>2, <2>1, <2>2, PassWorld
  <1>3. ASSUME NEW q \in Reader, TakesPass(q)
        PROVE  /\ roll' # None => p \notin roll'.seen
               /\ pass' # None => p \notin pass'.roll.seen
    <2>1. UNCHANGED roll
      BY <1>3 DEF TakesPass, store
    <2>2. CASE roll = None
      BY <1>3, <2>1, <2>2 DEF TakesPass
    <2>3. CASE roll # None
      <3>1. pass' = [at |-> "surveys", by |-> q, torrents |-> read[q],
                     before |-> UsersPart(roll), roll |-> roll,
                     files |-> FALSE, erase |-> {}, recheck |-> FALSE,
                     drop |-> FALSE]
        BY <1>3, <2>3 DEF TakesPass
      <3> QED BY <2>1, <2>3, <3>1
    <2> QED BY <2>2, <2>3
  <1>4. CASE Saves
    BY <1>4, SavesDo DEF RInv
  <1>5. CASE (roll # None /\ SetsOne) \/ RollMore(1)
    BY <1>5, EditsRoll DEF RInv, Called
  <1> QED BY <1>1, <1>2, <1>3, <1>4, <1>5, RollSteps

\* A batch on its way stays unknown to everybody but the roll.
LEMMA BatchStep ==
  ASSUME WInv, [Next]_vars
  PROVE  BatchInv'
  <1> USE DEF WInv, FInv
  <1>1. SUFFICES ASSUME left'.batch PROVE BatchInv'
    BY DEF BatchInv
  <1>2. /\ left.batch
        /\ handed \cap Reported = {} /\ handed \cup Reported \subseteq {Whole}
        /\ Whole \in handed =>
             /\ disk = {} /\ completed = {}
             /\ roll # None => Whole \notin roll.seen
             /\ pass # None => Whole \notin pass.roll.seen
    BY <1>1, BudgetStands DEF ClientInv, BatchInv
  <1>3. handed' \subseteq handed
    <2>1. PassStep => ToAdd(pass.roll) = {}
      BY <1>2, PassKnows DEF ToAdd
    <2> QED BY <2>1, DiskSteps, PassWorld
  <1>4. /\ handed' \cap Reported' = {}
        /\ handed' \cup Reported' \subseteq {Whole}
    BY <1>2, <1>3, ReportedSteps
  <1>5. ASSUME Whole \in handed'
        PROVE  disk' = {} /\ completed' = {}
    <2>1. disk = {} /\ completed = {} /\ Whole \notin listed
      BY <1>2, <1>3, <1>5 DEF Reported
    <2>2. \A e \in Ep : Part(e) \notin listed
      BY <1>2, <2>1 DEF Part
    <2> QED BY <2>1, <2>2, DiskSteps, PassWorld
  <1>6. ASSUME Whole \in handed'
        PROVE  /\ roll' # None => Whole \notin roll'.seen
               /\ pass' # None => Whole \notin pass'.roll.seen
    <2>1. /\ Whole \notin Reported
          /\ roll # None => Whole \notin roll.seen
          /\ pass # None => Whole \notin pass.roll.seen
      BY <1>2, <1>3, <1>6
    <2> QED BY <2>1, SeenSteps
  <1> QED BY <1>4, <1>5, <1>6 DEF BatchInv

\* So does a single.
LEMMA SingleStep ==
  ASSUME WInv, [Next]_vars
  PROVE  SingleInv'
  <1> USE DEF WInv, FInv
  <1>1. SUFFICES ASSUME ~left'.batch, ~torn' PROVE SingleInv'
    BY DEF SingleInv
  <1>2. ~left.batch /\ ~torn
    <2>1. torn => torn'
      <3>1. CASE PassStep
        BY <3>1, PassKnows
      <3>2. CASE Saves \/ SaveFails \/ End
        BY <3>2 DEF Saves, SaveFails, End
      <3>3. CASE (roll # None /\ SetsOne) \/ RollMore(1)
        BY <3>3, EditsRoll DEF RInv, Called, history
      <3>4. ASSUME NEW q \in Reader, Reads(q) \/ TakesPass(q)
            PROVE  UNCHANGED torn
        BY <3>4 DEF Reads, TakesPass, history
      <3>5. ASSUME NEW e \in Ep, Watches(e) \/ Fetches(e)
            PROVE  UNCHANGED torn
        BY <3>5 DEF Watches, Fetches, history
      <3>6. ASSUME NEW p \in Parts, Removes(p) \/ Lists(p)
            PROVE  UNCHANGED torn
        BY <3>6 DEF Removes, Lists, history
      <3> QED BY <3>1, <3>2, <3>3, <3>4, <3>5, <3>6, WindowSteps
              DEF Calm, history
    <2> QED BY <1>1, <2>1, BudgetStands
  <1>3. /\ handed \cap (disk \cup completed) = {}
        /\ roll # None => disk \cup completed \subseteq Current.added
    BY <1>2 DEF ClientInv, SingleInv
  <1>4. /\ roll # None => listed \subseteq Current.added
        /\ handed \cap listed = {}
    BY <1>2 DEF RInv, SinglesInv, Reported
  <1>5. handed' \cap (disk' \cup completed') = {}
    <2>1. CASE PassStep /\ completed' = completed
      <3>1. roll # None /\ Current = pass.roll
        BY <2>1, PassKnows
      <3>2. ToAdd(pass.roll) \cap pass.roll.added = {}
        BY DEF ToAdd
      <3> QED BY <1>3, <2>1, <3>1, <3>2, PassWorld
    <2>2. ASSUME NEW e \in Ep, Part(e) \in listed
          PROVE  e \notin handed
      BY <1>2, <1>4, <2>2 DEF Part
    <2> QED BY <1>3, <2>1, <2>2, DiskSteps
  <1>6. ASSUME roll' # None
        PROVE  disk' \cup completed' \subseteq Current'.added
    <2>1. roll # None /\ Current.added \subseteq Current'.added
      BY <1>1, <1>6, CurrentSteps
    <2>2. \A e \in Ep : Part(e) \in listed => e \in Current.added
      BY <1>2, <1>4, <2>1 DEF Part
    <2>3. disk \cup completed \subseteq Current.added
      BY <1>3, <2>1
    <2> QED BY <2>1, <2>2, <2>3, DiskSteps, PassWorld
  <1> QED BY <1>5, <1>6 DEF SingleInv

\* The three together.
LEMMA ClientStep ==
  ASSUME WInv, [Next]_vars
  PROVE  ClientInv'
  BY DiskStep, BatchStep, SingleStep DEF ClientInv

-----------------------------------------------------------------------------
(* What is to come is not lost                                              *)

\* A pass taken, field by field.
LEMMA TakesDo ==
  ASSUME TypeOK, NEW q \in Reader, TakesPass(q), roll # None
  PROVE  /\ UNCHANGED <<roll, Called, client, completed, history>>
         /\ pass = None /\ q \in DOMAIN read
         /\ DOMAIN read' = DOMAIN read \ {q}
         /\ \A r \in DOMAIN read' : read'[r] = read[r]
         /\ pass'.at = "surveys" /\ pass'.torrents = read[q]
         /\ pass'.roll = roll /\ pass'.before = UsersPart(roll)
         /\ ~pass'.drop /\ pass' # None
  <1>1. pass' = [at |-> "surveys", by |-> q, torrents |-> read[q],
                 before |-> UsersPart(roll), roll |-> roll,
                 files |-> FALSE, erase |-> {}, recheck |-> FALSE,
                 drop |-> FALSE]
    BY DEF TakesPass
  <1>2. roll \in Roll /\ q \in DOMAIN read
    BY DEF TakesPass, TypeOK, Data
  <1>3. UsersPart(roll) \in Nat \X BOOLEAN \X ({None} \cup Ep) \X BOOLEAN
    BY <1>2 DEF UsersPart, Roll
  <1>4. read[q] \in SUBSET Parts
    BY <1>2 DEF TypeOK, Data
  <1>5. {} \in SUBSET Ep /\ FALSE \in BOOLEAN
    OBVIOUS
  <1>6. pass' \in Pass
    BY <1>1, <1>2, <1>3, <1>4, <1>5, Zenon DEF Pass
  <1>7. pass' # None
    BY <1>6, NothingAssumption
  <1> QED BY <1>1, <1>2, <1>7 DEF TakesPass, Without, store, kicks, Called

\* A list read: the reader's is the client's of now.
LEMMA ReadsDo ==
  ASSUME NEW q \in Reader, Reads(q)
  PROVE  /\ UNCHANGED <<roll, pass, client, completed, history>>
         /\ DOMAIN read' = DOMAIN read \cup {q}
         /\ \A r \in DOMAIN read' : read'[r] = IF r = q THEN listed ELSE read[r]
         /\ q = "task" \/ Called' = Called
  BY DEF Reads, With, Reader, store, kicks, Called

\* A kick or a nudge is not lost: the list it asks for is read, and looked at.
LEMMA ComingSteps ==
  ASSUME FInv, [Next]_vars, roll' # None, NEW p, p \in listed, Coming(p)
  PROVE  \/ Coming(p)'
         \/ PassStep /\ pass.at = "surveys" /\ p \in pass.torrents
         \/ SaveFails \/ End
  <1> USE DEF Coming, Passes
  <1>1. CASE Calm
    BY <1>1 DEF Calm
  <1>2. ASSUME NEW q \in Reader, Reads(q) PROVE Coming(p)'
    BY <1>2, ReadsDo DEF client
  <1>3. ASSUME NEW q \in Reader, TakesPass(q) PROVE Coming(p)'
    <2>1. roll # None
      BY <1>3 DEF TakesPass, store
    <2> QED BY <1>3, <2>1, TakesDo DEF FInv, RInv
  <1>4. CASE PassStep
    <2>1. UNCHANGED <<read, Called>>
      BY <1>4, PassKnows DEF readers, kicks, Called, FInv
    <2> QED BY <1>4, <2>1
  <1>5. CASE Saves
    BY <1>5, SavesDo DEF Saves, FInv, RInv, kicks, Called
  <1>6. CASE (roll # None /\ SetsOne) \/ RollMore(1)
    BY <1>6, EditsRoll DEF FInv, RInv, Called
  <1>7. ASSUME NEW e \in Ep, Watches(e) \/ Fetches(e) PROVE Coming(p)'
    <2>1. UNCHANGED <<read, pass>>
      BY <1>7 DEF Watches, Fetches, readers, kicks, Called
    <2>2. Called => Called'
      BY <1>7, Zenon DEF Watches, Fetches, readers, kicks, Called
    <2> QED BY <2>1, <2>2
  <1>8. ASSUME NEW q \in Parts, Removes(q) \/ Lists(q) PROVE Coming(p)'
    BY <1>8 DEF Removes, Lists, readers, kicks, Called
  <1> QED BY <1>1, <1>2, <1>3, <1>4, <1>5, <1>6, <1>7, <1>8, WindowSteps

\* An episode watched of a torrent the client has was so before, or has just
\* been watched, which asks for a pass.
LEMMA StaysSteps ==
  ASSUME WInv, [Next]_vars, ~torn', NEW e \in Ep, Stays(e)'
  PROVE  \/ Called'
         \/ Stays(e) /\ PartOf(Current, e)' = PartOf(Current, e)
  <1> USE DEF WInv, FInv
  <1>1. roll' # None /\ e \in completed'
        /\ PartOf(Current, e)' \in listed' \ Current'.left
    BY DEF Stays
  <1>2. /\ roll # None /\ ~torn
        /\ Current'.batch = Current.batch
        /\ Current.left \subseteq Current'.left
    BY <1>1, CurrentSteps
  <1>3. PartOf(Current, e)' = PartOf(Current, e)
    BY <1>2 DEF PartOf
  <1>4. /\ Current.batch = left.batch
        /\ left.batch /\ Whole \in handed => completed = {}
        /\ ~left.batch => handed \cap completed = {}
    BY <1>2, CurrentKnown DEF ClientInv, BatchInv, SingleInv
  <1>5. ASSUME e \in completed, PartOf(Current, e) \notin handed,
               listed' \subseteq listed \cup handed
        PROVE  Stays(e)
    BY <1>1, <1>2, <1>3, <1>5 DEF Stays
  <1>6. ASSUME e \in completed, listed' \subseteq listed \cup handed
        PROVE  Stays(e)
    <2>1. PartOf(Current, e) \notin handed
      BY <1>4, <1>6 DEF PartOf
    <2> QED BY <1>5, <1>6, <2>1
  <1>7. CASE Calm
    BY <1>1, <1>3, <1>6, <1>7 DEF Calm, client
  <1>8. ASSUME NEW q \in Reader, Reads(q) \/ TakesPass(q)
        PROVE  UNCHANGED <<completed, listed>>
    BY <1>8 DEF Reads, TakesPass, client
  <1>9. CASE PassStep
    BY <1>1, <1>3, <1>6, <1>9, PassKnows, PassWorld
  <1>10. CASE Saves \/ SaveFails \/ End
    BY <1>1, <1>3, <1>6, <1>10 DEF Saves, SaveFails, End, client
  <1>11. CASE (roll # None /\ SetsOne) \/ RollMore(1)
    BY <1>11, EditsRoll DEF RInv, Called
  <1>12. ASSUME NEW f \in Ep, Watches(f) PROVE Called'
    BY <1>2, <1>12 DEF Watches, Called
  <1>13. ASSUME NEW f \in Ep, Fetches(f) PROVE UNCHANGED <<completed, listed>>
    BY <1>13 DEF Fetches
  <1>14. ASSUME NEW p \in Parts, Removes(p) \/ Lists(p)
         PROVE  completed' = completed /\ listed' \subseteq listed \cup handed
    BY <1>14 DEF Removes, Lists
  <1> QED BY <1>1, <1>3, <1>6, <1>7, <1>8, <1>9, <1>10, <1>11, <1>12, <1>13,
             <1>14, WindowSteps

\* An edit during a pass asks for the next one.
LEMMA EditedStep ==
  ASSUME WInv, [Next]_vars
  PROVE  EditedOwed'
  <1> USE DEF WInv, FInv, EditedOwed, Edited
  <1>1. CASE Calm
    BY <1>1 DEF Calm
  <1>2. ASSUME NEW q \in Reader, Reads(q) PROVE EditedOwed'
    BY <1>2, ReadsDo
  <1>3. ASSUME NEW q \in Reader, TakesPass(q) PROVE EditedOwed'
    <2>1. CASE roll = None
      BY <1>3, <2>1 DEF TakesPass
    <2>2. CASE roll # None
      BY <1>3, <2>2, TakesDo DEF RInv
    <2> QED BY <2>1, <2>2
  <1>4. CASE PassStep
    BY <1>4, PassKnows DEF Goes, store, readers, kicks, Called
  <1>5. CASE Saves \/ SaveFails \/ End
    BY <1>5 DEF Saves, SaveFails, End, kicks, Called
  <1>6. CASE (roll # None /\ SetsOne) \/ RollMore(1)
    BY <1>6, EditsRoll DEF RInv, Called
  <1>7. ASSUME NEW e \in Ep, Watches(e) \/ Fetches(e) PROVE EditedOwed'
    <2>1. UNCHANGED <<read, roll, pass>>
      BY <1>7 DEF Watches, Fetches, readers, kicks, Called, store
    <2>2. Called => Called'
      BY <1>7, Zenon DEF Watches, Fetches, readers, kicks, Called
    <2> QED BY <2>1, <2>2
  <1>8. ASSUME NEW q \in Parts, Removes(q) \/ Lists(q) PROVE EditedOwed'
    BY <1>8 DEF Removes, Lists, readers, kicks, Called, store
  <1> QED BY <1>1, <1>2, <1>3, <1>4, <1>5, <1>6, <1>7, <1>8, WindowSteps

\* A part that is in every list not yet looked at, or seen, stays so.
LEMMA StaleStep ==
  ASSUME WInv, [Next]_vars
  PROVE  StaleInv'
  <1> USE DEF WInv, FInv
  <1>1. SUFFICES ASSUME ~torn', NEW e \in Ep, Stays(e)', ~Called'
                 PROVE  \/ PartOf(Current, e)' \in Current'.seen
                        \/ Coming(PartOf(Current, e))'
                        \/ InAll(PartOf(Current, e))'
    BY DEF StaleInv, Coming
  <1>2. Stays(e) /\ PartOf(Current, e)' = PartOf(Current, e)
    BY <1>1, StaysSteps
  <1> DEFINE here == PartOf(Current, e)
  <1>3. PICK p \in {here} : TRUE
    OBVIOUS
  <1>4. /\ roll # None /\ ~torn /\ Current.seen \subseteq Current'.seen
        /\ p \in listed \ Current.left /\ roll' # None
        /\ p = PartOf(Current, e) /\ p = PartOf(Current, e)'
        /\ PartOf(Current, e)' \notin Current'.left
    BY <1>1, <1>2, CurrentSteps DEF Stays
  <1> HIDE DEF here
  <1>5. p \in Current.seen \/ Coming(p) \/ InAll(p)
    BY <1>2, <1>4 DEF StaleInv
  <1>6. p \in Current.added
    BY <1>4, CurrentKnown DEF Record, RInv, SinglesInv, Reported, PartOf
  <1>7. ASSUME PassStep, pass.at = "surveys", p \in pass.torrents
        PROVE  p \in Current'.seen
    <2>1. Current = pass.roll /\ Current' = pass'.roll /\ pass # None /\ TypeOK
      BY <1>7, PassKnows DEF Goes, RInv
    <2>2. PICK rows \in SUBSET completed, files \in BOOLEAN :
            Surveys(files, rows)
      <3>1. PICK rows \in SUBSET (completed \ disk) :
              SurveysWell(rows) \/ SurveysBlind(rows)
        BY <1>7
        DEF PassStep, ActsWell, SomeRefused, Faulting, Acts, AddFails, Erases,
            ErasesNot, ErasesSingle, ErasesFile, Leaves, EraseFails, Erasing,
            Rechecks, RecheckFails, Rechecked, At
      <3>2. Readable \in BOOLEAN
        BY DEF Readable
      <3> QED BY <3>1, <3>2 DEF SurveysWell, SurveysBlind, Faulting
    <2> QED BY <1>4, <1>6, <1>7, <2>1, <2>2, SurveyFinds DEF SeenBy
  <1>8. CASE p \in Current.seen
    BY <1>4, <1>8
  <1>9. ASSUME pass = None, read' = <<>>, pass' = None
        PROVE  InAll(p)'
    BY <1>9 DEF InAll, Passes
  <1>10. ~SaveFails /\ (End => InAll(p)')
    BY <1>1, <1>9 DEF SaveFails, End
  <1>11. CASE Coming(p)
    BY <1>4, <1>7, <1>10, <1>11, ComingSteps
  <1>12. CASE InAll(p)
    <2> USE <1>12, <1>4 DEF InAll, Passes
    <2>1. CASE Calm
      BY <2>1 DEF Calm
    <2>2. ASSUME NEW q \in Reader, Reads(q) PROVE InAll(p)'
      BY <2>2, ReadsDo
    <2>3. ASSUME NEW q \in Reader, TakesPass(q) PROVE InAll(p)'
      BY <2>3, TakesDo DEF RInv
    <2>4. CASE PassStep
      <3>1. UNCHANGED read /\ pass # None /\ pass' # None
        BY <2>4, PassKnows DEF readers, kicks, Called, Goes
      <3> QED BY <1>7, <2>4, <3>1, PassWorld
    <2>5. CASE Saves
      BY <2>5 DEF Saves
    <2>6. ASSUME NEW f \in Ep, Watches(f) \/ Fetches(f) PROVE InAll(p)'
      BY <2>6 DEF Watches, Fetches, readers, kicks, Called
    <2>7. ASSUME NEW q \in Parts, Removes(q) \/ Lists(q) PROVE InAll(p)'
      BY <2>7 DEF Removes, Lists, readers, kicks, Called
    <2>8. CASE (roll # None /\ SetsOne) \/ RollMore(1)
      BY <1>1, <2>8, EditsRoll DEF RInv, Called
    <2> QED BY <1>4, <1>10, <2>1, <2>2, <2>3, <2>4, <2>5, <2>6, <2>7, <2>8,
               WindowSteps
  <1> QED BY <1>4, <1>5, <1>8, <1>11, <1>12

-----------------------------------------------------------------------------
(* What was watched is noted                                                *)

\* A pass that has yet to look, looks; one that does so without a fault reads
\* the files of a batch it can.
LEMMA LooksFirst ==
  ASSUME RInv, PassStep, pass.at = "surveys"
  PROVE  /\ pass # None /\ TypeOK
         /\ Current = pass.roll /\ Current' = pass'.roll
         /\ UNCHANGED <<read, Called, listed, completed>>
         /\ \E rows \in SUBSET completed, files \in BOOLEAN :
              Surveys(files, rows) /\ (~faulted' => files = Readable)
  <1>1. PICK rows \in SUBSET (completed \ disk) :
          SurveysWell(rows) \/ SurveysBlind(rows)
    BY DEF PassStep, ActsWell, SomeRefused, Faulting, Acts, AddFails, Erases,
           ErasesNot, ErasesSingle, ErasesFile, Leaves, EraseFails, Erasing,
           Rechecks, RecheckFails, Rechecked, At
  <1>2. Readable \in BOOLEAN
    BY DEF Readable
  <1>3. SurveysWell(rows) => Surveys(Readable, rows)
    BY DEF SurveysWell
  <1>4. SurveysBlind(rows) => Surveys(FALSE, rows) /\ faulted'
    BY DEF SurveysBlind, Faulting
  <1>5. UNCHANGED <<read, Called, listed, completed>>
    <2>1. UNCHANGED <<readers, client, completed>>
      BY <1>1, <1>3, <1>4 DEF Surveys
    <2>2. UNCHANGED <<read, asked, lost, listed, completed>>
      BY <2>1 DEF readers, kicks, client
    <2>3. Called' = Called
      BY <2>2 DEF Called
    <2> QED BY <2>2, <2>3
  <1>6. /\ pass # None /\ TypeOK
        /\ Current = pass.roll /\ Current' = pass'.roll
    BY PassKnows DEF Goes, RInv
  <1> QED BY <1>1, <1>2, <1>3, <1>4, <1>5, <1>6

\* Past its look it changes nothing it found.
LEMMA ThenGoesOn ==
  ASSUME RInv, PassStep, pass.at # "surveys"
  PROVE  /\ pass # None /\ Onward /\ pass.at \in {"acts", "erases"}
         /\ pass.at = "erases" => pass'.drop = pass.drop
  <1>1. pass # None /\ TypeOK
    BY PassKnows DEF Goes, RInv
  <1>2. ASSUME NEW rows, SurveysWell(rows) \/ SurveysBlind(rows)
        PROVE  FALSE
    BY <1>2 DEF SurveysWell, SurveysBlind, At
  <1>3. CASE ActsWell \/ SomeRefused
    <2>1. PICK refused \in SUBSET Prio : Acts(refused)
      BY <1>3 DEF ActsWell, SomeRefused, Faulting
    <2> QED BY <1>1, <2>1, ActsDo
  <1>4. CASE AddFails
    BY <1>1, <1>4, MovesDo DEF AddFails, Moving, At
  <1>5. CASE Erases \/ ErasesNot
    <2>1. PICK e \in Ep :
            ErasesSingle(e) \/ ErasesFile(e) \/ Leaves(e) \/ EraseFails(e)
      BY <1>5 DEF Erases, ErasesNot, Faulting
    <2> QED BY <1>1, <2>1, ErasesDo
  <1>6. CASE Rechecks \/ RecheckFails
    BY <1>1, <1>6, MovesDo
    DEF Rechecks, RecheckFails, Faulting, Rechecked, At
  <1> QED BY <1>2, <1>3, <1>4, <1>5, <1>6 DEF PassStep

\* Only a pass that looks well forgets that a call failed.
LEMMA FaultSteps ==
  ASSUME RInv, [Next]_vars, ~faulted'
  PROVE  /\ (PassStep /\ pass.at = "surveys") \/ ~faulted
         /\ ~SaveFails /\ ~End
  <1>1. ~SaveFails /\ ~End
    BY DEF SaveFails, End
  <1>2. ASSUME PassStep, pass.at # "surveys"
        PROVE  faulted' = faulted \/ faulted' = TRUE
    <2>1. ASSUME NEW rows, SurveysWell(rows) \/ SurveysBlind(rows)
          PROVE  FALSE
      BY <1>2, <2>1 DEF SurveysWell, SurveysBlind, At
    <2> QED BY <1>2, <2>1, Zenon
            DEF PassStep, ActsWell, SomeRefused, Faulting, AddFails, Erases,
                ErasesNot, Rechecks, RecheckFails
  <1>3. ASSUME NEW q \in Reader, Reads(q) \/ TakesPass(q)
        PROVE  UNCHANGED faulted
    BY <1>3 DEF Reads, TakesPass, history
  <1>4. ASSUME Saves PROVE UNCHANGED faulted
    BY <1>4 DEF Saves
  <1>5. ASSUME (roll # None /\ SetsOne) \/ RollMore(1)
        PROVE  UNCHANGED faulted
    <2>1. UNCHANGED history
      BY <1>5, EditsRoll DEF RInv, Called
    <2> QED BY <2>1 DEF history
  <1>6. ASSUME NEW e \in Ep, Watches(e) \/ Fetches(e)
        PROVE  UNCHANGED faulted
    BY <1>6 DEF Watches, Fetches, history
  <1>7. ASSUME NEW p \in Parts, Removes(p) \/ Lists(p)
        PROVE  UNCHANGED faulted
    BY <1>7 DEF Removes, Lists, history
  <1>8. ASSUME Calm PROVE UNCHANGED faulted
    BY <1>8 DEF Calm, history
  <1>9. \/ PassStep /\ pass.at = "surveys"
        \/ faulted' = faulted \/ faulted' = TRUE
    BY <1>1, <1>2, <1>3, <1>4, <1>5, <1>6, <1>7, <1>8, WindowSteps, Zenon
  <1>10. faulted' # TRUE
    OBVIOUS
  <1>11. ASSUME faulted' = faulted PROVE ~faulted
    <2>1. faulted \in {TRUE, FALSE}
      BY DEF RInv, TypeOK, Flags
    <2>2. faulted # TRUE
      BY <1>10, <1>11
    <2> QED BY <2>1, <2>2
  <1> QED BY <1>1, <1>9, <1>10, <1>11

\* A roll that a pass is about to end has ended or its changes were lost.
LEMMA DropSteps ==
  ASSUME FInv, [Next]_vars, roll' # None, ~torn', ~faulted',
         pass # None, pass.drop
  PROVE  pass' # None /\ pass'.drop
  <1> USE DEF FInv
  <1>1. CASE PassStep
    <2>1. pass.at \notin {"surveys", "acts"}
      BY DEF RecordInv, PassRecord
    <2> QED BY <1>1, <2>1, ThenGoesOn, PassKnows DEF Goes
  <1>2. CASE Saves
    BY <1>2, SavesDo DEF Drops, RInv
  <1>3. ASSUME NEW q \in Reader, Reads(q) \/ TakesPass(q)
        PROVE  pass' = pass
    BY <1>3 DEF Reads, TakesPass
  <1>4. CASE (roll # None /\ SetsOne) \/ RollMore(1)
    BY <1>4, EditsRoll DEF RInv, Called
  <1>5. ASSUME NEW e \in Ep, Watches(e) \/ Fetches(e) PROVE pass' = pass
    BY <1>5 DEF Watches, Fetches
  <1>6. ASSUME NEW p \in Parts, Removes(p) \/ Lists(p) PROVE pass' = pass
    BY <1>6 DEF Removes, Lists
  <1> QED BY <1>1, <1>2, <1>3, <1>4, <1>5, <1>6, FaultSteps, WindowSteps
          DEF Calm

\* A pass that looks notes what was watched of the torrents in its list; of
\* another it has reason to think that it left, or another pass is to come.
LEMMA LookNotes ==
  ASSUME WInv, [Next]_vars, PassStep, pass.at = "surveys",
         ~torn', ~faulted', ~Called',
         NEW e \in Ep, Stays(e)', Current'.counted, e \notin Current'.gone
  PROVE  \/ e \in Current'.watched
         \/ Coming(PartOf(Current, e))'
         \/ pass'.drop
  <1> USE DEF WInv, FInv
  <1>1. /\ pass # None /\ TypeOK
        /\ Current = pass.roll /\ Current' = pass'.roll
        /\ UNCHANGED <<read, Called, listed, completed>>
    BY LooksFirst
  <1>2. PICK rows \in SUBSET completed, files \in BOOLEAN :
          Surveys(files, rows)
    BY LooksFirst
  <1>3. Stays(e) /\ PartOf(Current, e)' = PartOf(Current, e)
    BY StaysSteps
  <1>4. PICK p \in {PartOf(pass.roll, e)} : TRUE
    OBVIOUS
  <1>5. /\ p = PartOf(pass.roll, e) /\ p = PartOf(pass'.roll, e)
        /\ p \in listed /\ p \notin pass.roll.left
        /\ p \notin pass'.roll.left
        /\ roll # None /\ e \in completed
    BY <1>1, <1>3, <1>4 DEF Stays
  <1>6. ~torn
    BY PassKnows
  <1>7. p \in pass.roll.added
    BY <1>1, <1>5, <1>6, CurrentKnown
    DEF Record, RInv, SinglesInv, Reported, PartOf
  <1>8. e \in disk /\ e \in have /\ e \notin pass.roll.gone
    <2>1. e \notin pass.roll.gone
      BY <1>1, <1>2, SurveyFinds
    <2> QED BY <1>1, <1>5, <1>6, <2>1 DEF ClientInv, DiskInv
  <1>9. CASE p \in pass.torrents
    <2>1. p \in pass'.roll.seen
      BY <1>1, <1>2, <1>5, <1>7, <1>9, SurveyFinds DEF SeenBy
    <2>2. CASE pass'.at = "saves"
      BY <1>1, <1>2, <2>2, SurveyFinds
    <2>3. CASE pass'.at = "acts"
      <3>1. pass'.roll.watched =
              pass.roll.watched \cup Watched(pass'.roll, files, rows)
        BY <1>1, <1>2, <2>3, SurveyFinds
      <3>2. e \in Known(pass'.roll) /\ e \notin pass'.roll.gone
        BY <1>1 DEF Known
      <3>3. e \in Watched(pass'.roll, files, rows)
        BY <1>5, <1>8, <1>9, <2>1, <3>2 DEF Watched
      <3> QED BY <1>1, <3>1, <3>3
    <2> QED BY <1>1, <1>2, <2>2, <2>3, SurveyFinds
  <1>10. CASE p \notin pass.torrents
    <2>1. p \notin pass.roll.seen
      BY <1>1, <1>2, <1>5, <1>7, <1>10, SurveyFinds DEF LeftBy
    <2>2. Coming(p)
      BY <1>1, <1>3, <1>5, <1>6, <1>10, <2>1 DEF StaleInv, InAll, Passes
    <2>3. Called \/ ("task" \in DOMAIN read /\ p \in read["task"])
      BY <1>10, <2>2 DEF Coming, Passes
    <2> QED BY <1>1, <1>5, <2>3 DEF Coming
  <1> QED BY <1>9, <1>10

\* What was watched is noted once no pass is to come.
LEMMA NoteStep ==
  ASSUME WInv, [Next]_vars
  PROVE  NoteInv'
  <1> USE DEF WInv, FInv
  <1>1. SUFFICES ASSUME ~torn', ~faulted', ~Called',
                        NEW e \in Ep, Stays(e)', Current'.counted,
                        e \notin Current'.gone
                 PROVE  \/ e \in Current'.watched
                        \/ Coming(PartOf(Current, e))'
                        \/ pass' # None /\ pass'.drop
    BY DEF NoteInv, Coming
  <1>2. CASE PassStep /\ pass.at = "surveys"
    BY <1>1, <1>2, LookNotes, PassKnows DEF Goes
  <1>3. CASE ~(PassStep /\ pass.at = "surveys")
    <2>1. ~faulted
      BY <1>1, <1>3, FaultSteps
    <2>2. Stays(e) /\ PartOf(Current, e)' = PartOf(Current, e)
      BY <1>1, StaysSteps
    <2>3. roll' # None
      BY <1>1 DEF Stays
    <2>4. /\ ~torn /\ Current.gone \subseteq Current'.gone
          /\ Current'.watched = Current.watched
          /\ Current'.counted = Current.counted
      <3>1. CASE PassStep
        BY <1>1, <1>3, <2>3, <3>1, CurrentSteps, ThenGoesOn, PassKnows
        DEF Onward, Alike
      <3>2. CASE ~PassStep
        BY <1>1, <2>3, <3>2, CurrentSteps
      <3> QED BY <3>1, <3>2
    <2>5. \/ e \in Current.watched \/ Coming(PartOf(Current, e))
          \/ pass # None /\ pass.drop
      BY <1>1, <2>1, <2>2, <2>4 DEF NoteInv
    <2>6. ASSUME Coming(PartOf(Current, e))
          PROVE  Coming(PartOf(Current, e))'
      <3>1. PICK p \in {PartOf(Current, e)} : TRUE
        OBVIOUS
      <3>2. p = PartOf(Current, e)' /\ Coming(p) /\ p \in listed
        BY <2>2, <2>6, <3>1 DEF Stays
      <3>3. Coming(p)'
        BY <1>1, <1>3, <2>3, <3>2, ComingSteps, FaultSteps
      <3> QED BY <3>2, <3>3 DEF Coming
    <2> QED BY <1>1, <2>3, <2>4, <2>5, <2>6, DropSteps
  <1> QED BY <1>2, <1>3

\* A batch's files are read by every pass that finds it.
LEMMA FilesStep ==
  ASSUME WInv, [Next]_vars
  PROVE  FilesInv'
  <1> USE DEF WInv, FInv
  <1>1. SUFFICES ASSUME ~faulted', Passes("acts")' \/ Passes("erases")',
                        pass'.roll.batch,
                        Whole \in (listed' \cap pass'.torrents)
                                    \ pass'.roll.left
                 PROVE  pass'.files
    BY DEF FilesInv
  <1> USE DEF Passes
  <1>2. CASE PassStep /\ pass.at = "surveys"
    <2>1. /\ pass # None /\ TypeOK /\ listed' = listed
      BY <1>2, LooksFirst
    <2>2. PICK rows \in SUBSET completed, files \in BOOLEAN :
            Surveys(files, rows) /\ files = Readable
      BY <1>1, <1>2, LooksFirst
    <2>3. Readable
      BY <1>1, <2>1, <2>2, SurveyFinds DEF Readable, LeftBy
    <2> QED BY <1>1, <2>1, <2>2, <2>3, SurveyFinds
  <1>3. CASE PassStep /\ pass.at # "surveys"
    <2>1. ~faulted /\ pass # None
      BY <1>1, <1>3, FaultSteps, ThenGoesOn
    <2>2. /\ Onward /\ pass.at \in {"acts", "erases"}
          /\ listed' \subseteq listed
          /\ pass.roll.left \subseteq pass'.roll.left
      BY <1>3, ThenGoesOn, PassWorld
    <2> QED BY <1>1, <2>1, <2>2 DEF FilesInv, Onward, Alike
  <1>4. ASSUME ~PassStep, pass' = pass, listed' \subseteq listed \cup handed
        PROVE  pass'.files
    <2>1. ~faulted
      BY <1>1, <1>4, FaultSteps
    <2>2. left.batch
      BY <1>1, <1>4 DEF RInv, PassInv
    <2>3. Whole \notin handed
      BY <1>1, <1>4, <2>2 DEF ClientInv, BatchInv, Reported
    <2> QED BY <1>1, <1>4, <2>1, <2>3 DEF FilesInv
  <1>5. CASE Calm
    BY <1>2, <1>3, <1>4, <1>5 DEF Calm, client
  <1>6. ASSUME NEW q \in Reader, Reads(q) PROVE pass'.files
    BY <1>2, <1>3, <1>4, <1>6 DEF Reads, client
  <1>7. ASSUME NEW q \in Reader, TakesPass(q) PROVE FALSE
    <2>1. roll # None
      BY <1>1, <1>7 DEF TakesPass
    <2> QED BY <1>1, <1>7, <2>1, TakesDo DEF RInv
  <1>8. CASE Saves \/ SaveFails \/ End
    BY <1>1, <1>8 DEF Saves, SaveFails, End
  <1>9. CASE (roll # None /\ SetsOne) \/ RollMore(1)
    BY <1>2, <1>3, <1>4, <1>9, EditsRoll DEF RInv, Called, client
  <1>10. ASSUME NEW e \in Ep, Watches(e) \/ Fetches(e) PROVE pass'.files
    BY <1>2, <1>3, <1>4, <1>10 DEF Watches, Fetches, client
  <1>11. ASSUME NEW p \in Parts, Removes(p) \/ Lists(p) PROVE pass'.files
    BY <1>2, <1>3, <1>4, <1>11 DEF Removes, Lists
  <1> QED BY <1>2, <1>3, <1>5, <1>6, <1>7, <1>8, <1>9, <1>10, <1>11,
             WindowSteps

-----------------------------------------------------------------------------
(* What the client was told                                                 *)

\* The window of a record is that of one like it.
LEMMA AlikeWindow ==
  ASSUME NEW r, NEW s, Alike(r, s), NEW e
  PROVE  /\ Wanted(s, e) = Wanted(r, e) /\ Kept(s, e) = Kept(r, e)
         /\ Last(s) = Last(r) /\ Start(s) = Start(r) /\ Known(s) = Known(r)
         /\ PartOf(s, e) = PartOf(r, e)
         /\ (e \in s.gone <=> e \in r.gone) => Wish(s, e) = Wish(r, e)
  <1>1. Last(s) = Last(r) /\ Start(s) = Start(r)
    BY DEF Alike, Last, Start
  <1>2. Kept(s, e) = Kept(r, e)
    BY <1>1 DEF Kept
  <1>3. Reach(s) = Reach(r)
    BY <1>1 DEF Alike, Reach
  <1>4. Wanted(s, e) = Wanted(r, e)
    BY <1>1, <1>2, <1>3 DEF Alike, Wanted
  <1>5. (e \in s.gone <=> e \in r.gone) => Wish(s, e) = Wish(r, e)
    BY <1>1, <1>4 DEF Alike, Wish
  <1>6. Known(s) = Known(r) /\ PartOf(s, e) = PartOf(r, e)
    BY DEF Alike, Known, PartOf
  <1> QED BY <1>1, <1>2, <1>4, <1>5, <1>6

\* An episode to be erased is out of the window.
LEMMA ErasedUnwanted ==
  ASSUME NEW r \in Roll, NEW e \in ToErase(r)
  PROVE  ~Wanted(r, e) /\ Wish(r, e) = "skip"
  <1>1. e \in r.watched /\ e < Last(r) /\ ~Kept(r, e) /\ e \in Ep
    BY DEF ToErase, Held, Known
  <1>2. Last(r) \in Nat /\ e \in Nat
    BY <1>1, LastWatched, WindowAssumption DEF Ep
  <1>3. Reach(r) \in Ep
    BY ReachTypes
  <1>4. e \notin Start(r)..Reach(r)
    BY <1>1, <1>2, <1>3, WindowAssumption DEF Start, Ep
  <1>5. ~Wanted(r, e)
    BY <1>1, <1>4 DEF Wanted
  <1> QED BY <1>5 DEF Wish

\* Of a record that only lost what it had, no more is to be added or erased.
LEMMA LessToDo ==
  ASSUME NEW r, NEW s, Alike(r, s), r.gone \subseteq s.gone,
         r.left \subseteq s.left, s.added = r.added
  PROVE  /\ ToAdd(s) \subseteq ToAdd(r)
         /\ ToErase(s) \subseteq ToErase(r) \ s.gone
  <1>1. SUFFICES ASSUME NEW e
                 PROVE  /\ e \in ToAdd(s) => e \in ToAdd(r)
                        /\ e \in ToErase(s) => e \in ToErase(r) /\ e \notin s.gone
    OBVIOUS
  <1>2. /\ Wanted(s, e) = Wanted(r, e) /\ Kept(s, e) = Kept(r, e)
        /\ Last(s) = Last(r)
    BY AlikeWindow
  <1>3. e \in Held(s) => e \in Held(r)
    BY DEF Held, Known, PartOf, Alike
  <1>4. e \in ToAdd(s) => e \in ToAdd(r)
    BY <1>2, <1>3 DEF ToAdd, Alike
  <1>5. e \in ToErase(s) => e \in ToErase(r) /\ e \notin s.gone
    BY <1>2, <1>3 DEF ToErase, Alike
  <1> QED BY <1>4, <1>5

\* A pass that acts without a fault tells the client what the record says.
LEMMA ActsTell ==
  ASSUME WInv, [Next]_vars, ActsWell, ~torn', ~faulted'
  PROVE  Told(Current)'
  <1> DEFINE r == pass.roll
             s == pass'.roll
  <1>1. PassStep /\ Acts({}) /\ listed' = listed /\ UNCHANGED faulted
    BY DEF ActsWell, Acts, PassStep
  <1> USE DEF WInv, FInv
  <1>2. /\ pass # None /\ pass' # None /\ TypeOK /\ Current' = s
        /\ r.batch = left.batch
    BY <1>1, PassKnows DEF Goes, RInv
  <1>3. PassRecord /\ Record(r) /\ pass.at = "acts" /\ ~faulted
    <2>1. pass.at = "acts"
      BY <1>1 DEF Acts, At
    <2>2. ~faulted
      BY <1>1, <2>1, FaultSteps
    <2> QED BY <1>2, <2>1, <2>2 DEF RecordInv, PassRecord
  <1>4. {} \in SUBSET Prio
    OBVIOUS
  <1>5. /\ Onward /\ pass'.at = "erases" /\ pass'.erase = pass.erase
        /\ s.gone = r.gone /\ s.left = r.left
        /\ \/ /\ pass.files /\ s.added = r.added
              /\ Whole \in listed => \A e \in Ep : prio'[e] = Wish(r, e)
           \/ /\ ~pass.files /\ s.added = r.added \cup ToAdd(r)
    BY <1>1, <1>2, <1>4, ActsDo
  <1>6. Alike(r, s) /\ PassStep
    BY <1>1, <1>5 DEF Onward
  <1>7. ASSUME s.batch, s.counted, Whole \in listed' \ s.left, NEW e \in Ep
        PROVE  prio'[e] = Wish(s, e)
    <2>1. r.batch /\ r.counted /\ Whole \in listed \ r.left
      BY <1>1, <1>5, <1>6, <1>7 DEF Alike
    <2>2. Whole \in pass.torrents
      BY <1>3, <2>1 DEF Record, PassRecord
    <2>3. pass.files
      BY <1>2, <1>3, <2>1, <2>2 DEF FilesInv, Passes
    <2> QED BY <1>5, <1>6, <2>1, <2>3, AlikeWindow
  <1>8. ToAdd(s) = {}
    <2>1. SUFFICES ASSUME NEW e \in ToAdd(s) PROVE FALSE
      OBVIOUS
    <2>2. /\ e \in Held(s) /\ ~s.batch /\ e \notin s.gone \cup s.added
          /\ Wanted(s, e)
      BY <2>1 DEF ToAdd
    <2>3. ~r.batch /\ ~pass.files
      BY <1>3, <1>6, <2>2 DEF Alike, PassRecord
    <2>4. e \in Held(r) /\ Wanted(r, e)
      BY <1>5, <1>6, <2>2, AlikeWindow DEF Held, Known, PartOf, Alike
    <2> QED BY <1>5, <2>2, <2>3, <2>4 DEF ToAdd
  <1>9. ASSUME NEW e \in ToErase(s) PROVE e \in pass'.erase
    <2>1. /\ e \in Held(s) /\ e \in s.watched /\ s.delete /\ e \notin s.gone
          /\ e < Last(s) /\ ~Kept(s, e)
      BY <1>9 DEF ToErase
    <2>2. /\ e \in Held(r) /\ e \in r.watched /\ r.delete /\ e \notin r.gone
          /\ e < Last(r) /\ ~Kept(r, e)
      <3>1. Kept(s, e) = Kept(r, e) /\ Last(s) = Last(r)
        BY <1>6, AlikeWindow
      <3>2. e \in Held(r)
        BY <1>5, <1>6, <2>1 DEF Held, Known, PartOf, Alike
      <3> QED BY <1>5, <1>6, <2>1, <3>1, <3>2 DEF Alike
    <2>3. r.batch \/ e \in r.added
      BY <1>3, <2>2 DEF Record, PartOf
    <2>4. e \in ToErase(r)
      BY <2>2, <2>3 DEF ToErase
    <2> QED BY <1>3, <1>5, <2>4 DEF PassRecord
  <1>10. Passes("erases")'
    BY <1>2, <1>5 DEF Passes
  <1> HIDE DEF r, s
  <1> QED BY <1>2, <1>7, <1>8, <1>9, <1>10 DEF Told

\* What is to be erased is off the disk when the pass is past it.
LEMMA ErasesTell ==
  ASSUME WInv, [Next]_vars, Erases, ~torn', ~faulted', Told(Current)
  PROVE  Told(Current)'
  <1> DEFINE r == pass.roll
             s == pass'.roll
  <1> USE DEF WInv, FInv
  <1>1. PassStep /\ UNCHANGED faulted
    BY DEF Erases, PassStep
  <1>2. PICK e \in Ep : ErasesSingle(e) \/ ErasesFile(e) \/ Leaves(e)
    BY DEF Erases
  <1>3. /\ pass # None /\ pass' # None /\ TypeOK /\ Current' = s /\ Current = r
        /\ r.batch = left.batch /\ r \in Roll /\ ~torn
        /\ left'.batch = left.batch /\ left'.here = left.here
    BY <1>1, PassKnows, BudgetStands DEF Goes, RInv, TypeOK, Data, Pass
  <1>4. /\ Onward /\ pass.at = "erases" /\ pass'.at = "erases"
        /\ e \in pass.erase /\ pass'.erase = pass.erase \ {e}
        /\ s.added = r.added /\ prio' = prio
        /\ s.gone = IF ErasesSingle(e) \/ ErasesFile(e) THEN r.gone \cup {e}
                    ELSE r.gone
        /\ s.left = IF ErasesSingle(e) THEN r.left \cup {e} ELSE r.left
    BY <1>2, <1>3, ErasesDo
  <1>5. /\ Alike(r, s) /\ r.gone \subseteq s.gone /\ r.left \subseteq s.left
        /\ listed' \subseteq listed
    BY <1>1, <1>4, PassWorld DEF Onward
  <1>6. ToAdd(s) \subseteq ToAdd(r) /\ ToErase(s) \subseteq ToErase(r) \ s.gone
    BY <1>4, <1>5, LessToDo
  <1>7. PassRecord /\ Record(r) /\ ~faulted
    <2>1. ~faulted
      BY <1>1, <1>4, FaultSteps
    <2> QED BY <1>3, <2>1 DEF RecordInv, PassRecord
  <1>8. ASSUME s.batch, s.counted, Whole \in listed' \ s.left, NEW f \in Ep
        PROVE  prio'[f] = Wish(s, f)
    <2>1. r.batch /\ r.counted /\ Whole \in listed \ r.left
      BY <1>5, <1>8 DEF Alike
    <2>2. prio[f] = Wish(r, f)
      BY <1>3, <2>1 DEF Told
    <2>3. CASE f \in s.gone <=> f \in r.gone
      BY <1>4, <1>5, <2>2, <2>3, AlikeWindow
    <2>4. CASE ~(f \in s.gone <=> f \in r.gone)
      <3>1. f = e /\ f \in s.gone /\ (ErasesSingle(e) \/ ErasesFile(e))
        BY <1>4, <1>5, <2>4
      <3>2. ~ErasesSingle(e)
        BY <2>1 DEF ErasesSingle
      <3>3. prio[f] = "skip"
        BY <3>1, <3>2 DEF ErasesFile, Erasable
      <3> QED BY <1>4, <3>1, <3>3 DEF Wish
    <2> QED BY <2>3, <2>4
  <1>9. ASSUME left'.batch => left'.here, NEW f \in ToErase(s),
               PartOf(s, f) \in listed'
        PROVE  f \in pass'.erase
    <2>1. f \in ToErase(r) /\ f \notin s.gone /\ PartOf(r, f) \in listed
      BY <1>5, <1>6, <1>9, AlikeWindow
    <2>2. f \in pass.erase
      BY <1>3, <1>9, <2>1 DEF Told
    <2>3. ASSUME f = e PROVE FALSE
      <3>1. Leaves(e) /\ ~ErasesSingle(e) /\ ~ErasesFile(e)
        BY <1>2, <1>4, <2>1, <2>3
      <3>2. /\ f \in r.watched /\ f \in Known(r)
            /\ PartOf(r, f) \notin r.left
        BY <2>1 DEF ToErase, Held
      <3>3. PartOf(r, f) \in pass.torrents
        BY <1>4, <1>7, <3>2 DEF Record, PassRecord
      <3>4. r.batch /\ ~Erasable(e)
        BY <2>3, <3>1, <3>3 DEF Leaves, Here, PartOf
      <3>5. Whole \in (listed \cap pass.torrents) \ r.left
        BY <2>1, <3>2, <3>3, <3>4 DEF PartOf
      <3>6. pass.files
        BY <1>3, <1>4, <1>7, <3>4, <3>5 DEF FilesInv, Passes
      <3>7. prio[f] = Wish(r, f)
        BY <1>3, <2>1, <3>2, <3>4, <3>5 DEF Told, Known
      <3>8. prio[f] = "skip"
        BY <1>3, <2>1, <3>7, ErasedUnwanted
      <3> QED BY <1>3, <1>9, <2>3, <3>4, <3>6, <3>8 DEF Erasable
    <2> QED BY <1>4, <2>2, <2>3
  <1>10. Passes("erases")' /\ ToAdd(s) = {}
    BY <1>3, <1>4, <1>6 DEF Passes, Told
  <1> HIDE DEF r, s
  <1> QED BY <1>3, <1>8, <1>9, <1>10 DEF Told

\* A pass that looked and acts on nothing has no count to go by.
LEMMA UncountedTold ==
  ASSUME NEW r, ~r.counted
  PROVE  ToAdd(r) = {} /\ ToErase(r) = {}
  BY DEF ToAdd, ToErase, Held, Known

\* Before a step that leaves no pass to come nor to act, but for the ones a
\* pass looks or acts by, there was none either.
LEMMA ToldBefore ==
  ASSUME WInv, [Next]_vars, ~torn', ~faulted', roll' # None, ~Owed',
         ~Passes("acts")', ~(PassStep /\ pass.at = "surveys"), ~ActsWell
  PROVE  Told(Current)
  <1> USE DEF WInv, FInv
  <1>1. /\ ~Called' /\ "task" \notin DOMAIN read' /\ ~Passes("surveys")'
        /\ ~(pass' # None /\ pass'.drop)
    BY DEF Owed
  <1>2. roll # None /\ ~torn /\ ~faulted /\ ~SaveFails /\ ~End
    BY CurrentSteps, FaultSteps
  <1>3. ASSUME NEW q \in Reader, TakesPass(q) PROVE FALSE
    BY <1>1, <1>2, <1>3, TakesDo DEF Passes, RInv
  <1>4. ASSUME UNCHANGED pass
        PROVE  ~Passes("acts") /\ ~Passes("surveys")
    BY <1>1, <1>4 DEF Passes
  <1>5. CASE PassStep
    <2>1. pass.at # "acts"
      <3>1. SUFFICES ASSUME pass.at = "acts" PROVE FALSE
        OBVIOUS
      <3>2. ~SomeRefused /\ ~AddFails
        BY Zenon DEF SomeRefused, Faulting, AddFails
      <3>3. ~Erases /\ ~ErasesNot /\ ~Rechecks /\ ~RecheckFails
        BY <3>1 DEF Erases, ErasesNot, Faulting, ErasesSingle, ErasesFile,
                    Leaves, EraseFails, Erasing, Rechecks, RecheckFails,
                    Rechecked, At
      <3>4. ASSUME NEW rows, SurveysWell(rows) \/ SurveysBlind(rows)
            PROVE  FALSE
        BY <3>1, <3>4 DEF SurveysWell, SurveysBlind, At
      <3> QED BY <1>5, <3>2, <3>3, <3>4 DEF PassStep
    <2>2. ~Called /\ "task" \notin DOMAIN read
      BY <1>1, <1>5, PassKnows DEF readers, kicks, Called
    <2>3. ~(pass # None /\ pass.drop)
      BY <1>1, DropSteps
    <2> QED BY <1>2, <1>5, <2>1, <2>2, <2>3 DEF ToldInv, Owed, Passes
  <1>6. ASSUME ~PassStep
        PROVE  ~Passes("acts") /\ ~Passes("surveys")
    <2>1. CASE Saves
      BY <2>1 DEF Saves, At, Passes
    <2>2. CASE (roll # None /\ SetsOne) \/ RollMore(1)
      BY <1>4, <2>2, EditsRoll DEF RInv, Called
    <2>3. ASSUME NEW e \in Ep, Watches(e) \/ Fetches(e) PROVE UNCHANGED pass
      BY <2>3 DEF Watches, Fetches
    <2>4. ASSUME NEW p \in Parts, Removes(p) \/ Lists(p) PROVE UNCHANGED pass
      BY <2>4 DEF Removes, Lists
    <2>5. ASSUME NEW q \in Reader, Reads(q) PROVE UNCHANGED pass
      BY <2>5 DEF Reads
    <2> QED BY <1>2, <1>3, <1>4, <1>6, <2>1, <2>2, <2>3, <2>4, <2>5,
               WindowSteps DEF Calm
  <1>7. ASSUME ~PassStep
        PROVE  ~Called /\ "task" \notin DOMAIN read
    <2>1. CASE UNCHANGED <<Called, read>>
      BY <1>1, <2>1
    <2>2. ASSUME Saves PROVE UNCHANGED <<Called, read>>
      BY <2>2 DEF Saves, kicks, Called
    <2>3. CASE (roll # None /\ SetsOne) \/ RollMore(1)
      BY <1>1, <2>3, EditsRoll DEF RInv, Called
    <2>4. ASSUME NEW e \in Ep, Fetches(e) PROVE UNCHANGED <<Called, read>>
      BY <2>4 DEF Fetches, readers, kicks, Called
    <2>5. ASSUME NEW e \in Ep, Watches(e) PROVE FALSE
      BY <1>1, <1>2, <2>5 DEF Watches, Called
    <2>6. ASSUME NEW p \in Parts, Removes(p) \/ Lists(p)
          PROVE  UNCHANGED <<Called, read>>
      BY <2>6 DEF Removes, Lists, readers, kicks, Called
    <2>7. ASSUME NEW q \in Reader, Reads(q)
          PROVE  ~Called /\ "task" \notin DOMAIN read
      BY <1>1, <2>7, ReadsDo
    <2> QED BY <1>2, <1>3, <1>7, <2>1, <2>2, <2>3, <2>4, <2>5, <2>6, <2>7,
               WindowSteps DEF Calm
  <1>8. CASE ~PassStep
    <2>1. ~(pass # None /\ pass.drop)
      BY <1>1, DropSteps
    <2> QED BY <1>2, <1>6, <1>7, <1>8, <2>1 DEF ToldInv, Owed
  <1> QED BY <1>5, <1>8

\* With no pass to come, none yet to look and none to act, what the client was
\* told stays what the record says.
LEMMA ToldStep ==
  ASSUME WInv, [Next]_vars
  PROVE  ToldInv'
  <1> USE DEF WInv, FInv
  <1>1. SUFFICES ASSUME ~torn', ~faulted', roll' # None, ~Owed',
                        ~Passes("acts")'
                 PROVE  Told(Current)'
    BY DEF ToldInv
  <1>2. /\ ~Called' /\ "task" \notin DOMAIN read' /\ ~Passes("surveys")'
        /\ ~(pass' # None /\ pass'.drop)
    BY <1>1 DEF Owed
  <1>3. /\ roll # None /\ ~torn
        /\ left'.batch = left.batch /\ left'.here = left.here
    BY <1>1, CurrentSteps, BudgetStands
  <1>4. ASSUME PassStep, pass.at = "surveys"
        PROVE  Told(Current)'
    <2>1. /\ pass # None /\ pass' # None /\ TypeOK /\ Current' = pass'.roll
      BY <1>4, LooksFirst, PassKnows DEF Goes
    <2>2. PICK rows \in SUBSET completed, files \in BOOLEAN :
            Surveys(files, rows)
      BY <1>4, LooksFirst
    <2>3. ~pass'.roll.counted
      BY <1>1, <1>2, <2>1, <2>2, SurveyFinds DEF Passes
    <2>4. ToAdd(pass'.roll) = {} /\ ToErase(pass'.roll) = {}
      BY <2>3, UncountedTold
    <2> QED BY <2>1, <2>3, <2>4 DEF Told
  <1>5. ASSUME ActsWell PROVE Told(Current)'
    BY <1>1, <1>5, ActsTell
  <1>6. ASSUME NEW q \in Reader, TakesPass(q) PROVE FALSE
    BY <1>2, <1>3, <1>6, TakesDo DEF Passes, RInv
  <1>7. ASSUME ~(PassStep /\ pass.at = "surveys"), ~ActsWell
        PROVE  Told(Current)
    BY <1>1, <1>7, ToldBefore
  <1>8. ASSUME UNCHANGED <<pass, prio>>, Current' = Current,
               \A e \in ToErase(Current) :
                 PartOf(Current, e) \in listed' => PartOf(Current, e) \in listed,
               Current.batch /\ Current.counted /\ Whole \in listed' =>
                 Whole \in listed
        PROVE  Told(Current)'
    <2>1. ~(PassStep /\ pass.at = "surveys")
      BY <1>2, <1>8, LooksFirst DEF Passes
    <2>2. ~ActsWell
      <3>1. ActsWell => pass # None /\ pass.at = "acts"
        BY DEF ActsWell, Acts, At
      <3> QED BY <1>1, <1>8, <3>1 DEF Passes
    <2>3. Told(Current)
      BY <1>7, <2>1, <2>2
    <2> QED BY <1>3, <1>8, <2>3 DEF Told, Passes
  <1>9. ASSUME Erases PROVE Told(Current)'
    <2>1. ~(PassStep /\ pass.at = "surveys") /\ ~ActsWell
      BY <1>9 DEF Erases, ErasesSingle, ErasesFile, Leaves, Erasing, ActsWell,
                  Acts, At
    <2> QED BY <1>1, <1>7, <1>9, <2>1, ErasesTell
  <1>10. ASSUME Rechecks PROVE Told(Current)'
    <2>1. ~(PassStep /\ pass.at = "surveys") /\ ~ActsWell
      BY <1>10 DEF Rechecks, Rechecked, ActsWell, Acts, At
    <2>2. /\ pass # None /\ TypeOK /\ pass.at = "erases" /\ pass.erase = {}
          /\ pass' = [pass EXCEPT !.at = "saves"]
          /\ UNCHANGED <<prio, listed>>
      BY <1>10 DEF Rechecks, Rechecked, At, RInv
    <2>3. Current = pass.roll /\ Current' = pass.roll
      <3>1. PassStep
        BY <1>10 DEF PassStep
      <3> QED BY <2>2, <3>1, PassKnows, MovesDo
    <2>4. Told(Current)
      BY <1>7, <2>1
    <2>5. (left.batch => left.here) =>
            \A e \in ToErase(Current) : PartOf(Current, e) \notin listed
      BY <2>2, <2>4 DEF Told
    <2> QED BY <1>3, <2>2, <2>3, <2>4 DEF Told
  <1>11. ASSUME Saves PROVE Told(Current)'
    <2>1. ~(PassStep /\ pass.at = "surveys") /\ ~ActsWell
      <3>1. pass.at = "saves"
        BY <1>11 DEF Saves, At
      <3> QED BY <3>1 DEF ActsWell, Acts, At
    <2>2. Told(Current)
      BY <1>7, <2>1
    <2>3. /\ pass # None /\ pass' = None /\ pass.at = "saves"
          /\ UNCHANGED <<prio, listed, Called, read>>
      BY <1>11, SavesDo DEF Saves, RInv, client, kicks, Called
    <2>4. ~Edited
      BY <1>2, <2>3 DEF EditedOwed
    <2>5. ~Drops
      BY <1>1, <1>11, <2>4 DEF Saves
    <2>6. roll' = pass.roll
      <3>1. /\ roll.ahead = pass.roll.ahead /\ roll.delete = pass.roll.delete
            /\ roll.until = pass.roll.until
            /\ roll.released = pass.roll.released
        BY <2>3, <2>4 DEF RecordInv, PassRecord, Edited, UsersPart
      <3>2. roll' = [pass.roll EXCEPT
                       !.ahead = roll.ahead, !.delete = roll.delete,
                       !.until = roll.until, !.released = roll.released]
        BY <1>11, <2>5 DEF Saves
      <3>3. pass.roll \in Roll
        BY <2>3 DEF RInv, TypeOK, Data, Pass
      <3> QED BY <3>1, <3>2, <3>3 DEF Roll
    <2>7. Current = pass.roll /\ Current' = pass.roll
      BY <2>3, <2>6 DEF Current
    <2> QED BY <1>3, <2>2, <2>3, <2>7 DEF Told, Passes
  <1>12. ASSUME NEW q \in Reader, Reads(q) PROVE Told(Current)'
    <2>1. UNCHANGED <<roll, pass, prio, listed>>
      BY <1>12, ReadsDo DEF client
    <2> QED BY <1>8, <2>1 DEF Current
  <1>13. ASSUME Calm PROVE Told(Current)'
    BY <1>8, <1>13 DEF Calm, Current, client
  <1>14. ASSUME NEW e \in Ep, Fetches(e) PROVE Told(Current)'
    BY <1>8, <1>14 DEF Fetches, Current, store
  <1>15. ASSUME NEW e \in Ep, Watches(e) PROVE FALSE
    BY <1>2, <1>3, <1>15 DEF Watches, Called
  <1>16. ASSUME NEW p \in Parts, Removes(p) PROVE Told(Current)'
    BY <1>8, <1>16 DEF Removes, Current, store
  <1>17. ASSUME NEW p \in Parts, Lists(p) PROVE Told(Current)'
    <2>1. /\ UNCHANGED <<pass, prio>> /\ Current' = Current
          /\ listed' = listed \cup {p} /\ p \in handed
      BY <1>17 DEF Lists, Current, store
    <2>2. Current.batch = left.batch /\ Record(Current) /\ Current \in Roll
      BY <1>3, CurrentKnown
    <2>3. ASSUME NEW e \in ToErase(Current), PartOf(Current, e) = p PROVE FALSE
      <3>1. e \in Current.watched
        BY DEF ToErase
      <3>2. Current.watched \subseteq completed
        BY <1>3 DEF RInv, WatchedInv, Current
      <3> QED BY <1>3, <2>1, <2>2, <2>3, <3>1, <3>2
              DEF ClientInv, BatchInv, SingleInv, PartOf
    <2>4. ASSUME Current.batch, Current.counted PROVE p # Whole
      BY <1>3, <2>1, <2>2, <2>4 DEF ClientInv, BatchInv, Record, Current
    <2> QED BY <1>8, <2>1, <2>3, <2>4
  <1>18. ASSUME (roll # None /\ SetsOne) \/ RollMore(1) PROVE FALSE
    BY <1>2, <1>18, EditsRoll DEF RInv, Called
  <1>19. ASSUME SomeRefused \/ AddFails \/ ErasesNot \/ RecheckFails
         PROVE  FALSE
    BY <1>1, <1>19, Zenon
    DEF SomeRefused, AddFails, ErasesNot, RecheckFails, Faulting
  <1>20. ASSUME PassStep PROVE Told(Current)'
    <2>1. ASSUME NEW rows, SurveysWell(rows) \/ SurveysBlind(rows)
          PROVE  pass.at = "surveys"
      BY <2>1 DEF SurveysWell, SurveysBlind, At
    <2> QED BY <1>4, <1>5, <1>9, <1>10, <1>19, <1>20, <2>1 DEF PassStep
  <1> QED BY <1>1, <1>6, <1>11, <1>12, <1>13, <1>14, <1>15, <1>16, <1>17,
             <1>18, <1>20, FaultSteps, WindowSteps

\* The first episode is in the window and handed over from the start.
LEMMA WindowInit == Init => WInv
  <1> SUFFICES ASSUME Init PROVE WInv
    OBVIOUS
  <1>1. FInv
    BY RollingInit, FreeInit DEF FInv
  <1>2. /\ roll = Planned(left) /\ pass = None /\ read = <<>> /\ ~faulted
        /\ handed = roll.added /\ listed = {} /\ have = {} /\ disk = {}
        /\ completed = {}
    BY DEF Init
  <1>3. roll.seen = {} /\ roll.added = (IF left.batch THEN {Whole} ELSE {1})
    BY <1>2 DEF Planned
  <1>4. Reported = {}
    BY <1>2 DEF Reported
  <1>5. ClientInv
    BY <1>2, <1>3, <1>4
    DEF ClientInv, DiskInv, BatchInv, SingleInv, Current
  <1>6. /\ EditedOwed /\ StaleInv /\ NoteInv /\ FilesInv
    BY <1>2 DEF EditedOwed, StaleInv, NoteInv, FilesInv, Stays, Passes
  <1>7. Told(roll)
    <2>1. ToErase(roll) = {}
      BY <1>2 DEF Planned, ToErase
    <2>2. ToAdd(roll) = {}
      <3>1. SUFFICES ASSUME NEW e \in ToAdd(roll) PROVE FALSE
        OBVIOUS
      <3>2. /\ ~roll.released /\ roll.watched = {} /\ roll.until = None
            /\ roll.ahead = 1 /\ roll.batch = left.batch
        BY <1>2 DEF Planned
      <3>3. ~left.batch /\ e \notin {1} /\ Wanted(roll, e)
        BY <1>3, <3>1, <3>2 DEF ToAdd
      <3>4. Last(roll) = 0 /\ Start(roll) = 1
        BY <3>2 DEF Last, Start
      <3>5. Reach(roll) = 1
        BY <3>2, <3>4, WindowAssumption DEF Reach, Smaller, Greater
      <3>6. e \in 1..1
        BY <3>2, <3>3, <3>4, <3>5 DEF Wanted, Kept
      <3> QED BY <3>3, <3>6
    <2> QED BY <1>2, <2>1, <2>2 DEF Told
  <1>8. ToldInv
    BY <1>2, <1>7 DEF ToldInv, Current
  <1> QED BY <1>1, <1>5, <1>6, <1>8 DEF WInv

\* What the window rests on, throughout.
LEMMA RollWindowInvariant == Spec => []WInv
  <1>1. WInv /\ [Next]_vars => WInv'
    <2> SUFFICES ASSUME WInv, [Next]_vars PROVE WInv'
      OBVIOUS
    <2>1. FInv'
      BY RollingStep, RecordStep, FreeStep DEF WInv, FInv
    <2> QED BY <2>1, ClientStep, EditedStep, StaleStep, NoteStep, FilesStep,
               ToldStep DEF WInv
  <1> QED BY <1>1, WindowInit, PTL DEF Spec

\* With nothing under way, what was watched is noted, so the record that the
\* client was told is the one with every episode watched in it.
LEMMA QuietHolds ==
  ASSUME WInv
  PROVE  WindowHolds
  <1>1. SUFFICES ASSUME Quiet, roll # None, ~faulted, ~torn, ~lost,
                        roll.counted
                 PROVE  /\ roll.batch /\ Whole \in listed \ roll.left =>
                             \A e \in Ep : prio[e] = Wish(Noted, e)
                        /\ ToAdd(Noted) = {}
                        /\ (roll.batch => left.here) =>
                             \A e \in ToErase(Noted) :
                               PartOf(roll, e) \in listed => e \notin disk
    BY DEF WindowHolds
  <1>2. /\ pass = None /\ ~Called /\ "task" \notin DOMAIN read
        /\ Current = roll
    BY <1>1 DEF Quiet, Current, Called
  <1>3. roll \in Roll /\ roll.batch = left.batch
    BY <1>1, <1>2, CurrentKnown DEF WInv
  <1>4. \A p : ~Coming(p)
    BY <1>2 DEF Coming, Passes
  <1>5. ASSUME NEW e \in completed \ roll.gone,
               PartOf(roll, e) \in listed \ roll.left
        PROVE  e \in roll.watched
    <2>1. e \in Ep
      BY DEF WInv, FInv, RInv, TypeOK, Data
    <2> QED BY <1>1, <1>2, <1>4, <1>5, <2>1 DEF WInv, NoteInv, Stays
  <1>6. Noted = roll
    <2> DEFINE more == {e \in completed \ roll.gone :
                          PartOf(roll, e) \in listed \ roll.left}
    <2>1. roll.watched \cup more = roll.watched
      BY <1>5
    <2>2. Noted = [roll EXCEPT !.watched = roll.watched \cup more]
      BY <1>3 DEF Noted
    <2> HIDE DEF more
    <2> QED BY <1>3, <2>1, <2>2 DEF Roll
  <1>7. Told(roll)
    BY <1>1, <1>2 DEF WInv, ToldInv, Owed, Passes
  <1> QED BY <1>1, <1>2, <1>3, <1>6, <1>7 DEF Told, Passes

\* Once no pass is under way or asked for, and no call failed and no kick nor
\* a pass's changes were lost, the client has the priorities the window says, every
\* single the window reaches was handed over, and the episodes watched and out
\* of it are off the disk, whatever stale lists, edits and removals there were.
THEOREM RollingWindowHolds == Spec => []WindowHolds
  <1>1. WInv => WindowHolds
    BY QuietHolds
  <1> QED BY <1>1, RollWindowInvariant, PTL

================================================================================
