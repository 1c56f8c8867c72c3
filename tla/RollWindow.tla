------------------------------ MODULE RollWindow ------------------------------
(* downloads/rolling.rs: one roll, and where its window stands.  A batch is    *)
(* one torrent of Count files, picked single episodes are a torrent each.      *)
(* What a roll makes of its episodes is a function of its record.              *)
EXTENDS Integers, FiniteSets, FiniteSetsExt
CONSTANTS
  Count,  \* episodes of the download
  Keep,   \* keep_watched
  None

ASSUME WindowAssumption ==
  Count \in Nat \ {0} /\ Keep \in Nat /\ None \notin Nat

Ep == 1..Count
Whole == 0  \* the one part of a batch
Parts == {Whole} \cup Ep
Prio == {"skip", "normal", "first"}

\* Roll, Part and Unit: what the user sets, then what the passes find.
Roll == [batch : BOOLEAN,
         ahead : Nat, delete : BOOLEAN, until : {None} \cup Ep,
         released : BOOLEAN,
         over : {None} \cup Nat, counted : BOOLEAN,
         added : SUBSET Parts, seen : SUBSET Parts, left : SUBSET Parts,
         watched : SUBSET Ep, gone : SUBSET Ep]

\* What the user sets; a pass never changes these.
UsersPart(r) == <<r.ahead, r.delete, r.until, r.released>>

PartOf(r, e) == IF r.batch THEN Whole ELSE e

Smaller(a, b) == IF a < b THEN a ELSE b
Greater(a, b) == IF a < b THEN b ELSE a

\* window: the last one watched, and one past what it reaches.
Last(r) == IF r.watched = {} THEN 0 ELSE Max(r.watched)
Start(r) == Last(r) + 1
Reach(r) ==
  LET ahead == Last(r) + Greater(r.ahead, 1)
  IN  IF r.released THEN Count
      ELSE Smaller(Count, IF r.until = None THEN ahead
                          ELSE Greater(ahead, r.until))

\* Mutant: the last one watched is not counted among those kept.
KeptShort(r, e) == Last(r) > 0 /\ e <= Last(r) /\ Last(r) < e + Keep

\* The last watched and the ones kept behind it keep their files.
Kept(r, e) == Last(r) > 0 /\ e <= Last(r) /\ Last(r) <= e + Keep

Wanted(r, e) ==
  IF r.released THEN e \notin r.watched \/ Kept(r, e)
  ELSE e \in Start(r)..Reach(r) \/ Kept(r, e)

\* The episodes in order, as far as they are known.
Known(r) == IF r.counted THEN Ep ELSE {}
Held(r) == {e \in Known(r) : PartOf(r, e) \notin r.left}

\* moves: the priority of a batch's file.  A file the roll deleted stays
\* skipped, or the client fetches it again.
Wish(r, e) ==
  IF e \in r.gone \/ ~Wanted(r, e) THEN "skip"
  ELSE IF e = Start(r) /\ ~r.released THEN "first"
  ELSE "normal"

\* moves: the held singles to add, and what leaves the disk.
ToAdd(r) ==
  {e \in Held(r) : ~r.batch /\ e \notin r.gone \cup r.added /\ Wanted(r, e)}
ToErase(r) ==
  {e \in Held(r) \cap r.watched :
     /\ r.delete
     /\ e \notin r.gone
     /\ e < Last(r) /\ ~Kept(r, e)
     /\ r.batch \/ e \in r.added}

\* Mutant: the mark may pass the last episode.
MoreUncapped(r, n) ==
  IF Known(r) = {} THEN r ELSE [r EXCEPT !.until = Reach(r) + n]

\* more: the pre-download mark moves past the window's end.
More(r, n) ==
  IF Known(r) = {} THEN r
  ELSE [r EXCEPT !.until = Smaller(Count, Reach(r) + n)]

\* finished: nothing left to do, by what the roll knows.
AllLeft(r) == r.added # {} /\ r.added \subseteq r.left
AllDone(r) ==
  /\ Known(r) # {}
  /\ Held(r) \subseteq r.watched \cup r.gone
  /\ r.delete => ToErase(r) = {}

\* after_add's settled: every added part found and counted.
Settled(r) == r.over = None /\ r.added \subseteq r.seen /\ r.counted
===============================================================================
