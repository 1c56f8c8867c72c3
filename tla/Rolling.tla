------------------------------- MODULE Rolling --------------------------------
(* downloads/rolling.rs: the passes over one roll, one at a time under PASS,   *)
(* beside the client that downloads, the user who watches, changes the roll    *)
(* and removes torrents, and a program that may end.  A pass works on a copy   *)
(* of the roll and on a list of torrents read before it had the lock.  asked   *)
(* stands for the tasks that kicks and nudges spawn, one each: those that have *)
(* not read yet make one read between them.  unattended_allowed is assumed.    *)
EXTENDS RollWindow
CONSTANTS Budgets  \* bounds: the world and what may happen at most

\* The page's poll; a kick or a nudge; after_add's reads.
Reader == {"page", "task", "burst"}

Allowance ==
  [batch : BOOLEAN, here : BOOLEAN, over : {None} \cup Nat, delete : BOOLEAN,
   edits : Nat, views : Nat, polls : Nat, removes : Nat, faults : Nat,
   ages : Nat]

ASSUME RollingAssumption == Budgets \subseteq Allowance

VARIABLES
  roll,       \* download_rolls: the roll as stored
  read,       \* the lists of torrents that readers wait for PASS with
  asked,      \* a kick or a nudge has a read to make
  bursting,   \* after_add's reads go on
  pass,       \* the pass that holds PASS: its copy, and how far it is
  handed,     \* torrents handed to the client that it does not list yet
  listed,     \* torrents the client lists
  prio,       \* the client's priority of each file of a batch
  have,       \* files the client believes it has something of
  disk,       \* files on the disk
  completed,  \* episodes completed since the roll was made
  old,        \* UNBOUND_AGE_SECS have passed since the roll was made
  fresh,      \* for the properties: parts handed over less long ago than that
  wish,       \* and: what the user last set
  erased,     \* and: what passes took off the disk
  faulted,    \* and: a call failed since the last pass began
  torn,       \* and: a pass's changes were once not saved
  lost,       \* and: the last read for a kick or a nudge failed
  left        \* what is left of the budget

store == <<roll, wish>>
kicks == <<asked, lost>>
readers == <<read, kicks, bursting>>
client == <<handed, listed, prio, have, disk>>
history == <<erased, faulted, torn>>
vars == <<store, readers, pass, client, completed, old, fresh, history, left>>

Pass == [at : {"surveys", "acts", "erases", "rechecks", "saves"},
         by : Reader, torrents : SUBSET Parts,
         before : Nat \X BOOLEAN \X ({None} \cup Ep) \X BOOLEAN,
         roll : Roll, files : BOOLEAN, erase : SUBSET Ep, recheck : BOOLEAN,
         drop : BOOLEAN]

ASSUME NothingAssumption == None \notin Roll \cup Pass

Flags ==
  /\ asked \in BOOLEAN /\ bursting \in BOOLEAN /\ old \in BOOLEAN
  /\ faulted \in BOOLEAN /\ torn \in BOOLEAN /\ lost \in BOOLEAN

Data ==
  /\ roll \in Roll \cup {None}
  /\ \E waiting \in SUBSET Reader : read \in [waiting -> SUBSET Parts]
  /\ pass \in Pass \cup {None}
  /\ handed \cup listed \cup fresh \subseteq Parts
  /\ prio \in [Ep -> Prio]
  /\ have \cup disk \cup completed \cup erased \subseteq Ep
  /\ left \in Allowance

TypeOK == Flags /\ Data

\* plan, then after_add: a batch is added whole and judged by its count once
\* that is known, of picked singles the first ones are added.
Planned(b) ==
  [batch |-> b.batch, ahead |-> 1, delete |-> b.delete, until |-> None,
   released |-> FALSE, over |-> IF b.batch THEN b.over ELSE None,
   counted |-> ~b.batch,
   added |-> IF b.batch THEN {Whole} ELSE {1},
   seen |-> {}, left |-> {}, watched |-> {}, gone |-> {}]

Init ==
  /\ left \in Budgets
  /\ roll = Planned(left)
  /\ read = <<>>
  /\ asked = FALSE
  /\ bursting = TRUE
  /\ pass = None
  /\ handed = roll.added
  /\ listed = {}
  /\ prio = [e \in Ep |-> "normal"]
  /\ have = {} /\ disk = {} /\ completed = {}
  /\ old = FALSE
  /\ fresh = roll.added
  /\ wish = UsersPart(roll)
  /\ erased = {}
  /\ faulted = FALSE /\ torn = FALSE /\ lost = FALSE

Spend(what) ==
  /\ left[what] > 0
  /\ left' = [left EXCEPT ![what] = @ - 1]

Faulting(step) == Spend("faults") /\ faulted' = TRUE /\ step

-----------------------------------------------------------------------------
(* The readers                                                              *)

Busy(r) == r \in DOMAIN read \/ (pass # None /\ pass.by = r)
Without(r) == [q \in DOMAIN read \ {r} |-> read[q]]
With(r) == [q \in DOMAIN read \cup {r} |-> IF q = r THEN listed ELSE read[q]]

Reads(r) ==
  /\ ~Busy(r)
  /\ CASE r = "page" -> Spend("polls") /\ UNCHANGED kicks
       [] r = "task" ->
            asked /\ asked' = FALSE /\ lost' = FALSE /\ UNCHANGED left
       [] r = "burst" -> bursting /\ UNCHANGED <<kicks, left>>
  /\ read' = With(r)
  /\ UNCHANGED <<store, bursting, pass, client, completed, old, fresh, history>>

\* The client does not answer, and nobody asks again: the page and the burst
\* read again as they would have.
KickFails ==
  /\ ~Busy("task")
  /\ asked /\ asked' = FALSE
  /\ lost' = TRUE
  /\ Spend("faults")
  /\ UNCHANGED <<store, read, bursting, pass, client, completed, old, fresh,
                 history>>

\* after_add's burst ends when every roll is settled, or after sixty reads.
BurstAfter(r, stored) ==
  bursting' = (bursting /\ ~(r = "burst" /\ (stored = None \/ Settled(stored))))

BurstEnds ==
  /\ bursting
  /\ ~Busy("burst")
  /\ Spend("faults")
  /\ bursting' = FALSE
  /\ UNCHANGED <<store, read, kicks, pass, client, completed, old, fresh,
                 history>>

TakesPass(r) ==
  /\ pass = None
  /\ r \in DOMAIN read
  /\ read' = Without(r)
  /\ IF roll = None
       THEN pass' = None /\ BurstAfter(r, None)
       ELSE /\ pass' = [at |-> "surveys", by |-> r, torrents |-> read[r],
                        before |-> UsersPart(roll), roll |-> roll,
                        files |-> FALSE, erase |-> {}, recheck |-> FALSE,
                        drop |-> FALSE]
            /\ UNCHANGED bursting
  /\ UNCHANGED <<store, kicks, client, completed, old, fresh, history, left>>

-----------------------------------------------------------------------------
(* step: what a pass finds                                                  *)

At(place) == pass # None /\ pass.at = place
Here(p) == p \in pass.torrents

\* Each added part is found in the list, or was there once and has left.
Found(r, files) ==
  LET bound == r.added \ r.left
  IN  [r EXCEPT
        !.seen = @ \cup (bound \cap pass.torrents),
        !.left = @ \cup ((bound \cap r.seen) \ pass.torrents),
        !.counted = @ \/ files]

\* The library's rows of a file that went may still be there.
Watched(r, files, rows) ==
  {e \in Known(r) :
     LET p == PartOf(r, e)
     IN  /\ p \in (r.seen \ r.left) \cap pass.torrents
         /\ e \notin r.gone
         /\ e \in completed
         /\ e \in disk \cup rows
         /\ files => e \in have}

Judged(r) == IF r.counted THEN [r EXCEPT !.over = None] ELSE r

\* The files of a batch are read now, if the client still has it.
Readable ==
  pass.roll.batch /\ Whole \in (listed \cap pass.torrents) \ pass.roll.left

Surveys(files, rows) ==
  /\ At("surveys")
  /\ LET found == Found(pass.roll, files)
         small == found.counted /\ found.over # None /\ Count <= found.over
         judged == Judged(found)
         seen == [judged EXCEPT !.watched = @ \cup Watched(judged, files, rows)]
     IN  pass' =
           IF small \/ judged.over # None
             THEN [pass EXCEPT !.at = "saves", !.roll = found, !.drop = small]
             ELSE [pass EXCEPT !.at = "acts", !.roll = seen, !.files = files,
                               !.erase = ToErase(seen)]
  /\ UNCHANGED <<store, readers, client, completed, old, fresh, erased, torn>>

SurveysWell(rows) ==
  /\ At("surveys")
  /\ Surveys(Readable, rows)
  /\ faulted' = FALSE
  /\ UNCHANGED left

SurveysBlind(rows) ==
  /\ At("surveys") /\ Readable
  /\ Faulting(Surveys(FALSE, rows))

-----------------------------------------------------------------------------
(* step: what a pass does                                                   *)

Moving == [pass EXCEPT !.at = "erases"]

\* Every priority was set, so a released roll needs no more passes.
Freed(r, set) == r.released /\ ToAdd(r) = {} /\ set

\* Mutant: a released roll does not wait for what was refused.
SetsPrioritiesAnyhow(refused) ==
  LET r == pass.roll
      wishes == [e \in Ep |-> Wish(r, e)]
      failed == IF Whole \in listed THEN refused ELSE Prio
  IN  /\ prio' = [e \in Ep |-> IF wishes[e] \in failed THEN prio[e]
                               ELSE wishes[e]]
      /\ pass' = [Moving EXCEPT !.drop = Freed(r, TRUE)]
      /\ UNCHANGED <<handed, fresh>>

\* A batch's files in and out of the window, the priorities the client refused
\* left as they were.
SetsPriorities(refused) ==
  LET r == pass.roll
      wishes == [e \in Ep |-> Wish(r, e)]
      changed == {wishes[e] : e \in {f \in Ep : prio[f] # wishes[f]}}
      failed == IF Whole \in listed THEN changed \cap refused ELSE changed
  IN  /\ prio' = [e \in Ep |-> IF wishes[e] \in failed THEN prio[e]
                               ELSE wishes[e]]
      /\ pass' = [Moving EXCEPT !.drop = Freed(r, failed = {})]
      /\ UNCHANGED <<handed, fresh>>

\* Without its file list a batch is left as it is; held singles are added.
AddsHeld ==
  LET r == pass.roll
  IN  /\ handed' = handed \cup (ToAdd(r) \ listed)
      /\ fresh' = fresh \cup ToAdd(r)
      /\ pass' = [Moving EXCEPT
                    !.roll.added = @ \cup ToAdd(r),
                    !.drop = Freed(r, ~r.batch \/ Whole \in r.left)]
      /\ UNCHANGED prio

Acts(refused) ==
  /\ At("acts")
  /\ IF pass.files THEN SetsPriorities(refused) ELSE AddsHeld
  /\ UNCHANGED <<store, readers, listed, have, disk, completed, old, erased,
                 torn>>

ActsWell == Acts({}) /\ UNCHANGED <<faulted, left>>

\* The client refuses some of the priorities, or the add as a whole.
SomeRefused ==
  /\ At("acts") /\ pass.files
  /\ \E refused \in SUBSET Prio \ {{}} : Faulting(Acts(refused))

AddFails ==
  /\ At("acts") /\ ~pass.roll.batch /\ ToAdd(pass.roll) # {}
  /\ pass' = Moving
  /\ Spend("faults") /\ faulted' = TRUE
  /\ UNCHANGED <<store, readers, client, completed, old, fresh, erased, torn>>

Erasing(e) == At("erases") /\ e \in pass.erase
Erased(e) == [pass EXCEPT !.erase = @ \ {e}, !.roll.gone = @ \cup {e}]

\* A watched single leaves the client with its file.  Of a torrent it has no
\* more the client says the same, and the file stays.
ErasesSingle(e) ==
  /\ Erasing(e) /\ ~pass.roll.batch /\ Here(e)
  /\ LET deleted == listed \cap {e}
     IN  /\ listed' = listed \ deleted
         /\ have' = have \ deleted
         /\ disk' = disk \ deleted
         /\ erased' = erased \cup deleted
  /\ pass' = [Erased(e) EXCEPT !.roll.left = @ \cup {e}]
  /\ UNCHANGED <<handed, prio>>

\* Mutant: a file the client may still fetch is taken off too.
ErasableAnyhow(e) == left.here

\* Only a file the client has been told to skip, or it fetches it again; only
\* where the files are this machine's.
Erasable(e) == left.here /\ pass.files /\ prio[e] = "skip"

ErasesFile(e) ==
  /\ Erasing(e) /\ pass.roll.batch /\ Here(Whole) /\ Erasable(e)
  /\ disk' = disk \ {e}
  /\ erased' = erased \cup (disk \cap {e})
  /\ pass' = [Erased(e) EXCEPT !.recheck = @ \/ e \in disk]
  /\ UNCHANGED <<handed, listed, prio, have>>

Leaves(e) ==
  /\ Erasing(e)
  /\ IF pass.roll.batch THEN ~(Here(Whole) /\ Erasable(e)) ELSE ~Here(e)
  /\ pass' = [pass EXCEPT !.erase = @ \ {e}]
  /\ UNCHANGED <<client, erased>>

EraseFails(e) ==
  /\ Erasing(e) /\ Here(PartOf(pass.roll, e))
  /\ pass' = [pass EXCEPT !.erase = @ \ {e}]
  /\ UNCHANGED <<client, erased>>

Erases ==
  /\ \E e \in Ep : ErasesSingle(e) \/ ErasesFile(e) \/ Leaves(e)
  /\ UNCHANGED <<store, readers, completed, old, fresh, faulted, torn, left>>

ErasesNot ==
  /\ \E e \in Ep : Faulting(EraseFails(e))
  /\ UNCHANGED <<store, readers, completed, old, fresh, torn>>

\* The client looks at a batch's files again.
Rechecked(works) ==
  /\ At("erases") /\ pass.erase = {}
  /\ pass' = [pass EXCEPT !.at = "saves"]
  /\ have' = IF pass.recheck /\ works /\ Whole \in listed
               THEN have \cap disk ELSE have
  /\ UNCHANGED <<store, readers, handed, listed, prio, disk, completed, old,
                 fresh, erased, torn>>

Rechecks == Rechecked(TRUE) /\ UNCHANGED <<faulted, left>>
RecheckFails == At("erases") /\ pass.recheck /\ Faulting(Rechecked(FALSE))

-----------------------------------------------------------------------------
(* The end of a pass                                                        *)

\* finished: what a pass knows is done, or a torrent it added never showed.
\* added_at of a part handed over later stays the time the roll was made.
Finished(r) ==
  \/ AllLeft(r)
  \/ old /\ r.added \ r.seen # {}
  \/ AllDone(r)

Drops == pass.drop \/ Finished(pass.roll)
Edited == UsersPart(roll) # pass.before

\* Mutant: the pass's copy replaces what is stored.
SavesOver ==
  /\ At("saves")
  /\ roll' = IF Drops THEN None ELSE pass.roll
  /\ pass' = None
  /\ BurstAfter(pass.by, roll')
  /\ UNCHANGED <<wish, read, kicks, client, completed, old, fresh, history,
                 left>>

\* save_changes: the pass's copy takes the user's settings, and a roll the
\* user changed meanwhile stays for the next pass.
Saves ==
  /\ At("saves")
  /\ roll' = CASE Drops /\ Edited -> roll
               [] Drops /\ ~Edited -> None
               [] OTHER -> [pass.roll EXCEPT
                              !.ahead = roll.ahead, !.delete = roll.delete,
                              !.until = roll.until, !.released = roll.released]
  /\ pass' = None
  /\ torn' = (torn \/ (Drops /\ Edited))
  /\ BurstAfter(pass.by, roll')
  /\ UNCHANGED <<wish, read, kicks, client, completed, old, fresh, erased,
                 faulted, left>>

SaveFails ==
  /\ At("saves")
  /\ pass' = None
  /\ BurstAfter(pass.by, roll)
  /\ torn' = TRUE
  /\ Spend("faults") /\ faulted' = TRUE
  /\ UNCHANGED <<store, read, kicks, client, completed, old, fresh, erased>>

\* The program ends and is started again.
End ==
  /\ Spend("faults") /\ faulted' = TRUE
  /\ pass' = None
  /\ read' = <<>>
  /\ asked' = FALSE
  /\ bursting' = FALSE
  /\ torn' = (torn \/ pass # None)
  /\ UNCHANGED <<store, lost, client, completed, old, fresh, erased>>

-----------------------------------------------------------------------------
(* The client, the user and time                                            *)

Lists(p) ==
  /\ p \in handed
  /\ handed' = handed \ {p}
  /\ listed' = listed \cup {p}
  /\ UNCHANGED <<store, readers, pass, prio, have, disk, completed, old, fresh,
                 history, left>>

Part(e) == IF left.batch THEN Whole ELSE e

Fetches(e) ==
  /\ Part(e) \in listed
  /\ e \notin have
  /\ left.batch => prio[e] # "skip"
  /\ have' = have \cup {e}
  /\ disk' = disk \cup {e}
  /\ UNCHANGED <<store, readers, pass, handed, listed, prio, completed, old,
                 fresh, history, left>>

\* Mutant: an episode watched asks for no pass.
WatchesQuietly(e) ==
  /\ e \in disk \ completed
  /\ Spend("views")
  /\ completed' = completed \cup {e}
  /\ UNCHANGED <<store, readers, pass, client, old, fresh, history>>

\* An episode is watched to its end: nudge.
Watches(e) ==
  /\ e \in disk \ completed
  /\ Spend("views")
  /\ completed' = completed \cup {e}
  /\ asked' = (asked \/ roll # None)
  /\ UNCHANGED <<store, read, lost, bursting, pass, client, old, fresh,
                 history>>

\* Mutant: a change of the roll waits for the next poll.
EditsQuietly(r) ==
  /\ roll # None
  /\ r # roll
  /\ Spend("edits")
  /\ roll' = r
  /\ wish' = UsersPart(r)
  /\ UNCHANGED <<readers, pass, client, completed, old, fresh, history>>

\* SetRoll and RollMore: an edit of the stored roll, then a kick.
Edits(r) ==
  /\ roll # None
  /\ r # roll
  /\ Spend("edits")
  /\ roll' = r
  /\ wish' = UsersPart(r)
  /\ asked' = TRUE
  /\ UNCHANGED <<read, lost, bursting, pass, client, completed, old, fresh,
                 history>>

SetRoll(ahead, delete, release) ==
  roll # None /\ Edits([roll EXCEPT !.ahead = ahead, !.delete = delete,
                                    !.released = @ \/ release])

\* The page sets one thing at a time.
SetsOne ==
  \/ \E ahead \in {1, 2} : SetRoll(ahead, roll.delete, FALSE)
  \/ SetRoll(roll.ahead, ~roll.delete, FALSE)
  \/ SetRoll(roll.ahead, roll.delete, TRUE)

RollMore(n) == roll # None /\ Edits(More(roll, n))

\* The user takes a torrent out of the client and keeps its files.
Removes(p) ==
  /\ p \in listed
  /\ Spend("removes")
  /\ listed' = listed \ {p}
  /\ UNCHANGED <<store, readers, pass, handed, prio, have, disk, completed,
                 old, fresh, history>>

Ages ==
  /\ Spend("ages")
  /\ old' = TRUE
  /\ fresh' = {}
  /\ UNCHANGED <<store, readers, pass, client, completed, history>>

-----------------------------------------------------------------------------
Reading == \E r \in Reader : Reads(r) \/ TakesPass(r)
Surveying == \E rows \in SUBSET (completed \ disk) : SurveysWell(rows)
Passing == Surveying \/ ActsWell \/ Erases \/ Rechecks \/ Saves

Faults ==
  \/ KickFails \/ BurstEnds
  \/ \E rows \in SUBSET (completed \ disk) : SurveysBlind(rows)
  \/ SomeRefused \/ AddFails
  \/ ErasesNot \/ RecheckFails
  \/ SaveFails
  \/ End

User ==
  \/ \E e \in Ep : Watches(e)
  \/ roll # None /\ SetsOne
  \/ RollMore(1)
  \/ \E p \in Parts : Removes(p)

Client == (\E p \in Parts : Lists(p)) \/ (\E e \in Ep : Fetches(e))

Next == Reading \/ Passing \/ Faults \/ User \/ Client \/ Ages

Spec == Init /\ [][Next]_vars

\* The runtime runs what it is given, the client lists what it was handed and
\* fetches what it may.  Nobody need open the page.
FairSpec ==
  /\ Spec
  /\ WF_vars(Reads("task")) /\ WF_vars(Reads("burst"))
  /\ WF_vars(Passing \/ \E r \in Reader : TakesPass(r))
  /\ WF_vars(Client)

-----------------------------------------------------------------------------
\* What the user set last is what is stored, and a roll only leaves by a pass
\* that saw it.
EditsStand ==
  [][/\ roll' # None => UsersPart(roll') = wish'
     /\ roll # None /\ roll' = None => pass.before = wish]_vars

\* Only a watched episode leaves the disk, and only behind the ones kept.
OnlyWatchedErased ==
  \A e \in erased : e \in completed /\ \E f \in completed : e + Keep < f

\* The client does not fetch again what a pass took off the disk.
ErasedStays == torn \/ erased \cap disk = {}

\* The roll takes off the disk what was watched and no more, for good.
ErasesRight == TypeOK /\ OnlyWatchedErased /\ ErasedStays

Quiet == pass = None /\ ~asked /\ ~bursting /\ DOMAIN read \subseteq {"page"}

\* The roll, had it noted every episode completed of a torrent it still has.
Noted ==
  [roll EXCEPT !.watched = @ \cup
     {e \in completed \ roll.gone : PartOf(roll, e) \in listed \ roll.left}]

\* With nothing under way, nothing failed and no kick lost, the client is told
\* what the window says of what was watched and of what the user set, and the
\* watched episodes are off the disk.
WindowHolds ==
  Quiet /\ ~faulted /\ ~torn /\ ~lost /\ roll # None /\ roll.counted =>
    /\ roll.batch /\ Whole \in listed \ roll.left =>
         \A e \in Ep : prio[e] = Wish(Noted, e)
    /\ ToAdd(Noted) = {}
    /\ (roll.batch => left.here) =>
         \A e \in ToErase(Noted) : PartOf(roll, e) \in listed => e \notin disk

\* A roll that was released leaves once nothing is held back, or its torrents
\* have left.
ReleaseFreesAll ==
  [][roll # None /\ roll' = None /\ roll.released =>
       LET r == pass.roll
       IN  \/ AllLeft(r)
           \/ old /\ r.added \ r.seen # {}
           \/ \A e \in Ep :
                \/ e \in r.watched \cup r.gone
                \/ IF r.batch THEN Whole \in r.left \/ prio[e] # "skip"
                   ELSE e \in r.added]_vars

\* An episode the window reaches comes, unless something failed, a kick was
\* lost or its torrent was taken out of the client.
Stands(e) ==
  /\ roll # None /\ roll.counted /\ ~faulted /\ ~torn /\ ~lost
  /\ e \notin roll.gone /\ Wanted(Noted, e)
  /\ LET p == PartOf(roll, e)
     IN  p \notin roll.left /\ (p \in roll.added => p \in handed \cup listed)

WantedComes == []<>(\A e \in Ep : Stands(e) => e \in have)

\* "a part the client never lists goes after a while counted from here": a
\* roll leaves only when it is released or small, or nothing is left to do, or
\* a part is not listed long after it was handed over.
LeavesWhenDone ==
  [][roll # None /\ roll' = None =>
       LET r == pass.roll
       IN  pass.drop \/ AllLeft(r) \/ AllDone(r)
             \/ r.added \ (r.seen \cup fresh) # {}]_vars

\* "The torrent left the client: the user removed it, or the roll did."
LeftIsGone == roll # None => roll.left \cap listed = {}
=============================================================================
