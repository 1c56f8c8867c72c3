------------------------------ MODULE AtomicFile ------------------------------
(* atomic_file.rs: whole files saved through a sibling `<name>.tmp` and a    *)
(* rename, each save on its own turn for the file.  The turn is a mutex the  *)
(* map LOCKS keeps by path only while a save of that path is under way.      *)
EXTENDS Naturals, FiniteSets
CONSTANTS
  Saver,    \* callers of write, write_private and write_async
  Path,     \* files, as callers spell them
  Version,  \* what a file can hold
  Private,  \* the paths saved with write_private
  Turn,     \* the mutexes there can be at once (bounds the behaviour)
  None,     \* no file, no mutex, no save
  Torn,     \* what a reader of a torn file finds
  Leftover  \* the paths an earlier program left a sibling of

\* A file's bytes: of which version, all of them, on the disk itself and not
\* only in the page cache, and readable by others than the owner.
Bytes == [version : Version \cup {Torn}, whole : BOOLEAN,
          synced : BOOLEAN, wide : BOOLEAN]

AskState == {"asked", "landed", "failed"}

ASSUME FilesAssumption ==
  /\ IsFiniteSet(Saver)
  /\ IsFiniteSet(Path)
  /\ Private \cup Leftover \subseteq Path
  /\ None \notin Version \cup Turn \cup Bytes
  /\ None \notin [path : Path, version : Version, state : AskState]
  /\ Torn \notin Version \cup {None}

VARIABLES
  locks,  \* LOCKS: the mutex of a path, None when it has no entry
  step,   \* where each save is
  save,   \* what it saves: path and version
  turn,   \* in_turn's `turn`, its clone of the path's mutex
  out,    \* in_turn's `out`: how replace_now ended
  tmp,    \* the sibling of each path
  disk    \* the path itself

fileSystem == <<tmp, disk>>
vars == <<locks, step, save, turn, out, tmp, disk>>

Holding == {"held", "filling", "filled", "broken", "done"}
Step == Holding \cup {"idle", "waiting", "leaving"}

TypeOK ==
  /\ locks \in [Path -> Turn \cup {None}]
  /\ step \in [Saver -> Step]
  /\ save \in [Saver -> [path : Path, version : Version] \cup {None}]
  /\ turn \in [Saver -> Turn \cup {None}]
  /\ out \in [Saver -> {"none", "ok", "error"}]
  /\ tmp \in [Path -> Bytes \cup {None}]
  /\ disk \in [Path -> Bytes \cup {None}]

\* A sibling an earlier program left is half a file, readable by others.
Init ==
  /\ locks = [p \in Path |-> None]
  /\ step = [s \in Saver |-> "idle"]
  /\ save = [s \in Saver |-> None]
  /\ turn = [s \in Saver |-> None]
  /\ out = [s \in Saver |-> "none"]
  /\ tmp = [p \in Path |-> IF p \in Leftover
       THEN [version |-> Torn, whole |-> FALSE, synced |-> FALSE, wide |-> TRUE]
       ELSE None]
  /\ disk = [p \in Path |-> None]

-----------------------------------------------------------------------------
(* The turn                                                                *)

Unused(t) ==
  /\ \A p \in Path : locks[p] # t
  /\ \A s \in Saver : turn[s] # t

\* The save takes a clone of its path's mutex under the map's lock, making
\* the mutex when the path has none.
Take(s, p, v) ==
  /\ step[s] = "idle"
  /\ \E t \in Turn :
       /\ IF locks[p] = None THEN Unused(t) ELSE t = locks[p]
       /\ locks' = [locks EXCEPT ![p] = t]
       /\ turn' = [turn EXCEPT ![s] = t]
  /\ step' = [step EXCEPT ![s] = "waiting"]
  /\ save' = [save EXCEPT ![s] = [path |-> p, version |-> v]]
  /\ UNCHANGED <<out, fileSystem>>

Free(t) == \A s \in Saver : turn[s] = t => step[s] \notin Holding

Lock(s) ==
  /\ step[s] = "waiting"
  /\ Free(turn[s])
  /\ step' = [step EXCEPT ![s] = "held"]
  /\ UNCHANGED <<locks, save, turn, out, fileSystem>>

\* The guard of the mutex goes at the end of the block.
Unlock(s) ==
  /\ step[s] = "done"
  /\ step' = [step EXCEPT ![s] = "leaving"]
  /\ UNCHANGED <<locks, save, turn, out, fileSystem>>

StrongCount(t) ==
  Cardinality({p \in Path : locks[p] = t})
    + Cardinality({s \in Saver : turn[s] = t})

\* Mutant: a save that ends takes the entry out whoever else waits for it.
ReleaseAlways(s) ==
  /\ step[s] = "leaving"
  /\ locks' = [locks EXCEPT ![save[s].path] = None]
  /\ turn' = [turn EXCEPT ![s] = None]
  /\ step' = [step EXCEPT ![s] = "idle"]
  /\ save' = [save EXCEPT ![s] = None]
  /\ out' = [out EXCEPT ![s] = "none"]
  /\ UNCHANGED fileSystem

\* Mutant: the save counts its own clone alone, so no entry is taken out.
ReleaseNever(s) ==
  /\ step[s] = "leaving"
  /\ locks' = IF StrongCount(turn[s]) = 1
                THEN [locks EXCEPT ![save[s].path] = None] ELSE locks
  /\ turn' = [turn EXCEPT ![s] = None]
  /\ step' = [step EXCEPT ![s] = "idle"]
  /\ save' = [save EXCEPT ![s] = None]
  /\ out' = [out EXCEPT ![s] = "none"]
  /\ UNCHANGED fileSystem

\* Under the map's lock: count, give up the clone, take the entry out when
\* nobody else has one; then the answer goes to the caller.
Release(s) ==
  /\ step[s] = "leaving"
  /\ locks' = IF StrongCount(turn[s]) = 2
                THEN [locks EXCEPT ![save[s].path] = None] ELSE locks
  /\ turn' = [turn EXCEPT ![s] = None]
  /\ step' = [step EXCEPT ![s] = "idle"]
  /\ save' = [save EXCEPT ![s] = None]
  /\ out' = [out EXCEPT ![s] = "none"]
  /\ UNCHANGED fileSystem

-----------------------------------------------------------------------------
(* replace_now                                                             *)

MoveTo(s, place) == step' = [step EXCEPT ![s] = place]

\* What the open leaves: the sibling made or truncated.  `mode` applies only
\* to a file it makes, so one that was there keeps the mode it had.
Opened(p, v) ==
  [version |-> v, whole |-> FALSE, synced |-> FALSE,
   wide |-> IF tmp[p] = None THEN p \notin Private ELSE tmp[p].wide]

Open(s) ==
  /\ step[s] = "held"
  /\ LET p == save[s].path
     IN  tmp' = [tmp EXCEPT ![p] = Opened(p, save[s].version)]
  /\ MoveTo(s, "filling")
  /\ UNCHANGED <<locks, save, turn, out, disk>>

\* Mutant: write_private leaves out the sync.
FilledUnsynced(p) ==
  [version |-> tmp[p].version, whole |-> TRUE, synced |-> FALSE,
   wide |-> tmp[p].wide /\ p \notin Private]

\* Mutant: write_private trusts the mode its open asked for.
FilledAsOpened(p) ==
  [version |-> tmp[p].version, whole |-> TRUE, synced |-> p \in Private,
   wide |-> tmp[p].wide]

\* All bytes are written; write_private syncs them and says the mode again.
Filled(p) ==
  [version |-> tmp[p].version, whole |-> TRUE, synced |-> p \in Private,
   wide |-> tmp[p].wide /\ p \notin Private]

Fill(s) ==
  /\ step[s] = "filling"
  /\ LET p == save[s].path
     IN  tmp' = [tmp EXCEPT ![p] = Filled(p)]
  /\ MoveTo(s, "filled")
  /\ UNCHANGED <<locks, save, turn, out, disk>>

Rename(s) ==
  /\ step[s] = "filled"
  /\ LET p == save[s].path
     IN  /\ disk' = [disk EXCEPT ![p] = tmp[p]]
         /\ tmp' = [tmp EXCEPT ![p] = None]
  /\ MoveTo(s, "done")
  /\ out' = [out EXCEPT ![s] = "ok"]
  /\ UNCHANGED <<locks, save, turn>>

\* The folder, the open, the write, the sync or the rename fails.
Break(s) ==
  /\ step[s] \in {"held", "filling", "filled"}
  /\ MoveTo(s, "broken")
  /\ out' = [out EXCEPT ![s] = "error"]
  /\ UNCHANGED <<locks, save, turn, fileSystem>>

\* The sibling of a failed save is removed, or cannot be.
Sweep(s) ==
  /\ step[s] = "broken"
  /\ tmp' \in {tmp, [tmp EXCEPT ![save[s].path] = None]}
  /\ MoveTo(s, "done")
  /\ UNCHANGED <<locks, save, turn, out, disk>>

-----------------------------------------------------------------------------
(* What happens to the files from outside                                  *)

\* Their owner deletes a file (calendar::remove), in no turn.
DeleteFile(p) ==
  /\ disk' = [disk EXCEPT ![p] = None]
  /\ UNCHANGED <<locks, step, save, turn, out, tmp>>

\* The program ends at any step: memory goes, the files stay.  When the power
\* goes with it, bytes that were not synced may be torn.  A rename that landed
\* is taken to last: nothing syncs the folder, so that is the file system's to
\* keep, and one that orders renames late may come back to the file before it.
Tear(files, torn) ==
  [p \in Path |-> IF p \in torn /\ files[p] # None
                    THEN [files[p] EXCEPT !.whole =
                           files[p].whole /\ files[p].synced]
                    ELSE files[p]]

ProgramEnds(torn) ==
  /\ locks' = [p \in Path |-> None]
  /\ step' = [s \in Saver |-> "idle"]
  /\ save' = [s \in Saver |-> None]
  /\ turn' = [s \in Saver |-> None]
  /\ out' = [s \in Saver |-> "none"]
  /\ tmp' = Tear(tmp, torn)
  /\ disk' = Tear(disk, torn)

SaveStep(s) ==
  \/ Lock(s)
  \/ Open(s)
  \/ Fill(s)
  \/ Rename(s)
  \/ Break(s)
  \/ Sweep(s)
  \/ Unlock(s)

Next ==
  \/ \E s \in Saver, p \in Path, v \in Version : Take(s, p, v)
  \/ \E s \in Saver : SaveStep(s) \/ Release(s)
  \/ \E p \in Path : DeleteFile(p)
  \/ \E torn \in SUBSET Path : ProgramEnds(torn)

Spec == Init /\ [][Next]_vars

-----------------------------------------------------------------------------
(* Properties                                                              *)

\* Two saves of one file take turns: at most one has its sibling in hand.
OneSaver ==
  \A s, u \in Saver :
    /\ step[s] \in Holding
    /\ step[u] \in Holding
    /\ save[s].path = save[u].path
    => s = u

\* "the map stays as small as the saves under way": an entry is the mutex of
\* some save, and of one path.
EntriesInUse ==
  \A p \in Path :
    locks[p] # None =>
      /\ \E s \in Saver : turn[s] = locks[p] /\ save[s].path = p
      /\ \A q \in Path : locks[q] = locks[p] => q = p

\* The turns of in_turn and the map of them, with every file's state in shape.
TurnsKept == TypeOK /\ OneSaver /\ EntriesInUse

\* A private file is never readable by others, whatever an earlier save left.
OwnerOnly == \A p \in Private : disk[p] # None => ~disk[p].wide

-----------------------------------------------------------------------------
(* What a caller sees of it                                                *)

Readable(p) ==
  IF disk[p] = None THEN None
  ELSE IF disk[p].whole THEN disk[p].version ELSE Torn

AskOf(s) ==
  IF step[s] = "idle" THEN None
  ELSE [path |-> save[s].path, version |-> save[s].version,
        state |-> CASE out[s] = "none" -> "asked"
                    [] out[s] = "ok" -> "landed"
                    [] out[s] = "error" -> "failed"]

Register == INSTANCE FileRegister
              WITH file <- [p \in Path |-> Readable(p)],
                   asks <- [s \in Saver |-> AskOf(s)]

\* A reader sees the contents of one save or the one before, never half of
\* either, at any moment and after any end of the program.
KeepsRegister == Register!FileSpec
=============================================================================
