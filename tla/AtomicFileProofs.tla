--------------------------- MODULE AtomicFileProofs ---------------------------
(* For any savers, paths and contents: two saves of a path take turns, the   *)
(* map holds no entry nobody uses, and a reader sees one save or another.    *)
(* For the owners of the files: the calendar, the lists and the edits hold   *)
(* what their owners were told.                                              *)
EXTENDS KeptFiles, FiniteSetTheorems, TLAPS

Saving(s) == step[s] # "idle"
NoAnswer == {"idle", "waiting", "held", "filling", "filled"}

\* Where a save is says what its fields hold; its clone is the entry's mutex.
PlacedAt(s) ==
  /\ step[s] = "idle" => save[s] = None /\ turn[s] = None
  /\ Saving(s) => /\ save[s] \in [path : Path, version : Version]
                  /\ turn[s] \in Turn
                  /\ locks[save[s].path] = turn[s]
  /\ step[s] \in NoAnswer <=> out[s] = "none"

Placed == \A s \in Saver : PlacedAt(s)

\* One mutex per path, and each is the clone of some save.
OneTurn ==
  /\ \A p, q \in Path : locks[p] # None /\ locks[p] = locks[q] => p = q
  /\ \A p \in Path : locks[p] # None => \E s \in Saver : turn[s] = locks[p]

OneHolder ==
  \A s, u \in Saver :
    step[s] \in Holding /\ step[u] \in Holding /\ turn[s] = turn[u] => s = u

\* The sibling of a save that fills it is its own, and complete once filled.
Siblings ==
  \A s \in Saver :
    LET p == save[s].path
    IN  /\ step[s] \in {"filling", "filled"} =>
             tmp[p] # None /\ tmp[p].version = save[s].version
        /\ step[s] = "filled" =>
             tmp[p].whole /\ (p \in Private => tmp[p].synced /\ ~tmp[p].wide)

PrivateSafe ==
  \A p \in Private :
    disk[p] # None => disk[p].whole /\ disk[p].synced /\ ~disk[p].wide

TurnInv == TypeOK /\ Placed /\ OneTurn /\ OneHolder /\ Siblings /\ PrivateSafe

-----------------------------------------------------------------------------
(* The turn                                                                *)

LEMMA TurnInit == Init => TurnInv
  BY FilesAssumption
  DEF Init, TurnInv, TypeOK, Placed, PlacedAt, NoAnswer, OneTurn, OneHolder,
      Siblings, PrivateSafe, Saving,
      Step, Holding, Bytes

\* A count of two is the entry and this save's clone, and no other's.
LEMMA CountOfTwo ==
  ASSUME TurnInv, NEW s \in Saver, Saving(s), StrongCount(turn[s]) = 2
  PROVE  \A u \in Saver : turn[u] = turn[s] => u = s
<1> DEFINE p == save[s].path
           P == {q \in Path : locks[q] = turn[s]}
           S == {u \in Saver : turn[u] = turn[s]}
<1>1. p \in Path /\ locks[p] = turn[s] /\ turn[s] # None
  BY FilesAssumption DEF TurnInv, Placed, PlacedAt, NoAnswer, TypeOK
<1>2. P = {p}
  BY <1>1 DEF TurnInv, OneTurn
<1>3. Cardinality(P) = 1
  BY <1>2, FS_Singleton
<1>4. IsFiniteSet(S) /\ Cardinality(S) \in Nat
  <2>1. IsFiniteSet(S)
    BY FilesAssumption, FS_Subset
  <2> QED
    BY <2>1, FS_CardinalityType
<1>5. Cardinality(S) = 1
  BY <1>3, <1>4 DEF StrongCount
<1>6. PICK m : S = {m}
  BY <1>4, <1>5, FS_Singleton
<1> QED
  BY <1>6

LEMMA TakeTurn ==
  ASSUME TurnInv, NEW s \in Saver, NEW p \in Path, NEW v \in Version, Take(s,
      p, v)
  PROVE  TurnInv'
<1>1. PICK t \in Turn :
        /\ IF locks[p] = None THEN Unused(t) ELSE t = locks[p]
        /\ locks' = [locks EXCEPT ![p] = t]
        /\ turn' = [turn EXCEPT ![s] = t]
  BY DEF Take
<1>2. t # None /\ locks' \in [Path -> Turn \cup {None}] /\ turn' \in [Saver -> Turn \cup {None}]
  BY <1>1, FilesAssumption DEF TurnInv, TypeOK
<1>3. TypeOK'
  BY <1>2 DEF Take, TurnInv, TypeOK, Step, fileSystem
<1>4. Placed'
  <2> SUFFICES ASSUME NEW u \in Saver
               PROVE  PlacedAt(u)'
    BY DEF Placed, PlacedAt, NoAnswer
  <2>1. CASE u = s
    BY <1>1, <2>1 DEF Take, TurnInv, Placed, PlacedAt, NoAnswer, TypeOK, Saving
  <2>2. CASE u # s
    <3>1. UNCHANGED <<step[u], save[u], turn[u], out[u]>>
      BY <1>1, <2>2 DEF Take, TurnInv, TypeOK
    <3>2. ASSUME Saving(u)
          PROVE  locks'[save[u].path] = locks[save[u].path]
      <4>1. save[u].path \in Path /\ locks[save[u].path] # None
        BY <3>2, FilesAssumption DEF TurnInv, Placed, PlacedAt, NoAnswer
      <4>2. save[u].path = p => locks'[p] = locks[p]
        BY <4>1, <1>1 DEF TurnInv, TypeOK
      <4> QED
        BY <4>1, <4>2, <1>1 DEF TurnInv, TypeOK
    <3> QED
      BY <3>1, <3>2 DEF TurnInv, Placed, PlacedAt, Saving
  <2> QED
    BY <2>1, <2>2
<1>5. OneTurn'
  BY <1>1, <1>2 DEF Take, TurnInv, Placed, PlacedAt, NoAnswer, OneTurn,
                    TypeOK, Unused, Saving
<1>6. OneHolder'
  BY <1>1, <1>2 DEF Take, TurnInv, Placed, PlacedAt, NoAnswer, OneHolder,
                    TypeOK, Holding
<1>7. Siblings' /\ PrivateSafe'
  BY DEF Take, TurnInv, Siblings, PrivateSafe, TypeOK, fileSystem
<1> QED
  BY <1>3, <1>4, <1>5, <1>6, <1>7 DEF TurnInv

LEMMA ReleaseTurn ==
  ASSUME TurnInv, NEW s \in Saver, Release(s)
  PROVE  TurnInv'
<1>1. Saving(s) /\ s \in Saver /\ save[s].path \in Path /\ turn[s] \in Turn
  BY DEF Release, TurnInv, Placed, PlacedAt, NoAnswer, Saving
<1>2. TypeOK'
  BY <1>1 DEF Release, TurnInv, TypeOK, Step, fileSystem
<1>3. ASSUME NEW u \in Saver, u # s, Saving(u)
      PROVE  locks'[save[u].path] = locks[save[u].path]
  <2>1. CASE StrongCount(turn[s]) = 2
    <3>1. turn[u] # turn[s]
      BY <2>1, <1>1, <1>3, CountOfTwo
    <3>2. save[u].path # save[s].path
      BY <3>1, <1>1, <1>3 DEF TurnInv, Placed, PlacedAt, NoAnswer
    <3> QED
      BY <3>2, <2>1, <1>3 DEF Release, TurnInv, TypeOK, Placed, PlacedAt,
                              NoAnswer
  <2>2. CASE StrongCount(turn[s]) # 2
    BY <2>2 DEF Release
  <2> QED
    BY <2>1, <2>2
<1>4. Placed'
  BY <1>1, <1>3 DEF Release, TurnInv, Placed, PlacedAt, NoAnswer, TypeOK, Saving
<1>5. OneTurn'
  <2>1. ASSUME NEW p \in Path, locks'[p] # None
        PROVE  locks'[p] = locks[p] /\ \E u \in Saver : turn'[u] = locks[p]
    <3>1. locks'[p] = locks[p]
      BY <2>1 DEF Release, TurnInv, TypeOK
    <3>2. CASE locks[p] # turn[s]
      BY <3>1, <3>2, <2>1 DEF Release, TurnInv, OneTurn, TypeOK
    <3>3. CASE locks[p] = turn[s]
      <4>1. p = save[s].path
        BY <3>3, <3>1, <2>1, <1>1 DEF TurnInv, OneTurn, Placed, PlacedAt,
                                      NoAnswer
      <4>2. StrongCount(turn[s]) # 2
        BY <4>1, <2>1 DEF Release, TurnInv, TypeOK
      <4>3. PICK u \in Saver : u # s /\ turn[u] = turn[s]
        <5> SUFFICES ASSUME \A u \in Saver : turn[u] = turn[s] => u = s
                     PROVE  StrongCount(turn[s]) = 2
          BY <4>2
        <5>1. {u \in Saver : turn[u] = turn[s]} = {s}
          OBVIOUS
        <5>2. {q \in Path : locks[q] = turn[s]} = {p}
          BY <3>3, <3>1, <2>1 DEF TurnInv, OneTurn
        <5>3. Cardinality({s}) = 1 /\ Cardinality({p}) = 1
          BY FS_Singleton
        <5> QED
          BY <5>1, <5>2, <5>3 DEF StrongCount
      <4> QED
        BY <4>3, <3>1, <3>3 DEF Release, TurnInv, TypeOK
    <3> QED
      BY <3>2, <3>3, <3>1
  <2> QED
    BY <2>1 DEF TurnInv, OneTurn
<1>6. OneHolder'
  BY DEF Release, TurnInv, OneHolder, TypeOK, Holding, Placed, PlacedAt,
         NoAnswer
<1>7. Siblings' /\ PrivateSafe'
  BY DEF Release, TurnInv, Siblings, PrivateSafe, TypeOK, fileSystem
<1> QED
  BY <1>2, <1>4, <1>5, <1>6, <1>7 DEF TurnInv

\* The steps inside a turn move one save from place to place.
LEMMA SaveStepTurn ==
  ASSUME TurnInv, NEW s \in Saver, SaveStep(s)
  PROVE  TurnInv'
<1> DEFINE p == save[s].path
<1>1. /\ Saving(s) /\ step'[s] # "idle"
      /\ locks' = locks /\ save' = save /\ turn' = turn
      /\ \A u \in Saver \ {s} : step'[u] = step[u] /\ out'[u] = out[u]
      /\ step' \in [Saver -> Step]
      /\ step'[s] \in Holding => Lock(s) \/ step[s] \in Holding
  BY DEF TurnInv, TypeOK, Step, SaveStep, Saving, Lock, Open, Fill, Rename,
         Break,
         Sweep, Unlock, MoveTo, Holding
<1>2. p \in Path /\ save[s].version \in Version
  BY <1>1 DEF TurnInv, Placed, PlacedAt, NoAnswer
<1>a. Opened(p, save[s].version) \in Bytes
  BY <1>2 DEF Opened, TurnInv, TypeOK, Bytes
<1>b. ASSUME step[s] = "filling"
      PROVE  /\ tmp[p] \in Bytes /\ Filled(p) \in Bytes
             /\ tmp[p].version = save[s].version
  <2>1. tmp[p] \in Bytes /\ tmp[p].version = save[s].version
    BY <1>b, <1>2 DEF TurnInv, TypeOK, Siblings
  <2> QED
    BY <2>1 DEF Filled, Bytes
<1>3. /\ out' \in [Saver -> {"none", "ok", "error"}]
      /\ tmp' \in [Path -> Bytes \cup {None}]
      /\ disk' \in [Path -> Bytes \cup {None}]
  <2>1. CASE Open(s)
    BY <2>1, <1>2, <1>a DEF Open, TurnInv, TypeOK
  <2>2. CASE Fill(s)
    BY <2>2, <1>2, <1>b DEF Fill, TurnInv, TypeOK
  <2>3. CASE Rename(s)
    BY <2>3, <1>2 DEF Rename, TurnInv, TypeOK
  <2>4. CASE Lock(s) \/ Unlock(s) \/ Break(s) \/ Sweep(s)
    BY <2>4, <1>2 DEF Lock, Unlock, Break, Sweep, TurnInv, TypeOK, fileSystem
  <2> QED
    BY <2>1, <2>2, <2>3, <2>4 DEF SaveStep
<1>4. step'[s] \in NoAnswer <=> out'[s] = "none"
  BY DEF TurnInv, TypeOK, Placed, PlacedAt, NoAnswer, SaveStep, Lock, Open,
         Fill, Rename, Break,
         Sweep, Unlock, MoveTo
<1>5. Placed'
  BY <1>1, <1>4 DEF TurnInv, Placed, PlacedAt, NoAnswer, Saving
<1>6. OneHolder'
  <2>1. CASE Lock(s)
    BY <2>1, <1>1 DEF Lock, Free, TurnInv, OneHolder
  <2>2. CASE ~Lock(s)
    BY <2>2, <1>1 DEF TurnInv, OneHolder
  <2> QED
    BY <2>1, <2>2
<1>7. step[s] \in Holding =>
        \A u \in Saver \ {s} : step[u] \in Holding => save[u].path # p
  BY <1>1 DEF TurnInv, OneHolder, Placed, PlacedAt, NoAnswer, Saving, Holding
<1>8. Siblings'
  <2> SUFFICES ASSUME NEW u \in Saver, step'[u] \in {"filling", "filled"}
               PROVE  LET q == save[u].path
                      IN  /\ tmp'[q] # None /\ tmp'[q].version = save[u].version
                          /\ step'[u] = "filled" =>
                               tmp'[q].whole /\ (q \in Private =>
                                                  tmp'[q].synced /\ ~tmp'[q].wide)
    BY <1>1 DEF Siblings
  <2>1. CASE u # s
    <3>1. step[u] = step'[u] /\ (step[s] \in Holding => save[u].path # p)
      BY <2>1, <1>1, <1>7 DEF Holding
    <3>2. save[u].path \in Path
      BY <3>1 DEF TurnInv, Placed, PlacedAt, NoAnswer, Saving
    <3>3. tmp'[save[u].path] = tmp[save[u].path]
      BY <3>1, <3>2, <1>2
      DEF SaveStep, Lock, Open, Fill, Rename, Break, Sweep, Unlock, MoveTo,
          Holding,
          fileSystem, TurnInv, TypeOK
    <3> QED
      BY <3>1, <3>3 DEF TurnInv, Siblings
  <2>2. CASE u = s /\ Open(s)
    <3>1. tmp'[p] = Opened(p, save[s].version) /\ step'[s] = "filling"
      BY <2>2, <1>2 DEF Open, MoveTo, TurnInv, TypeOK
    <3> QED
      BY <3>1, <2>2, <1>a, FilesAssumption DEF Opened
  <2>3. CASE u = s /\ Fill(s)
    <3>1. tmp'[p] = Filled(p) /\ step[s] = "filling"
      BY <2>3, <1>2 DEF Fill, TurnInv, TypeOK
    <3>2. /\ Filled(p).version = save[s].version
          /\ Filled(p).whole
          /\ p \in Private => Filled(p).synced /\ ~Filled(p).wide
      BY <3>1, <1>b DEF Filled, Bytes
    <3> QED
      BY <3>1, <3>2, <2>3, <1>b, FilesAssumption
  <2>4. CASE u = s /\ ~Open(s) /\ ~Fill(s)
    BY <2>4 DEF SaveStep, Lock, Rename, Break, Sweep, Unlock, MoveTo, TurnInv,
                TypeOK
  <2> QED
    BY <2>1, <2>2, <2>3, <2>4
<1>9. PrivateSafe'
  <2>1. CASE Rename(s)
    BY <2>1, <1>2 DEF Rename, TurnInv, Siblings, PrivateSafe, TypeOK
  <2>2. CASE ~Rename(s)
    BY <2>2 DEF SaveStep, Lock, Open, Fill, Break, Sweep, Unlock, fileSystem,
                TurnInv, PrivateSafe
  <2> QED
    BY <2>1, <2>2
<1> QED
  BY <1>1, <1>3, <1>5, <1>6, <1>8, <1>9 DEF TurnInv, TypeOK, OneTurn

LEMMA EndTurn ==
  ASSUME TurnInv, NEW torn \in SUBSET Path, ProgramEnds(torn)
  PROVE  TurnInv'
<1>1. ASSUME NEW files \in [Path -> Bytes \cup {None}]
      PROVE  Tear(files, torn) \in [Path -> Bytes \cup {None}]
  <2>1. ASSUME NEW p \in Path, files[p] # None
        PROVE  [files[p] EXCEPT !.whole = @ /\ files[p].synced] \in Bytes
    BY <2>1, <1>1 DEF Bytes
  <2> QED
    BY <2>1 DEF Tear
<1>2. TypeOK'
  BY <1>1 DEF ProgramEnds, TurnInv, TypeOK, Step
<1>3. PrivateSafe'
  BY FilesAssumption DEF ProgramEnds, Tear, TurnInv, PrivateSafe, TypeOK, Bytes
<1> QED
  BY <1>2, <1>3
  DEF ProgramEnds, TurnInv, Placed, PlacedAt, NoAnswer, OneTurn, OneHolder,
      Siblings, Saving, Holding

LEMMA TurnStep == TurnInv /\ [Next]_vars => TurnInv'
<1> SUFFICES ASSUME TurnInv, [Next]_vars
             PROVE  TurnInv'
  OBVIOUS
<1>1. ASSUME NEW p \in Path, DeleteFile(p)
      PROVE  TurnInv'
  BY <1>1 DEF DeleteFile, TurnInv, TypeOK, Placed, PlacedAt, NoAnswer,
              OneTurn, OneHolder, Siblings,
              PrivateSafe, Saving
<1>2. CASE UNCHANGED vars
  BY <1>2 DEF vars, TurnInv, TypeOK, Placed, PlacedAt, NoAnswer, OneTurn,
              OneHolder, Siblings,
              PrivateSafe, Saving
<1> QED
  BY <1>1, <1>2, TakeTurn, ReleaseTurn, SaveStepTurn, EndTurn DEF Next

LEMMA TurnMeans == TurnInv => TurnsKept
  BY FilesAssumption
  DEF TurnsKept, TurnInv, Placed, PlacedAt, NoAnswer, OneTurn, OneHolder, OneSaver,
      EntriesInUse, Saving, Holding, TypeOK

\* Saves of one file take turns, and the map forgets the files nobody saves:
\* in_turn of src/core/src/atomic_file.rs.
THEOREM FilesTurnsKept == Spec => []TurnsKept
BY TurnInit, TurnStep, TurnMeans, PTL DEF Spec

\* A private file is its owner's alone at every moment, whatever sibling an
\* earlier program left: write_private of src/core/src/atomic_file.rs.
THEOREM FilesOwnerOnly == Spec => []OwnerOnly
<1>1. TurnInv => OwnerOnly
  BY DEF TurnInv, PrivateSafe, OwnerOnly
<1> QED
  BY <1>1, TurnInit, TurnStep, PTL DEF Spec

-----------------------------------------------------------------------------
(* The register                                                            *)

USE DEF Register!fileVars

LEMMA RegisterInit == Init => Register!FileInit
  BY DEF Init, Register!FileInit, Readable, AskOf

LEMMA AskIsOne ==
  ASSUME NEW p \in Path, NEW v \in Version, NEW state \in AskState
  PROVE  [path |-> p, version |-> v, state |-> state] # None
<1>1. [path |-> p, version |-> v, state |-> state]
        \in [path : Path, version : Version, state : AskState]
  OBVIOUS
<1> QED
  BY <1>1, FilesAssumption

LEMMA AskKept ==
  ASSUME NEW u \in Saver, step'[u] = "idle" <=> step[u] = "idle",
         save'[u] = save[u], out'[u] = out[u]
  PROVE  AskOf(u)' = AskOf(u)
  BY DEF AskOf

LEMMA StepMaps ==
  ASSUME TurnInv, [Next]_vars
  PROVE  [Register!FileNext]_(Register!fileVars)
<1> DEFINE file == [p \in Path |-> Readable(p)]
           asks == [s \in Saver |-> AskOf(s)]
<1>1. ASSUME NEW s \in Saver, NEW p \in Path, NEW v \in Version, Take(s, p, v)
      PROVE  Register!AskSave(s, p, v)
  <2>1. file' = file
    BY <1>1 DEF Take, fileSystem, Readable
  <2>2. AskOf(s) = None
    BY <1>1 DEF Take, AskOf
  <2>3. AskOf(s)' = [path |-> p, version |-> v, state |-> "asked"]
    BY <1>1 DEF Take, AskOf, TurnInv, TypeOK, Placed, PlacedAt, NoAnswer
  <2>4. \A u \in Saver \ {s} : AskOf(u)' = AskOf(u)
    BY <1>1 DEF Take, AskOf, TurnInv, TypeOK
  <2> QED
    BY <2>1, <2>2, <2>3, <2>4 DEF Register!AskSave
<1>2. ASSUME NEW s \in Saver, Release(s)
      PROVE  Register!Answer(s)
  <2>1. file' = file
    BY <1>2 DEF Release, fileSystem, Readable
  <2>2. AskOf(s) # None /\ AskOf(s).state # "asked"
    <3>1. /\ step[s] # "idle" /\ out[s] \in {"ok", "error"}
          /\ save[s].path \in Path /\ save[s].version \in Version
      BY <1>2
      DEF Release, TurnInv, TypeOK, Placed, PlacedAt, NoAnswer, Saving
    <3>2. PICK state \in {"landed", "failed"} :
            AskOf(s) = [path |-> save[s].path, version |-> save[s].version,
                        state |-> state]
      BY <3>1 DEF AskOf
    <3> QED
      BY <3>1, <3>2, AskIsOne DEF AskState
  <2>3. AskOf(s)' = None
    BY <1>2 DEF Release, AskOf, TurnInv, TypeOK
  <2>4. \A u \in Saver \ {s} : AskOf(u)' = AskOf(u)
    BY <1>2 DEF Release, AskOf, TurnInv, TypeOK
  <2>5. asks' = [u \in Saver |-> AskOf(u)']
    OBVIOUS
  <2>6. asks' = [asks EXCEPT ![s] = None]
    BY <2>3, <2>4, <2>5
  <2>7. asks[s] # None /\ asks[s].state # "asked"
    BY <2>2
  <2> QED
    BY <2>1, <2>6, <2>7 DEF Register!Answer
<1>3. ASSUME NEW s \in Saver, Rename(s)
      PROVE  Register!Land(s)
  <2>1. save[s].path \in Path /\ step[s] = "filled" /\ out[s] = "none"
    BY <1>3 DEF Rename, TurnInv, Placed, PlacedAt, NoAnswer, Saving
  <2>2. /\ AskOf(s) = [path |-> save[s].path, version |-> save[s].version,
                       state |-> "asked"]
        /\ AskOf(s)' = [path |-> save[s].path, version |-> save[s].version,
                        state |-> "landed"]
    BY <1>3, <2>1 DEF Rename, MoveTo, AskOf, TurnInv, TypeOK
  <2>3. \A u \in Saver \ {s} : AskOf(u)' = AskOf(u)
    BY <1>3 DEF Rename, MoveTo, AskOf, TurnInv, TypeOK
  <2> PICK p \in Path : p = save[s].path
    BY <2>1
  <2>4. Readable(p)' = save[s].version
    BY <1>3, <2>1 DEF Rename, Readable, TurnInv, TypeOK, Siblings
  <2>5. \A q \in Path \ {p} : Readable(q)' = Readable(q)
    BY <1>3 DEF Rename, Readable, TurnInv, TypeOK
  <2>6. AskOf(s) # None
    BY <2>1, <2>2, AskIsOne DEF AskState, TurnInv, Placed, PlacedAt, Saving
  <2>7. /\ asks' = [u \in Saver |-> AskOf(u)']
        /\ file' = [q \in Path |-> Readable(q)']
    OBVIOUS
  <2>8. /\ asks[s].path = save[s].path /\ asks[s].version = save[s].version
        /\ asks[s] # None /\ asks[s].state = "asked"
    BY <2>2, <2>6
  <2>9. AskOf(s)' = [path |-> asks[s].path, version |-> asks[s].version,
                     state |-> "landed"]
    BY <2>2, <2>8
  <2>10. asks' = [asks EXCEPT ![s] = AskOf(s)']
    BY <2>3, <2>7
  <2>11. file' = [file EXCEPT ![p] = save[s].version]
    BY <2>4, <2>5, <2>7
  <2> QED
    BY <2>8, <2>9, <2>10, <2>11 DEF Register!Land, Register!Answered
<1>4. ASSUME NEW s \in Saver, Break(s)
      PROVE  Register!Fail(s)
  <2>1. file' = file
    BY <1>4 DEF Break, fileSystem, Readable
  <2>2. step[s] # "idle" /\ out[s] = "none"
    BY <1>4 DEF Break, TurnInv, Placed, PlacedAt, NoAnswer
  <2>3. /\ AskOf(s) = [path |-> save[s].path, version |-> save[s].version,
                       state |-> "asked"]
        /\ AskOf(s)' = [path |-> save[s].path, version |-> save[s].version,
                        state |-> "failed"]
    BY <1>4, <2>2 DEF Break, MoveTo, AskOf, TurnInv, TypeOK
  <2>4. \A u \in Saver \ {s} : AskOf(u)' = AskOf(u)
    BY <1>4 DEF Break, MoveTo, AskOf, TurnInv, TypeOK
  <2>5. AskOf(s) # None
    BY <2>2, <2>3, AskIsOne DEF AskState, TurnInv, Placed, PlacedAt, Saving
  <2>6. /\ asks[s].path = save[s].path /\ asks[s].version = save[s].version
        /\ asks[s] # None /\ asks[s].state = "asked"
    BY <2>3, <2>5
  <2>7. AskOf(s)' = [path |-> asks[s].path, version |-> asks[s].version,
                     state |-> "failed"]
    BY <2>3, <2>6
  <2>8. asks' = [u \in Saver |-> AskOf(u)']
    OBVIOUS
  <2>9. asks' = [asks EXCEPT ![s] = AskOf(s)']
    BY <2>4, <2>8
  <2> QED
    BY <2>1, <2>6, <2>7, <2>9 DEF Register!Fail, Register!Answered
<1>5. ASSUME NEW s \in Saver,
             Lock(s) \/ Open(s) \/ Fill(s) \/ Sweep(s) \/ Unlock(s)
      PROVE  UNCHANGED <<file, asks>>
  <2>1. disk' = disk /\ save' = save /\ out' = out
    BY <1>5 DEF Lock, Open, Fill, Sweep, Unlock, fileSystem
  <2>2. \A u \in Saver : step'[u] = "idle" <=> step[u] = "idle"
    BY <1>5 DEF Lock, Open, Fill, Sweep, Unlock, MoveTo, TurnInv, TypeOK
  <2> QED
    BY <2>1, <2>2 DEF AskOf, Readable
<1>6. ASSUME NEW p \in Path, DeleteFile(p)
      PROVE  Register!Delete(p)
  <2>1. Readable(p)' = None /\ \A q \in Path \ {p} : Readable(q)' = Readable(q)
    BY <1>6 DEF DeleteFile, Readable, TurnInv, TypeOK
  <2>2. asks' = asks
    BY <1>6 DEF DeleteFile, AskOf
  <2> QED
    BY <2>1, <2>2 DEF Register!Delete
<1>7. ASSUME NEW torn \in SUBSET Path, ProgramEnds(torn)
      PROVE  \E cut \in SUBSET (Path \ Private) : Register!End(cut)
  <2> DEFINE cut == {p \in Path : Readable(p)' # Readable(p)}
  <2>1. ASSUME NEW p \in Path, Readable(p)' # Readable(p)
        PROVE  disk[p] \in Bytes
               /\ disk'[p] = [disk[p] EXCEPT !.whole =
                               disk[p].whole /\ disk[p].synced]
    BY <1>7, <2>1 DEF ProgramEnds, Tear, TurnInv, TypeOK, Readable
  <2>2. ASSUME NEW p \in Path, Readable(p)' # Readable(p)
        PROVE  Readable(p)' = Torn /\ p \notin Private
    <3>1. disk'[p] \in Bytes /\ disk'[p].version = disk[p].version
          /\ disk'[p].whole = (disk[p].whole /\ disk[p].synced)
      BY <2>1, <2>2 DEF Bytes
    <3>2. disk[p] # None /\ disk'[p] # None
      BY <2>1, <2>2, <3>1, FilesAssumption
    <3>3. disk[p].whole /\ ~disk[p].synced
      BY <3>1, <3>2, <2>1, <2>2 DEF Readable, Bytes
    <3>4. Readable(p)' = Torn
      BY <3>1, <3>2, <3>3 DEF Readable
    <3> QED
      BY <3>2, <3>3, <3>4 DEF TurnInv, PrivateSafe
  <2>3. cut \in SUBSET (Path \ Private)
    BY <2>2
  <2>4. file' = [p \in Path |-> IF p \in cut THEN Torn ELSE file[p]]
    BY <2>2
  <2>5. asks' = [s \in Saver |-> None]
    BY <1>7 DEF ProgramEnds, AskOf
  <2>6. Register!End(cut)
    BY <2>3, <2>4, <2>5 DEF Register!End
  <2> QED
    BY <2>3, <2>6
<1>8. CASE UNCHANGED vars
  BY <1>8 DEF vars, AskOf, Readable
<1> QED
  BY <1>1, <1>2, <1>3, <1>4, <1>5, <1>6, <1>7, <1>8
  DEF Next, SaveStep, Register!FileNext

\* A reader of any file finds one save whole, or the one before it, at every
\* step of src/core/src/atomic_file.rs, also after a program end or a failed
\* save; of a private file, after a power cut too.
THEOREM FilesKeepRegister == Spec => KeepsRegister
BY TurnInit, TurnStep, RegisterInit, StepMaps, PTL
DEF Spec, KeepsRegister, Register!FileSpec

-----------------------------------------------------------------------------
(* The owners of the files                                                 *)

SaveAt == {"saveCalendar", "saveEntries", "saveEdit", "saveSources"}

\* What a thread is at says what it saves, and who speaks for the calendar.
BusyAt(s) ==
  /\ Saving(s) <=> doing[s] \in SaveAt
  /\ doing[s] = "saveCalendar" => save[s].path = Calendar
  /\ doing[s] = "saveEntries" => save[s].path = Entries
  /\ doing[s] = "saveEdit" => save[s].path = edit[s][1]
  /\ doing[s] = "saveSources" => save[s].path = Sources
  /\ doing[s] \in {"editTurn", "saveEdit"} => edit[s] \in Edited \X Change
  /\ s \in says => doing[s] \in CalendarAt
  /\ doing[s] \in {"remove", "say"} => s \in says

\* The calendar's lock, the list's turn and the edits' own are of one thread.
OneOwner ==
  \A s, u \in Saver :
    \/ doing[s] \in CalendarLocked /\ doing[u] \in CalendarLocked
    \/ doing[s] = "saveEntries" /\ doing[u] = "saveEntries"
    \/ /\ doing[s] = "saveEdit" /\ doing[u] = "saveEdit"
       /\ edit[s][1] = edit[u][1]
    => s = u

Busy == OneOwner /\ \A s \in Saver : BusyAt(s)

\* What a file holds is a version; changes whose event is out are no longer
\* counted.
Held ==
  /\ \A p \in Path : disk[p] # None => disk[p].version \in Version
  /\ unsaid \in Nat /\ unsaid <= Cardinality(rows) + 1

KeptTypes == KeptTypeOK /\ TurnInv /\ Busy /\ Held

\* What the steps of a save change that an owner can tell.
LEMMA SaveStepDoes ==
  ASSUME TurnInv, NEW s \in Saver, SaveStep(s)
  PROVE  /\ save' = save /\ Saving(s) /\ Saving(s)'
         /\ save[s].path \in Path /\ save[s].version \in Version
         /\ \A u \in Saver \ {s} : step'[u] = step[u] /\ out'[u] = out[u]
         /\ \A q \in Path : q # save[s].path => disk'[q] = disk[q]
         /\ \/ disk' = disk /\ (out'[s] = "ok" => out[s] = "ok")
            \/ /\ out'[s] = "ok" /\ disk'[save[s].path] # None
               /\ disk'[save[s].path].whole
               /\ disk'[save[s].path].version = save[s].version
  <1>1. /\ save' = save /\ Saving(s) /\ Saving(s)'
        /\ \A u \in Saver \ {s} : step'[u] = step[u] /\ out'[u] = out[u]
    BY DEF SaveStep, Lock, Open, Fill, Rename, Break, Sweep, Unlock, MoveTo,
           Saving, TurnInv, TypeOK
  <1>2. save[s].path \in Path /\ save[s].version \in Version
    BY <1>1 DEF TurnInv, Placed, PlacedAt
  <1>3. CASE Rename(s)
    <2>1. /\ step[s] = "filled"
          /\ disk' = [disk EXCEPT ![save[s].path] = tmp[save[s].path]]
          /\ out' = [out EXCEPT ![s] = "ok"]
      BY <1>3 DEF Rename
    <2>2. /\ tmp[save[s].path] # None /\ tmp[save[s].path].whole
          /\ tmp[save[s].path].version = save[s].version
      BY <2>1 DEF TurnInv, Siblings
    <2> QED BY <1>1, <1>2, <2>1, <2>2 DEF TurnInv, TypeOK
  <1>4. CASE ~Rename(s)
    <2>1. disk' = disk /\ (out'[s] = "ok" => out[s] = "ok")
      BY <1>4 DEF SaveStep, Lock, Open, Fill, Break, Sweep, Unlock, TurnInv,
                  TypeOK, fileSystem
    <2> QED BY <1>1, <1>2, <2>1
  <1> QED BY <1>3, <1>4

LEMMA TakeDoes ==
  ASSUME TurnInv, NEW s \in Saver, NEW p \in Path, NEW v \in Version,
         Take(s, p, v)
  PROVE  /\ Saving(s)' /\ save'[s] = [path |-> p, version |-> v]
         /\ \A u \in Saver \ {s} : step'[u] = step[u] /\ save'[u] = save[u]
         /\ UNCHANGED <<out, disk>> /\ out[s] = "none"
  BY DEF Take, Saving, fileSystem, TurnInv, TypeOK, Placed, PlacedAt, NoAnswer

LEMMA ReleaseDoes ==
  ASSUME TurnInv, NEW s \in Saver, Release(s)
  PROVE  /\ Saving(s) /\ ~Saving(s)' /\ out[s] \in {"ok", "error"}
         /\ \A u \in Saver \ {s} : step'[u] = step[u] /\ save'[u] = save[u]
                                  /\ out'[u] = out[u]
         /\ disk' = disk
  BY DEF Release, Saving, fileSystem, TurnInv, TypeOK, Placed, PlacedAt,
         NoAnswer, Step, Holding

\* What a reader finds is a set of changes, nothing or half a file.
LEMMA ReadableIs ==
  ASSUME KeptTypeOK, Held, NEW p \in Path
  PROVE  /\ Readable(p) \in Version \cup {None, Torn}
         /\ ListOn(p) \in SUBSET Change
         /\ Readable(p) \in Version => ListOn(p) = Readable(p)
  <1>1. Readable(p) \in Version \cup {None, Torn}
    BY DEF Held, Readable
  <1> QED
    BY <1>1, FilesAssumption, KeptAssumption DEF ListOn

\* Every step of the owners is one of the files they keep, or touches none.
LEMMA KeptIsFiles ==
  ASSUME KeptTypeOK, Busy, Held, [KeptNext]_keptVars
  PROVE  [Next]_vars
  <1>1. rows \in Version /\ entries \in Version
    BY KeptAssumption DEF KeptTypeOK
  <1>2. Calendar \in Path /\ Entries \in Path /\ Sources \in Path
    BY KeptAssumption
  <1>3. ASSUME NEW s \in Saver, SaveEdit(s)
        PROVE  \E p \in Path, v \in Version : Take(s, p, v)
    <2>1. edit[s][1] \in Path /\ edit[s][2] \in Change
      BY <1>3, KeptAssumption DEF SaveEdit, Busy, BusyAt
    <2>2. ListOn(edit[s][1]) \cup {edit[s][2]} \in Version
      BY <2>1, ReadableIs, KeptAssumption
    <2> QED BY <2>1, <2>2, <1>3 DEF SaveEdit
  <1>4. ASSUME NEW s \in Saver, NEW c \in Change, SetSources(s, c)
        PROVE  \E p \in Path, v \in Version : Take(s, p, v)
    <2>1. {c} \in Version
      BY KeptAssumption
    <2> QED BY <2>1, <1>2, <1>4 DEF SetSources
  <1>5. ASSUME NEW s \in Saver, SaveEntries(s)
        PROVE  \E p \in Path, v \in Version : Take(s, p, v)
    BY <1>1, <1>2, <1>5 DEF SaveEntries
  <1>6. ASSUME NEW s \in Saver, Render(s)
        PROVE  UNCHANGED vars \/ \E p \in Path, v \in Version : Take(s, p, v)
    BY <1>1, <1>2, <1>6 DEF Render
  <1>7. ASSUME NEW s \in Saver, Remove(s)
        PROVE  UNCHANGED vars \/ \E p \in Path : DeleteFile(p)
    BY <1>2, <1>7 DEF Remove
  <1>8. ASSUME NEW s \in Saver,
               CalendarSaved(s) \/ EntriesSaved(s) \/ EditSaved(s)
                 \/ SourcesSaved(s)
        PROVE  Release(s)
    BY <1>8 DEF CalendarSaved, EntriesSaved, EditSaved, SourcesSaved
  <1>9. ASSUME NEW s \in Saver,
               \/ StartWrite(s) \/ LockCalendar(s) \/ PreferencesChanged(s)
               \/ EntriesChange(s)
               \/ \E on \in BOOLEAN : SetPreferences(s, on)
               \/ \E p \in Edited, c \in Change : EditFile(s, p, c)
        PROVE  UNCHANGED vars
    BY <1>9 DEF StartWrite, LockCalendar, PreferencesChanged, EntriesChange,
                SetPreferences, EditFile
  <1>10. ASSUME NEW torn \in SUBSET Path, EndAndStart(torn)
         PROVE  \E t \in SUBSET Path : ProgramEnds(t)
    BY <1>10 DEF EndAndStart
  <1>11. CASE ScheduleChanges \/ OnEvent \/ Settle \/ UNCHANGED keptVars
    BY <1>11 DEF ScheduleChanges, OnEvent, Settle, keptVars
  <1> QED
    BY <1>3, <1>4, <1>5, <1>6, <1>7, <1>8, <1>9, <1>10, <1>11
    DEF KeptNext, KeptStep, Next


\* A step of one owner leaves where the others are, and what they hold.
OthersAsTheyWere(s) ==
  \A u \in Saver \ {s} :
    /\ doing'[u] = doing[u] /\ edit'[u] = edit[u]
    /\ step'[u] = step[u] /\ save'[u] = save[u] /\ out'[u] = out[u]
    /\ u \in says' <=> u \in says

\* A thread keeps its place's rule when its own fields do, and two share no
\* lock when it takes none that is held.
LEMMA BusyOne ==
  ASSUME KeptTypes, NEW s \in Saver, OthersAsTheyWere(s), BusyAt(s)',
         doing'[s] \in CalendarLocked =>
           doing[s] \in CalendarLocked \/ NobodyAt(CalendarLocked),
         doing'[s] = "saveEntries" =>
           doing[s] = "saveEntries" \/ NobodyAt({"saveEntries"}),
         doing'[s] = "saveEdit" =>
           /\ edit'[s] = edit[s]
           /\ doing[s] = "saveEdit" \/ ~Editing(edit[s][1])
  PROVE  Busy'
  <1>1. ASSUME NEW u \in Saver
        PROVE  BusyAt(u)'
    BY <1>1 DEF KeptTypes, Busy, BusyAt, OthersAsTheyWere, Saving
  <1>2. OneOwner'
    <2> SUFFICES ASSUME NEW a \in Saver, NEW b \in Saver, a # b
                 PROVE  ~ (\/ {doing'[a], doing'[b]} \subseteq CalendarLocked
                           \/ {doing'[a], doing'[b]} = {"saveEntries"}
                           \/ /\ {doing'[a], doing'[b]} = {"saveEdit"}
                              /\ edit'[a][1] = edit'[b][1])
      BY DEF OneOwner
    <2>1. \A u \in Saver \ {s} : doing'[u] = doing[u] /\ edit'[u] = edit[u]
      BY DEF OthersAsTheyWere
    <2>2. CASE a # s /\ b # s
      BY <2>1, <2>2 DEF KeptTypes, Busy, OneOwner
    <2>3. CASE a = s /\ b # s
      BY <2>1, <2>3 DEF KeptTypes, Busy, OneOwner, NobodyAt, Editing
    <2>4. CASE b = s /\ a # s
      BY <2>1, <2>4 DEF KeptTypes, Busy, OneOwner, NobodyAt, Editing
    <2> QED BY <2>2, <2>3, <2>4
  <1> QED BY <1>1, <1>2 DEF Busy

LEMMA BusyStep ==
  ASSUME KeptTypes, [KeptNext]_keptVars
  PROVE  Busy'
  <1> USE DEF KeptTypes
  <1>0. /\ doing \in [Saver -> Doing] /\ step \in [Saver -> Step]
        /\ edit \in [Saver -> (Edited \X Change) \cup {None}]
    BY DEF KeptTypeOK, TypeOK
  <1>1. CASE ScheduleChanges \/ OnEvent \/ Settle \/ UNCHANGED keptVars
    BY <1>1 DEF ScheduleChanges, OnEvent, Settle, keptVars, listVars, vars,
                Busy, OneOwner, BusyAt, Saving
  <1>2. ASSUME NEW s \in Saver,
               \/ StartWrite(s) \/ LockCalendar(s) \/ PreferencesChanged(s)
               \/ EntriesChange(s)
               \/ \E on \in BOOLEAN : SetPreferences(s, on)
               \/ \E p \in Edited, c \in Change : EditFile(s, p, c)
               \/ Remove(s)
               \/ Render(s) /\ UNCHANGED vars
        PROVE  Busy'
    <2>1. UNCHANGED <<step, save, out>> /\ BusyAt(s)
      BY <1>2 DEF StartWrite, LockCalendar, PreferencesChanged, EntriesChange,
        SetPreferences, EditFile, Remove, DeleteFile, vars, Busy
    <2>2. OthersAsTheyWere(s)
      BY <1>0, <1>2, <2>1 DEF StartWrite, LockCalendar, PreferencesChanged,
        EntriesChange, SetPreferences, EditFile, Remove, Render, CalendarDone,
        Begin, listVars, OthersAsTheyWere
    <2>3. CASE StartWrite(s) \/ LockCalendar(s) \/ PreferencesChanged(s)
                 \/ Remove(s) \/ (Render(s) /\ UNCHANGED vars)
      <3>1. doing'[s] \notin SaveAt \cup {"editTurn"} /\ doing[s] \notin SaveAt
        BY <1>0, <2>3, <2>1 DEF StartWrite, LockCalendar, PreferencesChanged,
          Remove, Render, CalendarDone, Begin, Idle, SaveAt, Take, vars,
          BusyAt, Saving, Step
      <3>2. /\ s \in says' => doing'[s] \in CalendarAt
            /\ doing'[s] \in {"remove", "say"} => s \in says'
        BY <1>0, <2>3, <2>1 DEF StartWrite, LockCalendar, PreferencesChanged,
          Remove, Render, CalendarDone, Begin, Idle, BusyAt, CalendarAt, Take,
          vars, Saving, SaveAt
      <3>3. BusyAt(s)'
        BY <2>1, <3>1, <3>2 DEF BusyAt, Saving, SaveAt
      <3>4. doing'[s] \in CalendarLocked =>
              doing[s] \in CalendarLocked \/ NobodyAt(CalendarLocked)
        BY <1>0, <2>3 DEF StartWrite, LockCalendar, PreferencesChanged,
          Remove, Render, CalendarDone, Begin, CalendarLocked
      <3> QED BY <2>2, <3>1, <3>3, <3>4, BusyOne DEF SaveAt
    <2>4. CASE EntriesChange(s) \/ \E on \in BOOLEAN : SetPreferences(s, on)
      <3>1. doing'[s] \notin SaveAt \cup {"editTurn"} \cup CalendarLocked
            /\ doing[s] \notin SaveAt
        BY <1>0, <2>4 DEF EntriesChange, SetPreferences, Begin, Idle, SaveAt,
          CalendarLocked
      <3>2. /\ s \in says' => doing'[s] \in CalendarAt
            /\ doing'[s] \in {"remove", "say"} => s \in says'
        BY <1>0, <2>4, <2>1 DEF EntriesChange, SetPreferences, Begin, Idle,
          BusyAt, CalendarAt
      <3>3. BusyAt(s)'
        BY <2>1, <3>1, <3>2 DEF BusyAt, Saving, SaveAt
      <3> QED BY <2>2, <3>1, <3>3, BusyOne DEF SaveAt
    <2>5. CASE \E p \in Edited, c \in Change : EditFile(s, p, c)
      <3>1. /\ doing[s] = "nothing" /\ doing'[s] = "editTurn"
            /\ edit'[s] \in Edited \X Change /\ says' = says
        BY <1>0, <2>5 DEF EditFile, Begin, Idle
      <3>2. BusyAt(s)'
        BY <2>1, <3>1 DEF BusyAt, Saving, SaveAt, CalendarAt
      <3> QED BY <2>2, <3>1, <3>2, BusyOne DEF CalendarLocked
    <2> QED BY <1>2, <2>3, <2>4, <2>5
  <1>3. ASSUME NEW s \in Saver, NEW p \in Path, NEW v \in Version,
               Take(s, p, v), UNCHANGED <<says, edit>>,
               \/ /\ doing[s] = "render" /\ p = Calendar
                  /\ Begin(s, "saveCalendar")
               \/ /\ doing[s] = "entriesTurn" /\ p = Entries
                  /\ Begin(s, "saveEntries") /\ NobodyAt({"saveEntries"})
               \/ /\ doing[s] = "editTurn" /\ p = edit[s][1]
                  /\ Begin(s, "saveEdit") /\ ~Editing(edit[s][1])
               \/ /\ Idle(s) /\ p = Sources /\ Begin(s, "saveSources")
        PROVE  Busy'
    <2>1. BusyAt(s) BY DEF Busy
    <2>2. /\ Saving(s)' /\ save'[s].path = p /\ out' = out
          /\ \A u \in Saver \ {s} : step'[u] = step[u] /\ save'[u] = save[u]
      <3>1. TurnInv
        OBVIOUS
      <3>2. /\ Saving(s)' /\ save'[s] = [path |-> p, version |-> v]
            /\ \A u \in Saver \ {s} : step'[u] = step[u] /\ save'[u] = save[u]
            /\ UNCHANGED out
        BY <1>3, <3>1, TakeDoes
      <3> QED BY <3>2
    <2>3. OthersAsTheyWere(s)
      BY <1>0, <1>3, <2>2 DEF OthersAsTheyWere, Begin
    <2>4. BusyAt(s)'
      BY <1>0, <1>3, <2>1, <2>2 DEF BusyAt, Begin, Idle, SaveAt, CalendarAt
    <2> QED BY <1>0, <1>3, <2>3, <2>4, BusyOne DEF Begin, CalendarLocked
  <1>4. ASSUME NEW s \in Saver,
               CalendarSaved(s) \/ EntriesSaved(s) \/ EditSaved(s)
                 \/ SourcesSaved(s)
        PROVE  Busy'
    <2>1. Release(s) /\ BusyAt(s) /\ doing[s] \in SaveAt
      BY <1>4 DEF CalendarSaved, EntriesSaved, EditSaved, SourcesSaved, Busy,
        SaveAt
    <2>2. /\ ~Saving(s)'
          /\ \A u \in Saver \ {s} : step'[u] = step[u] /\ save'[u] = save[u]
                                   /\ out'[u] = out[u]
      BY <2>1, ReleaseDoes
    <2>3. OthersAsTheyWere(s)
      BY <1>0, <1>4, <2>2 DEF OthersAsTheyWere, CalendarSaved, EntriesSaved,
        EditSaved, SourcesSaved, CalendarDone, Begin, listVars
    <2>4. /\ says' = says /\ doing'[s] \in {"say", "nothing"}
          /\ s \in says' <=> doing'[s] = "say"
      BY <1>0, <1>4, <2>1 DEF CalendarSaved, EntriesSaved, EditSaved,
        SourcesSaved, CalendarDone, Begin, BusyAt, CalendarAt
    <2>5. BusyAt(s)'
      BY <2>2, <2>4 DEF BusyAt, SaveAt, CalendarAt
    <2> QED BY <2>3, <2>4, <2>5, BusyOne DEF CalendarLocked
  <1>5. ASSUME NEW s \in Saver, SaveStep(s), UNCHANGED <<doing, says, edit>>
        PROVE  Busy'
    <2>1. save' = save /\ \A u \in Saver : Saving(u) <=> Saving(u)'
      BY <1>5, SaveStepDoes DEF Saving
    <2> QED BY <1>5, <2>1 DEF Busy, OneOwner, BusyAt
  <1>6. ASSUME NEW torn \in SUBSET Path, EndAndStart(torn)
        PROVE  Busy'
    BY <1>6 DEF EndAndStart, ProgramEnds, Busy, OneOwner, BusyAt, Saving,
      SaveAt, CalendarAt, CalendarLocked
  <1>7. rows \in Version /\ entries \in Version
    BY KeptAssumption DEF KeptTypeOK
  <1>8. Calendar \in Path /\ Entries \in Path /\ Sources \in Path
    BY KeptAssumption
  <1>9. ASSUME NEW s \in Saver, KeptStep(s)
        PROVE  Busy'
    <2>1. CASE Render(s)
      BY <1>2, <1>3, <1>7, <1>8, <2>1 DEF Render, listVars
    <2>2. CASE SaveEntries(s)
      BY <1>3, <1>7, <1>8, <2>2 DEF SaveEntries, listVars
    <2>3. CASE SaveEdit(s)
      <3>1. edit[s][1] \in Path /\ edit[s][2] \in Change
        BY <2>3, KeptAssumption DEF SaveEdit, Busy, BusyAt
      <3>2. ListOn(edit[s][1]) \cup {edit[s][2]} \in Version
        BY <3>1, ReadableIs, KeptAssumption
      <3> QED BY <1>3, <3>1, <3>2, <2>3 DEF SaveEdit, listVars
    <2>4. CASE StartWrite(s) \/ LockCalendar(s) \/ PreferencesChanged(s)
                 \/ Remove(s)
      BY <1>2, <2>4
    <2>5. CASE CalendarSaved(s) \/ EntriesSaved(s) \/ EditSaved(s)
                 \/ SourcesSaved(s)
      BY <1>4, <2>5
    <2>6. CASE SaveStep(s)
               /\ UNCHANGED <<doing, says, calendarVars, listVars, bounds>>
      BY <1>5, <2>6 DEF listVars
    <2> QED BY <1>9, <2>1, <2>2, <2>3, <2>4, <2>5, <2>6 DEF KeptStep
  <1>10. ASSUME NEW s \in Saver, NEW c \in Change, SetSources(s, c)
         PROVE  Busy'
    <2>1. {c} \in Version
      BY KeptAssumption
    <2> QED BY <1>3, <1>8, <2>1, <1>10 DEF SetSources, listVars
  <1> QED BY <1>1, <1>2, <1>6, <1>9, <1>10 DEF KeptNext

\* A file that changes is saved by the one thread that has it in hand, taken
\* away, or what an end of the program left of it.
LEMMA DiskStep ==
  ASSUME KeptTypes, [KeptNext]_keptVars
  PROVE  \/ disk' = disk
         \/ \E s \in Saver : SaveStep(s)
              /\ UNCHANGED <<doing, says, calendarVars, listVars, bounds>>
         \/ \E s \in Saver : Remove(s) /\ DeleteFile(Calendar)
         \/ \E torn \in SUBSET Path : EndAndStart(torn)
  <1>1. CASE ScheduleChanges \/ OnEvent \/ Settle \/ UNCHANGED keptVars
    BY <1>1 DEF ScheduleChanges, OnEvent, Settle, keptVars, vars
  <1>2. ASSUME NEW s \in Saver,
               \/ StartWrite(s) \/ LockCalendar(s) \/ PreferencesChanged(s)
               \/ EntriesChange(s)
               \/ \E on \in BOOLEAN : SetPreferences(s, on)
               \/ \E p \in Edited, c \in Change : EditFile(s, p, c)
               \/ Render(s) \/ SaveEntries(s) \/ SaveEdit(s)
               \/ \E c \in Change : SetSources(s, c)
               \/ CalendarSaved(s) \/ EntriesSaved(s) \/ EditSaved(s)
               \/ SourcesSaved(s)
        PROVE  disk' = disk
    BY <1>2 DEF StartWrite, LockCalendar, PreferencesChanged, EntriesChange,
      SetPreferences, EditFile, Render, SaveEntries, SaveEdit, SetSources,
      CalendarSaved, EntriesSaved, EditSaved, SourcesSaved, Take, Release,
      vars, fileSystem
  <1>3. ASSUME NEW s \in Saver, Remove(s)
        PROVE  disk' = disk \/ DeleteFile(Calendar)
    BY <1>3 DEF Remove, vars
  <1> QED BY <1>1, <1>2, <1>3 DEF KeptNext, KeptStep

\* The end of the program keeps what each file that is there is of.
LEMMA EndDoes ==
  ASSUME KeptTypes, NEW torn \in SUBSET Path, ProgramEnds(torn), NEW p \in Path
  PROVE  /\ disk'[p] = None <=> disk[p] = None
         /\ disk[p] # None => disk'[p].version = disk[p].version
         /\ disk[p] # None /\ disk'[p].whole =>
              disk[p].whole /\ disk'[p] = disk[p]
  <1>1. disk[p] \in Bytes \cup {None} /\ disk'[p] = Tear(disk, torn)[p]
    BY DEF KeptTypes, KeptTypeOK, TypeOK, ProgramEnds
  <1>2. CASE p \in torn /\ disk[p] # None
    <2>1. disk[p] \in Bytes
          /\ disk'[p] = [disk[p] EXCEPT !.whole = disk[p].whole /\ disk[p].synced]
      BY <1>1, <1>2 DEF Tear
    <2>2. /\ disk'[p] \in Bytes /\ disk'[p].version = disk[p].version
          /\ disk'[p].whole = (disk[p].whole /\ disk[p].synced)
          /\ disk'[p].synced = disk[p].synced /\ disk'[p].wide = disk[p].wide
      BY <2>1 DEF Bytes
    <2>3. ASSUME disk'[p].whole
          PROVE  disk'[p] = disk[p]
      BY <2>1, <2>2, <2>3 DEF Bytes
    <2> QED BY <1>2, <2>2, <2>3, FilesAssumption
  <1>3. CASE ~(p \in torn /\ disk[p] # None)
    BY <1>1, <1>3 DEF Tear
  <1> QED BY <1>2, <1>3

LEMMA HeldStep ==
  ASSUME KeptTypes, [KeptNext]_keptVars
  PROVE  Held'
  <1> USE DEF KeptTypes
  <1>1. ASSUME NEW p \in Path, disk'[p] # None
        PROVE  disk'[p].version \in Version
    <2>1. disk[p] # None => disk[p].version \in Version
      BY DEF Held
    <2>2. ASSUME NEW s \in Saver, SaveStep(s)
          PROVE  disk'[p].version \in Version
      BY <1>1, <2>1, <2>2, SaveStepDoes
    <2>3. ASSUME DeleteFile(Calendar)
          PROVE  disk'[p].version \in Version
      BY <1>1, <2>1, <2>3 DEF DeleteFile, KeptTypeOK, TypeOK
    <2>4. ASSUME NEW torn \in SUBSET Path, EndAndStart(torn)
          PROVE  disk'[p].version \in Version
      BY <1>1, <2>1, <2>4, EndDoes DEF EndAndStart
    <2> QED BY <1>1, <2>1, <2>2, <2>3, <2>4, DiskStep
  <1>2. IsFiniteSet(rows) /\ Cardinality(rows) \in Nat
    BY KeptAssumption, FS_Subset, FS_CardinalityType DEF KeptTypeOK
  <1>3. unsaid' \in Nat /\ unsaid' <= Cardinality(rows') + 1
    <2>1. CASE ScheduleChanges
      <3>1. PICK c \in Change \ rows : rows' = rows \cup {c}
        BY <2>1 DEF ScheduleChanges
      <3>2. Cardinality(rows') = Cardinality(rows) + 1
        BY <1>2, <3>1, FS_AddElement
      <3> QED BY <1>2, <2>1, <3>2 DEF ScheduleChanges, Held
    <2>2. CASE OnEvent
      BY <1>2, <2>2 DEF OnEvent, Held
    <2>3. CASE \E torn \in SUBSET Path : EndAndStart(torn)
      BY <1>2, <2>3 DEF EndAndStart
    <2>4. CASE UNCHANGED <<rows, unsaid>>
      BY <2>4 DEF Held
    <2>5. ASSUME NEW s \in Saver,
                 \/ KeptStep(s) \/ EntriesChange(s)
                 \/ \E on \in BOOLEAN : SetPreferences(s, on)
                 \/ \E p \in Edited, c \in Change : EditFile(s, p, c)
                 \/ \E c \in Change : SetSources(s, c)
          PROVE  UNCHANGED <<rows, unsaid>>
      BY <2>5 DEF KeptStep, StartWrite, LockCalendar, PreferencesChanged,
        EntriesChange, SetPreferences, EditFile, Render, SaveEntries, SaveEdit,
        SetSources, CalendarSaved, EntriesSaved, EditSaved, SourcesSaved,
        Remove, calendarVars
    <2>6. CASE Settle \/ UNCHANGED keptVars
      BY <2>4, <2>6 DEF Settle, keptVars, calendarVars
    <2> QED BY <2>1, <2>2, <2>3, <2>4, <2>5, <2>6 DEF KeptNext
  <1> QED BY <1>1, <1>3 DEF Held

LEMMA KeptTypesStep ==
  ASSUME KeptTypes, [KeptNext]_keptVars
  PROVE  KeptTypes'
  <1> USE DEF KeptTypes
  <1>1. TurnInv'
    BY KeptIsFiles, TurnStep
  <1>2. Busy' /\ Held'
    BY BusyStep, HeldStep
  <1>3. rows' \subseteq Change
    BY DEF KeptTypeOK, KeptNext, KeptStep, keptVars, calendarVars, listVars,
      ScheduleChanges, OnEvent, Settle, StartWrite, LockCalendar,
      PreferencesChanged, EntriesChange, SetPreferences, EditFile, Render,
      SaveEntries, SaveEdit, SetSources, CalendarSaved, EntriesSaved,
      EditSaved, SourcesSaved, Remove, EndAndStart
  <1>4. unsaid' \in 0 .. Cardinality(Change) + 1
    <2>1. /\ Cardinality(rows') \in Nat /\ Cardinality(Change) \in Nat
          /\ Cardinality(rows') <= Cardinality(Change)
      BY <1>3, KeptAssumption, FS_Subset, FS_CardinalityType
    <2> QED BY <1>2, <2>1 DEF Held
  <1>5. doing' \in [Saver -> Doing]
    BY DEF KeptTypeOK, Doing, KeptNext, KeptStep, keptVars, Begin,
      CalendarDone,
      ScheduleChanges, OnEvent, Settle, StartWrite, LockCalendar,
      PreferencesChanged, EntriesChange, SetPreferences, EditFile, Render,
      SaveEntries, SaveEdit, SetSources, CalendarSaved, EntriesSaved,
      EditSaved, SourcesSaved, Remove, EndAndStart
  <1>6. /\ says' \subseteq Saver
        /\ {enabled', queued', failing', stray', unsaved'} \subseteq BOOLEAN
    BY DEF KeptTypeOK, KeptNext, KeptStep, keptVars, calendarVars, listVars,
      ScheduleChanges, OnEvent, Settle, StartWrite, LockCalendar,
      PreferencesChanged, EntriesChange, SetPreferences, EditFile, Render,
      SaveEntries, SaveEdit, SetSources, CalendarSaved, EntriesSaved,
      EditSaved, SourcesSaved, Remove, EndAndStart
  <1>7. due' \in Nat
    <2>1. CASE Settle \/ \E torn \in SUBSET Path : EndAndStart(torn)
      BY <2>1 DEF Settle, EndAndStart, KeptTypeOK
    <2>2. CASE \E s \in Saver : StartWrite(s)
      BY <2>2 DEF StartWrite, KeptTypeOK
    <2>3. ASSUME NEW s \in Saver,
                 \/ KeptStep(s) /\ ~StartWrite(s)
                 \/ EntriesChange(s)
                 \/ \E on \in BOOLEAN : SetPreferences(s, on)
                 \/ \E p \in Edited, c \in Change : EditFile(s, p, c)
                 \/ \E c \in Change : SetSources(s, c)
          PROVE  due' = due
      BY <2>3 DEF KeptStep, LockCalendar, PreferencesChanged,
        EntriesChange, SetPreferences, EditFile, Render, SaveEntries, SaveEdit,
        SetSources, CalendarSaved, EntriesSaved, EditSaved, SourcesSaved,
        Remove, calendarVars
    <2>4. CASE ScheduleChanges \/ OnEvent \/ UNCHANGED keptVars
      BY <2>4 DEF ScheduleChanges, OnEvent, keptVars, calendarVars, KeptTypeOK
    <2>5. due \in Nat
      BY DEF KeptTypeOK
    <2> QED BY <2>1, <2>2, <2>3, <2>4, <2>5 DEF KeptNext
  <1>8. /\ entries' \subseteq Change /\ kept' \in [Edited -> SUBSET Change]
        /\ edit' \in [Saver -> (Edited \X Change) \cup {None}]
    <2>1. CASE \E torn \in SUBSET Path : EndAndStart(torn)
      <3>1. Entries \in Path BY KeptAssumption
      <3>2. entries' \subseteq Change
        BY <1>2, <2>1, <3>1, KeptAssumption DEF EndAndStart, Held
      <3> QED BY <2>1, <3>2 DEF EndAndStart, KeptTypeOK
    <2>2. ASSUME NEW s \in Saver, EditSaved(s)
          PROVE  kept' \in [Edited -> SUBSET Change]
      <3>1. edit[s] \in Edited \X Change
        BY <2>2 DEF EditSaved, Busy, BusyAt
      <3> QED BY <2>2, <3>1 DEF EditSaved, KeptTypeOK
    <2>3. ASSUME NEW s \in Saver, EditSaved(s)
          PROVE  /\ entries' \subseteq Change
                 /\ edit' \in [Saver -> (Edited \X Change) \cup {None}]
      BY <2>3 DEF EditSaved, KeptTypeOK
    <2>4. ASSUME NEW s \in Saver, EntriesChange(s)
          PROVE  /\ entries' \subseteq Change
                 /\ UNCHANGED <<kept, edit>>
      BY <2>4 DEF EntriesChange, KeptTypeOK
    <2>5. ASSUME NEW s \in Saver, NEW p \in Edited, NEW c \in Change,
                 EditFile(s, p, c)
          PROVE  /\ edit' \in [Saver -> (Edited \X Change) \cup {None}]
                 /\ UNCHANGED <<kept, entries>>
      BY <2>5 DEF EditFile, KeptTypeOK
    <2>6. ASSUME NEW s \in Saver, KeptStep(s), ~EditSaved(s)
          PROVE  UNCHANGED <<entries, kept, edit>>
      BY <2>6 DEF KeptStep, StartWrite, LockCalendar, PreferencesChanged,
        Render, SaveEntries, SaveEdit, CalendarSaved, EntriesSaved,
        SourcesSaved, Remove, listVars
    <2>7. ASSUME NEW s \in Saver,
                 \/ \E on \in BOOLEAN : SetPreferences(s, on)
                 \/ \E c \in Change : SetSources(s, c)
          PROVE  UNCHANGED <<entries, kept, edit>>
      BY <2>7 DEF SetPreferences, SetSources, listVars
    <2>8. CASE ScheduleChanges \/ OnEvent \/ Settle \/ UNCHANGED keptVars
      BY <2>8 DEF ScheduleChanges, OnEvent, Settle, keptVars, listVars,
        KeptTypeOK
    <2>9. /\ entries \subseteq Change /\ kept \in [Edited -> SUBSET Change]
          /\ edit \in [Saver -> (Edited \X Change) \cup {None}]
      BY DEF KeptTypeOK
    <2> QED BY <2>1, <2>2, <2>3, <2>4, <2>5, <2>6, <2>7, <2>8, <2>9
            DEF KeptNext
  <1>9. TypeOK'
    BY <1>1 DEF TurnInv
  <1> QED
    BY <1>1, <1>2, <1>3, <1>4, <1>5, <1>6, <1>7, <1>8, <1>9 DEF KeptTypeOK

\* A file says who saves it.
LEMMA SaverOf ==
  ASSUME KeptTypes, NEW s \in Saver, Saving(s)
  PROVE  /\ save[s].path = Calendar <=> doing[s] = "saveCalendar"
         /\ save[s].path = Entries <=> doing[s] = "saveEntries"
         /\ save[s].path \in Edited <=> doing[s] = "saveEdit"
  <1>1. BusyAt(s) /\ doing[s] \in SaveAt
    BY DEF KeptTypes, Busy, BusyAt
  <1>2. doing[s] = "saveEdit" => edit[s][1] \in Edited
    BY <1>1 DEF BusyAt
  <1> QED BY <1>1, <1>2, KeptAssumption DEF BusyAt, SaveAt

\* Something the calendar has still to be rewritten for.
Pending ==
  \/ unsaid > 0 \/ queued \/ due > 0 \/ says # {}
  \/ \E s \in Saver : doing[s] = "write"

\* Switched off, the file is gone, about to go, or could not be deleted.
OffInv ==
  ~enabled => \/ stray
              \/ \E s \in Saver : doing[s] = "remove"
              \/ disk[Calendar] = None /\ NobodyAt(CalendarLocked)

\* Switched on with nothing pending, a save under way is of the schedule as
\* it is, and with none the file shows it.
OnInv ==
  enabled /\ ~Pending =>
    /\ \A s \in Saver :
         doing[s] = "saveCalendar" =>
           /\ save[s].version = rows
           /\ out[s] = "ok" => Readable(Calendar) = rows
    /\ NobodyAt(CalendarLocked) => failing \/ Readable(Calendar) = rows

\* A thread that goes on with the calendar, and what it leaves alone.
CalendarStep(s) ==
  \/ StartWrite(s) \/ LockCalendar(s) \/ Render(s) \/ CalendarSaved(s)
  \/ Remove(s) \/ PreferencesChanged(s)
  \/ \E on \in BOOLEAN : SetPreferences(s, on)

\* What a thread that has nothing to do with the calendar leaves of it.
Elsewhere(s) ==
  /\ UNCHANGED <<calendarVars, says>>
  /\ \A u \in Saver :
       /\ doing[u] \in CalendarAt \/ doing'[u] \in CalendarAt =>
            doing'[u] = doing[u]
       /\ doing[u] = "saveCalendar" =>
            save'[u] = save[u] /\ (out'[u] = "ok" => out[u] = "ok")
  /\ disk'[Calendar] = disk[Calendar]

LEMMA ElsewhereKeeps ==
  ASSUME KeptTypes, OffInv, OnInv, NEW s \in Saver, Elsewhere(s)
  PROVE  OffInv' /\ OnInv'
  <1>1. /\ Readable(Calendar)' = Readable(Calendar)
        /\ UNCHANGED <<rows, enabled, stray, failing>>
    BY DEF Elsewhere, Readable, calendarVars
  <1>2. Pending' <=> Pending
    BY DEF Pending, Elsewhere, calendarVars, CalendarAt
  <1>3. /\ NobodyAt(CalendarLocked)' <=> NobodyAt(CalendarLocked)
        /\ (\E u \in Saver : doing'[u] = "remove")
             <=> \E u \in Saver : doing[u] = "remove"
        /\ \A u \in Saver : doing'[u] = "saveCalendar" => doing[u] = "saveCalendar"
    BY DEF Elsewhere, CalendarAt, CalendarLocked, NobodyAt
  <1>4. OffInv'
    BY <1>1, <1>3 DEF OffInv, Elsewhere
  <1>5. OnInv'
    BY <1>1, <1>2, <1>3 DEF OnInv, Elsewhere, CalendarAt
  <1> QED BY <1>4, <1>5

LEMMA ElsewhereSteps ==
  ASSUME KeptTypes, NEW s \in Saver,
         \/ KeptStep(s) /\ ~CalendarStep(s) /\ ~SaveStep(s)
         \/ EntriesChange(s)
         \/ \E p \in Edited, c \in Change : EditFile(s, p, c)
         \/ \E c \in Change : SetSources(s, c)
         \/ /\ SaveStep(s) /\ save[s].path # Calendar
            /\ UNCHANGED <<doing, says, calendarVars, listVars, bounds>>
  PROVE  Elsewhere(s)
  <1>0. /\ doing \in [Saver -> Doing] /\ step \in [Saver -> Step]
        /\ save \in [Saver -> [path : Path, version : Version] \cup {None}]
        /\ out \in [Saver -> {"none", "ok", "error"}]
        /\ BusyAt(s) /\ Calendar \in Path
    BY KeptAssumption DEF KeptTypes, KeptTypeOK, TypeOK, Busy
  <1>1. CASE EntriesChange(s) \/ \E p \in Edited, c \in Change : EditFile(s, p, c)
    BY <1>0, <1>1 DEF EntriesChange, EditFile, Elsewhere, Idle, Begin, vars,
      CalendarAt, calendarVars
  <1>2. CASE SaveEntries(s) \/ SaveEdit(s) \/ \E c \in Change : SetSources(s, c)
    BY <1>0, <1>2 DEF SaveEntries, SaveEdit, SetSources, Elsewhere, Idle,
      Begin, Take, CalendarAt, calendarVars, fileSystem
  <1>3. CASE EntriesSaved(s) \/ EditSaved(s) \/ SourcesSaved(s)
    BY <1>0, <1>3 DEF EntriesSaved, EditSaved, SourcesSaved, Elsewhere,
      Begin, Release, CalendarAt, calendarVars, fileSystem
  <1>4. CASE /\ SaveStep(s) /\ save[s].path # Calendar
             /\ UNCHANGED <<doing, says, calendarVars, listVars, bounds>>
    <2>1. /\ save' = save /\ Saving(s) /\ disk'[Calendar] = disk[Calendar]
          /\ \A u \in Saver \ {s} : out'[u] = out[u]
      BY <1>0, <1>4, SaveStepDoes DEF KeptTypes
    <2>2. doing[s] # "saveCalendar"
      BY <1>4, <2>1, SaverOf
    <2> QED BY <1>4, <2>1, <2>2 DEF Elsewhere
  <1> QED BY <1>1, <1>2, <1>3, <1>4 DEF KeptStep, CalendarStep

\* A step of a save is not at once a step that asks for one or ends it.
LEMMA KeptKinds ==
  ASSUME KeptTypes, NEW s \in Saver, KeptStep(s)
  PROVE  \/ CalendarStep(s)
         \/ ~CalendarStep(s) /\ ~SaveStep(s)
         \/ SaveStep(s)
            /\ UNCHANGED <<doing, says, calendarVars, listVars, bounds>>
  <1> SUFFICES ASSUME SaveStep(s), ~CalendarStep(s)
               PROVE  UNCHANGED <<doing, says, calendarVars, listVars, bounds>>
    OBVIOUS
  <1>1. Saving(s) /\ Saving(s)' /\ save' = save
    BY SaveStepDoes DEF KeptTypes
  <1>2. ~SaveEntries(s) /\ ~SaveEdit(s)
    BY <1>1 DEF SaveEntries, SaveEdit, Take, Saving
  <1>3. ~EntriesSaved(s) /\ ~EditSaved(s) /\ ~SourcesSaved(s)
    BY <1>1, ReleaseDoes DEF EntriesSaved, EditSaved, SourcesSaved, KeptTypes
  <1> QED BY <1>2, <1>3 DEF KeptStep, CalendarStep

LEMMA OffStep ==
  ASSUME KeptTypes, OffInv, OnInv, [KeptNext]_keptVars
  PROVE  OffInv'
  <1>0. /\ doing \in [Saver -> Doing] /\ disk \in [Path -> Bytes \cup {None}]
        /\ Calendar \in Path /\ enabled \in BOOLEAN /\ stray \in BOOLEAN
    BY KeptAssumption DEF KeptTypes, KeptTypeOK, TypeOK
  <1>1. CASE ScheduleChanges \/ OnEvent \/ Settle \/ UNCHANGED keptVars
    BY <1>1 DEF ScheduleChanges, OnEvent, Settle, keptVars, calendarVars, vars,
      OffInv, NobodyAt
  <1>2. ASSUME NEW s \in Saver, StartWrite(s) \/ PreferencesChanged(s)
        PROVE  OffInv'
    BY <1>0, <1>2 DEF StartWrite, PreferencesChanged, Begin, Idle, vars,
      OffInv, NobodyAt, CalendarLocked
  <1>3. ASSUME NEW s \in Saver, LockCalendar(s)
        PROVE  OffInv'
    BY <1>0, <1>3 DEF LockCalendar, CalendarDone, Begin, vars, calendarVars,
      OffInv, NobodyAt, CalendarLocked
  <1>4. ASSUME NEW s \in Saver, Render(s) \/ CalendarSaved(s)
        PROVE  OffInv'
    <2>1. /\ doing[s] \in CalendarLocked /\ disk' = disk
          /\ UNCHANGED <<enabled, stray>>
          /\ \A u \in Saver : doing[u] = "remove" => doing'[u] = "remove"
      BY <1>0, <1>4 DEF Render, CalendarSaved, CalendarDone, Begin, vars, Take,
        Release, fileSystem, CalendarLocked
    <2> QED BY <2>1 DEF OffInv, NobodyAt
  <1>5. ASSUME NEW s \in Saver, Remove(s)
        PROVE  OffInv'
    <2>1. /\ NobodyAt(CalendarLocked)' /\ enabled' = enabled
          /\ stray' \/ disk'[Calendar] = None
      BY <1>0, <1>5 DEF Remove, DeleteFile, CalendarDone, Begin, NobodyAt,
        CalendarLocked
    <2> QED BY <2>1 DEF OffInv
  <1>6. ASSUME NEW s \in Saver, NEW on \in BOOLEAN, SetPreferences(s, on)
        PROVE  OffInv'
    <2>1. CASE on
      BY <1>6, <2>1 DEF SetPreferences, OffInv
    <2>2. CASE ~on /\ enabled
      BY <1>0, <1>6, <2>2 DEF SetPreferences, OffInv, Begin
    <2>3. CASE ~on /\ ~enabled
      BY <1>0, <1>6, <2>3 DEF SetPreferences, OffInv, Begin, Idle, NobodyAt,
        CalendarLocked, vars
    <2> QED BY <2>1, <2>2, <2>3
  <1>7. ASSUME NEW s \in Saver, SaveStep(s), save[s].path = Calendar,
               UNCHANGED <<doing, says, calendarVars, listVars, bounds>>
        PROVE  OffInv'
    <2>1. doing[s] = "saveCalendar"
      BY <1>7, SaveStepDoes, SaverOf DEF KeptTypes
    <2> QED BY <1>7, <2>1 DEF OffInv, NobodyAt, CalendarLocked, calendarVars
  <1>8. ASSUME NEW torn \in SUBSET Path, EndAndStart(torn)
        PROVE  OffInv'
    BY <1>0, <1>8 DEF EndAndStart, OffInv, NobodyAt, CalendarLocked
  <1>9. ASSUME NEW s \in Saver,
               KeptStep(s) \/ EntriesChange(s)
                 \/ (\E p \in Edited, c \in Change : EditFile(s, p, c))
                 \/ \E c \in Change : SetSources(s, c)
        PROVE  OffInv'
    <2>1. CASE SaveStep(s)
               /\ UNCHANGED <<doing, says, calendarVars, listVars, bounds>>
      BY <1>7, <2>1, ElsewhereSteps, ElsewhereKeeps
    <2>2. CASE CalendarStep(s) /\ KeptStep(s)
      BY <1>2, <1>3, <1>4, <1>5, <1>6, <2>2 DEF CalendarStep
    <2>3. CASE KeptStep(s) /\ ~SaveStep(s) /\ ~CalendarStep(s)
      BY <2>3, ElsewhereSteps, ElsewhereKeeps
    <2>4. CASE EntriesChange(s)
                 \/ (\E p \in Edited, c \in Change : EditFile(s, p, c))
                 \/ \E c \in Change : SetSources(s, c)
      BY <2>4, ElsewhereSteps, ElsewhereKeeps
    <2> QED BY <1>9, <2>1, <2>2, <2>3, <2>4, KeptKinds
  <1> QED BY <1>1, <1>6, <1>8, <1>9 DEF KeptNext

LEMMA OnStep ==
  ASSUME KeptTypes, OffInv, OnInv, [KeptNext]_keptVars
  PROVE  OnInv'
  <1>0. /\ doing \in [Saver -> Doing] /\ disk \in [Path -> Bytes \cup {None}]
        /\ Calendar \in Path /\ due \in Nat /\ unsaid \in Nat
        /\ {enabled, queued, failing} \subseteq BOOLEAN
    BY KeptAssumption DEF KeptTypes, KeptTypeOK, TypeOK
  <1>1. CASE UNCHANGED keptVars
    BY <1>1 DEF keptVars, calendarVars, vars, OnInv, Pending, NobodyAt,
      Readable
  <1>2. CASE ScheduleChanges \/ OnEvent \/ Settle
    <2>1. unsaid' > 0 \/ queued' \/ due' > 0
      BY <1>0, <1>2 DEF ScheduleChanges, OnEvent, Settle
    <2> QED BY <2>1 DEF OnInv, Pending
  <1>3. ASSUME NEW s \in Saver, StartWrite(s) \/ PreferencesChanged(s)
        PROVE  OnInv'
    BY <1>0, <1>3 DEF StartWrite, PreferencesChanged, Begin, OnInv, Pending
  <1>4. ASSUME NEW s \in Saver, LockCalendar(s)
        PROVE  OnInv'
    <2>1. CASE ~enabled
      BY <1>4, <2>1 DEF LockCalendar, calendarVars, OnInv
    <2>2. CASE enabled
      BY <1>0, <1>4, <2>2 DEF LockCalendar, Begin, OnInv, NobodyAt,
        CalendarLocked
    <2> QED BY <2>1, <2>2
  <1>5. ASSUME NEW s \in Saver, Render(s)
        PROVE  OnInv'
    <2>1. doing[s] = "render"
          /\ \A u \in Saver \ {s} : doing[u] \notin CalendarLocked
      BY <1>5 DEF Render, KeptTypes, Busy, OneOwner, CalendarLocked
    <2>2. /\ UNCHANGED <<rows, disk>>
          /\ \A u \in Saver \ {s} : doing'[u] # "saveCalendar"
      BY <1>0, <1>5, <2>1 DEF Render, CalendarDone, Begin, Take, vars,
        fileSystem, CalendarLocked
    <2>3. CASE Readable(Calendar) = rows
      <3>1. Readable(Calendar)' = rows' /\ doing'[s] # "saveCalendar"
        BY <1>0, <1>5, <2>2, <2>3 DEF Render, CalendarDone, Begin, Readable
      <3> QED BY <2>2, <3>1 DEF OnInv
    <2>4. CASE Readable(Calendar) # rows
      <3>1. rows \in Version
        BY KeptAssumption DEF KeptTypes, KeptTypeOK
      <3>2. /\ Take(s, Calendar, rows) /\ doing'[s] = "saveCalendar"
        BY <1>0, <1>5, <2>4 DEF Render, Begin
      <3>3. save'[s].version = rows' /\ out'[s] = "none"
        <4>1. TurnInv
          BY DEF KeptTypes
        <4>2. /\ save'[s] = [path |-> Calendar, version |-> rows]
              /\ UNCHANGED out /\ out[s] = "none"
          BY <1>0, <3>1, <3>2, <4>1, TakeDoes
        <4> QED BY <2>2, <4>2
      <3> QED BY <2>2, <3>2, <3>3 DEF OnInv, NobodyAt, CalendarLocked
    <2> QED BY <2>3, <2>4
  <1>6. ASSUME NEW s \in Saver, CalendarSaved(s), enabled, ~Pending'
        PROVE  OnInv'
    <2>1. doing[s] = "saveCalendar"
          /\ \A u \in Saver \ {s} : doing[u] \notin CalendarLocked
      BY <1>6 DEF CalendarSaved, KeptTypes, Busy, OneOwner, CalendarLocked
    <2>2. UNCHANGED <<rows, disk>> /\ out[s] \in {"ok", "error"}
      BY <1>6, ReleaseDoes DEF CalendarSaved, KeptTypes
    <2>3. ~Pending
      BY <1>0, <1>6, <2>1 DEF Pending, CalendarSaved, CalendarDone, Begin
    <2>4. failing' \/ Readable(Calendar)' = rows'
      BY <1>6, <2>1, <2>2, <2>3 DEF OnInv, CalendarSaved, Readable
    <2>5. \A u \in Saver : doing'[u] # "saveCalendar"
      BY <1>0, <1>6, <2>1 DEF CalendarSaved, CalendarDone, Begin,
        CalendarLocked
    <2> QED BY <2>4, <2>5 DEF OnInv
  <1>7. ASSUME NEW s \in Saver,
               Remove(s) \/ \E on \in BOOLEAN : SetPreferences(s, on)
        PROVE  OnInv'
    <2>1. s \in says'
      BY <1>7 DEF Remove, SetPreferences, KeptTypes, Busy, BusyAt
    <2> QED BY <2>1 DEF OnInv, Pending
  <1>8. ASSUME NEW s \in Saver, SaveStep(s), save[s].path = Calendar,
               UNCHANGED <<doing, says, calendarVars, listVars, bounds>>
        PROVE  OnInv'
    <2>1. doing[s] = "saveCalendar" /\ save' = save
      BY <1>8, SaveStepDoes, SaverOf DEF KeptTypes
    <2>2. \A u \in Saver : doing[u] \in CalendarLocked => u = s
      BY <2>1 DEF KeptTypes, Busy, OneOwner, CalendarLocked
    <2>3. \/ disk' = disk /\ (out'[s] = "ok" => out[s] = "ok")
          \/ Readable(Calendar)' = save[s].version
      BY <1>8, SaveStepDoes DEF Readable, KeptTypes
    <2>4. UNCHANGED <<rows, enabled>> /\ (Pending' <=> Pending)
      BY <1>8 DEF calendarVars, Pending
    <2>5. ASSUME enabled, ~Pending
          PROVE  /\ save'[s].version = rows'
                 /\ out'[s] = "ok" => Readable(Calendar)' = rows'
      BY <2>1, <2>3, <2>4, <2>5 DEF OnInv, Readable
    <2> QED BY <1>8, <2>1, <2>2, <2>4, <2>5 DEF OnInv, NobodyAt, CalendarLocked
  <1>9. ASSUME NEW torn \in SUBSET Path, EndAndStart(torn)
        PROVE  OnInv'
    BY <1>9 DEF EndAndStart, OnInv, Pending
  <1>10. ASSUME NEW s \in Saver, CalendarSaved(s)
         PROVE  OnInv'
    BY <1>6, <1>10 DEF OnInv, CalendarSaved
  <1>11. ASSUME NEW s \in Saver,
               KeptStep(s) \/ EntriesChange(s)
                 \/ (\E p \in Edited, c \in Change : EditFile(s, p, c))
                 \/ \E c \in Change : SetSources(s, c)
         PROVE  OnInv'
    <2>1. CASE SaveStep(s)
               /\ UNCHANGED <<doing, says, calendarVars, listVars, bounds>>
      BY <1>8, <2>1, ElsewhereSteps, ElsewhereKeeps
    <2>2. CASE CalendarStep(s)
      BY <1>3, <1>4, <1>5, <1>10, <1>7, <2>2 DEF CalendarStep
    <2>3. CASE KeptStep(s) /\ ~SaveStep(s) /\ ~CalendarStep(s)
      BY <2>3, ElsewhereSteps, ElsewhereKeeps
    <2>4. CASE EntriesChange(s)
                 \/ (\E p \in Edited, c \in Change : EditFile(s, p, c))
                 \/ \E c \in Change : SetSources(s, c)
      BY <2>4, ElsewhereSteps, ElsewhereKeeps
    <2> QED BY <1>11, <2>1, <2>2, <2>3, <2>4, KeptKinds
  <1> QED BY <1>1, <1>2, <1>7, <1>9, <1>11 DEF KeptNext

\* A save of the list that no change waits behind is of the list as it is.
ListInv ==
  /\ \A s \in Saver :
       doing[s] = "saveEntries" /\ NobodyAt({"entriesTurn"}) =>
         /\ save[s].version = entries
         /\ out[s] = "ok" => ListOn(Entries) = entries
  /\ NewestListKept

\* An edit under way saves what the file held and its own change besides.
EditKept(s) ==
  LET p == edit[s][1]
  IN  /\ ListOn(p) \cup {edit[s][2]} \subseteq save[s].version
      /\ out[s] = "ok" => edit[s][2] \in ListOn(p)

EditInv == NoEditLost /\ \A s \in Saver : doing[s] = "saveEdit" => EditKept(s)

\* What a step that touches neither lists nor their saves leaves alone.
ListsAlone ==
  /\ UNCHANGED listVars
  /\ \A u \in Saver :
       /\ doing[u] \in {"entriesTurn", "saveEntries", "saveEdit"}
            \/ doing'[u] \in {"entriesTurn", "saveEntries", "saveEdit"} =>
          doing'[u] = doing[u]
       /\ doing[u] \in {"saveEntries", "saveEdit"} =>
            save'[u] = save[u] /\ (out'[u] = "ok" => out[u] = "ok")
  /\ \A p \in Path \ {Calendar, Sources} : disk'[p] = disk[p]

LEMMA ListsAloneKeep ==
  ASSUME KeptTypes, ListInv, EditInv, ListsAlone
  PROVE  ListInv' /\ EditInv'
  <1>1. Entries \in Path \ {Calendar, Sources}
        /\ Edited \subseteq Path \ {Calendar, Sources}
    BY KeptAssumption
  <1>2. \A p \in Path \ {Calendar, Sources} : ListOn(p)' = ListOn(p)
    BY DEF ListsAlone, ListOn, Readable
  <1>3. UNCHANGED <<entries, unsaved, kept, edit>>
    BY DEF ListsAlone, listVars
  <1>4. ListInv'
    <2>1. /\ NobodyAt({"entriesTurn"})' <=> NobodyAt({"entriesTurn"})
          /\ NobodyAt({"entriesTurn", "saveEntries"})'
               <=> NobodyAt({"entriesTurn", "saveEntries"})
      BY DEF ListsAlone, NobodyAt
    <2>2. NewestListKept'
      BY <1>1, <1>2, <1>3, <2>1 DEF ListInv, NewestListKept
    <2> QED BY <1>1, <1>2, <1>3, <2>1, <2>2 DEF ListInv, ListsAlone
  <1>5. EditInv'
    <2>1. NoEditLost'
      BY <1>1, <1>2, <1>3 DEF EditInv, NoEditLost
    <2>2. ASSUME NEW s \in Saver, doing'[s] = "saveEdit"
          PROVE  EditKept(s)'
      <3>1. /\ doing[s] = "saveEdit" /\ save'[s] = save[s]
            /\ out'[s] = "ok" => out[s] = "ok"
        BY <2>2 DEF ListsAlone
      <3>2. edit'[s] = edit[s] /\ edit[s][1] \in Path \ {Calendar, Sources}
        BY <1>1, <1>3, <3>1 DEF KeptTypes, Busy, BusyAt
      <3>3. disk'[edit[s][1]] = disk[edit[s][1]]
        BY <3>2 DEF ListsAlone
      <3>4. EditKept(s)
        BY <3>1 DEF EditInv
      <3> QED BY <3>1, <3>2, <3>3, <3>4 DEF EditKept, ListOn, Readable
    <2> QED BY <2>1, <2>2 DEF EditInv
  <1> QED BY <1>4, <1>5

LEMMA ListsAloneSteps ==
  ASSUME KeptTypes,
         \/ ScheduleChanges \/ OnEvent \/ Settle \/ UNCHANGED keptVars
         \/ \E s \in Saver : CalendarStep(s) \/ SourcesSaved(s)
              \/ \E c \in Change : SetSources(s, c)
         \/ \E s \in Saver : SaveStep(s) /\ save[s].path \in {Calendar, Sources}
              /\ UNCHANGED <<doing, says, calendarVars, listVars, bounds>>
  PROVE  ListsAlone
  <1>0. /\ doing \in [Saver -> Doing] /\ step \in [Saver -> Step]
        /\ save \in [Saver -> [path : Path, version : Version] \cup {None}]
        /\ out \in [Saver -> {"none", "ok", "error"}]
        /\ disk \in [Path -> Bytes \cup {None}]
    BY DEF KeptTypes, KeptTypeOK, TypeOK
  <1>1. CASE ScheduleChanges \/ OnEvent \/ Settle \/ UNCHANGED keptVars
    BY <1>1 DEF ScheduleChanges, OnEvent, Settle, keptVars, vars, ListsAlone
  <1>2. ASSUME NEW s \in Saver,
               StartWrite(s) \/ LockCalendar(s) \/ PreferencesChanged(s)
                 \/ Remove(s) \/ \E on \in BOOLEAN : SetPreferences(s, on)
        PROVE  ListsAlone
    <2>1. /\ doing[s] \in {"nothing", "write", "say", "remove"}
          /\ doing'[s] \in {"nothing", "write", "say", "remove", "render"}
          /\ \A u \in Saver \ {s} : doing'[u] = doing[u]
      BY <1>0, <1>2 DEF StartWrite, LockCalendar, PreferencesChanged, Remove,
        SetPreferences, CalendarDone, Begin, Idle
    <2>2. /\ UNCHANGED <<listVars, save, out>>
          /\ \A p \in Path \ {Calendar} : disk'[p] = disk[p]
      BY <1>0, <1>2 DEF StartWrite, LockCalendar, PreferencesChanged, Remove,
        SetPreferences, DeleteFile, vars
    <2> QED BY <2>1, <2>2 DEF ListsAlone
  <1>3. ASSUME NEW s \in Saver,
               \/ Render(s) \/ CalendarSaved(s) \/ SourcesSaved(s)
               \/ \E c \in Change : SetSources(s, c)
        PROVE  ListsAlone
    <2>1. /\ doing[s] \in {"nothing", "render", "saveCalendar", "saveSources"}
          /\ doing'[s] \in {"nothing", "saveCalendar", "saveSources", "say"}
          /\ \A u \in Saver \ {s} : doing'[u] = doing[u]
      BY <1>0, <1>3 DEF Render, CalendarSaved, SourcesSaved, SetSources,
        CalendarDone, Begin, Idle
    <2>2. /\ UNCHANGED <<listVars, disk>>
          /\ \A u \in Saver \ {s} : save'[u] = save[u] /\ out'[u] = out[u]
      BY <1>0, <1>3 DEF Render, CalendarSaved, SourcesSaved, SetSources, Take,
        Release, vars, fileSystem
    <2> QED BY <2>1, <2>2 DEF ListsAlone
  <1>4. ASSUME NEW s \in Saver, SaveStep(s),
               save[s].path \in {Calendar, Sources},
               UNCHANGED <<doing, says, calendarVars, listVars, bounds>>
        PROVE  ListsAlone
    <2>1. /\ save' = save /\ Saving(s)
          /\ \A u \in Saver \ {s} : out'[u] = out[u]
          /\ \A q \in Path : q # save[s].path => disk'[q] = disk[q]
      BY <1>4, SaveStepDoes DEF KeptTypes
    <2>2. doing[s] \notin {"saveEntries", "saveEdit"}
      BY <1>4, <2>1, SaverOf, KeptAssumption
    <2> QED BY <1>4, <2>1, <2>2 DEF ListsAlone
  <1> QED BY <1>1, <1>2, <1>3, <1>4 DEF CalendarStep

\* The steps that touch a list file or a save of one.
LEMMA ListKinds ==
  ASSUME KeptTypes, [KeptNext]_keptVars
  PROVE  \/ ListsAlone
         \/ \E s \in Saver :
              \/ EntriesChange(s) \/ SaveEntries(s) \/ EntriesSaved(s)
              \/ \E p \in Edited, c \in Change : EditFile(s, p, c)
              \/ SaveEdit(s) \/ EditSaved(s)
              \/ /\ SaveStep(s) /\ save[s].path \in {Entries} \cup Edited
                 /\ UNCHANGED <<doing, says, calendarVars, listVars, bounds>>
         \/ \E torn \in SUBSET Path : EndAndStart(torn)
  <1>1. ASSUME NEW s \in Saver, SaveStep(s),
               UNCHANGED <<doing, says, calendarVars, listVars, bounds>>
        PROVE  ListsAlone \/ save[s].path \in {Entries} \cup Edited
    <2>1. save[s].path \in {Calendar, Entries, Sources} \cup Edited
      BY <1>1, SaveStepDoes, KeptAssumption DEF KeptTypes
    <2> QED BY <1>1, <2>1, ListsAloneSteps
  <1> QED BY <1>1, ListsAloneSteps DEF KeptNext, KeptStep, CalendarStep

LEMMA ListStep ==
  ASSUME KeptTypes, ListInv, EditInv, [KeptNext]_keptVars
  PROVE  ListInv'
  <1>0. /\ doing \in [Saver -> Doing] /\ disk \in [Path -> Bytes \cup {None}]
        /\ Entries \in Path /\ entries \in Version /\ TurnInv
    BY KeptAssumption DEF KeptTypes, KeptTypeOK, TypeOK
  <1>1. ASSUME NEW s \in Saver, EntriesChange(s)
        PROVE  ListInv'
    <2>1. doing'[s] = "entriesTurn"
      BY <1>0, <1>1 DEF EntriesChange, Begin
    <2> QED BY <2>1 DEF ListInv, NewestListKept, NobodyAt
  <1>2. ASSUME NEW s \in Saver, SaveEntries(s)
        PROVE  ListInv'
    <2>1. /\ doing'[s] = "saveEntries" /\ entries' = entries
          /\ \A u \in Saver \ {s} : doing'[u] # "saveEntries"
      BY <1>0, <1>2 DEF SaveEntries, Begin, NobodyAt, listVars
    <2>2. save'[s] = [path |-> Entries, version |-> entries] /\ out'[s] = "none"
      BY <1>0, <1>2, TakeDoes DEF SaveEntries
    <2> QED BY <2>1, <2>2 DEF ListInv, NewestListKept, NobodyAt
  <1>3. ASSUME NEW s \in Saver, EntriesSaved(s)
        PROVE  ListInv'
    <2>1. /\ disk' = disk /\ out[s] \in {"ok", "error"}
      BY <1>0, <1>3, ReleaseDoes DEF EntriesSaved
    <2>2. \A u \in Saver : doing'[u] # "saveEntries"
      BY <1>0, <1>3 DEF EntriesSaved, Begin, KeptTypes, Busy, OneOwner
    <2>3. NobodyAt({"entriesTurn"})' <=> NobodyAt({"entriesTurn"})
      BY <1>0, <1>3 DEF EntriesSaved, Begin, NobodyAt
    <2>4. NewestListKept'
      BY <1>3, <2>1, <2>3 DEF ListInv, NewestListKept, EntriesSaved, NobodyAt,
        ListOn, Readable
    <2> QED BY <2>2, <2>4 DEF ListInv
  <1>4. ASSUME NEW s \in Saver,
               \/ \E p \in Edited, c \in Change : EditFile(s, p, c)
               \/ SaveEdit(s) \/ EditSaved(s)
        PROVE  ListInv'
    <2>1. /\ doing[s] \in {"nothing", "editTurn", "saveEdit"}
          /\ doing'[s] \in {"nothing", "editTurn", "saveEdit"}
          /\ \A u \in Saver \ {s} : doing'[u] = doing[u]
      BY <1>0, <1>4 DEF EditFile, SaveEdit, EditSaved, Begin, Idle
    <2>2. /\ UNCHANGED <<entries, unsaved, disk>>
          /\ \A u \in Saver \ {s} : save'[u] = save[u] /\ out'[u] = out[u]
      BY <1>0, <1>4 DEF EditFile, SaveEdit, EditSaved, Take, Release, vars,
        fileSystem, listVars, TurnInv, TypeOK
    <2>3. ListOn(Entries)' = ListOn(Entries)
      BY <2>2 DEF ListOn, Readable
    <2> QED BY <2>1, <2>2, <2>3 DEF ListInv, NewestListKept, NobodyAt
  <1>5. ASSUME NEW s \in Saver, SaveStep(s), save[s].path = Entries,
               UNCHANGED <<doing, says, calendarVars, listVars, bounds>>
        PROVE  ListInv'
    <2>1. doing[s] = "saveEntries" /\ save' = save /\ save[s].version \in Version
      BY <1>0, <1>5, SaveStepDoes, SaverOf
    <2>2. \A u \in Saver : doing[u] = "saveEntries" => u = s
      BY <2>1 DEF KeptTypes, Busy, OneOwner
    <2>3. \/ disk' = disk /\ (out'[s] = "ok" => out[s] = "ok")
          \/ Readable(Entries)' = save[s].version
      BY <1>0, <1>5, SaveStepDoes DEF Readable
    <2>4. \/ ListOn(Entries)' = ListOn(Entries) /\ (out'[s] = "ok" => out[s] = "ok")
          \/ ListOn(Entries)' = save[s].version
      BY <2>1, <2>3, FilesAssumption DEF ListOn, Readable
    <2> QED BY <1>5, <2>1, <2>2, <2>4 DEF ListInv, NewestListKept, NobodyAt,
        listVars
  <1>6. ASSUME NEW s \in Saver, SaveStep(s), save[s].path \in Edited,
               UNCHANGED <<doing, says, calendarVars, listVars, bounds>>
        PROVE  ListInv'
    <2>1. /\ doing[s] = "saveEdit" /\ save' = save
          /\ disk'[Entries] = disk[Entries]
          /\ \A u \in Saver \ {s} : out'[u] = out[u]
      BY <1>0, <1>6, SaveStepDoes, SaverOf, KeptAssumption
    <2>2. ListOn(Entries)' = ListOn(Entries)
      BY <2>1 DEF ListOn, Readable
    <2> QED BY <1>6, <2>1, <2>2 DEF ListInv, NewestListKept, NobodyAt, listVars
  <1>7. ASSUME NEW torn \in SUBSET Path, EndAndStart(torn)
        PROVE  ListInv'
    <2>1. disk'[Entries] = None \/ disk'[Entries].version \in Version
      BY <1>0, <1>7, HeldStep DEF Held, KeptNext
    <2>2. entries' = ListOn(Entries)'
      BY <1>7, <2>1, FilesAssumption DEF EndAndStart, TornFile, ListOn, Readable
    <2> QED BY <1>7, <2>2 DEF ListInv, NewestListKept, EndAndStart
  <1>8. ASSUME ListsAlone
        PROVE  ListInv'
    BY <1>8, ListsAloneKeep
  <1> QED BY <1>1, <1>2, <1>3, <1>4, <1>5, <1>6, <1>7, <1>8, ListKinds

LEMMA EditStep ==
  ASSUME KeptTypes, ListInv, EditInv, [KeptNext]_keptVars
  PROVE  EditInv'
  <1>0. /\ doing \in [Saver -> Doing] /\ disk \in [Path -> Bytes \cup {None}]
        /\ edit \in [Saver -> (Edited \X Change) \cup {None}]
        /\ kept \in [Edited -> SUBSET Change]
        /\ Entries \in Path /\ entries \in Version /\ TurnInv
        /\ Edited \subseteq Path /\ Entries \notin Edited
    BY KeptAssumption DEF KeptTypes, KeptTypeOK, TypeOK
  <1>1. ASSUME disk' = disk, kept' = kept
        PROVE  NoEditLost'
    BY <1>1 DEF EditInv, NoEditLost, ListOn, Readable
  <1>2. ASSUME NEW u \in Saver, doing'[u] = doing[u], edit'[u] = edit[u],
               save'[u] = save[u], out'[u] = out[u], doing[u] = "saveEdit",
               disk'[edit[u][1]] = disk[edit[u][1]]
        PROVE  EditKept(u)'
    <2>1. EditKept(u)
      BY <1>2 DEF EditInv
    <2> QED BY <1>2, <2>1 DEF EditKept, ListOn, Readable
  <1>3. ASSUME NEW s \in Saver,
               \/ EntriesChange(s) \/ SaveEntries(s) \/ EntriesSaved(s)
               \/ \E p \in Edited, c \in Change : EditFile(s, p, c)
        PROVE  EditInv'
    <2>1. /\ doing[s] # "saveEdit" /\ doing'[s] # "saveEdit"
          /\ \A u \in Saver \ {s} : doing'[u] = doing[u] /\ edit'[u] = edit[u]
          /\ kept' = kept
      BY <1>0, <1>3 DEF EntriesChange, SaveEntries, EntriesSaved, EditFile,
        Begin, Idle, listVars
    <2>2. /\ disk' = disk
          /\ \A u \in Saver \ {s} : save'[u] = save[u] /\ out'[u] = out[u]
      BY <1>0, <1>3 DEF EntriesChange, SaveEntries, EntriesSaved, EditFile,
        Take, Release, vars, fileSystem, TurnInv, TypeOK
    <2> QED BY <1>1, <1>2, <2>1, <2>2 DEF EditInv
  <1>4. ASSUME NEW s \in Saver, SaveEdit(s)
        PROVE  EditInv'
    <2> DEFINE p == edit[s][1]
               c == edit[s][2]
    <2>1. p \in Edited /\ c \in Change
      BY <1>4 DEF SaveEdit, KeptTypes, Busy, BusyAt
    <2>2. ListOn(p) \cup {c} \in Version
      BY <1>0, <2>1, ReadableIs, KeptAssumption DEF KeptTypes
    <2>3. Take(s, p, ListOn(p) \cup {c}) /\ UNCHANGED <<kept, edit>>
      BY <1>4 DEF SaveEdit, listVars
    <2>4. /\ save'[s] = [path |-> p, version |-> ListOn(p) \cup {c}]
          /\ \A u \in Saver \ {s} : save'[u] = save[u]
          /\ UNCHANGED <<out, disk>> /\ out[s] = "none"
      <3>1. PICK q \in Path, v \in Version : q = p /\ v = ListOn(p) \cup {c}
        BY <1>0, <2>1, <2>2
      <3>2. Take(s, q, v)
        BY <2>3, <3>1
      <3>3. /\ save'[s] = [path |-> q, version |-> v]
            /\ \A u \in Saver \ {s} : save'[u] = save[u]
            /\ UNCHANGED <<out, disk>> /\ out[s] = "none"
        BY <1>0, <3>2, TakeDoes
      <3> QED BY <3>1, <3>3
    <2>5. \A u \in Saver \ {s} : doing'[u] = doing[u]
      BY <1>0, <1>4 DEF SaveEdit, Begin
    <2>6. save'[s].version = ListOn(p) \cup {c}
      BY <2>4
    <2>7. EditKept(s)'
      BY <2>3, <2>4, <2>6 DEF EditKept, ListOn, Readable
    <2> QED BY <1>1, <1>2, <2>3, <2>4, <2>5, <2>7 DEF EditInv
  <1>5. ASSUME NEW s \in Saver, EditSaved(s)
        PROVE  EditInv'
    <2>1. /\ edit[s][1] \in Edited /\ EditKept(s)
      BY <1>5 DEF EditSaved, KeptTypes, Busy, BusyAt, EditInv
    <2>2. /\ disk' = disk
          /\ \A u \in Saver \ {s} : save'[u] = save[u] /\ out'[u] = out[u]
      BY <1>0, <1>5, ReleaseDoes DEF EditSaved
    <2>3. /\ doing'[s] # "saveEdit"
          /\ \A u \in Saver \ {s} : doing'[u] = doing[u] /\ edit'[u] = edit[u]
      BY <1>0, <1>5 DEF EditSaved, Begin
    <2>4. NoEditLost'
      <3>1. CASE out[s] = "ok"
        <4>1. edit[s][2] \in ListOn(edit[s][1])
          BY <2>1, <3>1 DEF EditKept
        <4> QED BY <1>0, <1>5, <2>1, <2>2, <3>1, <4>1
                DEF EditSaved, EditInv, NoEditLost, ListOn, Readable
      <3>2. CASE out[s] # "ok"
        BY <1>1, <1>5, <2>2, <3>2 DEF EditSaved
      <3> QED BY <3>1, <3>2
    <2> QED BY <1>2, <2>2, <2>3, <2>4 DEF EditInv
  <1>6. ASSUME NEW s \in Saver, SaveStep(s), save[s].path = Entries,
               UNCHANGED <<doing, says, calendarVars, listVars, bounds>>
        PROVE  EditInv'
    <2>1. /\ doing[s] = "saveEntries" /\ save' = save
          /\ \A q \in Edited : disk'[q] = disk[q]
          /\ \A u \in Saver \ {s} : out'[u] = out[u]
      BY <1>0, <1>6, SaveStepDoes, SaverOf
    <2>2. UNCHANGED <<doing, edit, kept>>
      BY <1>6 DEF listVars
    <2>3. \A u \in Saver : doing[u] = "saveEdit" => edit[u][1] \in Edited
      BY DEF KeptTypes, Busy, BusyAt
    <2>4. NoEditLost'
      BY <2>1, <2>2 DEF EditInv, NoEditLost, ListOn, Readable
    <2> QED BY <1>2, <2>1, <2>2, <2>3, <2>4 DEF EditInv
  <1>7. ASSUME NEW s \in Saver, SaveStep(s), save[s].path \in Edited,
               UNCHANGED <<doing, says, calendarVars, listVars, bounds>>
        PROVE  EditInv'
    <2>0. PICK p \in Edited : p = save[s].path
      BY <1>7
    <2>1. /\ doing[s] = "saveEdit" /\ save' = save /\ save[s].version \in Version
          /\ \A q \in Path : q # p => disk'[q] = disk[q]
          /\ \A u \in Saver \ {s} : out'[u] = out[u]
      BY <1>0, <1>7, <2>0, SaveStepDoes, SaverOf
    <2>2. UNCHANGED <<doing, edit, kept>>
      BY <1>7 DEF listVars
    <2>3. /\ edit[s][1] = p
          /\ \A u \in Saver \ {s} :
               doing[u] = "saveEdit" => edit[u][1] \in Edited \ {p}
      BY <2>0, <2>1 DEF KeptTypes, Busy, BusyAt, OneOwner
    <2>4. /\ ListOn(p) \cup {edit[s][2]} \subseteq save[s].version
          /\ out[s] = "ok" => edit[s][2] \in ListOn(p)
      BY <2>1, <2>3 DEF EditInv, EditKept
    <2>5. \/ disk' = disk /\ (out'[s] = "ok" => out[s] = "ok")
          \/ Readable(p)' = save[s].version
      BY <1>0, <1>7, <2>0, SaveStepDoes DEF Readable
    <2>6. \/ ListOn(p)' = ListOn(p) /\ (out'[s] = "ok" => out[s] = "ok")
          \/ ListOn(p)' = save[s].version
      BY <2>1, <2>5, FilesAssumption DEF ListOn, Readable
    <2>7. ListOn(p) \subseteq ListOn(p)' /\ ListOn(p)' \subseteq save[s].version
          /\ (out'[s] = "ok" => edit[s][2] \in ListOn(p)')
      BY <2>4, <2>6
    <2>8. NoEditLost'
      <3> SUFFICES ASSUME NEW q \in Edited
                   PROVE  kept[q] \subseteq ListOn(q)'
        BY <2>2 DEF NoEditLost
      <3>1. kept[q] \subseteq ListOn(q)
        BY DEF EditInv, NoEditLost
      <3>2. q # p => ListOn(q)' = ListOn(q)
        BY <1>0, <2>1 DEF ListOn, Readable
      <3> QED BY <2>7, <3>1, <3>2
    <2>9. EditKept(s)'
      BY <2>1, <2>2, <2>3, <2>4, <2>7 DEF EditKept, ListOn, Readable
    <2> QED BY <1>0, <1>2, <2>1, <2>2, <2>3, <2>8, <2>9 DEF EditInv
  <1>8. ASSUME NEW torn \in SUBSET Path, EndAndStart(torn)
        PROVE  EditInv'
    <2>1. ASSUME NEW p \in Edited
          PROVE  kept'[p] \subseteq ListOn(p)'
      <3>1. CASE TornFile(p)
        BY <1>0, <1>8, <2>1, <3>1 DEF EndAndStart
      <3>2. CASE ~TornFile(p)
        <4>1. ProgramEnds(torn) /\ p \in Path
          BY <1>0, <1>8 DEF EndAndStart
        <4>2. disk'[p] = disk[p]
          BY <3>2, <4>1, EndDoes DEF TornFile
        <4>3. kept[p] \subseteq ListOn(p) /\ ListOn(p)' = ListOn(p)
          BY <4>2 DEF EditInv, NoEditLost, ListOn, Readable
        <4> QED BY <1>8, <3>2, <4>3 DEF EndAndStart
      <3> QED BY <3>1, <3>2
    <2> QED BY <1>8, <2>1 DEF EndAndStart, EditInv, NoEditLost
  <1>9. ASSUME ListsAlone
        PROVE  EditInv'
    BY <1>9, ListsAloneKeep
  <1> QED BY <1>3, <1>4, <1>5, <1>6, <1>7, <1>8, <1>9, ListKinds

KeptInv == KeptTypes /\ OffInv /\ OnInv /\ ListInv /\ EditInv

LEMMA KeptStart == KeptInit => KeptInv
  <1> SUFFICES ASSUME KeptInit
               PROVE  KeptInv
    OBVIOUS
  <1>1. TurnInv /\ TypeOK
    BY TurnInit DEF KeptInit, TurnInv
  <1>2. Cardinality(Change) \in Nat /\ Cardinality(rows) = 0
    BY KeptAssumption, FS_CardinalityType, FS_EmptySet DEF KeptInit
  <1>3. Busy
    BY DEF KeptInit, Init, Busy, OneOwner, BusyAt, Saving, SaveAt,
      CalendarLocked, CalendarAt
  <1>4. Held
    BY <1>2 DEF KeptInit, Init, Held
  <1>5. KeptTypeOK
    <2>1. unsaid \in 0 .. Cardinality(Change) + 1
      BY <1>2 DEF KeptInit
    <2>2. /\ {enabled, queued, failing, stray, unsaved} \subseteq BOOLEAN
          /\ due \in Nat /\ doing \in [Saver -> Doing]
      BY DEF KeptInit, Doing
    <2>3. /\ edit \in [Saver -> (Edited \X Change) \cup {None}]
          /\ says \subseteq Saver /\ rows \subseteq Change
          /\ entries \subseteq Change /\ kept \in [Edited -> SUBSET Change]
      BY DEF KeptInit
    <2> QED BY <1>1, <2>1, <2>2, <2>3 DEF KeptTypeOK
  <1>6. Calendar \in Path /\ Entries \in Path /\ Edited \subseteq Path
    BY KeptAssumption
  <1>7. OffInv /\ OnInv
    BY <1>6 DEF KeptInit, Init, OffInv, OnInv, NobodyAt, CalendarLocked
  <1>8. \A p \in Path : ListOn(p) = {}
    BY DEF KeptInit, Init, ListOn, Readable
  <1>9. ListInv /\ EditInv
    BY <1>6, <1>8 DEF KeptInit, ListInv, EditInv, NewestListKept, NoEditLost
  <1> QED BY <1>1, <1>3, <1>4, <1>5, <1>7, <1>9 DEF KeptInv, KeptTypes

LEMMA KeptHolds == KeptInv /\ [KeptNext]_keptVars => KeptInv'
  BY KeptTypesStep, OffStep, OnStep, ListStep, EditStep DEF KeptInv

LEMMA KeptMeans == KeptInv => CalendarFollows /\ ListsKept
  <1>1. OffInv /\ CalendarQuiet /\ ~enabled => stray \/ disk[Calendar] = None
    BY DEF OffInv, CalendarQuiet, NobodyAt, CalendarAt
  <1>2. KeptTypes /\ OnInv /\ CalendarQuiet /\ enabled =>
          failing \/ Readable(Calendar) = rows
    <2>1. KeptTypes /\ CalendarQuiet => NobodyAt(CalendarLocked)
      BY DEF CalendarQuiet, NobodyAt, CalendarAt, CalendarLocked
    <2>2. KeptTypes /\ CalendarQuiet => ~Pending
      BY DEF CalendarQuiet, Pending, NobodyAt, CalendarAt, KeptTypes,
        KeptTypeOK, Busy, BusyAt
    <2> QED BY <2>1, <2>2 DEF OnInv
  <1> QED BY <1>1, <1>2 DEF KeptInv, KeptTypes, CalendarFollows, ListsKept,
    ListInv, EditInv

\* Once no rewrite is queued, due or under way, the calendar file is the
\* schedule when the switch is on and gone when it is off, or its failure is
\* on record: calendar.rs, whatever preferences, changes, saves that fail and
\* ends of the program came before.
THEOREM KeptCalendarFollows == KeptSpec => []CalendarFollows
BY KeptStart, KeptHolds, KeptMeans, PTL DEF KeptSpec

\* With no save under way the torrent list on disk is the newest one, unless
\* its save failed (phone/engine.rs), and an edit of the rules or secrets that
\* was answered Ok is never lost to another (releases/rules.rs,
\* trackers/secrets.rs).
THEOREM KeptListsKept == KeptSpec => []ListsKept
BY KeptStart, KeptHolds, KeptMeans, PTL DEF KeptSpec

\* The owners of the files use atomic_file.rs as its own specification says:
\* what is proved of every user of it holds of them.
THEOREM KeptIsAtomic == KeptSpec => Spec
<1>1. KeptInit => Init
  BY DEF KeptInit
<1>2. KeptInv /\ [KeptNext]_keptVars => [Next]_vars
  BY KeptIsFiles DEF KeptInv, KeptTypes
<1> QED
  BY <1>1, <1>2, KeptStart, KeptHolds, PTL DEF KeptSpec, Spec
=============================================================================
