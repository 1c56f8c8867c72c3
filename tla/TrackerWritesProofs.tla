------------------------- MODULE TrackerWritesProofs -------------------------
(***************************************************************************)
(* Type correctness of the tracker writes; the rewatch slot is held by one *)
(* call at most and never leaked; a job that was not cancelled has         *)
(* answered for every tracker still connected; a row's stamp is kept; no   *)
(* write takes a list below where it stood; the rows agree with the lists; *)
(* a rewatch is counted once.  All for any number of calls under way at    *)
(* once, any episodes, ticks, refreshes, sign-outs, website edits, and     *)
(* with requests that fail, replies that get lost and jobs dropped.        *)
(***************************************************************************)
EXTENDS TrackerWrites, TLAPS, FiniteSetTheorems

------------------------------------------------------------------------------
(* What the operators return.                                               *)

ChangeType == [status: Status \cup {None}, sets: BOOLEAN, n: Nat,
               counts: BOOLEAN, unflags: BOOLEAN]

\* A row read off a tracker is a row (replace).
LEMMA RowOfType ==
  ASSUME NEW t \in Tracker, NEW r \in RemoteType, NEW k \in Nat
  PROVE  RowOf(t, r, k) \in RowType
<1>1. normalize_status(t, r) \in Status \cup {None}
  BY DEF normalize_status, RemoteType, Status
<1>2. (IF r.status = None THEN 0 ELSE IF r.at = 0 THEN k ELSE r.at) \in Nat
  BY DEF RemoteType
<1>3. r.progress \in Nat /\ r.repeat \in Nat
  BY DEF RemoteType
<1> QED BY <1>1, <1>2, <1>3 DEF RowOf, RowType

\* What a write reads off a tracker (read_entry).
LEMMA SeenType ==
  ASSUME NEW t \in Tracker, NEW r \in RemoteType
  PROVE  Seen(t, r) \in ReadType
<1>1. normalize_status(t, r) \in Status \cup {None}
  BY DEF normalize_status, RemoteType, Status
<1> QED BY <1>1 DEF Seen, ReadType, RemoteType

LEMMA WatchedStatusType ==
  ASSUME NEW e \in ReadType, NEW c
  PROVE  watched_status(e, c) \in Status
BY DEF watched_status, Status

LEMMA FilledType ==
  ASSUME NEW a \in AskType, NEW e \in ReadType
  PROVE  Filled(a, e) \in Nat
BY WritesAssumption DEF Filled, ReadType

\* Every kind of write changes the entry to another entry (attempt).
LEMMA ChangeOfType ==
  ASSUME NEW a \in AskType, NEW e \in ReadType, NEW b \in BOOLEAN
  PROVE  ChangeOf(a, e, b) \in ChangeType
<1>1. CASE a.kind = "mark"
  <2>1. Higher(e.progress, a.n) \in Nat  BY DEF Higher, AskType, ReadType
  <2>2. \A c : watched_status(e, c) \in Status  BY WatchedStatusType
  <2>3. \A s, c : Rewatched(e, s, c) \in BOOLEAN  BY DEF Rewatched
  <2> QED BY <1>1, <2>1, <2>2, <2>3
          DEF ChangeOf, MarkChange, Change, ChangeType
<1>2. CASE a.kind = "progress"
  <2>1. a.n \in Nat  BY DEF AskType
  <2>2. \A c : watched_status(e, c) \in Status  BY WatchedStatusType
  <2>3. "planning" \in Status  BY DEF Status
  <2> QED BY <1>2, <2>1, <2>2, <2>3
          DEF ChangeOf, ProgressChange, Change, ChangeType
<1>3. CASE a.kind = "score"
  BY <1>3 DEF ChangeOf, ScoreChange, Change, ChangeType, Status
<1>4. CASE a.kind = "status"
  <2>1. Filled(a, e) \in Nat  BY FilledType
  <2>2. a.status \in Status \cup {None}  BY DEF AskType
  <2> QED BY <1>4, <2>1, <2>2 DEF ChangeOf, StatusChange, Change, ChangeType
<1>5. CASE a.kind = "notes"
  BY <1>5 DEF ChangeOf, Change, ChangeType, Status
<1> QED BY <1>1, <1>2, <1>3, <1>4, <1>5 DEF AskType

\* A landed write leaves an entry on the tracker (send_progress and the rest).
LEMMA LandedType ==
  ASSUME NEW t \in Tracker, NEW r \in RemoteType, NEW c \in ChangeType,
         NEW e \in ReadType, clock \in Nat
  PROVE  Landed(t, r, c, e) \in RemoteType
<1> DEFINE s == IF c.status = None THEN r.status
                ELSE IF t = "mal" THEN mal_status(c.status) ELSE c.status
           n == IF c.sets THEN c.n ELSE r.progress
           k == IF c.counts THEN e.repeat + 1 ELSE r.repeat
<1>1. s \in Status \cup {None}
  BY DEF mal_status, ChangeType, RemoteType, Status
<1>2. n \in Nat  BY DEF ChangeType, RemoteType
<1>3. k \in Nat  BY DEF ReadType, RemoteType
<1>4. (r.flag /\ ~c.unflags) \in BOOLEAN  OBVIOUS
<1>5. Landed(t, r, c, e) =
        [r EXCEPT !.status = s, !.progress = n, !.repeat = k,
                  !.flag = r.flag /\ ~c.unflags, !.at = clock]
  BY DEF Landed
<1> HIDE DEF s, n, k
<1> QED BY <1>1, <1>2, <1>3, <1>4, <1>5 DEF RemoteType

\* A patched row is a row (patch_progress, patch_score, patch_notes).
LEMMA RowExceptType ==
  ASSUME NEW row \in RowType, NEW st \in Status \cup {None}, NEW n \in Nat, NEW at \in Nat
  PROVE  /\ [row EXCEPT !.held = TRUE, !.status = st, !.progress = n, !.at = at] \in RowType
         /\ [row EXCEPT !.held = TRUE, !.at = at, !.status = st] \in RowType
         /\ [row EXCEPT !.held = TRUE, !.at = at] \in RowType
         /\ [row EXCEPT !.repeat = n, !.at = at] \in RowType
BY DEF RowType

LEMMA PatchedCases ==
  ASSUME NEW a \in AskType, NEW c, NEW e, NEW row, NEW s
  PROVE  \/ Patched(a, c, e, row, s) = patch_progress(row, s, c.n, c.status)
         \/ Patched(a, c, e, row, s) = patch_progress(row, s, Filled(a, e), c.status)
         \/ Patched(a, c, e, row, s) = patch_score(row, s, c.status)
         \/ Patched(a, c, e, row, s) = patch_notes(row, s)
<1>1. a.kind \in {"mark", "progress", "score", "status", "notes"}
  BY DEF AskType
<1>2. CASE a.kind \in {"mark", "progress"}
  BY <1>2 DEF Patched
<1>3. CASE a.kind = "status"
  BY <1>3 DEF Patched
<1>4. CASE a.kind = "score"
  BY <1>4 DEF Patched
<1>5. CASE a.kind = "notes"
  BY <1>5 DEF Patched
<1> QED BY <1>1, <1>2, <1>3, <1>4, <1>5

LEMMA PatchedType ==
  ASSUME NEW a \in AskType, NEW c \in ChangeType, NEW e \in ReadType,
         NEW row \in RowType, NEW s \in Nat
  PROVE  Patched(a, c, e, row, s) \in RowType
<1>2. Stamped(row, s) \in Nat  BY DEF Stamped, RowType
<1>3. Filled(a, e) \in Nat  BY FilledType
<1>4. c.n \in Nat /\ c.status \in Status \cup {None}  BY DEF ChangeType
<1>5. row.status \in Status \cup {None}  BY DEF RowType
<1>6. \A n \in Nat : patch_progress(row, s, n, c.status) \in RowType
  BY <1>2, <1>4, RowExceptType DEF patch_progress
<1>7. patch_score(row, s, c.status) \in RowType
  <2>1. CASE c.status = None
    BY <2>1, <1>2, <1>5, RowExceptType DEF patch_score
  <2>2. CASE c.status # None
    BY <2>2, <1>2, <1>4, RowExceptType DEF patch_score
  <2> QED BY <2>1, <2>2
<1>8. patch_notes(row, s) \in RowType
  BY <1>2, RowExceptType DEF patch_notes
<1> QED BY <1>3, <1>4, <1>6, <1>7, <1>8, PatchedCases

LEMMA PatchRepeatType ==
  ASSUME NEW row \in RowType, NEW n \in Nat, clock \in Nat
  PROVE  patch_repeat(row, n) \in RowType
BY DEF patch_repeat, Higher, RowType

------------------------------------------------------------------------------
(* Type correctness.                                                        *)

\* The parts of TypeOK an action disturbs, one at a time.
Machine ==
  /\ slot \in BOOLEAN
  /\ pc \in [Job -> PC]
  /\ ask \in [Job -> AskType]
  /\ again \in [Job -> BOOLEAN]
  /\ turn \in [Job -> Tracker \cup {None}]
  /\ entry \in [Job -> ReadType]
  /\ stamp \in [Job -> Nat]
  /\ out \in [Job -> [Tracker -> {None, "ok", "notNewer", "notListed", "failed"}]]
Entries ==
  /\ remote \in [Tracker -> RemoteType]
  /\ cache \in [Tracker -> RowType]
Rest ==
  /\ connected \in [Tracker -> BOOLEAN]
  /\ token \in [Tracker -> BOOLEAN]
  /\ fetch \in [at: Tracker \cup {None}, list: RemoteType]
  /\ firstAt \in Nat /\ rounds \in Nat /\ clock \in Nat
Histories ==
  /\ settled \in [Tracker -> Nat]
  /\ astray \in [Tracker -> BOOLEAN]
  /\ slipped \in BOOLEAN

\* A job that reads, sends or records is at a tracker.
Attempting == {"read", "send", "record", "repeat"}
AtTracker == \A j \in Job : pc[j] \in Attempting => turn[j] \in Tracker

LEMMA TypeParts == TypeOK <=> Machine /\ Entries /\ Rest /\ Histories
BY DEF TypeOK, Machine, Entries, Rest, Histories

LEMMA Blanks == /\ NoRead \in ReadType /\ NoAsk \in AskType
                /\ NoEntry \in RemoteType /\ NoRow \in RowType
BY DEF NoRead, ReadType, NoAsk, AskType, NoEntry, RemoteType, NoRow, RowType

\* A job's tracker resolved keeps the types (Resolve).
LEMMA ResolveType ==
  ASSUME Machine, NEW j \in Job,
         NEW o \in {"ok", "notNewer", "notListed", "failed"}, Resolve(j, o),
         UNCHANGED <<slot, ask, again>>
  PROVE  Machine'
<1>1. pc' \in [Job -> PC]  BY DEF Resolve, Moved, Machine, PC
<1>2. turn' \in [Job -> Tracker \cup {None}]
  BY DEF Resolve, After, Machine, Tracker
<1>3. entry' \in [Job -> ReadType]  BY Blanks DEF Resolve, Machine
<1>4. stamp' \in [Job -> Nat]  BY DEF Resolve, Machine
<1>5. out' \in [Job -> [Tracker -> {None, "ok", "notNewer", "notListed", "failed"}]]
  BY DEF Resolve, Machine
<1> QED BY <1>1, <1>2, <1>3, <1>4, <1>5 DEF Machine

\* A list entry is an entry of either tracker.
LEMMA HeldType ==
  ASSUME NEW t \in Tracker, NEW l \in EntryType, NEW at \in Nat
  PROVE  Held(t, l, at) \in RemoteType
<1>1. mal_status(l.status) \in Status \cup {None}
  BY DEF mal_status, EntryType, Status
<1> QED BY <1>1 DEF Held, EntryType, RemoteType

LEMMA InitType == Init => TypeOK
<1> SUFFICES ASSUME Init PROVE TypeOK  OBVIOUS
<1>1. Machine  BY Blanks DEF Init, Machine, PC, Tracker
<1>2. remote \in [Tracker -> RemoteType]
  <2>1. PICK r \in [Carried -> Lists] :
          remote = [t \in Tracker |-> IF t \in Carried THEN Held(t, r[t], 1)
                                      ELSE NoEntry]
    BY DEF Init
  <2>2. \A t \in Carried : r[t] \in EntryType  BY WritesAssumption
  <2>3. \A t \in Tracker : remote[t] \in RemoteType
    BY <2>1, <2>2, HeldType, Blanks
  <2> QED BY <2>1, <2>3
<1>3. cache \in [Tracker -> RowType]
  <2>1. \A t \in Tracker : RowOf(t, remote[t], 0) \in RowType
    BY <1>2, RowOfType
  <2> QED BY <2>1, Blanks DEF Init
<1>4. Rest
  <2>1. connected \in [Tracker -> BOOLEAN]  BY DEF Init
  <2> QED BY <2>1, Blanks DEF Init, Rest
<1>5. Histories  BY <1>2 DEF Init, Histories, RemoteType
<1> QED BY <1>1, <1>2, <1>3, <1>4, <1>5, TypeParts DEF Entries

\* What a step may do to the histories.
HistorySteps ==
  /\ \/ UNCHANGED settled
     \/ settled' = [t \in Tracker |-> remote[t].progress]
     \/ \E t \in Tracker, n \in Nat : settled' = [settled EXCEPT ![t] = Lower(@, n)]
  /\ \/ UNCHANGED astray
     \/ astray' \in [Tracker -> BOOLEAN]
     \/ \E t \in Tracker, b \in BOOLEAN : astray' = [astray EXCEPT ![t] = b]
  /\ UNCHANGED slipped \/ slipped' \in BOOLEAN

LEMMA StepHistories ==
  ASSUME TypeOK, AtTracker, [Next]_vars
  PROVE  HistorySteps
<1> USE DEF HistorySteps, history, Slips, Settles
<1>0. /\ ask \in [Job -> AskType]
      /\ fetch \in [at: Tracker \cup {None}, list: RemoteType]
  BY DEF TypeOK
<1>1. ASSUME NEW j \in Job, NEW a \in Ask, Call(j, a) \/ CallRefused(j, a)
      PROVE  HistorySteps
  BY <1>1 DEF Call, CallRefused
<1>2. ASSUME NEW j \in Job,
             \/ Reserve(j) \/ Start(j) \/ Visit(j) \/ Skip(j) \/ Finish(j)
      PROVE  HistorySteps
  BY <1>2 DEF Reserve, Start, Visit, Skip, Finish
<1>3. ASSUME NEW j \in Job, Cancel(j)  PROVE HistorySteps
  BY <1>3 DEF Cancel
<1>4. ASSUME NEW j \in Job, Read(j) \/ ReadFails(j) \/ SendRefused(j)
      PROVE  HistorySteps
  BY <1>4 DEF Read, ReadFails, SendRefused
<1>5. ASSUME NEW j \in Job, NEW t \in Tracker, Lands(j, t)
      PROVE  \/ UNCHANGED settled
             \/ \E n \in Nat : settled' = [settled EXCEPT ![t] = Lower(@, n)]
  BY <1>0, <1>5 DEF Lands, AskType
<1>6. ASSUME NEW j \in Job, Send(j) \/ ReplyLost(j)  PROVE HistorySteps
  <2>1. turn[j] \in Tracker  BY <1>6 DEF AtTracker, Attempting, Send, ReplyLost
  <2>2. Lands(j, turn[j])  BY <1>6 DEF Send, ReplyLost
  <2>3. \E b \in BOOLEAN : astray' = [astray EXCEPT ![turn[j]] = b]
    <3>1. CASE Send(j)
      <4>1. (astray[turn[j]] \/ Others(j, turn[j]) # {} \/ Dangles(remote[turn[j]]))
              \in BOOLEAN
        OBVIOUS
      <4> QED BY <3>1, <4>1 DEF Send
    <3>2. CASE ReplyLost(j)  BY <3>2 DEF ReplyLost
    <3> QED BY <1>6, <3>1, <3>2
  <2>4. UNCHANGED slipped \/ slipped' \in BOOLEAN  BY <1>6 DEF Send, ReplyLost
  <2> QED BY <1>5, <2>1, <2>2, <2>3, <2>4
<1>7. ASSUME NEW j \in Job, Record(j) \/ RecordRepeat(j)  PROVE HistorySteps
  BY <1>7 DEF Record, RecordRepeat
<1>8. ASSUME NEW t \in Tracker, RefreshFetch(t) \/ Disconnect(t) \/ ForgetTokens(t)
      PROVE  HistorySteps
  BY <1>8 DEF RefreshFetch, Disconnect, ForgetTokens
<1>9. CASE RefreshReplace
  <2>1. fetch.at \in Tracker  BY <1>0, <1>9 DEF RefreshReplace
  <2>2. \E b \in BOOLEAN : astray' = [astray EXCEPT ![fetch.at] = b]
    <3>1. (Outdated \/ (astray[fetch.at] /\ \E j \in Job : PastRead(j, fetch.at)))
            \in BOOLEAN
      OBVIOUS
    <3> QED BY <1>9, <3>1 DEF RefreshReplace
  <2> QED BY <1>9, <2>1, <2>2 DEF RefreshReplace
<1>10. ASSUME NEW t \in Tracker, NEW l \in SiteEdits, SiteEdit(t, l)
       PROVE  HistorySteps
  <2>1. l.progress \in Nat  BY WritesAssumption DEF EntryType
  <2> QED BY <1>10, <2>1 DEF SiteEdit
<1>11. CASE PlayFirst \/ Tick \/ UNCHANGED vars
  BY <1>11 DEF PlayFirst, Tick, vars
<1> QED
  BY <1>1, <1>2, <1>3, <1>4, <1>6, <1>7, <1>8, <1>9, <1>10, <1>11 DEF Next, JobStep

LEMMA HistoriesType ==
  ASSUME TypeOK, HistorySteps
  PROVE  Histories'
<1>0. /\ settled \in [Tracker -> Nat] /\ astray \in [Tracker -> BOOLEAN]
      /\ slipped \in BOOLEAN
      /\ \A t \in Tracker : remote[t].progress \in Nat
  BY DEF TypeOK, RemoteType
<1>1. settled' \in [Tracker -> Nat]
  <2>1. \A t \in Tracker, n \in Nat : Lower(settled[t], n) \in Nat
    BY <1>0 DEF Lower
  <2> QED BY <1>0, <2>1 DEF HistorySteps
<1>2. astray' \in [Tracker -> BOOLEAN]  BY <1>0 DEF HistorySteps
<1>3. slipped' \in BOOLEAN  BY <1>0 DEF HistorySteps
<1> QED BY <1>1, <1>2, <1>3 DEF Histories

LEMMA NextType == TypeOK /\ AtTracker /\ [Next]_vars => TypeOK'
<1> SUFFICES ASSUME TypeOK, AtTracker, [Next]_vars PROVE TypeOK'  OBVIOUS
<1>0. Machine /\ Entries /\ Rest  BY TypeParts
<1>a. Histories'  BY StepHistories, HistoriesType
<1> SUFFICES Machine' /\ Entries' /\ Rest'
  BY <1>a DEF TypeOK, Machine, Entries, Rest, Histories
<1> USE DEF time
<1>1. ASSUME NEW j \in Job, NEW a \in Ask, CallRefused(j, a)
      PROVE  Machine' /\ Entries' /\ Rest'
  <2>1. a \in AskType  BY WritesAssumption
  <2>2. Machine'  BY <1>0, <1>1, <2>1 DEF CallRefused, Machine, Moved, PC
  <2> QED BY <1>0, <1>1, <2>2 DEF CallRefused, store, Entries, Rest
<1>2. ASSUME NEW j \in Job, NEW a \in Ask, Call(j, a)
      PROVE  Machine' /\ Entries' /\ Rest'
  <2>1. a \in AskType  BY WritesAssumption
  <2>2. (a.kind = "mark" /\ finished_again(a.n)) \in BOOLEAN
    BY DEF finished_again
  <2>3. (IF a.kind = "mark" THEN "looked" ELSE "next") \in PC  BY DEF PC
  <2>4. Machine'
    BY <1>0, <1>2, <2>1, <2>2, <2>3 DEF Call, Machine, Moved
  <2> QED BY <1>0, <1>2, <2>4 DEF Call, store, Entries, Rest
<1>3. ASSUME NEW j \in Job, Reserve(j)  PROVE Machine' /\ Entries' /\ Rest'
  <2>1. Machine'
    BY <1>0, <1>3 DEF Reserve, Machine, Moved, PC, Inserted
  <2> QED BY <1>0, <1>3, <2>1 DEF Reserve, store, Entries, Rest
<1>4. ASSUME NEW j \in Job, Start(j)  PROVE Machine' /\ Entries' /\ Rest'
  <2>1. (IF ~again[j] /\ Covered(ask[j]) THEN "refused" ELSE "next") \in PC
    BY DEF PC
  <2>2. Machine'  BY <1>0, <1>4, <2>1 DEF Start, Machine, Moved, call
  <2> QED BY <1>0, <1>4, <2>2 DEF Start, store, Entries, Rest
<1>5. ASSUME NEW j \in Job, Visit(j)  PROVE Machine' /\ Entries' /\ Rest'
  <2>1. Machine'  BY <1>0, <1>5 DEF Visit, Machine, Moved, PC, call
  <2> QED BY <1>0, <1>5, <2>1 DEF Visit, store, Entries, Rest
<1>6. ASSUME NEW j \in Job, Skip(j)  PROVE Machine' /\ Entries' /\ Rest'
  <2>1. Machine'  BY <1>0, <1>6 DEF Skip, Machine, After, Tracker
  <2> QED BY <1>0, <1>6, <2>1 DEF Skip, store, Entries, Rest
<1>7. ASSUME NEW j \in Job, Finish(j)  PROVE Machine' /\ Entries' /\ Rest'
  <2>1. Machine'  BY <1>0, <1>7 DEF Finish, Machine, Moved, PC, Released, call
  <2> QED BY <1>0, <1>7, <2>1 DEF Finish, store, Entries, Rest
<1>8. ASSUME NEW j \in Job, Cancel(j)  PROVE Machine' /\ Entries' /\ Rest'
  <2>1. Machine'
    BY <1>0, <1>8, Blanks DEF Cancel, Machine, Moved, PC, Released
  <2> QED BY <1>0, <1>8, <2>1 DEF Cancel, store, Entries, Rest
<1>9. ASSUME NEW j \in Job, Read(j)
      PROVE  Machine' /\ Entries' /\ Rest'
  <2>0. turn[j] \in Tracker  BY <1>9 DEF AtTracker, Attempting, Read
  <2> DEFINE e == Seen(turn[j], remote[turn[j]])
  <2>1. e \in ReadType  BY <1>0, <2>0, SeenType DEF Entries
  <2>a. UNCHANGED <<slot, ask, again>>  BY <1>9 DEF Read
  <2>b. \/ Resolve(j, "notNewer") \/ Resolve(j, "notListed")
        \/ /\ entry' = [entry EXCEPT ![j] = e]
           /\ Moved(j, "send") /\ UNCHANGED <<turn, out, stamp>>
    BY <1>9 DEF Read
  <2> HIDE DEF e
  <2>2. ASSUME Resolve(j, "notNewer") PROVE Machine'
    BY <1>0, <2>a, <2>2, ResolveType
  <2>3. ASSUME Resolve(j, "notListed") PROVE Machine'
    BY <1>0, <2>a, <2>3, ResolveType
  <2>4. ASSUME entry' = [entry EXCEPT ![j] = e], Moved(j, "send"),
               UNCHANGED <<turn, out, stamp>>
        PROVE  Machine'
    BY <1>0, <2>a, <2>1, <2>4 DEF Machine, Moved, PC
  <2>5. Machine'  BY <2>b, <2>2, <2>3, <2>4
  <2> QED BY <1>0, <1>9, <2>5 DEF Read, store, Entries, Rest
<1>10. ASSUME NEW j \in Job, ReadFails(j)  PROVE Machine' /\ Entries' /\ Rest'
  <2>1. Machine'  BY <1>0, <1>10, ResolveType DEF ReadFails
  <2> QED BY <1>0, <1>10, <2>1 DEF ReadFails, store, Entries, Rest
<1>11. ASSUME NEW j \in Job
       PROVE  TheChange(j) \in ChangeType
  BY <1>0, ChangeOfType DEF Machine, TheChange
<1>12. ASSUME NEW j \in Job, NEW t \in Tracker
       PROVE  LandsOn(j, t) \in RemoteType
  BY <1>0, <1>11, LandedType DEF LandsOn, Entries, Machine, Rest
<1>13. ASSUME NEW j \in Job, Send(j)
       PROVE  Machine' /\ Entries' /\ Rest'
  <2>0. turn[j] \in Tracker  BY <1>13 DEF AtTracker, Attempting, Send
  <2>1. Machine'
    <3>1. PICK s \in {0, clock} : stamp' = [stamp EXCEPT ![j] = s]
      BY <1>13 DEF Send
    <3>2. s \in Nat  BY <1>0 DEF Rest
    <3> QED BY <1>0, <1>13, <3>1, <3>2 DEF Send, Machine, Moved, PC
  <2>2. Entries'  BY <1>0, <2>0, <1>12, <1>13 DEF Send, Lands, store, Entries
  <2> QED BY <1>0, <1>13, <2>1, <2>2 DEF Send, store, Rest
<1>14. ASSUME NEW j \in Job, SendRefused(j)
       PROVE  Machine' /\ Entries' /\ Rest'
  <2>1. Machine'  BY <1>0, <1>14, ResolveType DEF SendRefused
  <2> QED BY <1>0, <1>14, <2>1 DEF SendRefused, store, Entries, Rest
<1>15. ASSUME NEW j \in Job, ReplyLost(j)
       PROVE  Machine' /\ Entries' /\ Rest'
  <2>0. turn[j] \in Tracker  BY <1>15 DEF AtTracker, Attempting, ReplyLost
  <2>1. Machine'  BY <1>0, <1>15, ResolveType DEF ReplyLost
  <2>2. Entries'  BY <1>0, <2>0, <1>12, <1>15 DEF ReplyLost, Lands, store, Entries
  <2> QED BY <1>0, <1>15, <2>1, <2>2 DEF ReplyLost, store, Rest
<1>16. ASSUME NEW j \in Job, Record(j)
       PROVE  Machine' /\ Entries' /\ Rest'
  <2>0. turn[j] \in Tracker  BY <1>16 DEF AtTracker, Attempting, Record
  <2> DEFINE row == Patched(ask[j], TheChange(j), entry[j], cache[turn[j]], stamp[j])
  <2>1. row \in RowType
    BY <1>0, <2>0, <1>11, PatchedType DEF Machine, Entries
  <2>2. cache' = [cache EXCEPT ![turn[j]] = row]  BY <1>16 DEF Record
  <2>3. Entries'
    <3> HIDE DEF row
    <3> QED BY <1>0, <1>16, <2>1, <2>2 DEF Entries, Record
  <2>a. UNCHANGED <<slot, ask, again>>  BY <1>16 DEF Record
  <2>b. \/ Moved(j, "repeat") /\ UNCHANGED <<turn, out, entry, stamp>>
        \/ Resolve(j, "ok")
    BY <1>16 DEF Record
  <2>4. ASSUME Moved(j, "repeat"), UNCHANGED <<turn, out, entry, stamp>>
        PROVE  Machine'
    BY <1>0, <2>a, <2>4 DEF Machine, Moved, PC
  <2>5. ASSUME Resolve(j, "ok") PROVE Machine'
    BY <1>0, <2>a, <2>5, ResolveType
  <2>6. Machine'  BY <2>b, <2>4, <2>5
  <2> QED BY <1>0, <1>16, <2>3, <2>6 DEF Record, Rest
<1>17. ASSUME NEW j \in Job, RecordRepeat(j)
       PROVE  Machine' /\ Entries' /\ Rest'
  <2>0. turn[j] \in Tracker  BY <1>17 DEF AtTracker, Attempting, RecordRepeat
  <2>1. Machine'  BY <1>0, <1>17, ResolveType DEF RecordRepeat
  <2> DEFINE row == patch_repeat(cache[turn[j]], entry[j].repeat + 1)
  <2>2. entry[j].repeat + 1 \in Nat  BY <1>0 DEF Machine, ReadType
  <2>3. row \in RowType
    BY <1>0, <2>0, <2>2, PatchRepeatType DEF Entries, Rest
  <2>4. cache' = [cache EXCEPT ![turn[j]] = row]  BY <1>17 DEF RecordRepeat
  <2>5. Entries'
    <3> HIDE DEF row
    <3> QED BY <1>0, <1>17, <2>3, <2>4 DEF Entries, RecordRepeat
  <2> QED BY <1>0, <1>17, <2>1, <2>5 DEF RecordRepeat, Rest
<1>18. ASSUME NEW t \in Tracker, RefreshFetch(t)
       PROVE  Machine' /\ Entries' /\ Rest'
  <2>1. PICK s \in {0, remote[t].at} :
          fetch' = [at |-> t, list |-> [remote[t] EXCEPT !.at = s]]
    BY <1>18 DEF RefreshFetch
  <2>2. [remote[t] EXCEPT !.at = s] \in RemoteType
    BY <1>0 DEF Entries, RemoteType
  <2>3. fetch' \in [at: Tracker \cup {None}, list: RemoteType]  BY <2>1, <2>2
  <2> QED BY <1>0, <1>18, <2>3 DEF RefreshFetch, call, store, Machine, Entries, Rest
<1>19. ASSUME RefreshReplace  PROVE Machine' /\ Entries' /\ Rest'
  <2>1. fetch.at \in Tracker /\ fetch.list \in RemoteType
    BY <1>0, <1>19 DEF RefreshReplace, Rest
  <2>2. replace(fetch.at) \in RowType
    <3>1. cache[fetch.at].at \in Nat  BY <1>0, <2>1 DEF Entries, RowType
    <3> QED BY <2>1, <3>1, RowOfType DEF replace
  <2>3. Entries'
    <3> DEFINE row == replace(fetch.at)
    <3>1. cache' = [cache EXCEPT ![fetch.at] = row]  BY <1>19 DEF RefreshReplace
    <3>2. row \in RowType  BY <2>2
    <3> HIDE DEF row
    <3> QED BY <1>0, <1>19, <2>1, <3>1, <3>2 DEF Entries, RefreshReplace
  <2>4. Rest'  BY <1>0, <1>19, Blanks DEF RefreshReplace, Rest
  <2> QED BY <1>0, <1>19, <2>3, <2>4 DEF RefreshReplace, call, Machine
<1>20. ASSUME NEW t \in Tracker, Disconnect(t)
       PROVE  Machine' /\ Entries' /\ Rest'
  BY <1>0, <1>20, Blanks DEF Disconnect, call, Machine, Entries, Rest
<1>21. ASSUME NEW t \in Tracker, ForgetTokens(t)
       PROVE  Machine' /\ Entries' /\ Rest'
  BY <1>0, <1>21 DEF ForgetTokens, call, store, Machine, Entries, Rest
<1>22. ASSUME NEW t \in Tracker, NEW l \in SiteEdits, SiteEdit(t, l)
       PROVE  Machine' /\ Entries' /\ Rest'
  <2>1. l \in EntryType  BY WritesAssumption
  <2>2. Held(t, l, clock) \in RemoteType  BY <1>0, <2>1, HeldType DEF Rest
  <2>4. Entries'  BY <1>0, <1>22, <2>2 DEF SiteEdit, store, Entries
  <2> QED BY <1>0, <1>22, <2>4 DEF SiteEdit, call, store, Machine, Rest
<1>23. ASSUME PlayFirst  PROVE Machine' /\ Entries' /\ Rest'
  BY <1>0, <1>23 DEF PlayFirst, call, store, Machine, Entries, Rest
<1>24. ASSUME Tick  PROVE Machine' /\ Entries' /\ Rest'
  BY <1>0, <1>24 DEF Tick, call, store, Machine, Entries, Rest
<1>25. CASE UNCHANGED vars
  BY <1>0, <1>25 DEF vars, Machine, Entries, Rest
<1> QED
  BY <1>1, <1>2, <1>3, <1>4, <1>5, <1>6, <1>7, <1>8, <1>9, <1>10, <1>13, <1>14,
     <1>15, <1>16, <1>17, <1>18, <1>19, <1>20, <1>21, <1>22, <1>23, <1>24, <1>25
     DEF Next, JobStep

------------------------------------------------------------------------------
(* Where a job stands, and what it has answered.                            *)

Begun == {"read", "send", "record", "repeat", "next"}
NotVisiting == {"idle", "looked", "held"}
Stand ==
  \A j \in Job :
    /\ pc[j] \in NotVisiting => turn[j] = "anilist"
    /\ pc[j] \in Attempting => turn[j] \in Tracker
    /\ pc[j] = "done" => turn[j] = None

\* The trackers before u in the order a job visits them.
Behind(t, u) == u = None \/ (u = "mal" /\ t = "anilist")
Passed ==
  \A j \in Job : pc[j] \in Running \cup {"done"} =>
    \A t \in Carried : connected[t] /\ Behind(t, turn[j]) => out[j][t] # None

\* Every step, as far as one call's place goes.
Stay == UNCHANGED <<slot, pc, again, turn, out>>
          /\ \A t \in Tracker : connected'[t] => connected[t]
Looks(j) == /\ pc[j] = "idle" /\ UNCHANGED <<slot, turn, out, connected>>
            /\ \/ pc' = [pc EXCEPT ![j] = "refused"] /\ UNCHANGED again
               \/ \E b \in BOOLEAN : /\ again' = [again EXCEPT ![j] = b]
                                     /\ pc' = [pc EXCEPT ![j] = "looked"]
               \/ /\ again' = [again EXCEPT ![j] = FALSE]
                  /\ pc' = [pc EXCEPT ![j] = "next"]
Reserves(j) == /\ pc[j] = "looked" /\ UNCHANGED <<turn, out, connected>>
               /\ again' = [again EXCEPT ![j] = again[j] /\ ~slot]
               /\ slot' = (slot \/ again[j])
               /\ pc' = [pc EXCEPT ![j] = "held"]
Starts(j) == /\ pc[j] = "held" /\ UNCHANGED <<slot, again, turn, out, connected>>
             /\ \/ ~again[j] /\ pc' = [pc EXCEPT ![j] = "refused"]
                \/ pc' = [pc EXCEPT ![j] = "next"]
Works(j) == /\ pc[j] \in Begun /\ turn[j] \in Tracker
            /\ UNCHANGED <<slot, again, turn, out, connected>>
            /\ \E w \in Attempting : pc' = [pc EXCEPT ![j] = w]
Skips(j) == /\ pc[j] = "next" /\ turn[j] \in Tracker
            /\ UNCHANGED <<slot, again, pc, out, connected>>
            /\ turn[j] \notin Carried \/ ~connected[turn[j]]
            /\ turn' = [turn EXCEPT ![j] = After(turn[j])]
Resolves(j) == /\ pc[j] \in Attempting /\ UNCHANGED <<slot, again, connected>>
               /\ pc' = [pc EXCEPT ![j] = "next"]
               /\ turn' = [turn EXCEPT ![j] = After(turn[j])]
               /\ \E o \in {"ok", "notNewer", "notListed", "failed"} :
                    out' = [out EXCEPT ![j][turn[j]] = o]
Leaves(j) == /\ pc[j] \in Begun /\ UNCHANGED <<again, turn, out, connected>>
             /\ slot' = (slot /\ ~again[j])
             /\ \/ turn[j] = None /\ pc' = [pc EXCEPT ![j] = "done"]
                \/ pc' = [pc EXCEPT ![j] = "cancelled"]

LEMMA StepKinds ==
  ASSUME TypeOK, Stand, [Next]_vars
  PROVE  \/ Stay
         \/ \E j \in Job : \/ Looks(j) \/ Reserves(j) \/ Starts(j) \/ Works(j)
                           \/ Skips(j) \/ Resolves(j) \/ Leaves(j)
<1>1. ASSUME NEW j \in Job, NEW a \in Ask, CallRefused(j, a)  PROVE Looks(j)
  BY <1>1 DEF CallRefused, Looks, Moved, store
<1>2. ASSUME NEW j \in Job, NEW a \in Ask, Call(j, a)  PROVE Looks(j)
  <2>1. CASE a.kind = "mark"
    <3>1. finished_again(a.n) \in BOOLEAN  BY DEF finished_again
    <3> QED BY <1>2, <2>1, <3>1 DEF Call, Looks, Moved, store
  <2>2. CASE a.kind # "mark"
    BY <1>2, <2>2 DEF Call, Looks, Moved, store
  <2> QED BY <2>1, <2>2
<1>3. ASSUME NEW j \in Job, Reserve(j)  PROVE Reserves(j)
  BY <1>3 DEF Reserve, Reserves, Inserted, Moved, store
<1>4. ASSUME NEW j \in Job, Start(j)  PROVE Starts(j)
  BY <1>4 DEF Start, Starts, Moved, store, call
<1>5. ASSUME NEW j \in Job, Visit(j)  PROVE Works(j)
  BY <1>5 DEF Visit, Works, Moved, store, call, TypeOK, Begun, Attempting
<1>6. ASSUME NEW j \in Job, Skip(j)  PROVE Skips(j)
  BY <1>6 DEF Skip, Skipped, Skips, store, TypeOK
<1>7. ASSUME NEW j \in Job, Finish(j)  PROVE Leaves(j)
  BY <1>7 DEF Finish, Leaves, Released, Moved, store, call, Begun
<1>8. ASSUME NEW j \in Job, Cancel(j)  PROVE Leaves(j)
  BY <1>8 DEF Cancel, Leaves, Released, Moved, store, Begun, Running
<1>9. ASSUME NEW j \in Job, NEW o \in {"ok", "notNewer", "notListed", "failed"},
             pc[j] \in Attempting, Resolve(j, o), UNCHANGED <<slot, again, connected>>
      PROVE  Resolves(j)
  BY <1>9 DEF Resolve, Resolves, Moved
<1>10. ASSUME NEW j \in Job, pc[j] \in Attempting, NEW w \in Attempting,
              Moved(j, w), UNCHANGED <<slot, again, turn, out, connected>>
       PROVE  Works(j)
  BY <1>10 DEF Works, Moved, Stand, Begun, Attempting
<1>11. ASSUME NEW j \in Job, Read(j)  PROVE Resolves(j) \/ Works(j)
  <2>1. pc[j] \in Attempting /\ UNCHANGED <<slot, again, connected>>
    BY <1>11 DEF Read, Attempting, store
  <2>2. \/ Resolve(j, "notNewer") \/ Resolve(j, "notListed")
        \/ Moved(j, "send") /\ UNCHANGED <<turn, out>>
    BY <1>11 DEF Read
  <2> QED BY <2>1, <2>2, <1>9, <1>10 DEF Attempting
<1>12. ASSUME NEW j \in Job, ReadFails(j) \/ SendRefused(j) \/ ReplyLost(j)
       PROVE  Resolves(j)
  <2>1. pc[j] \in Attempting /\ Resolve(j, "failed")
          /\ UNCHANGED <<slot, again, connected>>
    BY <1>12 DEF ReadFails, SendRefused, ReplyLost, Attempting, store
  <2> QED BY <2>1, <1>9
<1>13. ASSUME NEW j \in Job, Send(j)  PROVE Works(j)
  <2>1. pc[j] \in Attempting /\ Moved(j, "record")
          /\ UNCHANGED <<slot, again, turn, out, connected>>
    BY <1>13 DEF Send, Attempting, store
  <2> QED BY <2>1, <1>10 DEF Attempting
<1>14. ASSUME NEW j \in Job, Record(j)  PROVE Resolves(j) \/ Works(j)
  <2>1. pc[j] \in Attempting /\ UNCHANGED <<slot, again, connected>>
    BY <1>14 DEF Record, Attempting
  <2>2. \/ Moved(j, "repeat") /\ UNCHANGED <<turn, out>>
        \/ Resolve(j, "ok")
    BY <1>14 DEF Record
  <2> QED BY <2>1, <2>2, <1>9, <1>10 DEF Attempting
<1>15. ASSUME NEW j \in Job, RecordRepeat(j)  PROVE Resolves(j)
  <2>1. pc[j] \in Attempting /\ Resolve(j, "ok")
          /\ UNCHANGED <<slot, again, connected>>
    BY <1>15 DEF RecordRepeat, Attempting
  <2> QED BY <2>1, <1>9
<1>16. ASSUME NEW t \in Tracker, RefreshFetch(t) \/ ForgetTokens(t)  PROVE Stay
  BY <1>16 DEF RefreshFetch, ForgetTokens, Stay, call, store
<1>17. ASSUME NEW t \in Tracker, Disconnect(t)  PROVE Stay
  BY <1>17 DEF Disconnect, Stay, call, TypeOK
<1>18. ASSUME NEW t \in Tracker, NEW l \in SiteEdits, SiteEdit(t, l)  PROVE Stay
  BY <1>18 DEF SiteEdit, Stay, call, store
<1>19. ASSUME RefreshReplace \/ PlayFirst \/ Tick  PROVE Stay
  BY <1>19 DEF RefreshReplace, PlayFirst, Tick, Stay, call, store
<1>20. CASE UNCHANGED vars
  BY <1>20 DEF vars, Stay
<1> QED
  BY <1>1, <1>2, <1>3, <1>4, <1>5, <1>6, <1>7, <1>8, <1>11, <1>12, <1>13, <1>14,
     <1>15, <1>16, <1>17, <1>18, <1>19, <1>20 DEF Next, JobStep

LEMMA StandStep ==
  ASSUME TypeOK, Stand, [Next]_vars
  PROVE  Stand'
<1> USE DEF Stand, NotVisiting, Attempting, Tracker
<1>0. pc \in [Job -> PC] /\ turn \in [Job -> Tracker \cup {None}]
  BY DEF TypeOK
<1>1. CASE Stay  BY <1>1 DEF Stay
<1>2. ASSUME NEW j \in Job, Looks(j)  PROVE Stand'
  BY <1>0, <1>2 DEF Looks
<1>3. ASSUME NEW j \in Job, Reserves(j)  PROVE Stand'
  BY <1>0, <1>3 DEF Reserves
<1>4. ASSUME NEW j \in Job, Starts(j)  PROVE Stand'
  BY <1>0, <1>4 DEF Starts
<1>5. ASSUME NEW j \in Job, Works(j)  PROVE Stand'
  BY <1>0, <1>5 DEF Works
<1>6. ASSUME NEW j \in Job, Skips(j)  PROVE Stand'
  BY <1>0, <1>6 DEF Skips
<1>7. ASSUME NEW j \in Job, Resolves(j)  PROVE Stand'
  BY <1>0, <1>7 DEF Resolves
<1>8. ASSUME NEW j \in Job, Leaves(j)  PROVE Stand'
  BY <1>0, <1>8 DEF Leaves
<1> QED BY StepKinds, <1>1, <1>2, <1>3, <1>4, <1>5, <1>6, <1>7, <1>8

LEMMA PassedStep ==
  ASSUME TypeOK, Stand, Passed, [Next]_vars
  PROVE  Passed'
<1> USE DEF Passed, Running
<1>0. /\ pc \in [Job -> PC] /\ turn \in [Job -> Tracker \cup {None}]
      /\ out \in [Job -> [Tracker -> {None, "ok", "notNewer", "notListed", "failed"}]]
      /\ Carried \subseteq Tracker
  BY WritesAssumption DEF TypeOK
<1>1. CASE Stay  BY <1>0, <1>1 DEF Stay
<1>2. ASSUME NEW j \in Job, Looks(j)  PROVE Passed'
  <2>1. turn[j] = "anilist"  BY <1>2 DEF Looks, Stand, NotVisiting
  <2>2. \A t : ~Behind(t, turn[j])  BY <2>1 DEF Behind, None
  <2> QED BY <1>0, <1>2, <2>2 DEF Looks
<1>3. ASSUME NEW j \in Job, Reserves(j)  PROVE Passed'
  BY <1>0, <1>3 DEF Reserves
<1>4. ASSUME NEW j \in Job, Starts(j)  PROVE Passed'
  <2>1. turn[j] = "anilist"  BY <1>4 DEF Starts, Stand, NotVisiting
  <2>2. \A t : ~Behind(t, turn[j])  BY <2>1 DEF Behind, None
  <2> QED BY <1>0, <1>4, <2>2 DEF Starts
<1>5. ASSUME NEW j \in Job, Works(j)  PROVE Passed'
  BY <1>0, <1>5 DEF Works, Begun
<1>9. ASSUME NEW t \in Tracker, NEW u \in Tracker, Behind(t, After(u))
      PROVE  Behind(t, u) \/ t = u
  BY <1>9 DEF Behind, After, Tracker, None
<1>6. ASSUME NEW j \in Job, Skips(j)  PROVE Passed'
  BY <1>0, <1>6, <1>9 DEF Skips
<1>7. ASSUME NEW j \in Job, Resolves(j)  PROVE Passed'
  <2>1. turn[j] \in Tracker  BY <1>7 DEF Resolves, Stand
  <2>2. PICK o \in {"ok", "notNewer", "notListed", "failed"} :
          out' = [out EXCEPT ![j][turn[j]] = o]
    BY <1>7 DEF Resolves
  <2>3. out'[j][turn[j]] # None  BY <1>0, <2>1, <2>2 DEF None
  <2>4. \A t \in Tracker : t # turn[j] => out'[j][t] = out[j][t]
    BY <1>0, <2>2
  <2>5. \A k \in Job : k # j => out'[k] = out[k]  BY <1>0, <2>2
  <2>6. pc[j] \in Running  BY <1>7 DEF Resolves, Attempting
  <2>7. /\ \A k \in Job : k # j => pc'[k] = pc[k] /\ turn'[k] = turn[k]
        /\ turn'[j] = After(turn[j]) /\ connected' = connected
    BY <1>0, <1>7 DEF Resolves
  <2>8. SUFFICES ASSUME NEW k \in Job, pc'[k] \in Running \cup {"done"},
                        NEW t \in Carried, connected'[t], Behind(t, turn'[k])
                 PROVE  out'[k][t] # None
    OBVIOUS
  <2>9. CASE k = j  BY <1>0, <1>9, <2>1, <2>3, <2>4, <2>6, <2>7, <2>8, <2>9
  <2>10. CASE k # j  BY <2>5, <2>7, <2>8, <2>10
  <2> QED BY <2>9, <2>10
<1>8. ASSUME NEW j \in Job, Leaves(j)  PROVE Passed'
  BY <1>0, <1>8 DEF Leaves, Begun
<1> QED BY StepKinds, <1>1, <1>2, <1>3, <1>4, <1>5, <1>6, <1>7, <1>8

LEMMA SlotStep ==
  ASSUME TypeOK, Stand, SlotHeldByOne, [Next]_vars
  PROVE  SlotHeldByOne'
<1> USE DEF SlotHeldByOne, Alive, Running
<1>0. pc \in [Job -> PC] /\ again \in [Job -> BOOLEAN] /\ slot \in BOOLEAN
  BY DEF TypeOK
<1>1. CASE Stay  BY <1>1 DEF Stay
<1>2. ASSUME NEW j \in Job, Looks(j)  PROVE SlotHeldByOne'
  <2>1. CASE pc' = [pc EXCEPT ![j] = "refused"] /\ UNCHANGED again
    BY <1>0, <1>2, <2>1 DEF Looks
  <2>2. ASSUME NEW b \in BOOLEAN, again' = [again EXCEPT ![j] = b],
               pc' = [pc EXCEPT ![j] = "looked"]
        PROVE  SlotHeldByOne'
    BY <1>0, <1>2, <2>2 DEF Looks
  <2>3. CASE /\ again' = [again EXCEPT ![j] = FALSE]
             /\ pc' = [pc EXCEPT ![j] = "next"]
    BY <1>0, <1>2, <2>3 DEF Looks
  <2> QED BY <1>2, <2>1, <2>2, <2>3 DEF Looks
<1>3. ASSUME NEW j \in Job, Reserves(j)  PROVE SlotHeldByOne'
  BY <1>0, <1>3 DEF Reserves
<1>4. ASSUME NEW j \in Job, Starts(j)  PROVE SlotHeldByOne'
  BY <1>0, <1>4 DEF Starts
<1>5. ASSUME NEW j \in Job, Works(j)  PROVE SlotHeldByOne'
  BY <1>0, <1>5 DEF Works, Begun, Attempting
<1>6. ASSUME NEW j \in Job, Skips(j)  PROVE SlotHeldByOne'
  BY <1>0, <1>6 DEF Skips
<1>7. ASSUME NEW j \in Job, Resolves(j)  PROVE SlotHeldByOne'
  BY <1>0, <1>7 DEF Resolves, Attempting
<1>8. ASSUME NEW j \in Job, Leaves(j)  PROVE SlotHeldByOne'
  <2>1. PICK w \in {"done", "cancelled"} : pc' = [pc EXCEPT ![j] = w]
    BY <1>8 DEF Leaves
  <2>2. ~Alive(j)'  BY <1>0, <2>1
  <2>3. \A k \in Job : k # j => (Alive(k)' <=> Alive(k))  BY <1>0, <2>1
  <2>4. Alive(j) /\ again' = again /\ slot' = (slot /\ ~again[j])
    BY <1>8 DEF Leaves, Begun
  <2> HIDE DEF Alive
  <2>5. CASE again[j]  BY <1>0, <2>2, <2>3, <2>4, <2>5
  <2>6. CASE ~again[j]  BY <1>0, <2>2, <2>3, <2>4, <2>6
  <2> QED BY <2>5, <2>6
<1> QED BY StepKinds, <1>1, <1>2, <1>3, <1>4, <1>5, <1>6, <1>7, <1>8

------------------------------------------------------------------------------
(* The theorems.                                                            *)

\* The inductive invariant.
IInv == TypeOK /\ Stand /\ Passed /\ SlotHeldByOne

LEMMA InitInv == Init => IInv
<1> SUFFICES ASSUME Init PROVE IInv  OBVIOUS
<1>1. TypeOK  BY InitType
<1>2. Stand  BY DEF Init, Stand, Attempting
<1>3. Passed  BY DEF Init, Passed, Running
<1>4. SlotHeldByOne  BY DEF Init, SlotHeldByOne, Alive, Running
<1> QED BY <1>1, <1>2, <1>3, <1>4 DEF IInv

LEMMA StepInv == IInv /\ [Next]_vars => IInv'
<1> SUFFICES ASSUME IInv, [Next]_vars PROVE IInv'  OBVIOUS
<1>1. AtTracker  BY DEF IInv, Stand, AtTracker
<1>2. TypeOK'  BY <1>1, NextType DEF IInv
<1>3. Stand' /\ Passed' /\ SlotHeldByOne'
  BY StandStep, PassedStep, SlotStep DEF IInv
<1> QED BY <1>2, <1>3 DEF IInv

LEMMA SpecInv == Spec => []IInv
BY InitInv, StepInv, PTL DEF Spec

\* Every entry, row, read and outcome is one, whatever is sent where.
THEOREM WritesTypeOK == Spec => []TypeOK
<1>1. IInv => TypeOK  BY DEF IInv
<1> QED BY SpecInv, <1>1, PTL

\* The rewatch slot is neither shared nor leaked (REWATCHING, RewatchSlot).
THEOREM WritesSlotHeldByOne == Spec => []SlotHeldByOne
<1>1. IInv => SlotHeldByOne  BY DEF IInv
<1> QED BY SpecInv, <1>1, PTL

\* A job run to its end has an outcome for every tracker the match carries
\* that is still connected, the other's failure notwithstanding (write_all).
THEOREM WritesEachTrackerAnswered == Spec => []EachTrackerAnswered
<1>1. IInv => EachTrackerAnswered
  BY DEF IInv, Stand, Passed, Behind, EachTrackerAnswered
<1> QED BY SpecInv, <1>1, PTL

------------------------------------------------------------------------------
(* A row's stamp.                                                           *)

\* A reply's stamp is recorded, and one it lacks leaves the row's (COALESCE in
\* record_progress, record_score, record_notes).
LEMMA PatchedAt ==
  ASSUME NEW a \in AskType, NEW c, NEW e, NEW row \in RowType, NEW s
  PROVE  Patched(a, c, e, row, s).at = IF s = 0 THEN row.at ELSE s
<1>1. \A n, x : patch_progress(row, s, n, x).at = Stamped(row, s)
  BY DEF patch_progress, RowType
<1>2. \A x : patch_score(row, s, x).at = Stamped(row, s)
  BY DEF patch_score, RowType
<1>3. patch_notes(row, s).at = Stamped(row, s)
  BY DEF patch_notes, RowType
<1> QED BY <1>1, <1>2, <1>3, PatchedCases DEF Stamped

LEMMA PatchRepeatStamp ==
  ASSUME NEW row \in RowType, NEW n, row.at # 0, clock \in Nat
  PROVE  patch_repeat(row, n).at # 0
BY DEF patch_repeat, Higher, RowType

\* Only four steps touch a row.

LEMMA RowsStay ==
  ASSUME [Next]_vars
  PROVE  \/ UNCHANGED cache
         \/ \E j \in Job : Record(j) \/ RecordRepeat(j)
         \/ RefreshReplace
         \/ \E t \in Tracker : Disconnect(t)
<1>1. ASSUME NEW j \in Job, NEW a \in Ask, Call(j, a) \/ CallRefused(j, a)
      PROVE  UNCHANGED cache
  BY <1>1 DEF Call, CallRefused, store
<1>2. ASSUME NEW j \in Job,
             \/ Reserve(j) \/ Start(j) \/ Visit(j) \/ Skip(j) \/ Finish(j)
             \/ Cancel(j)
      PROVE  UNCHANGED cache
  BY <1>2 DEF Reserve, Start, Visit, Skip, Finish, Cancel, store
<1>3. ASSUME NEW j \in Job,
             \/ Read(j) \/ ReadFails(j) \/ Send(j) \/ SendRefused(j)
             \/ ReplyLost(j)
      PROVE  UNCHANGED cache
  BY <1>3 DEF Read, ReadFails, Send, SendRefused, ReplyLost, store
<1>4. ASSUME NEW t \in Tracker, RefreshFetch(t) \/ ForgetTokens(t)
      PROVE  UNCHANGED cache
  BY <1>4 DEF RefreshFetch, ForgetTokens, store
<1>5. ASSUME NEW t \in Tracker, NEW l \in SiteEdits, SiteEdit(t, l)
      PROVE  UNCHANGED cache
  BY <1>5 DEF SiteEdit, store
<1>6. CASE PlayFirst \/ Tick \/ UNCHANGED vars
  BY <1>6 DEF PlayFirst, Tick, store, vars
<1> QED BY <1>1, <1>2, <1>3, <1>4, <1>5, <1>6 DEF Next, JobStep

\* Once known, a row's stamp is kept for as long as the row stands, by
\* replies and refreshes that carry none, any number of calls and faults
\* (replace, patch_progress).
THEOREM WritesStampKept == Spec => StampKept
<1> DEFINE Kept(t) == cache[t].held /\ cache[t].at # 0 /\ cache'[t].held
                        => cache'[t].at # 0
<1>1. ASSUME IInv, [Next]_vars, NEW t \in Tracker  PROVE Kept(t)
  <2>0. TypeOK /\ Stand  BY <1>1 DEF IInv
  <2>1. cache \in [Tracker -> RowType] /\ clock \in Nat  BY <2>0 DEF TypeOK
  <2>2. CASE UNCHANGED cache  BY <2>2
  <2>3. ASSUME NEW j \in Job, Record(j)  PROVE Kept(t)
    <3>1. turn[j] \in Tracker  BY <2>0, <2>3 DEF Record, Stand, Attempting
    <3>2. PICK u \in Tracker : u = turn[j]  BY <3>1
    <3> DEFINE row == Patched(ask[j], TheChange(j), entry[j], cache[u], stamp[j])
    <3>3. cache' = [cache EXCEPT ![u] = row]  BY <2>3, <3>2 DEF Record
    <3>4. cache[u] \in RowType /\ ask[j] \in AskType /\ stamp[j] \in Nat
      BY <2>0 DEF TypeOK
    <3>5. cache[u].at # 0 => row.at # 0  BY <3>4, PatchedAt
    <3> HIDE DEF row
    <3> QED BY <2>1, <3>3, <3>5
  <2>4. ASSUME NEW j \in Job, RecordRepeat(j)  PROVE Kept(t)
    <3>1. turn[j] \in Tracker  BY <2>0, <2>4 DEF RecordRepeat, Stand, Attempting
    <3>2. PICK u \in Tracker : u = turn[j]  BY <3>1
    <3> DEFINE row == patch_repeat(cache[u], entry[j].repeat + 1)
    <3>3. cache' = [cache EXCEPT ![u] = row]  BY <2>4, <3>2 DEF RecordRepeat
    <3>4. cache[u] \in RowType  BY <2>1
    <3>5. cache[u].at # 0 => row.at # 0  BY <2>1, <3>4, PatchRepeatStamp
    <3> HIDE DEF row
    <3> QED BY <2>1, <3>3, <3>5
  <2>5. CASE RefreshReplace
    <3>1. fetch.at \in Tracker  BY <2>0, <2>5 DEF RefreshReplace, TypeOK
    <3>2. PICK u \in Tracker : u = fetch.at  BY <3>1
    <3>3. cache' = [cache EXCEPT ![u] = RowOf(u, fetch.list, cache[u].at)]
      BY <2>5, <3>2 DEF RefreshReplace, replace
    <3>4. cache[u].at # 0 /\ RowOf(u, fetch.list, cache[u].at).held
            => RowOf(u, fetch.list, cache[u].at).at # 0
      BY DEF RowOf
    <3> QED BY <2>1, <3>3, <3>4
  <2>6. ASSUME NEW u \in Tracker, Disconnect(u)  PROVE Kept(t)
    BY <2>1, <2>6 DEF Disconnect, NoRow
  <2> QED BY <1>1, <2>2, <2>3, <2>4, <2>5, <2>6, RowsStay
<1>2. IInv /\ [Next]_vars => [\A t \in Tracker : Kept(t)]_vars
  BY <1>1
<1> QED BY SpecInv, <1>2, PTL DEF Spec, StampKept


------------------------------------------------------------------------------
(* Whose step it is.                                                        *)

\* The other calls and jobs are left as they are.
Apart(j) ==
  \A k \in Job \ {j} :
    /\ pc'[k] = pc[k] /\ ask'[k] = ask[k] /\ again'[k] = again[k]
    /\ turn'[k] = turn[k] /\ entry'[k] = entry[k] /\ stamp'[k] = stamp[k]

\* A job's own step leaves the others alone.
LEMMA ResolveApart ==
  ASSUME TypeOK, NEW j \in Job, NEW o, Resolve(j, o), UNCHANGED <<ask, again>>
  PROVE  Apart(j)
BY DEF Resolve, Moved, Apart, TypeOK

LEMMA JobStepApart ==
  ASSUME TypeOK, NEW j \in Job, JobStep(j) \/ Cancel(j)
  PROVE  Apart(j) /\ pc[j] \in UnderWay
<1> USE DEF Apart, Moved, UnderWay, Running
<1>1. CASE Reserve(j)  BY <1>1 DEF Reserve, TypeOK
<1>2. CASE Start(j) \/ Visit(j) \/ Finish(j)
  BY <1>2 DEF Start, Visit, Finish, call, TypeOK
<1>3. CASE Skip(j)  BY <1>3 DEF Skip, TypeOK
<1>4. CASE Read(j)
  <2>1. CASE Resolve(j, "notNewer") \/ Resolve(j, "notListed")
    BY <1>4, <2>1, ResolveApart DEF Read
  <2>2. CASE /\ entry' = [entry EXCEPT ![j] = Seen(turn[j], remote[turn[j]])]
             /\ Moved(j, "send") /\ UNCHANGED <<turn, stamp>>
    BY <1>4, <2>2 DEF Read, TypeOK
  <2> QED BY <1>4, <2>1, <2>2 DEF Read
<1>5. CASE ReadFails(j) \/ SendRefused(j) \/ ReplyLost(j) \/ RecordRepeat(j)
  BY <1>5, ResolveApart DEF ReadFails, SendRefused, ReplyLost, RecordRepeat
<1>6. CASE Send(j)
  <2>1. PICK s : stamp' = [stamp EXCEPT ![j] = s]  BY <1>6 DEF Send
  <2> QED BY <1>6, <2>1 DEF Send, TypeOK
<1>7. CASE Record(j)
  <2>1. CASE Resolve(j, "ok")  BY <1>7, <2>1, ResolveApart DEF Record
  <2>2. CASE Moved(j, "repeat") /\ UNCHANGED <<turn, entry, stamp>>
    BY <1>7, <2>2 DEF Record, TypeOK
  <2> QED BY <1>7, <2>1, <2>2 DEF Record
<1>8. CASE Cancel(j)  BY <1>8 DEF Cancel, TypeOK
<1> QED BY <1>1, <1>2, <1>3, <1>4, <1>5, <1>6, <1>7, <1>8 DEF JobStep

LEMMA CallApart ==
  ASSUME TypeOK, NEW j \in Job, NEW a, Call(j, a) \/ CallRefused(j, a)
  PROVE  Apart(j)
BY DEF Call, CallRefused, Apart, Moved, TypeOK

\* The steps that are neither a call's nor a job's.
Beside ==
  \/ \E t \in Tracker : RefreshFetch(t) \/ Disconnect(t) \/ ForgetTokens(t)
  \/ \E t \in Tracker, l \in SiteEdits : SiteEdit(t, l)
  \/ RefreshReplace \/ PlayFirst \/ Tick \/ UNCHANGED vars

LEMMA BesideApart ==
  ASSUME Beside
  PROVE  UNCHANGED <<slot, pc, ask, again, turn, entry, stamp, out>>
<1>1. ASSUME NEW t \in Tracker, NEW l \in SiteEdits, SiteEdit(t, l)
      PROVE  UNCHANGED <<slot, pc, ask, again, turn, entry, stamp, out>>
  BY <1>1 DEF SiteEdit, call
<1> QED BY <1>1 DEF Beside, RefreshFetch, Disconnect, ForgetTokens,
                    RefreshReplace, PlayFirst, Tick, vars, call

LEMMA ThreeKinds ==
  ASSUME [Next]_vars
  PROVE  \/ Beside
         \/ \E j \in Job, a \in Ask : Call(j, a) \/ CallRefused(j, a)
         \/ \E j \in Job : JobStep(j) \/ Cancel(j)
BY DEF Next, Beside

\* A job goes to send only by reading (attempt).
LEMMA ReadsFirst ==
  ASSUME TypeOK, NEW j \in Job, JobStep(j) \/ Cancel(j), pc'[j] = "send"
  PROVE  Read(j) /\ turn'[j] = turn[j]
           /\ entry'[j] = Seen(turn[j], remote[turn[j]])
<1>0. pc \in [Job -> PC] /\ turn \in [Job -> Tracker \cup {None}]
        /\ entry \in [Job -> ReadType]
  BY DEF TypeOK
<1>1. \A w : Moved(j, w) => pc'[j] = w  BY <1>0 DEF Moved
<1>2. \A o : ~Resolve(j, o)  BY <1>1 DEF Resolve
<1>3. CASE Read(j)
  BY <1>0, <1>2, <1>3 DEF Read
<1>4. CASE Reserve(j) \/ Start(j) \/ Visit(j) \/ Finish(j) \/ Cancel(j)
  BY <1>1, <1>4 DEF Reserve, Start, Visit, Finish, Cancel
<1>5. CASE Skip(j)  BY <1>5 DEF Skip
<1>6. CASE ReadFails(j) \/ SendRefused(j) \/ ReplyLost(j) \/ RecordRepeat(j)
  BY <1>2, <1>6 DEF ReadFails, SendRefused, ReplyLost, RecordRepeat
<1>7. CASE Send(j)  BY <1>1, <1>7 DEF Send
<1>8. CASE Record(j)  BY <1>1, <1>2, <1>8 DEF Record
<1> QED BY <1>3, <1>4, <1>5, <1>6, <1>7, <1>8 DEF JobStep

------------------------------------------------------------------------------
(* No write takes a list below where it stood.                              *)

\* Only set_progress sends less than the entry it has read says (attempt).
LEMMA SendsNoLess ==
  ASSUME NEW a \in AskType, NEW e \in ReadType, NEW b,
         a.kind # "progress", ChangeOf(a, e, b).sets
  PROVE  ChangeOf(a, e, b).n >= e.progress
<1>1. a.n \in Nat /\ e.progress \in Nat  BY DEF AskType, ReadType
<1>2. CASE a.kind = "mark"
  BY <1>1, <1>2 DEF ChangeOf, MarkChange, Change, Higher
<1>3. CASE a.kind = "status"
  <2>1. Filled(a, e) >= e.progress
    BY <1>1, WritesAssumption DEF Filled
  <2> QED BY <1>3, <2>1 DEF ChangeOf, StatusChange, Change
<1>4. CASE a.kind = "score"  BY <1>4 DEF ChangeOf, ScoreChange, Change
<1>5. CASE a.kind = "notes"  BY <1>5 DEF ChangeOf, Change
<1> QED BY <1>2, <1>3, <1>4, <1>5 DEF AskType


\* The list is not below its floor, and neither is what a job about to send
\* has read of it.
Floor ==
  /\ NeverBelowSettled
  /\ \A j \in Job : pc[j] = "send" => entry[j].progress >= settled[turn[j]]

\* What lands is no lower than the floor, unless it is a correction, which
\* takes the floor with it (attempt).
LEMMA LandsAbove ==
  ASSUME TypeOK, Stand, Floor, NEW j \in Job, pc[j] = "send",
         NEW t \in Tracker, turn[j] = t, Lands(j, t)
  PROVE  /\ settled'[t] <= settled[t]
         /\ remote'[t].progress >= settled'[t]
         /\ \A u \in Tracker \ {t} : /\ settled'[u] = settled[u]
                                    /\ remote'[u] = remote[u]
<1>0. /\ remote \in [Tracker -> RemoteType] /\ settled \in [Tracker -> Nat]
      /\ ask[j] \in AskType /\ entry[j] \in ReadType /\ again[j] \in BOOLEAN
  BY DEF TypeOK
<1>1. TheChange(j) \in ChangeType  BY <1>0, ChangeOfType DEF TheChange
<1>2. remote'[t].progress = IF TheChange(j).sets THEN TheChange(j).n
                            ELSE remote[t].progress
  <2>1. remote'[t] = LandsOn(j, t)  BY <1>0 DEF Lands
  <2> QED BY <1>0, <2>1 DEF LandsOn, Landed, RemoteType
<1>3. /\ remote[t].progress \in Nat /\ settled[t] \in Nat
      /\ entry[j].progress \in Nat /\ TheChange(j).n \in Nat /\ ask[j].n \in Nat
  BY <1>0, <1>1 DEF RemoteType, ReadType, ChangeType, AskType
<1>4. remote[t].progress >= settled[t] /\ entry[j].progress >= settled[t]
  BY DEF Floor, NeverBelowSettled
<1>5. \A u \in Tracker \ {t} : settled'[u] = settled[u] /\ remote'[u] = remote[u]
  BY <1>0 DEF Lands
<1>6. CASE ask[j].kind = "progress"
  <2>1. settled'[t] = Lower(settled[t], ask[j].n)  BY <1>0, <1>6 DEF Lands
  <2>2. TheChange(j).sets /\ TheChange(j).n = ask[j].n
    BY <1>6 DEF TheChange, ChangeOf, ProgressChange, Change
  <2> QED BY <1>2, <1>3, <1>5, <2>1, <2>2 DEF Lower
<1>7. CASE ask[j].kind # "progress"
  <2>1. settled' = settled  BY <1>7 DEF Lands
  <2>2. TheChange(j).sets => TheChange(j).n >= entry[j].progress
    BY <1>0, <1>7, SendsNoLess DEF TheChange
  <2> QED BY <1>2, <1>3, <1>4, <1>5, <2>1, <2>2
<1> QED BY <1>6, <1>7

LEMMA FloorStep ==
  ASSUME TypeOK, Stand, Floor, [Next]_vars
  PROVE  Floor'
<1>0. /\ remote \in [Tracker -> RemoteType] /\ settled \in [Tracker -> Nat]
      /\ pc \in [Job -> PC]
      /\ \A j \in Job : pc[j] = "send" => turn[j] \in Tracker
      /\ \A j \in Job : entry[j].progress \in Nat
      /\ \A t \in Tracker : remote[t].progress \in Nat
  BY DEF TypeOK, Stand, Attempting, ReadType, RemoteType
<1>1. ASSUME Beside  PROVE Floor'
  <2>1. ASSUME NEW t \in Tracker, NEW l \in SiteEdits, SiteEdit(t, l)
        PROVE  Floor'
    <3>1. l.progress \in Nat  BY WritesAssumption DEF EntryType
    <3>2. /\ remote' = [remote EXCEPT ![t] = Held(t, l, clock)]
          /\ settled' = [settled EXCEPT ![t] = Lower(@, l.progress)]
      BY <2>1 DEF SiteEdit
    <3>3. Held(t, l, clock).progress = l.progress  BY DEF Held
    <3>4. \A u \in Tracker : /\ remote'[u].progress >= settled'[u]
                             /\ settled'[u] <= settled[u] /\ settled'[u] \in Nat
      BY <1>0, <3>1, <3>2, <3>3 DEF Lower, Floor, NeverBelowSettled
    <3> QED BY <1>0, <1>1, <3>4, BesideApart DEF Floor, NeverBelowSettled
  <2>2. ASSUME \A t \in Tracker, l \in SiteEdits : ~SiteEdit(t, l)
        PROVE  UNCHANGED <<remote, settled>>
    BY <1>1, <2>2 DEF Beside, RefreshFetch, Disconnect, ForgetTokens,
                     RefreshReplace, PlayFirst, Tick, vars, history
  <2> QED BY <1>1, <2>1, <2>2, BesideApart DEF Floor, NeverBelowSettled
<1>2. ASSUME NEW j \in Job, NEW a \in Ask, Call(j, a) \/ CallRefused(j, a)
      PROVE  Floor'
  <2>1. UNCHANGED <<remote, settled>> /\ pc'[j] # "send"
    BY <1>0, <1>2 DEF Call, CallRefused, Moved, history
  <2>2. Apart(j)  BY <1>2, CallApart
  <2> QED BY <2>1, <2>2 DEF Floor, NeverBelowSettled, Apart
<1>3. ASSUME NEW j \in Job, Send(j) \/ ReplyLost(j)  PROVE Floor'
  <2>1. PICK t \in Tracker : t = turn[j]  BY <1>0, <1>3 DEF Send, ReplyLost
  <2>2. Lands(j, t) /\ pc[j] = "send" /\ pc'[j] # "send"
    BY <1>0, <1>3, <2>1 DEF Send, ReplyLost, Resolve, Moved
  <2>3. Apart(j)  BY <1>3, JobStepApart DEF JobStep
  <2>4. \A u \in Tracker : /\ remote'[u].progress >= settled'[u]
                           /\ settled'[u] <= settled[u] /\ settled'[u] \in Nat
    <3>1. settled' \in [Tracker -> Nat]
      BY <1>0, <2>2, WritesAssumption DEF Lands, Lower, TypeOK, AskType
    <3> QED BY <1>0, <2>1, <2>2, <3>1, LandsAbove DEF Floor, NeverBelowSettled
  <2>5. ASSUME NEW k \in Job, pc'[k] = "send"
        PROVE  entry'[k].progress >= settled'[turn'[k]]
    <3>1. k # j  BY <2>2, <2>5
    <3>2. pc[k] = "send" /\ turn'[k] = turn[k] /\ entry'[k] = entry[k]
      BY <2>3, <2>5, <3>1 DEF Apart
    <3>3. turn[k] \in Tracker /\ entry[k].progress >= settled[turn[k]]
      BY <1>0, <3>2 DEF Floor
    <3> QED BY <1>0, <2>4, <3>2, <3>3
  <2> QED BY <2>4, <2>5 DEF Floor, NeverBelowSettled
<1>4. ASSUME NEW j \in Job, JobStep(j) \/ Cancel(j), ~Send(j), ~ReplyLost(j)
      PROVE  Floor'
  <2>1. UNCHANGED remote /\ (UNCHANGED settled \/ (Settles(j) /\ pc'[j] # "send"))
    BY <1>0, <1>4 DEF JobStep, Reserve, Start, Visit, Skip, Read, ReadFails,
                SendRefused, Record, RecordRepeat, Finish, Cancel, Moved, history
  <2>2. Apart(j) /\ pc[j] \in UnderWay  BY <1>4, JobStepApart
  <2>3. pc'[j] = "send" => /\ turn'[j] = turn[j] /\ turn[j] \in Tracker
                          /\ entry'[j] = Seen(turn[j], remote[turn[j]])
    <3> SUFFICES ASSUME pc'[j] = "send"
                 PROVE  /\ turn'[j] = turn[j] /\ turn[j] \in Tracker
                        /\ entry'[j] = Seen(turn[j], remote[turn[j]])
      OBVIOUS
    <3>1. Read(j) /\ turn'[j] = turn[j]
            /\ entry'[j] = Seen(turn[j], remote[turn[j]])
      BY <1>4, ReadsFirst
    <3> QED BY <3>1 DEF Read, Stand, Attempting
  <2>4. CASE UNCHANGED settled
    <3>1. \A k \in Job : pc'[k] = "send" => entry'[k].progress >= settled[turn'[k]]
      BY <2>2, <2>3 DEF Apart, Floor, NeverBelowSettled, Seen
    <3> QED BY <2>1, <2>4, <3>1 DEF Floor, NeverBelowSettled
  <2>5. CASE Settles(j) /\ pc'[j] # "send" /\ ~UNCHANGED settled
    <3>1. Writing = {j} /\ settled' = [t \in Tracker |-> remote[t].progress]
      BY <2>5 DEF Settles
    <3>2. \A k \in Job : pc'[k] # "send"
      BY <2>2, <2>5, <3>1 DEF Apart, Writing, UnderWay, Running
    <3> QED BY <1>0, <2>1, <3>1, <3>2 DEF Floor, NeverBelowSettled
  <2> QED BY <2>1, <2>4, <2>5
<1> QED BY <1>1, <1>2, <1>3, <1>4, ThreeKinds

\* However many marks, scores, statuses, refreshes and refusals overlap, no
\* list falls below where it stood when last no write was under way, but by a
\* correction or the website (attempt, Action::Mark).
THEOREM WritesNeverBelowSettled == Spec => []NeverBelowSettled
<1>1. Init => Floor
  <2> SUFFICES ASSUME Init PROVE Floor  OBVIOUS
  <2>1. TypeOK  BY InitType
  <2>2. \A t \in Tracker : remote[t].progress >= settled[t]
    BY <2>1 DEF Init, TypeOK, RemoteType
  <2> QED BY <2>2 DEF Init, Floor, NeverBelowSettled
<1>2. IInv /\ Floor /\ [Next]_vars => Floor'  BY FloorStep DEF IInv
<1>3. Floor => NeverBelowSettled  BY DEF Floor
<1> QED BY SpecInv, <1>1, <1>2, <1>3, PTL DEF Spec

------------------------------------------------------------------------------
(* The cache and the trackers' lists.                                       *)

\* A row and an entry say the same.
SameAs(row, e) == /\ row.status = e.status /\ row.progress = e.progress
                  /\ row.repeat = e.repeat

\* What entry e says once change c has landed.
Sent(c, e) == [status |-> IF c.status = None THEN e.status ELSE c.status,
               progress |-> IF c.sets THEN c.n ELSE e.progress,
               repeat |-> IF c.counts THEN e.repeat + 1 ELSE e.repeat]

Asked == \A j \in Job : ask[j] \in Ask \cup {NoAsk}


\* MAL has no status of its own for a rewatch.
MalPlain == remote["mal"].status # "repeating"

\* Tracker t's row and list agree, but for the job that has just sent to it:
\* there, the list is ahead of what the job read by exactly the change sent,
\* and the row is at either; between the two statements of a rewatch, at the
\* change but for the count.
Ahead(j, t) ==
  /\ Seen(t, remote[t]) = Sent(TheChange(j), entry[j])
  /\ connected[t] =>
       /\ pc[j] = "record" => \/ SameAs(cache[t], entry[j])
                              \/ SameAs(cache[t], Seen(t, remote[t]))
       /\ pc[j] = "repeat" => /\ cache[t].held /\ TheChange(j).counts
                              /\ cache[t].status = Seen(t, remote[t]).status
                              /\ cache[t].progress = Seen(t, remote[t]).progress
Synced(t) ==
  /\ connected[t] /\ (\A j \in Job : ~Unrecorded(j, t)) =>
       SameAs(cache[t], Seen(t, remote[t]))
  /\ \A j \in Job : pc[j] = "send" /\ turn[j] = t => entry[j] = Seen(t, remote[t])
  /\ \A j, k \in Job : Unrecorded(j, t) /\ Unrecorded(k, t) => j = k
  /\ \A j \in Job : Unrecorded(j, t) => Ahead(j, t)

SyncInv == /\ IInv /\ Asked /\ MalPlain
           /\ \A t \in Tracker : astray[t] \/ Synced(t)

\* A row read off an entry says what the entry says (replace).
LEMMA RowOfSame ==
  ASSUME NEW t, NEW r, NEW k
  PROVE  SameAs(RowOf(t, r, k), Seen(t, r))
BY DEF SameAs, RowOf, Seen

\* No write asks for a rewatch; it only goes on with one, and clears the flag
\* only with a status.
LEMMA ChangeFacts ==
  ASSUME NEW a \in Ask \cup {NoAsk}, NEW e \in ReadType, NEW b
  PROVE  /\ ChangeOf(a, e, b).status = "repeating" =>
              e.status = "repeating" /\ ~ChangeOf(a, e, b).unflags
         /\ ChangeOf(a, e, b).status = "watching" =>
              e.status # "repeating" \/ ChangeOf(a, e, b).unflags
         /\ ChangeOf(a, e, b).status = None => ~ChangeOf(a, e, b).unflags
         /\ ChangeOf(a, e, b).counts => ChangeOf(a, e, b).status = "completed"
<1>1. a.kind \in {"mark", "progress", "score", "status", "notes"}
  BY WritesAssumption DEF AskType, NoAsk
<1>2. \A c : /\ watched_status(e, c) = "repeating" => e.status = "repeating"
             /\ watched_status(e, c) = "watching" => e.status # "repeating"
             /\ watched_status(e, c) # None
  BY DEF watched_status, None
<1>3. CASE a.kind = "mark"
  BY <1>2, <1>3 DEF ChangeOf, MarkChange, Change, Rewatched
<1>4. CASE a.kind = "progress"
  BY <1>2, <1>4 DEF ChangeOf, ProgressChange, Change, Rewatched, None
<1>5. CASE a.kind = "score"
  BY <1>5 DEF ChangeOf, ScoreChange, Change, None
<1>6. CASE a.kind = "status"
  <2>1. a.status # "repeating" /\ a.status # None
    BY <1>6, WritesAssumption DEF NoAsk, Status, None
  <2> QED BY <1>6, <2>1 DEF ChangeOf, StatusChange, Change
<1>7. CASE a.kind = "notes"
  BY <1>7 DEF ChangeOf, Change, None
<1> QED BY <1>1, <1>3, <1>4, <1>5, <1>6, <1>7

\* What read_entry makes of an entry a change has landed on.
LEMMA LandedSeen ==
  ASSUME NEW t \in Tracker, NEW r \in RemoteType, ~Dangles(r),
         t = "mal" => r.status # "repeating",
         NEW a \in Ask \cup {NoAsk}, NEW b \in BOOLEAN,
         NEW c, c = ChangeOf(a, Seen(t, r), b)
  PROVE  Seen(t, Landed(t, r, c, Seen(t, r))) = Sent(c, Seen(t, r))
<1> DEFINE e == Seen(t, r)
           l == Landed(t, r, c, e)
<1>0. /\ e \in ReadType /\ a \in AskType
      /\ e.progress = r.progress /\ e.repeat = r.repeat
      /\ e.status = normalize_status(t, r)
  BY SeenType, WritesAssumption, Blanks DEF Seen
<1>1. c \in ChangeType  BY <1>0, ChangeOfType
<1>2. /\ l.status = IF c.status = None THEN r.status
                    ELSE IF t = "mal" THEN mal_status(c.status) ELSE c.status
      /\ l.progress = IF c.sets THEN c.n ELSE r.progress
      /\ l.repeat = IF c.counts THEN e.repeat + 1 ELSE r.repeat
      /\ l.flag = (r.flag /\ ~c.unflags)
  BY DEF Landed, RemoteType
<1>3. /\ c.status = "repeating" => e.status = "repeating" /\ ~c.unflags
      /\ c.status = "watching" => e.status # "repeating" \/ c.unflags
      /\ c.status = None => ~c.unflags
  BY <1>0, ChangeFacts
<1>4. normalize_status(t, l) = IF c.status = None THEN e.status ELSE c.status
  <2> HIDE DEF l, e
  <2>1. CASE t # "mal"  BY <1>0, <1>2, <2>1 DEF normalize_status
  <2>2. CASE t = "mal" /\ c.status = None
    BY <1>0, <1>2, <1>3, <2>2 DEF normalize_status
  <2>3. CASE t = "mal" /\ c.status = "repeating"
    <3>1. r.status = "watching" /\ r.flag
      BY <1>0, <1>3, <2>3 DEF normalize_status
    <3> QED BY <1>2, <1>3, <2>3, <3>1 DEF normalize_status, mal_status, None
  <2>4. CASE t = "mal" /\ c.status = "watching"
    <3>1. ~(r.flag /\ ~c.unflags)
      BY <1>0, <1>3, <2>4 DEF normalize_status, Dangles
    <3> QED BY <1>2, <2>4, <3>1 DEF normalize_status, mal_status, None
  <2>5. CASE t = "mal" /\ c.status \notin {None, "repeating", "watching"}
    BY <1>2, <2>5 DEF normalize_status, mal_status
  <2> QED BY <2>1, <2>2, <2>3, <2>4, <2>5
<1> HIDE DEF l
<1>5. Seen(t, l) = Sent(c, e)  BY <1>0, <1>2, <1>4 DEF Seen, Sent
<1> QED BY <1>5 DEF l

\* The core records what it sent, the count aside (record_progress and the
\* rest).
LEMMA PatchedSame ==
  ASSUME NEW a \in Ask \cup {NoAsk}, NEW e \in ReadType, NEW b \in BOOLEAN,
         NEW row \in RowType, NEW s, NEW c, c = ChangeOf(a, e, b),
         SameAs(row, e) \/ SameAs(row, Sent(c, e))
  PROVE  /\ Patched(a, c, e, row, s).held
         /\ Patched(a, c, e, row, s).status = Sent(c, e).status
         /\ Patched(a, c, e, row, s).progress = Sent(c, e).progress
         /\ ~c.counts => Patched(a, c, e, row, s).repeat = Sent(c, e).repeat
<1>0. a \in AskType
  BY WritesAssumption, Blanks
<1>1. \A n, st : /\ patch_progress(row, s, n, st).held
                 /\ patch_progress(row, s, n, st).status = st
                 /\ patch_progress(row, s, n, st).progress = n
                 /\ patch_progress(row, s, n, st).repeat = row.repeat
  BY DEF patch_progress, RowType
<1>2. \A st : /\ patch_score(row, s, st).held
              /\ patch_score(row, s, st).status =
                   IF st = None THEN row.status ELSE st
              /\ patch_score(row, s, st).progress = row.progress
              /\ patch_score(row, s, st).repeat = row.repeat
  BY DEF patch_score, RowType
<1>3. /\ patch_notes(row, s).held
      /\ patch_notes(row, s).status = row.status
      /\ patch_notes(row, s).progress = row.progress
      /\ patch_notes(row, s).repeat = row.repeat
  BY DEF patch_notes, RowType
<1>4. /\ row.status \in {e.status, Sent(c, e).status}
      /\ row.progress \in {e.progress, Sent(c, e).progress}
      /\ ~c.counts => row.repeat = Sent(c, e).repeat
  BY DEF SameAs, Sent
<1>a. \A x : watched_status(e, x) # None  BY DEF watched_status, None
<1>5. CASE a.kind = "mark"
  <2>1. c.sets /\ c.status # None
    BY <1>5, <1>a DEF ChangeOf, MarkChange, Change
  <2>2. Patched(a, c, e, row, s) = patch_progress(row, s, c.n, c.status)
    BY <1>5 DEF Patched
  <2> QED BY <1>1, <1>4, <2>1, <2>2 DEF Sent
<1>6. CASE a.kind = "progress"
  <2>1. c.sets /\ c.status # None
    BY <1>6, <1>a DEF ChangeOf, ProgressChange, Change, None
  <2>2. Patched(a, c, e, row, s) = patch_progress(row, s, c.n, c.status)
    BY <1>6 DEF Patched
  <2> QED BY <1>1, <1>4, <2>1, <2>2 DEF Sent
<1>7. CASE a.kind = "status"
  <2>1. a.status # None
    BY <1>7, WritesAssumption DEF NoAsk, Status, None
  <2>2. /\ c.status = a.status /\ c.n = Filled(a, e)
        /\ c.sets = (Filled(a, e) # e.progress)
    BY <1>7 DEF ChangeOf, StatusChange, Change
  <2>3. Patched(a, c, e, row, s) = patch_progress(row, s, Filled(a, e), c.status)
    BY <1>7 DEF Patched
  <2> DEFINE p == patch_progress(row, s, Filled(a, e), c.status)
  <2>4. Sent(c, e).status = c.status  BY <2>1, <2>2 DEF Sent
  <2>5. Sent(c, e).progress = Filled(a, e)
    <3>1. CASE Filled(a, e) = e.progress  BY <2>2, <3>1 DEF Sent
    <3>2. CASE Filled(a, e) # e.progress  BY <2>2, <3>2 DEF Sent
    <3> QED BY <3>1, <3>2
  <2>6. /\ p.held /\ p.status = c.status
        /\ p.progress = Filled(a, e) /\ p.repeat = row.repeat
    BY <1>1
  <2> HIDE DEF p
  <2> QED BY <1>4, <2>3, <2>4, <2>5, <2>6 DEF p
<1>8. CASE a.kind = "score"
  <2>1. ~c.sets  BY <1>8 DEF ChangeOf, ScoreChange, Change
  <2>2. Patched(a, c, e, row, s) = patch_score(row, s, c.status)
    BY <1>8 DEF Patched
  <2> QED BY <1>2, <1>4, <2>1, <2>2 DEF Sent
<1>9. CASE a.kind = "notes"
  <2>1. ~c.sets /\ c.status = None  BY <1>9 DEF ChangeOf, Change
  <2>2. Patched(a, c, e, row, s) = patch_notes(row, s)
    BY <1>9 DEF Patched
  <2> QED BY <1>3, <1>4, <2>1, <2>2 DEF Sent
<1> QED BY <1>0, <1>5, <1>6, <1>7, <1>8, <1>9 DEF AskType


\* Call or job k is left as it is.
Kept(k) == /\ pc'[k] = pc[k] /\ turn'[k] = turn[k] /\ ask'[k] = ask[k]
           /\ again'[k] = again[k] /\ entry'[k] = entry[k]

\* A step that concerns neither tracker t's entry nor a job past reading it.
Calm(t) ==
  /\ remote'[t] = remote[t]
  /\ connected'[t] => connected[t] /\ cache'[t] = cache[t]
  /\ astray[t] => astray'[t]
  /\ \A k \in Job : PastRead(k, t)' => PastRead(k, t) /\ Kept(k)
  /\ \A k \in Job : Unrecorded(k, t) => Unrecorded(k, t)' \/ astray'[t]

LEMMA CalmKeeps ==
  ASSUME NEW t \in Tracker, Calm(t), astray[t] \/ Synced(t)
  PROVE  astray'[t] \/ Synced(t)'
<1> SUFFICES ASSUME ~astray'[t] PROVE Synced(t)'  OBVIOUS
<1>1. Synced(t)  BY DEF Calm
<1>2. \A k \in Job : /\ Unrecorded(k, t)' <=> Unrecorded(k, t)
                     /\ Unrecorded(k, t) => Kept(k)
  <2>1. \A k \in Job : Unrecorded(k, t)' => PastRead(k, t)'
    BY DEF Unrecorded, PastRead
  <2>2. \A k \in Job : PastRead(k, t) /\ Kept(k) /\ Unrecorded(k, t)' => Unrecorded(k, t)
    BY DEF Unrecorded, Kept
  <2> QED BY <2>1, <2>2 DEF Calm
<1>3. connected'[t] /\ (\A j \in Job : ~Unrecorded(j, t)') =>
        SameAs(cache'[t], Seen(t, remote'[t]))
  BY <1>1, <1>2 DEF Calm, Synced
<1>4. ASSUME NEW j \in Job, pc'[j] = "send", turn'[j] = t
      PROVE  entry'[j] = Seen(t, remote'[t])
  <2>1. PastRead(j, t)'  BY <1>4 DEF PastRead
  <2> QED BY <1>1, <1>4, <2>1 DEF Calm, Kept, Synced
<1>5. \A j, k \in Job : Unrecorded(j, t)' /\ Unrecorded(k, t)' => j = k
  BY <1>1, <1>2 DEF Synced
<1>6. ASSUME NEW j \in Job, Unrecorded(j, t)'  PROVE Ahead(j, t)'
  <2>1. Kept(j) /\ Ahead(j, t)  BY <1>1, <1>2, <1>6 DEF Synced
  <2>2. TheChange(j)' = TheChange(j)  BY <2>1 DEF TheChange, Kept
  <2> QED BY <2>1, <2>2 DEF Ahead, Kept, Calm
<1> QED BY <1>3, <1>4, <1>5, <1>6 DEF Synced

\* The steps of one job that are calm for a tracker.
LEMMA JobCalm ==
  ASSUME TypeOK, Stand, NEW j \in Job, JobStep(j) \/ Cancel(j), NEW t \in Tracker,
         turn[j] = t => /\ ~Send(j) /\ ~ReplyLost(j) /\ ~Record(j)
                        /\ ~RecordRepeat(j) /\ pc'[j] # "send"
  PROVE  Calm(t)
<1> USE DEF Unrecorded, PastRead
<1>0. /\ pc \in [Job -> PC] /\ turn \in [Job -> Tracker \cup {None}]
      /\ remote \in [Tracker -> RemoteType] /\ cache \in [Tracker -> RowType]
      /\ astray \in [Tracker -> BOOLEAN]
      /\ pc[j] \in Attempting => turn[j] \in Tracker
  BY DEF TypeOK, Stand
<1>1. \A k \in Job \ {j} : Kept(k)  BY JobStepApart DEF Apart, Kept
<1>2. SUFFICES /\ remote'[t] = remote[t]
               /\ connected' = connected /\ cache'[t] = cache[t]
               /\ astray[t] => astray'[t]
               /\ ~PastRead(j, t)'
               /\ Unrecorded(j, t) => astray'[t]
  BY <1>1 DEF Calm, Kept
<1>3. \A w : Moved(j, w) => pc'[j] = w  BY <1>0 DEF Moved
<1>4. \A o : Resolve(j, o) => pc'[j] = "next"  BY <1>3 DEF Resolve
<1>5. CASE Reserve(j)  BY <1>3, <1>5 DEF Reserve, store
<1>6. CASE Start(j)  BY <1>3, <1>6 DEF Start, store
<1>7. CASE Visit(j)  BY <1>3, <1>7 DEF Visit, store, history
<1>8. CASE Skip(j)  BY <1>8 DEF Skip, store
<1>9. CASE Finish(j)  BY <1>3, <1>9 DEF Finish, store
<1>10. CASE Cancel(j)
  <2>1. astray'[t] = (astray[t] \/ Unrecorded(j, t)) /\ pc'[j] = "cancelled"
    BY <1>3, <1>10 DEF Cancel
  <2>2. UNCHANGED <<remote, cache, connected>>  BY <1>10 DEF Cancel, store
  <2> QED BY <2>1, <2>2
<1>11. CASE ReadFails(j) \/ SendRefused(j)
  BY <1>4, <1>11 DEF ReadFails, SendRefused, store
<1>12. CASE Read(j)
  <2>1. \/ pc'[j] = "next"
        \/ pc'[j] = "send" /\ turn'[j] = turn[j]
    BY <1>3, <1>4, <1>12 DEF Read
  <2>2. pc[j] = "read" /\ UNCHANGED <<remote, cache, connected, astray>>
    BY <1>12 DEF Read, store
  <2> QED BY <2>1, <2>2
<1>13. CASE Send(j)
  <2>1. PICK u \in Tracker : u = turn[j]  BY <1>0, <1>13 DEF Send, Attempting
  <2>2. /\ pc[j] = "send" /\ turn'[j] = u /\ Lands(j, u)
        /\ \E b : astray' = [astray EXCEPT ![u] = b]
        /\ UNCHANGED <<cache, connected>>
    BY <1>13, <2>1 DEF Send, store
  <2>3. t # u  BY <1>13, <2>1
  <2> QED BY <1>0, <2>2, <2>3 DEF Lands
<1>14. CASE ReplyLost(j)
  <2>1. PICK u \in Tracker : u = turn[j]  BY <1>0, <1>14 DEF ReplyLost, Attempting
  <2>2. /\ pc[j] = "send" /\ pc'[j] = "next" /\ Lands(j, u)
        /\ astray' = [astray EXCEPT ![u] = TRUE]
        /\ UNCHANGED <<cache, connected>>
    BY <1>4, <1>14, <2>1 DEF ReplyLost, store
  <2>3. t # u  BY <1>14, <2>1
  <2> QED BY <1>0, <2>2, <2>3 DEF Lands
<1>15. CASE Record(j) \/ RecordRepeat(j)
  <2>1. PICK u \in Tracker : u = turn[j]
    BY <1>0, <1>15 DEF Record, RecordRepeat, Attempting
  <2>2. /\ \E row : cache' = [cache EXCEPT ![u] = row]
        /\ pc'[j] = "next" \/ turn'[j] = u
        /\ UNCHANGED <<remote, connected, astray>>
    BY <1>4, <1>15, <2>1 DEF Record, RecordRepeat
  <2>3. t # u  BY <1>15, <2>1
  <2> QED BY <1>0, <2>1, <2>2, <2>3
<1> QED
  BY <1>5, <1>6, <1>7, <1>8, <1>9, <1>10, <1>11, <1>12, <1>13, <1>14, <1>15 DEF JobStep

\* A read takes in what the tracker's entry says (read_entry).
LEMMA SyncRead ==
  ASSUME TypeOK, Stand, NEW j \in Job, NEW t \in Tracker, turn[j] = t, Read(j),
         pc'[j] = "send", astray[t] \/ Synced(t)
  PROVE  astray'[t] \/ Synced(t)'
<1> SUFFICES ASSUME ~astray'[t] PROVE Synced(t)'  OBVIOUS
<1>1. /\ UNCHANGED <<remote, cache, connected, astray>> /\ pc[j] = "read"
      /\ turn'[j] = turn[j] /\ entry'[j] = Seen(t, remote[t])
  BY ReadsFirst DEF Read, store, JobStep
<1>2. \A k \in Job \ {j} : Kept(k)  BY JobStepApart DEF Apart, Kept, JobStep
<1>3. \A k \in Job : /\ Unrecorded(k, t)' <=> Unrecorded(k, t)
                     /\ Unrecorded(k, t) => Kept(k)
  BY <1>1, <1>2 DEF Unrecorded, Kept
<1>4. Synced(t)  BY <1>1
<1>5. \A k \in Job : Unrecorded(k, t)' => Ahead(k, t)'
  <2> SUFFICES ASSUME NEW k \in Job, Unrecorded(k, t)' PROVE Ahead(k, t)'
    OBVIOUS
  <2>1. Kept(k) /\ Ahead(k, t)  BY <1>3, <1>4 DEF Synced
  <2>2. TheChange(k)' = TheChange(k)  BY <2>1 DEF TheChange, Kept
  <2> QED BY <1>1, <2>1, <2>2 DEF Ahead, Kept
<1>6. \A k \in Job : pc'[k] = "send" /\ turn'[k] = t => entry'[k] = Seen(t, remote'[t])
  BY <1>1, <1>2, <1>4 DEF Synced, Kept
<1> QED BY <1>1, <1>3, <1>4, <1>5, <1>6 DEF Synced

\* A request that meets no other write puts the list ahead by what it sent.
LEMMA SyncSend ==
  ASSUME TypeOK, Stand, Asked, MalPlain, NEW j \in Job, NEW t \in Tracker,
         turn[j] = t, Send(j), astray[t] \/ Synced(t)
  PROVE  astray'[t] \/ Synced(t)'
<1> SUFFICES ASSUME ~astray'[t] PROVE Synced(t)'  OBVIOUS
<1>0. /\ remote \in [Tracker -> RemoteType] /\ astray \in [Tracker -> BOOLEAN]
      /\ pc \in [Job -> PC]
  BY DEF TypeOK
<1>1. /\ remote'[t] = LandsOn(j, t) /\ pc[j] = "send" /\ pc'[j] = "record"
      /\ UNCHANGED <<cache, connected, turn, ask, again, entry>>
  BY <1>0 DEF Send, Lands, Moved, store
<1>2. ~astray[t] /\ Others(j, t) = {} /\ ~Dangles(remote[t])
  BY <1>0 DEF Send
<1>3. Synced(t)  BY <1>2
<1>4. \A k \in Job \ {j} : ~PastRead(k, t) /\ pc'[k] = pc[k]
  BY <1>2, JobStepApart DEF Others, Apart, JobStep
<1>5. entry[j] = Seen(t, remote[t])  BY <1>1, <1>3 DEF Synced
<1>6. Seen(t, LandsOn(j, t)) = Sent(TheChange(j), entry[j])
  <2>1. /\ remote[t] \in RemoteType /\ again[j] \in BOOLEAN
        /\ ask[j] \in Ask \cup {NoAsk} /\ (t = "mal" => remote[t].status # "repeating")
    BY DEF TypeOK, Asked, MalPlain
  <2>2. PICK r \in RemoteType : r = remote[t]  BY <2>1
  <2>3. PICK c : c = TheChange(j)  OBVIOUS
  <2>4. c = ChangeOf(ask[j], Seen(t, r), again[j])
    BY <1>5, <2>2, <2>3 DEF TheChange
  <2>5. Seen(t, Landed(t, r, c, Seen(t, r))) = Sent(c, Seen(t, r))
    BY <1>2, <2>1, <2>2, <2>4, LandedSeen
  <2> QED BY <1>5, <2>2, <2>3, <2>5 DEF LandsOn
<1>7. TheChange(j)' = TheChange(j)  BY <1>1 DEF TheChange
<1>8. \A k \in Job : ~Unrecorded(k, t) /\ (Unrecorded(k, t)' => k = j)
  BY <1>1, <1>4 DEF PastRead, Unrecorded
<1>9. Ahead(j, t)'
  <2>1. connected[t] => SameAs(cache[t], entry[j])
    BY <1>3, <1>5, <1>8 DEF Synced
  <2> QED BY <1>1, <1>6, <1>7, <2>1 DEF Ahead
<1>10. \A k \in Job : ~(pc'[k] = "send" /\ turn'[k] = t)
  BY <1>1, <1>4 DEF PastRead
<1>11. Unrecorded(j, t)'  BY <1>1 DEF Unrecorded
<1> QED BY <1>8, <1>9, <1>10, <1>11 DEF Synced

\* The row is at what was sent, but for a count still to be recorded
\* (record_progress and the rest).
LEMMA SyncRecord ==
  ASSUME TypeOK, Stand, Asked, NEW j \in Job, NEW t \in Tracker,
         turn[j] = t, Record(j), astray[t] \/ Synced(t)
  PROVE  astray'[t] \/ Synced(t)'
<1> SUFFICES ASSUME ~astray'[t] PROVE Synced(t)'  OBVIOUS
<1>0. cache \in [Tracker -> RowType] /\ pc \in [Job -> PC]  BY DEF TypeOK
<1>1. PICK c : c = TheChange(j)  OBVIOUS
<1>2. PICK p : p = Patched(ask[j], c, entry[j], cache[t], stamp[j])  OBVIOUS
<1>3. /\ cache'[t] = p /\ pc[j] = "record"
      /\ UNCHANGED <<remote, connected, ask, again, astray>>
  BY <1>0, <1>1, <1>2 DEF Record
<1>4. Synced(t) /\ Unrecorded(j, t) /\ Ahead(j, t)
  BY <1>3 DEF Unrecorded, Synced
<1>5. \A k \in Job \ {j} : Kept(k) /\ ~Unrecorded(k, t)
  BY <1>4, JobStepApart DEF Apart, Kept, JobStep, Synced
<1>6. \A k \in Job \ {j} : ~Unrecorded(k, t)'  BY <1>5 DEF Kept, Unrecorded
<1>7. Seen(t, remote[t]) = Sent(c, entry[j])  BY <1>1, <1>4 DEF Ahead
<1>8. connected[t] => /\ p.held
                      /\ p.status = Seen(t, remote[t]).status
                      /\ p.progress = Seen(t, remote[t]).progress
                      /\ ~c.counts => p.repeat = Seen(t, remote[t]).repeat
  <2>1. /\ ask[j] \in Ask \cup {NoAsk} /\ entry[j] \in ReadType
        /\ again[j] \in BOOLEAN /\ cache[t] \in RowType
    BY DEF TypeOK, Asked
  <2>2. c = ChangeOf(ask[j], entry[j], again[j])  BY <1>1 DEF TheChange
  <2>3. connected[t] => \/ SameAs(cache[t], entry[j])
                        \/ SameAs(cache[t], Sent(c, entry[j]))
    BY <1>3, <1>4, <1>7 DEF Ahead
  <2>4. PICK a \in Ask \cup {NoAsk}, e \in ReadType, row \in RowType, at \in {stamp[j]} :
          a = ask[j] /\ e = entry[j] /\ row = cache[t] /\ at = stamp[j]
    BY <2>1
  <2>5. SameAs(row, e) \/ SameAs(row, Sent(c, e)) =>
          /\ Patched(a, c, e, row, at).held
          /\ Patched(a, c, e, row, at).status = Sent(c, e).status
          /\ Patched(a, c, e, row, at).progress = Sent(c, e).progress
          /\ ~c.counts => Patched(a, c, e, row, at).repeat = Sent(c, e).repeat
    BY <2>1, <2>2, <2>4, PatchedSame
  <2> QED BY <1>2, <1>7, <2>3, <2>4, <2>5
<1>9. \A k \in Job : pc'[k] = "send" /\ turn'[k] = t => entry'[k] = Seen(t, remote'[t])
  <2>1. pc'[j] # "send"  BY <1>0 DEF Record, Resolve, Moved
  <2> QED BY <1>3, <1>4, <1>5, <2>1 DEF Synced, Kept
<1>10. CASE c.counts
  <2>1. pc'[j] = "repeat" /\ UNCHANGED <<turn, entry>>
    BY <1>0, <1>1, <1>10 DEF Record, Moved
  <2>2. TheChange(j)' = c  BY <1>1, <1>3, <2>1 DEF TheChange
  <2>3. Unrecorded(j, t)'  BY <2>1 DEF Unrecorded
  <2>4. Ahead(j, t)'  BY <1>3, <1>7, <1>8, <1>10, <2>1, <2>2 DEF Ahead
  <2> QED BY <1>6, <1>9, <2>3, <2>4 DEF Synced
<1>11. CASE ~c.counts
  <2>1. pc'[j] = "next"  BY <1>0, <1>1, <1>11 DEF Record, Resolve, Moved
  <2>2. ~Unrecorded(j, t)'  BY <2>1 DEF Unrecorded
  <2>3. connected[t] => SameAs(p, Seen(t, remote[t]))  BY <1>8, <1>11 DEF SameAs
  <2> QED BY <1>3, <1>6, <1>9, <2>2, <2>3 DEF Synced
<1> QED BY <1>10, <1>11

\* The count recorded, the row says what the list says (record_repeat).
LEMMA SyncRecordRepeat ==
  ASSUME TypeOK, Stand, NEW j \in Job, NEW t \in Tracker,
         turn[j] = t, RecordRepeat(j), astray[t] \/ Synced(t)
  PROVE  astray'[t] \/ Synced(t)'
<1> SUFFICES ASSUME ~astray'[t] PROVE Synced(t)'  OBVIOUS
<1>0. cache \in [Tracker -> RowType] /\ pc \in [Job -> PC]  BY DEF TypeOK
<1>1. PICK p : p = patch_repeat(cache[t], entry[j].repeat + 1)  OBVIOUS
<1>2. /\ cache'[t] = p /\ pc[j] = "repeat" /\ pc'[j] = "next"
      /\ UNCHANGED <<remote, connected, astray>>
  BY <1>0, <1>1 DEF RecordRepeat, Resolve, Moved
<1>3. Synced(t) /\ Unrecorded(j, t) /\ Ahead(j, t)
  BY <1>2 DEF Unrecorded, Synced
<1>4. \A k \in Job \ {j} : Kept(k) /\ ~Unrecorded(k, t)
  BY <1>3, JobStepApart DEF Apart, Kept, JobStep, Synced
<1>5. \A k \in Job : ~Unrecorded(k, t)'  BY <1>2, <1>4 DEF Kept, Unrecorded
<1>6. \A k \in Job : pc'[k] = "send" /\ turn'[k] = t => entry'[k] = Seen(t, remote'[t])
  BY <1>2, <1>3, <1>4 DEF Synced, Kept
<1>7. cache[t] \in RowType  BY <1>0
<1>8. cache[t].held => /\ p.status = cache[t].status /\ p.progress = cache[t].progress
                       /\ p.repeat = entry[j].repeat + 1
  BY <1>1, <1>7 DEF patch_repeat, RowType
<1>9. connected[t] => SameAs(p, Seen(t, remote[t]))
  BY <1>2, <1>3, <1>8 DEF Ahead, SameAs, Sent
<1> QED BY <1>2, <1>5, <1>6, <1>9 DEF Synced


\* A list that is still the tracker's sets the row right, whatever the row
\* said; one that meets a job past its read cannot tell (replace).
LEMMA SyncReplace ==
  ASSUME TypeOK, SyncInv, RefreshReplace, NEW t \in Tracker
  PROVE  astray'[t] \/ Synced(t)'
<1>0. /\ cache \in [Tracker -> RowType] /\ astray \in [Tracker -> BOOLEAN]
      /\ remote \in [Tracker -> RemoteType] /\ fetch.list \in RemoteType
      /\ fetch.at \in Tracker
  BY DEF TypeOK, RefreshReplace
<1>a. PICK u \in Tracker : u = fetch.at  BY <1>0
<1>1. UNCHANGED <<pc, turn, ask, again, entry, remote, connected>>
  BY DEF RefreshReplace, call
<1>2. PICK p : p = RowOf(u, fetch.list, cache[u].at)  OBVIOUS
<1>3. cache' = [cache EXCEPT ![u] = p]
  BY <1>a, <1>2 DEF RefreshReplace, replace
<1>4. \A k \in Job : /\ Kept(k) /\ Unrecorded(k, t)' = Unrecorded(k, t)
                     /\ PastRead(k, t)' = PastRead(k, t)
  BY <1>1 DEF Kept, Unrecorded, PastRead
<1>5. CASE t # u
  <2>1. Calm(t)
    BY <1>0, <1>1, <1>3, <1>4, <1>5, <1>a DEF Calm, RefreshReplace
  <2> QED BY <2>1, CalmKeeps DEF SyncInv
<1>6. CASE t = u
  <2> SUFFICES ASSUME ~astray'[t] PROVE Synced(t)'  OBVIOUS
  <2>1. astray'[t] = (Outdated \/ (astray[t] /\ \E j \in Job : PastRead(j, t)))
    BY <1>0, <1>6, <1>a DEF RefreshReplace
  <2>2. ~Outdated  BY <2>1
  <2>3. /\ fetch.list.status = remote[t].status /\ fetch.list.flag = remote[t].flag
        /\ fetch.list.progress = remote[t].progress
        /\ fetch.list.repeat = remote[t].repeat
    <3>1. PICK r, q \in RemoteType : r = fetch.list /\ q = remote[t]  BY <1>0
    <3>2. [r EXCEPT !.at = 0] = [q EXCEPT !.at = 0]
      BY <2>2, <3>1, <1>6, <1>a DEF Outdated
    <3>3. /\ [r EXCEPT !.at = 0].status = r.status /\ [q EXCEPT !.at = 0].status = q.status
          /\ [r EXCEPT !.at = 0].flag = r.flag /\ [q EXCEPT !.at = 0].flag = q.flag
          /\ [r EXCEPT !.at = 0].progress = r.progress
          /\ [q EXCEPT !.at = 0].progress = q.progress
          /\ [r EXCEPT !.at = 0].repeat = r.repeat
          /\ [q EXCEPT !.at = 0].repeat = q.repeat
      BY DEF RemoteType
    <3> QED BY <3>1, <3>2, <3>3
  <2>4. Seen(t, fetch.list) = Seen(t, remote[t])
    BY <2>3 DEF Seen, normalize_status
  <2>5. SameAs(cache'[t], Seen(t, remote'[t]))
    BY <1>0, <1>1, <1>2, <1>3, <1>6, <2>4, RowOfSame
  <2>6. cache'[t].held <=> remote[t].status # None
    BY <1>0, <1>2, <1>3, <1>6, <2>3 DEF RowOf
  <2>7. CASE \A j \in Job : ~PastRead(j, t)
    <3>1. \A j \in Job : /\ ~Unrecorded(j, t)'
                         /\ ~(pc'[j] = "send" /\ turn'[j] = t)
      BY <1>1, <2>7 DEF PastRead, Unrecorded
    <3> QED BY <2>5, <3>1 DEF Synced
  <2>8. CASE \E j \in Job : PastRead(j, t)
    <3>1. Synced(t)  BY <2>1, <2>8 DEF SyncInv
    <3>2. ASSUME NEW j \in Job, Unrecorded(j, t)'  PROVE Ahead(j, t)'
      <4>1. Ahead(j, t)  BY <1>4, <3>1, <3>2 DEF Synced
      <4>2. TheChange(j)' = TheChange(j)  BY <1>1 DEF TheChange
      <4>3. TheChange(j).counts => cache'[t].held
        <5>1. /\ ask[j] \in Ask \cup {NoAsk} /\ entry[j] \in ReadType
          BY DEF SyncInv, Asked, TypeOK
        <5>2. TheChange(j).counts => TheChange(j).status = "completed"
          BY <5>1, ChangeFacts DEF TheChange
        <5>3. TheChange(j).counts => Seen(t, remote[t]).status = "completed"
          BY <4>1, <5>2 DEF Ahead, Sent, None
        <5>4. TheChange(j).counts => remote[t].status # None
          BY <5>3 DEF Seen, normalize_status, None
        <5> QED BY <2>6, <5>4
      <4>4. pc[j] = "repeat" /\ connected[t] => TheChange(j).counts  BY <4>1 DEF Ahead
      <4> QED BY <1>1, <2>5, <4>1, <4>2, <4>3, <4>4 DEF Ahead, SameAs
    <3> QED BY <1>1, <1>4, <2>5, <3>1, <3>2 DEF Synced, Kept
  <2> QED BY <2>7, <2>8
<1> QED BY <1>5, <1>6

LEMMA SyncBeside ==
  ASSUME TypeOK, SyncInv, Beside, NEW t \in Tracker
  PROVE  astray'[t] \/ Synced(t)'
<1>0. /\ connected \in [Tracker -> BOOLEAN] /\ cache \in [Tracker -> RowType]
      /\ remote \in [Tracker -> RemoteType] /\ astray \in [Tracker -> BOOLEAN]
  BY DEF TypeOK
<1>1. UNCHANGED <<pc, ask, again, turn, entry>>  BY BesideApart
<1>2. \A k \in Job : /\ Kept(k) /\ Unrecorded(k, t)' = Unrecorded(k, t)
                     /\ PastRead(k, t)' = PastRead(k, t)
  BY <1>1 DEF Kept, Unrecorded, PastRead
<1>3. CASE RefreshReplace  BY <1>3, SyncReplace
<1>4. ASSUME NEW u \in Tracker, NEW l \in SiteEdits, SiteEdit(u, l)
      PROVE  astray'[t] \/ Synced(t)'
  <2>1. CASE t = u  BY <1>0, <1>4, <2>1 DEF SiteEdit
  <2>2. CASE t # u
    <3>1. Calm(t)  BY <1>0, <1>2, <1>4, <2>2 DEF Calm, SiteEdit, store
    <3> QED BY <3>1, CalmKeeps DEF SyncInv
  <2> QED BY <2>1, <2>2
<1>5. ASSUME NEW u \in Tracker, Disconnect(u)
      PROVE  astray'[t] \/ Synced(t)'
  <2>1. Calm(t)  BY <1>0, <1>2, <1>5 DEF Calm, Disconnect
  <2> QED BY <2>1, CalmKeeps DEF SyncInv
<1>6. CASE UNCHANGED <<remote, cache, connected, astray>>
  <2>1. Calm(t)  BY <1>0, <1>2, <1>6 DEF Calm
  <2> QED BY <2>1, CalmKeeps DEF SyncInv
<1>7. ASSUME NEW u \in Tracker, RefreshFetch(u) \/ ForgetTokens(u)
      PROVE  UNCHANGED <<remote, cache, connected, astray>>
  BY <1>7 DEF RefreshFetch, ForgetTokens, store, history
<1>8. ASSUME PlayFirst \/ Tick \/ UNCHANGED vars
      PROVE  UNCHANGED <<remote, cache, connected, astray>>
  BY <1>8 DEF PlayFirst, Tick, vars, store, history
<1> QED BY <1>3, <1>4, <1>5, <1>6, <1>7, <1>8 DEF Beside

\* A call asks for what calls ask for, and MAL is sent no status it has not.
LEMMA AskedStep ==
  ASSUME TypeOK, Asked, [Next]_vars
  PROVE  Asked'
<1>1. CASE Beside  BY <1>1, BesideApart DEF Asked
<1>2. ASSUME NEW j \in Job, NEW a \in Ask, Call(j, a) \/ CallRefused(j, a)
      PROVE  Asked'
  <2>1. ask' = [ask EXCEPT ![j] = a]  BY <1>2 DEF Call, CallRefused
  <2> QED BY <2>1 DEF Asked, TypeOK
<1>3. ASSUME NEW j \in Job, JobStep(j) \/ Cancel(j)  PROVE Asked'
  <2>1. UNCHANGED ask
    BY <1>3 DEF JobStep, Reserve, Start, Visit, Skip, Read, ReadFails, Send,
                SendRefused, ReplyLost, Record, RecordRepeat, Finish, Cancel, call
  <2> QED BY <2>1 DEF Asked
<1> QED BY <1>1, <1>2, <1>3, ThreeKinds

LEMMA MalPlainStep ==
  ASSUME TypeOK, Stand, MalPlain, [Next]_vars
  PROVE  MalPlain'
<1>0. remote \in [Tracker -> RemoteType] /\ "mal" \in Tracker
  BY DEF TypeOK, Tracker
<1>a. \A s : mal_status(s) # "repeating"  BY DEF mal_status
<1>1. ASSUME NEW j \in Job, Send(j) \/ ReplyLost(j)  PROVE MalPlain'
  <2>1. PICK t \in Tracker : t = turn[j]
    BY <1>1 DEF Send, ReplyLost, Stand, Attempting
  <2>2. remote' = [remote EXCEPT ![t] = LandsOn(j, t)]
    BY <1>1, <2>1 DEF Send, ReplyLost, Lands
  <2>3. CASE t = "mal"
    <3>1. remote["mal"] \in RemoteType  BY <1>0
    <3>2. LandsOn(j, t).status # "repeating"
      BY <1>a, <2>3, <3>1 DEF LandsOn, Landed, MalPlain, RemoteType
    <3> QED BY <1>0, <2>2, <2>3, <3>2 DEF MalPlain
  <2>4. CASE t # "mal"  BY <1>0, <2>2, <2>4 DEF MalPlain
  <2> QED BY <2>3, <2>4
<1>2. ASSUME NEW j \in Job, JobStep(j) \/ Cancel(j), ~Send(j), ~ReplyLost(j)
      PROVE  UNCHANGED remote
  BY <1>2 DEF JobStep, Reserve, Start, Visit, Skip, Read, ReadFails,
              SendRefused, Record, RecordRepeat, Finish, Cancel
<1>3. ASSUME NEW j \in Job, NEW a \in Ask, Call(j, a) \/ CallRefused(j, a)
      PROVE  UNCHANGED remote
  BY <1>3 DEF Call, CallRefused
<1>4. ASSUME NEW t \in Tracker, NEW l \in SiteEdits, SiteEdit(t, l)  PROVE MalPlain'
  <2>1. t = "mal" => Held(t, l, clock).status # "repeating"  BY <1>a DEF Held
  <2> QED BY <1>0, <1>4, <2>1 DEF SiteEdit, MalPlain
<1>5. ASSUME Beside, \A t \in Tracker, l \in SiteEdits : ~SiteEdit(t, l)
      PROVE  UNCHANGED remote
  BY <1>5 DEF Beside, RefreshFetch, Disconnect, ForgetTokens,
              RefreshReplace, PlayFirst, Tick, vars
<1>6. CASE UNCHANGED remote  BY <1>6 DEF MalPlain
<1> QED BY <1>1, <1>2, <1>3, <1>4, <1>5, <1>6, ThreeKinds

LEMMA SyncInit == Init => SyncInv
<1> SUFFICES ASSUME Init PROVE SyncInv  OBVIOUS
<1>1. IInv  BY InitInv
<1>2. Asked  BY DEF Init, Asked
<1>3. MalPlain
  <2>1. \A l, at : Held("mal", l, at).status # "repeating"
    BY DEF Held, mal_status
  <2>2. NoEntry.status # "repeating"  BY DEF NoEntry, None
  <2> QED BY <2>1, <2>2 DEF Init, MalPlain, Tracker
<1>4. ASSUME NEW t \in Tracker  PROVE Synced(t)
  <2>1. connected[t] => cache[t] = RowOf(t, remote[t], 0)  BY DEF Init
  <2>2. \A j \in Job : pc[j] = "idle"  BY DEF Init
  <2>3. \A j \in Job : ~Unrecorded(j, t)  BY <2>2 DEF Unrecorded
  <2> QED BY <2>1, <2>2, <2>3, RowOfSame DEF Synced
<1> QED BY <1>1, <1>2, <1>3, <1>4 DEF SyncInv

LEMMA SyncStep == SyncInv /\ [Next]_vars => SyncInv'
<1> SUFFICES ASSUME SyncInv, [Next]_vars PROVE SyncInv'  OBVIOUS
<1>0. IInv /\ TypeOK /\ Stand /\ Asked /\ MalPlain  BY DEF SyncInv, IInv
<1>1. IInv'  BY <1>0, StepInv
<1>2. Asked' /\ MalPlain'  BY <1>0, AskedStep, MalPlainStep
<1>3. ASSUME NEW t \in Tracker  PROVE astray'[t] \/ Synced(t)'
  <2>0. astray[t] \/ Synced(t)  BY DEF SyncInv
  <2>1. CASE Beside  BY <1>0, <2>1, SyncBeside
  <2>2. ASSUME NEW j \in Job, NEW a \in Ask, Call(j, a) \/ CallRefused(j, a)
        PROVE  Calm(t)
    <3>1. /\ UNCHANGED <<remote, cache, connected, astray>> /\ pc[j] = "idle"
          /\ pc'[j] \in {"looked", "next", "refused"}
      BY <1>0, <2>2 DEF Call, CallRefused, Moved, store, history, TypeOK
    <3>2. \A k \in Job \ {j} : Kept(k)  BY <1>0, <2>2, CallApart DEF Apart, Kept
    <3> QED BY <3>1, <3>2 DEF Calm, PastRead, Unrecorded, Kept
  <2>3. ASSUME NEW j \in Job, JobStep(j) \/ Cancel(j)
        PROVE  astray'[t] \/ Synced(t)'
    <3>1. CASE turn[j] = t /\ Send(j)  BY <1>0, <2>0, <3>1, SyncSend
    <3>2. CASE turn[j] = t /\ ReplyLost(j)
      BY <1>0, <3>2 DEF ReplyLost, TypeOK
    <3>3. CASE turn[j] = t /\ Record(j)  BY <1>0, <2>0, <3>3, SyncRecord
    <3>4. CASE turn[j] = t /\ RecordRepeat(j)
      BY <1>0, <2>0, <3>4, SyncRecordRepeat
    <3>5. CASE turn[j] = t /\ pc'[j] = "send"
      <4>1. Read(j)  BY <1>0, <2>3, <3>5, ReadsFirst
      <4> QED BY <1>0, <2>0, <3>5, <4>1, SyncRead
    <3>6. CASE turn[j] = t => /\ ~Send(j) /\ ~ReplyLost(j) /\ ~Record(j)
                              /\ ~RecordRepeat(j) /\ pc'[j] # "send"
      <4>1. Calm(t)  BY <1>0, <2>3, <3>6, JobCalm
      <4> QED BY <2>0, <4>1, CalmKeeps
    <3> QED BY <3>1, <3>2, <3>3, <3>4, <3>5, <3>6
  <2> QED BY <2>0, <2>1, <2>2, <2>3, CalmKeeps, ThreeKinds
<1> QED BY <1>1, <1>2, <1>3 DEF SyncInv

\* With nothing of a tracker sent and unrecorded, its row says what its list
\* says, whatever calls, refreshes, refusals, cancellations and sign-outs went
\* before, but where `astray` says why it may not: record_progress,
\* record_score, record_notes and record_repeat write what was sent, for every
\* kind of write, every entry, rewatch flags included, and every total.
THEOREM WritesCacheAgrees == Spec => []CacheAgrees
<1>1. SyncInv => CacheAgrees
  <2> SUFFICES ASSUME SyncInv, NEW t \in Carried, connected[t], ~astray[t],
                      \A j \in Job : ~Unrecorded(j, t)
               PROVE  /\ cache[t].status = normalize_status(t, remote[t])
                      /\ cache[t].progress = remote[t].progress
                      /\ cache[t].repeat = remote[t].repeat
    BY DEF CacheAgrees
  <2>1. t \in Tracker  BY WritesAssumption
  <2>2. SameAs(cache[t], Seen(t, remote[t]))  BY <2>1 DEF SyncInv, Synced
  <2> QED BY <2>2 DEF SameAs, Seen
<1> QED BY SyncInit, SyncStep, <1>1, PTL DEF Spec

------------------------------------------------------------------------------
(* A rewatch is counted once.                                               *)

\* The tracker whose row finished_again asks, and the earlier of that row's
\* stamp and the list's: no rewatch is taken for one played before it.
m == cached_id
L == Lower(cache[m].at, remote[m].at)

\* The call or job that holds the slot, and the trackers it has yet to send to.
Holder(j) == Alive(j) /\ again[j]
Left(j, t) == ~Behind(t, turn[j]) /\ ~Unrecorded(j, t)

\* Since when a rewatch could be a new one: while the count is on its way into
\* the main tracker's row, since the list changed.
Since(j) == IF Unrecorded(j, m) THEN remote[m].at ELSE L
One(b) == IF b THEN 1 ELSE 0

\* No list stands in a rewatch or is of the future.
Plain == /\ firstAt <= clock
         /\ \A t \in Tracker : /\ remote[t].status # "repeating" /\ ~remote[t].flag
                               /\ remote[t].at <= clock
Reads == \A j \in Job : pc[j] = "send" =>
           /\ entry[j].status # "repeating"
           /\ again[j] => entry[j].repeat = remote[turn[j]].repeat

\* What the lists count, what the holder has yet to count, and what a rewatch
\* not taken yet will, is no more than the rounds played.
Counts ==
  /\ (\A j \in Job : ~Holder(j)) =>
       \A t \in Tracker : remote[t].repeat + One(firstAt > L) <= rounds
  /\ \A j \in Job : Holder(j) =>
       \A t \in Tracker : remote[t].repeat + One(Left(j, t))
                            + One(~Left(j, m) /\ firstAt > Since(j)) <= rounds

\* A mark alone is taken for a rewatch.
Marks == \A j \in Job : again[j] => ask[j].kind = "mark" /\ pc[j] # "idle"

CountInv == /\ IInv /\ Asked /\ Marks
            /\ slipped \/ (Plain /\ Reads /\ Counts)

LEMMA MainTracker == m \in Tracker
<1>1. \E t \in Tracker : t # Main  BY WritesAssumption DEF Tracker
<1>2. (CHOOSE t \in Tracker : t # Main) \in Tracker  BY <1>1
<1> QED BY <1>2, WritesAssumption DEF m, cached_id

LEMMA LedgerType ==
  ASSUME TypeOK
  PROVE  /\ \A t \in Tracker : remote[t].repeat \in Nat /\ remote[t].at \in Nat
         /\ \A t \in Tracker : cache[t].at \in Nat
         /\ L \in Nat /\ L <= remote[m].at
         /\ \A j \in Job : Since(j) \in Nat
         /\ rounds \in Nat /\ firstAt \in Nat /\ clock \in Nat
<1>1. \A t \in Tracker : /\ remote[t].repeat \in Nat /\ remote[t].at \in Nat
                         /\ cache[t].at \in Nat
  BY DEF TypeOK, RemoteType, RowType
<1>2. L \in Nat /\ L <= remote[m].at  BY <1>1, MainTracker DEF L, Lower
<1>3. \A j \in Job : Since(j) \in Nat  BY <1>1, <1>2, MainTracker DEF Since
<1> QED BY <1>1, <1>2, <1>3 DEF TypeOK

LEMMA LedgerTypeNext ==
  ASSUME TypeOK'
  PROVE  L' \in Nat /\ \A j \in Job : Since(j)' \in Nat
<1>1. \A t \in Tracker : remote'[t].at \in Nat /\ cache'[t].at \in Nat
  BY DEF TypeOK, RemoteType, RowType
<1>2. m' = m /\ m \in Tracker  BY MainTracker DEF m, cached_id
<1>3. L' \in Nat  BY <1>1, <1>2 DEF L, Lower
<1> QED BY <1>1, <1>2, <1>3 DEF Since

\* The trackers behind a job that moves on.
LEMMA BehindAfter ==
  ASSUME NEW t \in Tracker, NEW u \in Tracker
  PROVE  Behind(t, After(u)) <=> Behind(t, u) \/ t = u
BY DEF Behind, After, Tracker, None

\* A row's stamp that is not set back leaves L where it was.
LEMMA NotSetBack ==
  ASSUME TypeOK, TypeOK', remote'[m].at = remote[m].at, ~SetBack
  PROVE  L' >= L
<1>1. /\ cache[m].at \in Nat /\ remote[m].at \in Nat /\ cache'[m].at \in Nat
  BY MainTracker DEF TypeOK, RowType, RemoteType
<1>2. cache'[m].at >= cache[m].at \/ cache'[m].at >= remote[m].at
  BY <1>1 DEF SetBack, m
<1>3. m' = m  BY DEF m, cached_id
<1> QED BY <1>1, <1>2, <1>3 DEF L, Lower

\* A step that counts nothing and takes no tracker from the holder but ones it
\* passes keeps the ledger.
Keeps ==
  /\ \A t \in Tracker : remote'[t].repeat = remote[t].repeat
  /\ (UNCHANGED <<rounds, firstAt>>) \/ rounds' = rounds + 1
  /\ L' >= L
  /\ \A k \in Job : Holder(k)' <=> Holder(k)
  /\ \A k \in Job : Holder(k) =>
       /\ \A t \in Tracker : Left(k, t)' => Left(k, t)
       /\ Left(k, m)' <=> Left(k, m)
       /\ Since(k)' >= Since(k)

LEMMA KeepsCounts ==
  ASSUME TypeOK, TypeOK', Counts, Keeps
  PROVE  Counts'
<1>0. /\ \A t \in Tracker : remote[t].repeat \in Nat
      /\ L \in Nat /\ L' \in Nat /\ rounds \in Nat /\ firstAt \in Nat
      /\ rounds' \in Nat /\ firstAt' \in Nat
      /\ \A j \in Job : Since(j) \in Nat /\ Since(j)' \in Nat
  BY LedgerType, LedgerTypeNext DEF TypeOK
<1>m. m' = m /\ m \in Tracker  BY MainTracker DEF m, cached_id
<1>1. ASSUME \A j \in Job : ~Holder(j)', NEW t \in Tracker
      PROVE  remote'[t].repeat + One(firstAt' > L') <= rounds'
  <2>1. remote[t].repeat + One(firstAt > L) <= rounds
    BY <1>1 DEF Keeps, Counts
  <2>2. CASE UNCHANGED <<rounds, firstAt>>
    BY <1>0, <2>1, <2>2 DEF Keeps, One
  <2>3. CASE rounds' = rounds + 1
    BY <1>0, <2>1, <2>3 DEF Keeps, One
  <2> QED BY <2>2, <2>3 DEF Keeps
<1>2. ASSUME NEW j \in Job, Holder(j)', NEW t \in Tracker
      PROVE  remote'[t].repeat + One(Left(j, t)')
               + One(~Left(j, m)' /\ firstAt' > Since(j)') <= rounds'
  <2>0. Holder(j)  BY <1>2 DEF Keeps
  <2>1. remote[t].repeat + One(Left(j, t))
          + One(~Left(j, m) /\ firstAt > Since(j)) <= rounds
    BY <2>0 DEF Counts
  <2>2. /\ remote'[t].repeat = remote[t].repeat
        /\ Left(j, t)' => Left(j, t)
        /\ Left(j, m)' <=> Left(j, m)
        /\ Since(j)' >= Since(j)
    BY <2>0 DEF Keeps
  <2>3. One(Left(j, t)') <= One(Left(j, t)) /\ One(Left(j, t)) \in {0, 1}
          /\ One(Left(j, t)') \in {0, 1}
    BY <2>2 DEF One
  <2>4. CASE UNCHANGED <<rounds, firstAt>>
    <3>1. One(~Left(j, m)' /\ firstAt' > Since(j)')
            <= One(~Left(j, m) /\ firstAt > Since(j))
      BY <1>0, <2>2, <2>4 DEF One
    <3>2. One(~Left(j, m)' /\ firstAt' > Since(j)') \in {0, 1}
            /\ One(~Left(j, m) /\ firstAt > Since(j)) \in {0, 1}
      BY DEF One
    <3> QED BY <1>0, <2>1, <2>2, <2>3, <2>4, <3>1, <3>2
  <2>5. CASE rounds' = rounds + 1
    <3>1. One(~Left(j, m)' /\ firstAt' > Since(j)') \in {0, 1}
            /\ One(~Left(j, m) /\ firstAt > Since(j)) \in {0, 1}
      BY DEF One
    <3> QED BY <1>0, <2>1, <2>2, <2>3, <2>5, <3>1
  <2> QED BY <2>4, <2>5 DEF Keeps
<1> QED BY <1>1, <1>2, <1>m DEF Counts

\* Only a mark taken for a rewatch counts, on a list that is not in one.
LEMMA OnlyAgainCounts ==
  ASSUME NEW a \in AskType, NEW e \in ReadType, NEW b \in BOOLEAN,
         e.status # "repeating", ChangeOf(a, e, b).counts
  PROVE  b
<1>1. CASE a.kind = "mark"
  BY <1>1 DEF ChangeOf, MarkChange, Change, Rewatched
<1>2. CASE a.kind = "progress"
  BY <1>2 DEF ChangeOf, ProgressChange, Change, Rewatched
<1>3. CASE a.kind = "score"
  BY <1>3 DEF ChangeOf, ScoreChange, Change
<1>4. CASE a.kind = "status"
  BY <1>4 DEF ChangeOf, StatusChange, Change
<1>5. CASE a.kind = "notes"
  BY <1>5 DEF ChangeOf, Change
<1> QED BY <1>1, <1>2, <1>3, <1>4, <1>5 DEF AskType

\* What a request leaves of the entry it lands on.
LEMMA LandsCount ==
  ASSUME TypeOK, Plain, Reads, Asked, NEW j \in Job, pc[j] = "send",
         NEW t \in Tracker, turn[j] = t, Lands(j, t)
  PROVE  /\ \A u \in Tracker \ {t} : remote'[u] = remote[u]
         /\ remote'[t].at = clock
         /\ remote'[t].status # "repeating" /\ ~remote'[t].flag
         /\ remote'[t].repeat = IF TheChange(j).counts THEN remote[t].repeat + 1
                                ELSE remote[t].repeat
         /\ TheChange(j).counts => again[j]
<1>0. /\ remote \in [Tracker -> RemoteType] /\ remote[t] \in RemoteType
      /\ entry[j] \in ReadType /\ again[j] \in BOOLEAN /\ ask[j] \in AskType
      /\ ask[j] \in Ask \cup {NoAsk}
  BY DEF TypeOK, Asked
<1>1. PICK c : c = TheChange(j)  OBVIOUS
<1>2. remote'[t] = Landed(t, remote[t], c, entry[j])
  BY <1>0, <1>1 DEF Lands, LandsOn
<1>3. entry[j].status # "repeating"  BY DEF Reads
<1>4. c.counts => again[j]  BY <1>0, <1>1, <1>3, OnlyAgainCounts DEF TheChange
<1>5. c.status # "repeating"
  <2>1. ChangeOf(ask[j], entry[j], again[j]).status = "repeating"
          => entry[j].status = "repeating"
    BY <1>0, ChangeFacts
  <2> QED BY <1>1, <1>3, <2>1 DEF TheChange
<1>6. ~remote[t].flag /\ remote[t].status # "repeating"  BY DEF Plain
<1>7. c.counts => entry[j].repeat = remote[t].repeat  BY <1>4 DEF Reads
<1>8. /\ remote'[t].at = clock
      /\ remote'[t].status # "repeating" /\ ~remote'[t].flag
      /\ remote'[t].repeat = IF c.counts THEN entry[j].repeat + 1 ELSE remote[t].repeat
  BY <1>0, <1>2, <1>5, <1>6 DEF Landed, RemoteType, mal_status
<1>9. \A u \in Tracker \ {t} : remote'[u] = remote[u]  BY <1>0 DEF Lands
<1> QED BY <1>1, <1>4, <1>7, <1>8, <1>9


LEMMA SlippedStays ==
  ASSUME [Next]_vars, slipped
  PROVE  slipped'
<1> USE DEF Slips, history
<1>1. ASSUME NEW j \in Job, NEW a \in Ask, Call(j, a) \/ CallRefused(j, a)
      PROVE  slipped'
  BY <1>1 DEF Call, CallRefused
<1>2. ASSUME NEW j \in Job, JobStep(j) \/ Cancel(j)  PROVE slipped'
  BY <1>2 DEF JobStep, Reserve, Start, Visit, Skip, Read, ReadFails, Send,
              SendRefused, ReplyLost, Record, RecordRepeat, Finish, Cancel
<1>3. ASSUME NEW t \in Tracker, NEW l \in SiteEdits, SiteEdit(t, l)  PROVE slipped'
  BY <1>3 DEF SiteEdit
<1>4. ASSUME Beside, \A t \in Tracker, l \in SiteEdits : ~SiteEdit(t, l)
      PROVE  slipped'
  BY <1>4 DEF Beside, RefreshFetch, Disconnect, ForgetTokens, RefreshReplace,
              PlayFirst, Tick, vars
<1> QED BY <1>1, <1>2, <1>3, <1>4, ThreeKinds

LEMMA BesideKeeps ==
  ASSUME TypeOK, TypeOK', Beside, ~slipped'
  PROVE  Keeps
<1> USE DEF Slips, history, time
<1>1. UNCHANGED <<pc, again, turn>>  BY BesideApart
<1>2. \A t \in Tracker, l \in SiteEdits : ~SiteEdit(t, l)  BY DEF SiteEdit
<1>3. UNCHANGED remote
  BY <1>2 DEF Beside, RefreshFetch, Disconnect, ForgetTokens, RefreshReplace,
              PlayFirst, Tick, vars
<1>4. UNCHANGED <<rounds, firstAt>> \/ rounds' = rounds + 1
  BY <1>2 DEF Beside, RefreshFetch, Disconnect, ForgetTokens, RefreshReplace,
              PlayFirst, Tick, vars
<1>5. UNCHANGED cache \/ ~SetBack
  BY <1>2 DEF Beside, RefreshFetch, Disconnect, ForgetTokens, RefreshReplace,
              PlayFirst, Tick, vars, store
<1>6. L' >= L
  <2>1. CASE UNCHANGED cache
    <3>1. L' = L  BY <1>3, <2>1 DEF L, m, cached_id
    <3> QED BY <3>1, LedgerType
  <2>2. CASE ~SetBack  BY <1>3, <2>2, NotSetBack
  <2> QED BY <1>5, <2>1, <2>2
<1>7. \A k \in Job : /\ Holder(k)' <=> Holder(k)
                     /\ \A t : /\ Left(k, t)' <=> Left(k, t)
                               /\ Unrecorded(k, t)' <=> Unrecorded(k, t)
  BY <1>1 DEF Holder, Alive, Left, Unrecorded
<1>8. m' = m  BY DEF m, cached_id
<1>9. \A k \in Job : Since(k)' >= Since(k)
  BY <1>3, <1>6, <1>7, <1>8, LedgerType, MainTracker DEF Since
<1> QED BY <1>3, <1>4, <1>6, <1>7, <1>8, <1>9 DEF Keeps

\* A step of one call or job that neither starts nor ends a rewatch.
LEMMA OneKeeps ==
  ASSUME TypeOK, TypeOK', NEW j \in Job, Apart(j), UNCHANGED <<rounds, firstAt>>,
         \A t \in Tracker : remote'[t].repeat = remote[t].repeat,
         L' >= L, remote'[m].at >= remote[m].at,
         \/ ~Holder(j) /\ ~Holder(j)'
         \/ /\ Holder(j) /\ Holder(j)'
            /\ \A t \in Tracker : Left(j, t)' => Left(j, t)
            /\ Left(j, m)' <=> Left(j, m)
            /\ Since(j)' >= Since(j)
  PROVE  Keeps
<1>1. \A k \in Job \ {j} : /\ Holder(k)' <=> Holder(k)
                           /\ \A t : /\ Left(k, t)' <=> Left(k, t)
                                     /\ Unrecorded(k, t)' <=> Unrecorded(k, t)
  BY DEF Apart, Holder, Alive, Left, Unrecorded
<1>2. m' = m  BY DEF m, cached_id
<1>3. \A k \in Job \ {j} : Since(k)' >= Since(k)
  BY <1>1, <1>2, LedgerType, MainTracker DEF Since
<1> QED BY <1>1, <1>2, <1>3 DEF Keeps

LEMMA CallKeeps ==
  ASSUME TypeOK, TypeOK', NEW j \in Job, NEW a \in Ask,
         Call(j, a) \/ CallRefused(j, a)
  PROVE  Keeps
<1>1. /\ UNCHANGED <<remote, cache, rounds, firstAt>> /\ pc[j] = "idle"
  BY DEF Call, CallRefused, store, time
<1>2. pc'[j] \in {"looked", "refused"} \/ (pc'[j] = "next" /\ ~again'[j])
  <2>0. pc \in [Job -> PC] /\ again \in [Job -> BOOLEAN]  BY DEF TypeOK
  <2>1. CASE CallRefused(j, a)  BY <2>0, <2>1 DEF CallRefused, Moved
  <2>2. CASE Call(j, a) /\ a.kind = "mark"  BY <2>0, <2>2 DEF Call, Moved
  <2>3. CASE Call(j, a) /\ a.kind # "mark"  BY <2>0, <2>3 DEF Call, Moved
  <2> QED BY <2>1, <2>2, <2>3
<1>3. ~Holder(j) /\ ~Holder(j)'  BY <1>1, <1>2 DEF Holder, Alive, Running
<1>4. L' = L /\ L \in Nat /\ remote[m].at \in Nat
  BY <1>1, LedgerType, MainTracker DEF L, m, cached_id
<1>5. Apart(j)  BY CallApart
<1>6. L' >= L /\ remote'[m].at >= remote[m].at  BY <1>1, <1>4
<1> QED BY <1>1, <1>3, <1>5, <1>6, OneKeeps

\* A job that stays at its tracker.
LEMMA StayKeeps ==
  ASSUME TypeOK, TypeOK', NEW j \in Job, Apart(j),
         UNCHANGED <<remote, cache, again, turn, rounds, firstAt>>,
         pc[j] \in {"held", "next", "read", "send"},
         pc'[j] \in {"held", "next", "read", "send"}
  PROVE  Keeps
<1>1. /\ Holder(j)' <=> Holder(j)
      /\ \A t : /\ ~Unrecorded(j, t) /\ ~Unrecorded(j, t)'
                /\ Left(j, t)' <=> Left(j, t)
  BY DEF Holder, Alive, Running, Left, Unrecorded
<1>2. L' = L /\ m' = m  BY DEF L, m, cached_id
<1>3. Since(j)' >= Since(j) /\ L' >= L /\ remote'[m].at >= remote[m].at
  BY <1>1, <1>2, LedgerType, MainTracker DEF Since
<1> QED BY <1>1, <1>2, <1>3, OneKeeps

\* A job that moves on to the next tracker from another than the main one.
LEMMA MoveKeeps ==
  ASSUME TypeOK, TypeOK', NEW j \in Job, Apart(j),
         UNCHANGED <<remote, again, rounds, firstAt>>, L' >= L,
         NEW u \in Tracker, turn[j] = u, turn'[j] = After(u),
         pc[j] \in Running, pc'[j] = "next", again[j] => u # m
  PROVE  Keeps
<1>1. Holder(j)' <=> Holder(j)  BY DEF Holder, Alive, Running
<1>2. \A t \in Tracker : /\ ~Unrecorded(j, t)'
                         /\ Left(j, t)' => Left(j, t)
                         /\ t # u => /\ Left(j, t)' <=> Left(j, t)
                                     /\ ~Unrecorded(j, t)
  BY BehindAfter DEF Unrecorded, Left
<1>3. m' = m  BY DEF m, cached_id
<1>4. remote'[m].at >= remote[m].at  BY LedgerType, MainTracker
<1>5. CASE ~Holder(j)  BY <1>1, <1>4, <1>5, OneKeeps
<1>6. CASE Holder(j)
  <2>1. m # u  BY <1>6 DEF Holder
  <2>2. Since(j)' >= Since(j)
    BY <1>2, <1>3, <2>1, MainTracker DEF Since
  <2> QED BY <1>1, <1>2, <1>4, <1>6, <2>1, <2>2, MainTracker, OneKeeps
<1> QED BY <1>5, <1>6

\* The mark that is let in: a round was played since the row and the list last
\* changed (finished_again).
LEMMA CountReserve ==
  ASSUME TypeOK, TypeOK', Stand, SlotHeldByOne, Counts, ~slipped',
         NEW j \in Job, Reserve(j), Total # 1
  PROVE  Counts'
<1>0. /\ pc \in [Job -> PC] /\ again \in [Job -> BOOLEAN] /\ slot \in BOOLEAN
  BY DEF TypeOK
<1>1. /\ pc[j] = "looked" /\ pc'[j] = "held" /\ again'[j] = Inserted(j)
      /\ UNCHANGED <<remote, cache, turn, rounds, firstAt>>
  BY <1>0 DEF Reserve, Moved, store, time
<1>2. Apart(j)  BY JobStepApart DEF JobStep
<1>3. ~Holder(j)  BY <1>1 DEF Holder, Alive, Running
<1>4. L' = L /\ m' = m  BY <1>1 DEF L, m, cached_id
<1>5. CASE ~Inserted(j)
  <2>1. ~Holder(j)'  BY <1>1, <1>5 DEF Holder
  <2>2. L' >= L /\ remote'[m].at >= remote[m].at
    BY <1>1, <1>4, LedgerType, MainTracker
  <2>3. Keeps  BY <1>1, <1>2, <1>3, <2>1, <2>2, OneKeeps
  <2> QED BY <2>3, KeepsCounts
<1>6. CASE Inserted(j)
  <2>1. finished_again(ask[j].n)  BY <1>6 DEF Reserve, Slips
  <2>2. firstAt > L
    <3>1. firstAt > cache[m].at  BY <2>1 DEF finished_again, m
    <3>2. /\ cache[m].at \in Nat /\ remote[m].at \in Nat /\ firstAt \in Nat
      BY LedgerType, MainTracker
    <3> QED BY <3>1, <3>2 DEF L, Lower
  <2>3. \A k \in Job : ~Holder(k)  BY <1>6 DEF SlotHeldByOne, Inserted, Holder
  <2>4. \A t \in Tracker : remote[t].repeat + 1 <= rounds
    BY <2>2, <2>3 DEF Counts, One
  <2>5. \A k \in Job : Holder(k)' <=> k = j
    BY <1>1, <1>2, <1>6, <2>3 DEF Holder, Alive, Apart
  <2>6. turn[j] = "anilist"  BY <1>1 DEF Stand, NotVisiting
  <2>7. \A t : Left(j, t)'
    BY <1>1, <2>6 DEF Left, Unrecorded, Behind, None
  <2>8. \A t \in Tracker : remote[t].repeat \in Nat  BY LedgerType
  <2>9. ASSUME NEW t \in Tracker
        PROVE  remote'[t].repeat + One(Left(j, t)')
                 + One(~Left(j, m)' /\ firstAt' > Since(j)') <= rounds'
    <3>1. One(Left(j, t)') = 1 /\ One(~Left(j, m)' /\ firstAt' > Since(j)') = 0
      BY <2>7 DEF One
    <3> QED BY <1>1, <2>4, <2>8, <3>1
  <2> QED BY <1>4, <2>5, <2>9 DEF Counts
<1> QED BY <1>5, <1>6

\* The holder that ends past the main tracker has counted there.
LEMMA CountLeaves ==
  ASSUME TypeOK, TypeOK', Stand, SlotHeldByOne, Counts, ~slipped',
         NEW j \in Job, Finish(j) \/ Cancel(j)
  PROVE  Counts'
<1>0. /\ pc \in [Job -> PC] /\ again \in [Job -> BOOLEAN]
      /\ turn \in [Job -> Tracker \cup {None}]
  BY DEF TypeOK
<1>1. /\ pc[j] \in Running /\ pc'[j] \in {"done", "cancelled"}
      /\ UNCHANGED <<remote, cache, again, rounds, firstAt>>
  BY <1>0 DEF Finish, Cancel, Moved, Running, store, call, time
<1>2. Apart(j)  BY JobStepApart DEF JobStep
<1>3. L' = L /\ m' = m /\ L \in Nat  BY <1>1, LedgerType DEF L, m, cached_id
<1>4. ~Holder(j)'  BY <1>1 DEF Holder, Alive, Running
<1>5. CASE ~Holder(j)
  <2>1. L' >= L /\ remote'[m].at >= remote[m].at
    BY <1>1, <1>3, LedgerType, MainTracker
  <2>2. Keeps  BY <1>1, <1>2, <1>4, <1>5, <2>1, OneKeeps
  <2> QED BY <2>2, KeepsCounts
<1>6. CASE Holder(j)
  <2>1. \A k \in Job : ~Holder(k)'
    <3>1. \A k \in Job \ {j} : ~Holder(k)
      BY <1>6 DEF SlotHeldByOne, Holder
    <3> QED BY <1>2, <1>4, <3>1 DEF Apart, Holder, Alive
  <2>2. ~Left(j, m) /\ ~Unrecorded(j, m)
    <3>1. CASE Finish(j)
      BY <3>1 DEF Finish, Left, Behind, Unrecorded
    <3>2. CASE Cancel(j)
      <4>1. turn[j] # "anilist" /\ turn[j] # m
        BY <1>6, <3>2 DEF Cancel, Slips, Holder, m
      <4> QED BY <1>0, <4>1, MainTracker DEF Left, Behind, Unrecorded, Tracker
    <3> QED BY <3>1, <3>2
  <2>3. Since(j) = L  BY <2>2 DEF Since
  <2>4. ASSUME NEW t \in Tracker
        PROVE  remote'[t].repeat + One(firstAt' > L') <= rounds'
    <3>1. remote[t].repeat + One(Left(j, t))
            + One(~Left(j, m) /\ firstAt > Since(j)) <= rounds
      BY <1>6 DEF Counts
    <3>2. One(~Left(j, m) /\ firstAt > Since(j)) = One(firstAt > L)
      BY <2>2, <2>3 DEF One
    <3>3. One(Left(j, t)) \in {0, 1} /\ One(firstAt > L) \in {0, 1}  BY DEF One
    <3>4. remote[t].repeat \in Nat /\ rounds \in Nat  BY LedgerType
    <3> QED BY <1>1, <1>3, <3>1, <3>2, <3>3, <3>4
  <2> QED BY <2>1, <2>4 DEF Counts
<1> QED BY <1>5, <1>6

\* A request counts one on the tracker it lands on, for the one round the
\* holder had yet to count there.
LEMMA CountSend ==
  ASSUME TypeOK, TypeOK', Stand, SlotHeldByOne, Asked, Plain, Reads, Counts,
         ~slipped', NEW j \in Job, Send(j) \/ ReplyLost(j)
  PROVE  Counts'
<1>0. /\ pc \in [Job -> PC] /\ again \in [Job -> BOOLEAN]
      /\ turn \in [Job -> Tracker \cup {None}]
  BY DEF TypeOK
<1>1. PICK t \in Tracker : t = turn[j]
  BY DEF Send, ReplyLost, Stand, Attempting
<1>2. /\ pc[j] = "send" /\ Lands(j, t)
      /\ UNCHANGED <<cache, again, rounds, firstAt, clock>>
      /\ \/ pc'[j] = "record" /\ turn'[j] = t
         \/ pc'[j] = "next" /\ turn'[j] = After(t) /\ (again[j] => t # m)
  <2>1. CASE Send(j)  BY <1>0, <1>1, <2>1 DEF Send, Moved, store, time
  <2>2. CASE ReplyLost(j)
    BY <1>0, <1>1, <2>2 DEF ReplyLost, Resolve, Moved, store, time, Slips, AtMain, m
  <2> QED BY <2>1, <2>2
<1>3. /\ \A u \in Tracker \ {t} : remote'[u] = remote[u]
      /\ remote'[t].at = clock
      /\ remote'[t].repeat = IF TheChange(j).counts THEN remote[t].repeat + 1
                             ELSE remote[t].repeat
      /\ TheChange(j).counts => again[j]
  BY <1>1, <1>2, LandsCount
<1>4. Apart(j)  BY JobStepApart DEF JobStep
<1>5. m' = m /\ m \in Tracker  BY MainTracker DEF m, cached_id
<1>6. /\ \A u \in Tracker : remote[u].repeat \in Nat /\ remote[u].at \in Nat
      /\ clock \in Nat /\ firstAt \in Nat /\ rounds \in Nat /\ cache[m].at \in Nat
  BY <1>5, LedgerType
<1>7. remote'[m].at >= remote[m].at
  <2>1. remote[t].at <= clock  BY DEF Plain
  <2> QED BY <1>3, <1>5, <1>6, <2>1
<1>8. L' >= L
  <2>1. remote'[m].at \in Nat  BY <1>3, <1>5, <1>6
  <2> QED BY <1>2, <1>5, <1>6, <1>7, <2>1 DEF L, Lower
<1>9. Holder(j)' <=> Holder(j)  BY <1>2 DEF Holder, Alive, Running
<1>10. CASE ~Holder(j)
  <2>1. ~TheChange(j).counts  BY <1>2, <1>3, <1>10 DEF Holder, Alive, Running
  <2>2. \A u \in Tracker : remote'[u].repeat = remote[u].repeat
    BY <1>3, <2>1
  <2>3. Keeps  BY <1>2, <1>4, <1>7, <1>8, <1>9, <1>10, <2>2, OneKeeps
  <2> QED BY <2>3, KeepsCounts
<1>11. CASE Holder(j)
  <2>1. \A k \in Job : Holder(k)' => k = j
    <3>1. \A k \in Job \ {j} : ~Holder(k)
      BY <1>11 DEF SlotHeldByOne, Holder
    <3> QED BY <1>4, <3>1 DEF Apart, Holder, Alive
  <2>2. Left(j, t)  BY <1>1, <1>2 DEF Left, Behind, Unrecorded, Tracker, None
  <2>3. \A u \in Tracker : Left(j, u)' <=> Left(j, u) /\ u # t
    <3>1. CASE pc'[j] = "record" /\ turn'[j] = t
      BY <1>1, <1>2, <3>1 DEF Left, Unrecorded
    <3>2. CASE pc'[j] = "next" /\ turn'[j] = After(t)
      BY <1>1, <1>2, <3>2, BehindAfter DEF Left, Unrecorded
    <3> QED BY <1>2, <3>1, <3>2
  <2>4. One(~Left(j, m)' /\ firstAt' > Since(j)')
          <= One(~Left(j, m) /\ firstAt > Since(j))
    <3>1. CASE t = m
      <4>1. pc'[j] = "record" /\ turn'[j] = m
        BY <1>2, <1>11, <3>1 DEF Holder
      <4>2. Since(j)' = clock
        BY <1>3, <1>5, <3>1, <4>1 DEF Since, Unrecorded
      <4>3. ~(firstAt' > Since(j)')
        BY <1>2, <1>6, <4>2 DEF Plain
      <4> QED BY <4>3 DEF One
    <3>2. CASE t # m
      <4>1. ~Unrecorded(j, m) /\ ~Unrecorded(j, m)'
        BY <1>1, <1>2, <1>5, <3>2 DEF Unrecorded
      <4>2. remote'[m] = remote[m]  BY <1>3, <1>5, <3>2
      <4>3. Since(j)' = Since(j)
        BY <1>2, <1>5, <4>1, <4>2 DEF Since, L
      <4>4. Left(j, m)' <=> Left(j, m)  BY <1>5, <2>3, <3>2
      <4> QED BY <1>2, <4>3, <4>4 DEF One
    <3> QED BY <3>1, <3>2
  <2>5. ASSUME NEW u \in Tracker
        PROVE  remote'[u].repeat + One(Left(j, u)')
                 + One(~Left(j, m)' /\ firstAt' > Since(j)') <= rounds'
    <3> DEFINE x == One(~Left(j, m) /\ firstAt > Since(j))
               y == One(~Left(j, m)' /\ firstAt' > Since(j)')
    <3>1. remote[u].repeat + One(Left(j, u)) + x <= rounds
      BY <1>11 DEF Counts
    <3>2. x \in {0, 1} /\ y \in {0, 1} /\ y <= x  BY <2>4 DEF One
    <3> HIDE DEF x, y
    <3>3. CASE u = t
      <4>1. One(Left(j, u)') = 0 /\ One(Left(j, u)) = 1
        BY <2>2, <2>3, <3>3 DEF One
      <4> QED BY <1>2, <1>3, <1>6, <3>1, <3>2, <3>3, <4>1 DEF y
    <3>4. CASE u # t
      <4>1. One(Left(j, u)') = One(Left(j, u)) /\ One(Left(j, u)) \in {0, 1}
        BY <2>3, <3>4 DEF One
      <4>2. remote'[u] = remote[u]  BY <1>3, <3>4
      <4> QED BY <1>2, <1>6, <3>1, <3>2, <4>1, <4>2 DEF y
    <3> QED BY <3>3, <3>4
  <2>6. Holder(j)'  BY <1>9, <1>11
  <2> QED BY <1>5, <2>1, <2>5, <2>6 DEF Counts
<1> QED BY <1>10, <1>11

\* The record of a write on the tracker the row is of keeps the stamps in
\* order, or the count was not one.
LEMMA CountRecord ==
  ASSUME TypeOK, TypeOK', Stand, ~slipped', NEW j \in Job, Record(j)
  PROVE  Keeps
<1>0. /\ pc \in [Job -> PC] /\ turn \in [Job -> Tracker \cup {None}]
  BY DEF TypeOK
<1>1. PICK t \in Tracker : t = turn[j]  BY DEF Record, Stand, Attempting
<1>2. /\ pc[j] = "record"
      /\ UNCHANGED <<remote, again, rounds, firstAt>>
      /\ \/ TheChange(j).counts /\ pc'[j] = "repeat" /\ turn' = turn
         \/ ~TheChange(j).counts /\ pc'[j] = "next" /\ turn'[j] = After(t)
      /\ ~SetBack
      /\ AtMain(j) => TheChange(j).counts
  BY <1>0, <1>1 DEF Record, Resolve, Moved, time, Slips
<1>3. Apart(j)  BY JobStepApart DEF JobStep
<1>4. L' >= L  BY <1>2, NotSetBack
<1>5. remote'[m].at >= remote[m].at  BY <1>2, LedgerType, MainTracker
<1>6. CASE pc'[j] = "repeat" /\ turn' = turn
  <2>1. /\ Holder(j)' <=> Holder(j)
        /\ \A u : /\ Left(j, u)' <=> Left(j, u)
                  /\ Unrecorded(j, u)' <=> Unrecorded(j, u)
    BY <1>2, <1>6 DEF Holder, Alive, Running, Left, Unrecorded
  <2>2. m' = m  BY DEF m, cached_id
  <2>3. Since(j)' >= Since(j)
    BY <1>2, <1>4, <2>1, <2>2, LedgerType, MainTracker DEF Since
  <2> QED BY <1>2, <1>3, <1>4, <1>5, <2>1, <2>3, OneKeeps
<1>7. CASE ~TheChange(j).counts /\ pc'[j] = "next" /\ turn'[j] = After(t)
  <2>1. again[j] => t # m  BY <1>1, <1>2, <1>7 DEF AtMain, m
  <2>2. pc[j] \in Running  BY <1>2 DEF Running
  <2> QED BY <1>1, <1>2, <1>3, <1>4, <1>7, <2>1, <2>2, MoveKeeps
<1> QED BY <1>2, <1>6, <1>7

\* record_repeat moves the main tracker's row past the change it counts.
LEMMA CountRecordRepeat ==
  ASSUME TypeOK, TypeOK', Stand, Plain, ~slipped', NEW j \in Job, RecordRepeat(j)
  PROVE  Keeps
<1>0. /\ pc \in [Job -> PC] /\ turn \in [Job -> Tracker \cup {None}]
      /\ cache \in [Tracker -> RowType]
  BY DEF TypeOK
<1>1. PICK t \in Tracker : t = turn[j]  BY DEF RecordRepeat, Stand, Attempting
<1>2. /\ pc[j] = "repeat" /\ pc'[j] = "next" /\ turn'[j] = After(t)
      /\ UNCHANGED <<remote, again, rounds, firstAt>>
      /\ cache' = [cache EXCEPT ![t] = patch_repeat(@, entry[j].repeat + 1)]
      /\ AtMain(j) => cache[t].held
  BY <1>0, <1>1 DEF RecordRepeat, Resolve, Moved, time, Slips
<1>3. Apart(j)  BY JobStepApart DEF JobStep
<1>4. m' = m /\ m \in Tracker  BY MainTracker DEF m, cached_id
<1>5. /\ cache[m].at \in Nat /\ cache[t].at \in Nat /\ clock \in Nat
      /\ remote[m].at \in Nat /\ remote[m].at <= clock
  BY <1>4, LedgerType DEF Plain
<1>6. /\ cache'[t].at >= cache[t].at
      /\ cache[t].held => cache'[t].at >= clock
      /\ cache'[t].at \in Nat
  <2>1. cache'[t] = patch_repeat(cache[t], entry[j].repeat + 1)  BY <1>0, <1>2
  <2>2. cache[t] \in RowType  BY <1>0
  <2> QED BY <1>5, <2>1, <2>2 DEF patch_repeat, Higher, RowType
<1>7. cache'[m].at >= cache[m].at /\ cache'[m].at \in Nat
  BY <1>0, <1>2, <1>4, <1>5, <1>6
<1>8. L' >= L  BY <1>2, <1>4, <1>5, <1>7 DEF L, Lower
<1>9. pc[j] \in Running  BY <1>2 DEF Running
<1>10. CASE again[j] => t # m
  BY <1>1, <1>2, <1>3, <1>8, <1>9, <1>10, MoveKeeps
<1>11. CASE again[j] /\ t = m
  <2>1. cache'[m].at >= remote[m].at
    <3>1. cache[t].held  BY <1>1, <1>2, <1>11 DEF AtMain, m
    <3> QED BY <1>5, <1>6, <1>11, <3>1
  <2>2. L' = remote[m].at  BY <1>2, <1>4, <1>5, <1>7, <2>1 DEF L, Lower
  <2>3. Holder(j) /\ Holder(j)'
    BY <1>2, <1>11 DEF Holder, Alive, Running
  <2>4. \A u \in Tracker : /\ Left(j, u)' => Left(j, u)
                           /\ Left(j, m)' <=> Left(j, m)
    BY <1>1, <1>2, <1>4, <1>11, BehindAfter DEF Left, Unrecorded
  <2>5. Since(j) = remote[m].at  BY <1>1, <1>2, <1>11 DEF Since, Unrecorded
  <2>6. Since(j)' = remote[m].at  BY <1>2, <2>2 DEF Since, Unrecorded
  <2>7. Since(j)' >= Since(j) /\ remote'[m].at >= remote[m].at
    BY <1>2, <1>5, <2>5, <2>6
  <2> QED BY <1>2, <1>3, <1>4, <1>8, <2>3, <2>4, <2>7, OneKeeps
<1> QED BY <1>10, <1>11

LEMMA MarksStep ==
  ASSUME TypeOK, Marks, [Next]_vars
  PROVE  Marks'
<1>0. /\ pc \in [Job -> PC] /\ again \in [Job -> BOOLEAN] /\ ask \in [Job -> AskType]
  BY DEF TypeOK
<1>1. CASE Beside  BY <1>1, BesideApart DEF Marks
<1>2. ASSUME NEW j \in Job, NEW a \in Ask, Call(j, a) \/ CallRefused(j, a)
      PROVE  Marks'
  <2>1. Apart(j)  BY <1>2, CallApart
  <2>2. pc[j] = "idle" /\ pc'[j] # "idle" /\ ask'[j] = a
    BY <1>0, <1>2 DEF Call, CallRefused, Moved
  <2>3. again'[j] => a.kind = "mark"
    <3>1. CASE Call(j, a)  BY <1>0, <3>1 DEF Call
    <3>2. CASE CallRefused(j, a)  BY <1>0, <2>2, <3>2 DEF CallRefused, Marks
    <3> QED BY <1>2, <3>1, <3>2
  <2> QED BY <2>1, <2>2, <2>3 DEF Marks, Apart
<1>3. ASSUME NEW j \in Job, JobStep(j) \/ Cancel(j)  PROVE Marks'
  <2>1. Apart(j) /\ pc[j] \in UnderWay  BY <1>3, JobStepApart
  <2>2. ask' = ask
    BY <1>3 DEF JobStep, Reserve, Start, Visit, Skip, Read, ReadFails, Send,
                SendRefused, ReplyLost, Record, RecordRepeat, Finish, Cancel, call
  <2>3. again'[j] => again[j]
    BY <1>0, <1>3 DEF JobStep, Reserve, Inserted, Start, Visit, Skip, Read,
                ReadFails, Send, SendRefused, ReplyLost, Record, RecordRepeat,
                Finish, Cancel, call
  <2>4. pc'[j] # "idle"
    BY <1>0, <1>3 DEF JobStep, Reserve, Start, Visit, Skip, Read, ReadFails,
                Send, SendRefused, ReplyLost, Record, RecordRepeat, Finish,
                Cancel, Moved, Resolve
  <2> QED BY <2>1, <2>2, <2>3, <2>4 DEF Marks, Apart
<1> QED BY <1>1, <1>2, <1>3, ThreeKinds

\* Every step of a call or a job keeps the ledger.
LEMMA CountJob ==
  ASSUME TypeOK, TypeOK', Stand, SlotHeldByOne, Asked, Marks, Plain, Reads,
         Counts, ~slipped', NEW j \in Job, JobStep(j) \/ Cancel(j), Total # 1
  PROVE  Counts'
<1>0. /\ pc \in [Job -> PC] /\ turn \in [Job -> Tracker \cup {None}]
      /\ again \in [Job -> BOOLEAN]
  BY DEF TypeOK
<1>a. Apart(j)  BY JobStepApart
<1>l. UNCHANGED <<remote, cache>> => L' >= L /\ remote'[m].at >= remote[m].at
  BY LedgerType, MainTracker DEF L, m, cached_id
<1>1. CASE Reserve(j)  BY <1>1, CountReserve
<1>2. CASE Start(j)
  <2>1. /\ pc[j] = "held" /\ UNCHANGED <<remote, cache, again, turn, rounds, firstAt>>
        /\ \/ ~again[j] /\ pc'[j] = "refused"
           \/ pc'[j] = "next"
    BY <1>0, <1>2 DEF Start, Moved, store, call, time
  <2>2. CASE pc'[j] = "next"  BY <1>a, <2>1, <2>2, StayKeeps, KeepsCounts
  <2>3. CASE ~again[j] /\ pc'[j] = "refused"
    <3>1. ~Holder(j) /\ ~Holder(j)'  BY <2>1, <2>3 DEF Holder
    <3>2. Keeps  BY <1>a, <1>l, <2>1, <3>1, OneKeeps
    <3> QED BY <3>2, KeepsCounts
  <2> QED BY <2>1, <2>2, <2>3
<1>3. CASE Visit(j)
  <2>1. /\ pc[j] = "next" /\ pc'[j] = "read"
        /\ UNCHANGED <<remote, cache, again, turn, rounds, firstAt>>
    BY <1>0, <1>3 DEF Visit, Moved, store, call, time
  <2> QED BY <1>a, <2>1, StayKeeps, KeepsCounts
<1>4. ASSUME /\ UNCHANGED <<remote, cache, again, rounds, firstAt>>
             /\ pc[j] \in {"next", "read", "send"} /\ pc'[j] = "next"
             /\ turn[j] # None /\ turn'[j] = After(turn[j])
             /\ again[j] => turn[j] # m
      PROVE  Counts'
  <2>1. PICK u \in Tracker : u = turn[j]  BY <1>0, <1>4
  <2>2. pc[j] \in Running  BY <1>4 DEF Running
  <2>3. Keeps  BY <1>a, <1>l, <1>4, <2>1, <2>2, MoveKeeps
  <2> QED BY <2>3, KeepsCounts
<1>5. CASE Skip(j)
  BY <1>0, <1>4, <1>5 DEF Skip, store, time, Slips, AtMain, m
<1>6. CASE ReadFails(j) \/ SendRefused(j)
  <2>1. turn[j] # None  BY <1>6 DEF ReadFails, SendRefused, Stand, Attempting, Tracker, None
  <2> QED BY <1>0, <1>4, <1>6, <2>1
          DEF ReadFails, SendRefused, Resolve, Moved, store, time, Slips, AtMain, m
<1>7. CASE Read(j)
  <2>0. /\ pc[j] = "read" /\ turn[j] # None
        /\ UNCHANGED <<remote, cache, again, rounds, firstAt>>
    BY <1>7 DEF Read, Stand, Attempting, Tracker, None, store, time
  <2>1. CASE Resolve(j, "notNewer") /\ Slips(AtMain(j))
    BY <1>0, <1>4, <2>0, <2>1 DEF Resolve, Moved, Slips, AtMain, m
  <2>2. CASE NotListed(ask[j], Seen(turn[j], remote[turn[j]])) /\ Resolve(j, "notListed")
    <3>1. ~again[j]  BY <2>2 DEF NotListed, Marks
    <3> QED BY <1>0, <1>4, <2>0, <2>2, <3>1 DEF Resolve, Moved
  <2>3. CASE Moved(j, "send") /\ UNCHANGED turn
    <3>1. pc'[j] = "send"  BY <1>0, <2>3 DEF Moved
    <3> QED BY <1>a, <2>0, <2>3, <3>1, StayKeeps, KeepsCounts
  <2> QED BY <1>7, <2>1, <2>2, <2>3 DEF Read
<1>8. CASE Send(j) \/ ReplyLost(j)  BY <1>8, CountSend
<1>9. CASE Record(j)  BY <1>9, CountRecord, KeepsCounts
<1>10. CASE RecordRepeat(j)  BY <1>10, CountRecordRepeat, KeepsCounts
<1>11. CASE Finish(j) \/ Cancel(j)  BY <1>11, CountLeaves
<1> QED BY <1>1, <1>2, <1>3, <1>5, <1>6, <1>7, <1>8, <1>9, <1>10, <1>11 DEF JobStep

\* The lists change by what is sent alone, once the website is left aside.
LEMMA RemoteBySend ==
  ASSUME [Next]_vars, ~slipped'
  PROVE  \/ UNCHANGED remote
         \/ \E j \in Job : Send(j) \/ ReplyLost(j)
<1>1. CASE Beside
  BY <1>1 DEF Beside, RefreshFetch, Disconnect, ForgetTokens, SiteEdit,
              RefreshReplace, PlayFirst, Tick, vars
<1>2. ASSUME NEW j \in Job, NEW a \in Ask, Call(j, a) \/ CallRefused(j, a)
      PROVE  UNCHANGED remote
  BY <1>2 DEF Call, CallRefused
<1>3. ASSUME NEW j \in Job, JobStep(j) \/ Cancel(j), ~Send(j), ~ReplyLost(j)
      PROVE  UNCHANGED remote
  BY <1>3 DEF JobStep, Reserve, Start, Visit, Skip, Read, ReadFails,
              SendRefused, Record, RecordRepeat, Finish, Cancel
<1> QED BY <1>1, <1>2, <1>3, ThreeKinds

LEMMA PlainStep ==
  ASSUME TypeOK, Stand, Asked, Plain, Reads, [Next]_vars, ~slipped'
  PROVE  Plain'
<1>0. clock \in Nat /\ firstAt \in Nat /\ \A t \in Tracker : remote[t].at \in Nat
  BY LedgerType
<1>1. UNCHANGED clock \/ clock' = clock + 1
  <2>1. CASE Beside
    BY <2>1 DEF Beside, RefreshFetch, Disconnect, ForgetTokens, SiteEdit,
                RefreshReplace, PlayFirst, Tick, vars, time
  <2>2. ASSUME NEW j \in Job, NEW a \in Ask, Call(j, a) \/ CallRefused(j, a)
        PROVE  UNCHANGED clock
    BY <2>2 DEF Call, CallRefused, time
  <2>3. ASSUME NEW j \in Job, JobStep(j) \/ Cancel(j)  PROVE UNCHANGED clock
    BY <2>3 DEF JobStep, Reserve, Start, Visit, Skip, Read, ReadFails, Send,
                SendRefused, ReplyLost, Record, RecordRepeat, Finish, Cancel, time
  <2> QED BY <2>1, <2>2, <2>3, ThreeKinds
<1>2. firstAt' \in {firstAt, clock}
  <2>1. CASE Beside
    BY <2>1 DEF Beside, RefreshFetch, Disconnect, ForgetTokens, SiteEdit,
                RefreshReplace, PlayFirst, Tick, vars, time
  <2>2. ASSUME NEW j \in Job, NEW a \in Ask, Call(j, a) \/ CallRefused(j, a)
        PROVE  UNCHANGED firstAt
    BY <2>2 DEF Call, CallRefused, time
  <2>3. ASSUME NEW j \in Job, JobStep(j) \/ Cancel(j)  PROVE UNCHANGED firstAt
    BY <2>3 DEF JobStep, Reserve, Start, Visit, Skip, Read, ReadFails, Send,
                SendRefused, ReplyLost, Record, RecordRepeat, Finish, Cancel, time
  <2> QED BY <2>1, <2>2, <2>3, ThreeKinds
<1>3. firstAt' <= clock'  BY <1>0, <1>1, <1>2 DEF Plain
<1>4. ASSUME NEW t \in Tracker
      PROVE  remote'[t].status # "repeating" /\ ~remote'[t].flag /\ remote'[t].at <= clock'
  <2>1. CASE UNCHANGED remote  BY <1>0, <1>1, <2>1 DEF Plain
  <2>2. ASSUME NEW j \in Job, Send(j) \/ ReplyLost(j)
        PROVE  remote'[t].status # "repeating" /\ ~remote'[t].flag /\ remote'[t].at <= clock'
    <3>1. PICK u \in Tracker : turn[j] = u
      BY <2>2 DEF Send, ReplyLost, Stand, Attempting
    <3>2. pc[j] = "send" /\ Lands(j, u)  BY <2>2, <3>1 DEF Send, ReplyLost
    <3>3. /\ \A v \in Tracker \ {u} : remote'[v] = remote[v]
          /\ remote'[u].at = clock
          /\ remote'[u].status # "repeating" /\ ~remote'[u].flag
      BY <3>1, <3>2, LandsCount
    <3>4. CASE t = u  BY <1>0, <1>1, <3>3, <3>4
    <3>5. CASE t # u  BY <1>0, <1>1, <3>3, <3>5 DEF Plain
    <3> QED BY <3>4, <3>5
  <2> QED BY <2>1, <2>2, RemoteBySend
<1> QED BY <1>3, <1>4 DEF Plain

\* What a job has read of its tracker's rewatch count still stands: only the
\* holder counts, and there is one.
LEMMA ReadsStep ==
  ASSUME TypeOK, Stand, SlotHeldByOne, Asked, Plain, Reads, [Next]_vars, ~slipped'
  PROVE  Reads'
<1>0. /\ pc \in [Job -> PC] /\ again \in [Job -> BOOLEAN]
      /\ turn \in [Job -> Tracker \cup {None}] /\ remote \in [Tracker -> RemoteType]
  BY DEF TypeOK
\* A job that was at its send and is still.
<1>1. ASSUME NEW k \in Job, pc[k] = "send", pc'[k] = "send",
             entry'[k] = entry[k], again'[k] = again[k], turn'[k] = turn[k]
      PROVE  /\ entry'[k].status # "repeating"
             /\ again'[k] => entry'[k].repeat = remote'[turn'[k]].repeat
  <2>1. CASE UNCHANGED remote  BY <1>1, <2>1 DEF Reads
  <2>2. ASSUME NEW j \in Job, Send(j) \/ ReplyLost(j), again[k]
        PROVE  remote'[turn[k]].repeat = remote[turn[k]].repeat
    <3>1. PICK u \in Tracker : turn[j] = u
      BY <2>2 DEF Send, ReplyLost, Stand, Attempting
    <3>2. pc[j] = "send" /\ pc'[j] # "send" /\ Lands(j, u)
      BY <1>0, <2>2, <3>1 DEF Send, ReplyLost, Moved, Resolve
    <3>3. /\ \A v \in Tracker \ {u} : remote'[v] = remote[v]
          /\ remote'[u].repeat = IF TheChange(j).counts THEN remote[u].repeat + 1
                                 ELSE remote[u].repeat
          /\ TheChange(j).counts => again[j]
      BY <3>1, <3>2, LandsCount
    <3>4. ~again[j]
      BY <1>1, <2>2, <3>2 DEF SlotHeldByOne, Alive, Running
    <3>5. turn[k] \in Tracker  BY <1>1 DEF Stand, Attempting
    <3> QED BY <3>3, <3>4, <3>5
  <2> QED BY <1>1, <2>1, <2>2, RemoteBySend DEF Reads
<1>2. CASE Beside
  <2>1. UNCHANGED <<pc, again, turn, entry>>  BY <1>2, BesideApart
  <2> QED BY <1>1, <2>1 DEF Reads
<1>3. ASSUME NEW j \in Job, Apart(j),
             \/ pc'[j] # "send"
             \/ Read(j) /\ turn'[j] = turn[j] /\ entry'[j] = Seen(turn[j], remote[turn[j]])
      PROVE  Reads'
  <2> SUFFICES ASSUME NEW k \in Job, pc'[k] = "send"
               PROVE  /\ entry'[k].status # "repeating"
                      /\ again'[k] => entry'[k].repeat = remote'[turn'[k]].repeat
    BY DEF Reads
  <2>1. CASE k # j  BY <1>1, <1>3, <2>1 DEF Apart
  <2>2. CASE k = j
    <3>1. /\ Read(j) /\ turn'[j] = turn[j]
          /\ entry'[j] = Seen(turn[j], remote[turn[j]])
      BY <1>3, <2>2
    <3>2. turn[j] \in Tracker /\ UNCHANGED remote
      BY <3>1 DEF Read, Stand, Attempting
    <3>3. ~remote[turn[j]].flag /\ remote[turn[j]].status # "repeating"
      BY <3>2 DEF Plain
    <3> QED BY <2>2, <3>1, <3>2, <3>3 DEF Seen, normalize_status
  <2> QED BY <2>1, <2>2
<1>4. ASSUME NEW j \in Job, NEW a \in Ask, Call(j, a) \/ CallRefused(j, a)
      PROVE  Reads'
  <2>1. pc'[j] # "send"  BY <1>0, <1>4 DEF Call, CallRefused, Moved
  <2> QED BY <1>3, <1>4, <2>1, CallApart
<1>5. ASSUME NEW j \in Job, JobStep(j) \/ Cancel(j)  PROVE Reads'
  BY <1>3, <1>5, JobStepApart, ReadsFirst
<1> QED BY <1>2, <1>4, <1>5, ThreeKinds

LEMMA CountInit ==
  ASSUME Init, \A l \in Lists : ~l.flag /\ l.status # "repeating" /\ l.repeat = 0
  PROVE  CountInv
<1>1. IInv /\ TypeOK  BY InitInv DEF IInv
<1>2. Asked /\ Marks  BY DEF Init, Asked, Marks
<1>3. \A t \in Tracker : /\ remote[t].status # "repeating" /\ ~remote[t].flag
                         /\ remote[t].at <= 1 /\ remote[t].repeat = 0
  <2>1. PICK r \in [Carried -> Lists] :
          remote = [t \in Tracker |-> IF t \in Carried THEN Held(t, r[t], 1) ELSE NoEntry]
    BY DEF Init
  <2>2. ASSUME NEW t \in Carried
        PROVE  /\ Held(t, r[t], 1).status # "repeating" /\ ~Held(t, r[t], 1).flag
               /\ Held(t, r[t], 1).at = 1 /\ Held(t, r[t], 1).repeat = 0
    <3>1. r[t] \in Lists  BY <2>1
    <3> QED BY <3>1 DEF Held, mal_status
  <2> QED BY <2>1, <2>2 DEF NoEntry, None
<1>4. clock = 1 /\ firstAt = 0 /\ rounds = 0  BY DEF Init
<1>5. Plain  BY <1>3, <1>4 DEF Plain
<1>6. Reads  BY DEF Reads, Init
<1>7. \A j \in Job : ~Holder(j)  BY DEF Init, Holder
<1>8. Counts
  <2>1. L \in Nat  BY <1>1, LedgerType
  <2>2. One(firstAt > L) = 0  BY <1>4, <2>1 DEF One
  <2> QED BY <1>3, <1>4, <1>7, <2>2 DEF Counts
<1> QED BY <1>1, <1>2, <1>5, <1>6, <1>8 DEF CountInv

LEMMA CountStep ==
  ASSUME CountInv, [Next]_vars, Total # 1
  PROVE  CountInv'
<1>0. /\ IInv /\ TypeOK /\ Stand /\ SlotHeldByOne /\ Asked /\ Marks
  BY DEF CountInv, IInv
<1>1. IInv' /\ TypeOK'  BY <1>0, StepInv DEF IInv
<1>2. Asked' /\ Marks'  BY <1>0, AskedStep, MarksStep
<1>3. ASSUME ~slipped'  PROVE Plain' /\ Reads' /\ Counts'
  <2>1. Plain /\ Reads /\ Counts  BY <1>3, SlippedStays DEF CountInv
  <2>2. Plain' /\ Reads'  BY <1>0, <1>3, <2>1, PlainStep, ReadsStep
  <2>3. ASSUME Beside  PROVE Counts'
    BY <1>0, <1>1, <1>3, <2>1, <2>3, BesideKeeps, KeepsCounts
  <2>4. ASSUME NEW j \in Job, NEW a \in Ask, Call(j, a) \/ CallRefused(j, a)
        PROVE  Counts'
    BY <1>0, <1>1, <2>1, <2>4, CallKeeps, KeepsCounts
  <2>5. ASSUME NEW j \in Job, JobStep(j) \/ Cancel(j)  PROVE Counts'
    BY <1>0, <1>1, <1>3, <2>1, <2>5, CountJob
  <2> QED BY <2>2, <2>3, <2>4, <2>5, ThreeKinds
<1> QED BY <1>1, <1>2, <1>3 DEF CountInv

\* A series of more than one episode, on lists that stand in no rewatch, counts
\* on no tracker more rewatches than its first episode was played again,
\* however many marks, other writes, refreshes, failures, sign-outs and
\* cancellations overlap, but for what `slipped` names (finished_again, mark,
\* record_repeat): the slot keeps a second mark out, and by the time the holder
\* gives it up the row's stamp has passed the round it counted.
THEOREM WritesRewatchOnce ==
  ASSUME Total # 1,
         \A l \in Lists : ~l.flag /\ l.status # "repeating" /\ l.repeat = 0
  PROVE  Spec => []RewatchOnce
<1>1. Init => CountInv  BY CountInit
<1>2. CountInv /\ [Next]_vars => CountInv'  BY CountStep
<1>3. CountInv => RewatchOnce
  <2> SUFFICES ASSUME CountInv, ~slipped, NEW t \in Tracker
               PROVE  remote[t].repeat <= rounds
    BY DEF RewatchOnce
  <2>1. TypeOK /\ Counts  BY DEF CountInv, IInv
  <2>2. remote[t].repeat \in Nat /\ rounds \in Nat  BY <2>1, LedgerType
  <2>3. CASE \A j \in Job : ~Holder(j)
    <3>1. remote[t].repeat + One(firstAt > L) <= rounds  BY <2>1, <2>3 DEF Counts
    <3>2. One(firstAt > L) \in {0, 1}  BY DEF One
    <3> QED BY <2>2, <3>1, <3>2
  <2>4. ASSUME NEW j \in Job, Holder(j)  PROVE remote[t].repeat <= rounds
    <3> DEFINE x == One(Left(j, t))
               y == One(~Left(j, m) /\ firstAt > Since(j))
    <3>1. remote[t].repeat + x + y <= rounds  BY <2>1, <2>4 DEF Counts
    <3>2. x \in {0, 1} /\ y \in {0, 1}  BY DEF One
    <3> HIDE DEF x, y
    <3> QED BY <2>2, <3>1, <3>2
  <2> QED BY <2>3, <2>4
<1> QED BY <1>1, <1>2, <1>3, PTL DEF Spec
=============================================================================
