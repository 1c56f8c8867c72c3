--------------------------- MODULE TrackerWrites ---------------------------
(***************************************************************************)
(* One series' list entry on the trackers, and everything that writes it   *)
(* (src/core/src/trackers/writes.rs, cache.rs, accounts.rs).               *)
(*                                                                         *)
(* The truth is the trackers' own list (remote); the core keeps a copy     *)
(* (cache) in its store.  A write job visits the connected trackers in     *)
(* turn: read the entry, decide, send, record in the cache.  Between any   *)
(* two of those steps other jobs, the list refresh, a sign-out or the user *)
(* on the website may run.  A mark that finishes a completed show again    *)
(* counts a rewatch, which a slot (REWATCHING) is there to count once.     *)
(*                                                                         *)
(* Left out: the texts, dates and scores themselves (only what a write     *)
(* does to status, progress, rewatch count and stamp is kept), the hidden  *)
(* flag, and a tracker's answers beyond "landed, refused, reply lost".     *)
(***************************************************************************)
EXTENDS Naturals, FiniteSets

CONSTANTS
  Job,            \* calls a behaviour may make (bounds the behaviour)
  Ask,            \* what a call may ask for
  Lists,          \* entries a tracker may hold when the behaviour starts
  Carried,        \* the trackers the series' match carries an id for
  Main,           \* the main tracker of the preferences
  Total,          \* the published episode count, 0 when unknown
  FilmGap,        \* FILM_REWATCH_GAP, in ticks
  MaxClock,       \* bound: ticks of the clock
  MaxWriting,     \* bound: calls and their jobs under way at once
  Faults,         \* whether requests fail, replies get lost, jobs are cancelled
  SignOuts,       \* the trackers the user may disconnect
  SiteEdits       \* what the user may make of the entry on a website

Tracker == {"anilist", "mal"}
Status == {"watching", "planning", "completed", "paused", "dropped", "repeating"}
None == "none"
AskType == [kind: {"mark", "progress", "score", "status", "notes"},
            n: Nat, status: Status \cup {None}]
EntryType == [status: Status \cup {None}, flag: BOOLEAN,
              progress: Nat, repeat: Nat]

ASSUME WritesAssumption ==
  /\ IsFiniteSet(Job)
  /\ Ask \subseteq AskType
  /\ \A a \in Ask : a.kind = "mark" => a.n >= 1
  /\ \A a \in Ask : a.kind = "status" => a.status \in Status \ {"repeating"}
  /\ Lists \subseteq EntryType
  /\ Carried \subseteq Tracker /\ Main \in Tracker
  /\ Total \in Nat /\ FilmGap \in Nat /\ MaxClock \in Nat /\ MaxWriting \in Nat
  /\ Faults \in BOOLEAN
  /\ SignOuts \subseteq Tracker
  /\ SiteEdits \subseteq EntryType

VARIABLES
  remote,     \* remote[t]: the entry on tracker t's own list
  cache,      \* cache[t]: its row of tracker_entries
  connected,  \* connected[t]: tracker_accounts.connected_at is set
  token,      \* token[t]: the access token is in the secret store
  slot,       \* the series is in REWATCHING
  pc,         \* pc[j]: where call j, then its job, stands
  ask,        \* ask[j]: what it was called with
  again,      \* again[j]: its mark was taken for a rewatch
  turn,       \* turn[j]: the tracker its job is at, None when past both
  entry,      \* entry[j]: the entry it read from that tracker
  stamp,      \* stamp[j]: the stamp that tracker's reply carried, 0 for none
  out,        \* out[j][t]: the outcome of tracker t, None before it
  fetch,      \* the list refresh: the tracker it is at, and what it fetched
  firstAt,    \* when the first episode was last completed here, 0 for never
  clock,
  rounds,     \* history: how often it was
  settled,    \* history: the least a list said since no write was under way
  astray,     \* history: the tracker's row may say other than its list
  slipped     \* history: a rewatch may have been taken for another

store == <<cache, connected>>
call == <<ask, again, turn, entry, stamp, out>>
time == <<firstAt, rounds, clock>>
history == <<settled, astray, slipped>>
vars == <<remote, cache, connected, token, slot, pc, ask, again, turn, entry,
          stamp, out, fetch, firstAt, clock, rounds, settled, astray, slipped>>

RowType == [held: BOOLEAN, status: Status \cup {None}, progress: Nat,
            repeat: Nat, at: Nat]
RemoteType == [status: Status \cup {None}, flag: BOOLEAN, progress: Nat,
               repeat: Nat, at: Nat]
ReadType == [status: Status \cup {None}, progress: Nat, repeat: Nat]
PC == {"idle", "looked", "held", "refused",
       "next", "read", "send", "record", "repeat", "done", "cancelled"}
Running == {"next", "read", "send", "record", "repeat"}
UnderWay == Running \cup {"looked", "held"}

TypeOK ==
  /\ remote \in [Tracker -> RemoteType]
  /\ cache \in [Tracker -> RowType]
  /\ connected \in [Tracker -> BOOLEAN]
  /\ token \in [Tracker -> BOOLEAN]
  /\ slot \in BOOLEAN
  /\ pc \in [Job -> PC]
  /\ ask \in [Job -> AskType]
  /\ again \in [Job -> BOOLEAN]
  /\ turn \in [Job -> Tracker \cup {None}]
  /\ entry \in [Job -> ReadType]
  /\ stamp \in [Job -> Nat]
  /\ out \in [Job -> [Tracker -> {None, "ok", "notNewer", "notListed", "failed"}]]
  /\ fetch \in [at: Tracker \cup {None}, list: RemoteType]
  /\ firstAt \in Nat /\ rounds \in Nat /\ clock \in Nat
  /\ settled \in [Tracker -> Nat]
  /\ astray \in [Tracker -> BOOLEAN]
  /\ slipped \in BOOLEAN

------------------------------------------------------------------------------
(* The entry, as each side sees it.                                         *)

Higher(a, b) == IF a >= b THEN a ELSE b
Lower(a, b) == IF a <= b THEN a ELSE b

\* A row that is not there.  An upsert over it yields the INSERT's defaults.
NoRow == [held |-> FALSE, status |-> None, progress |-> 0, repeat |-> 0, at |-> 0]
NoEntry == [status |-> None, flag |-> FALSE, progress |-> 0, repeat |-> 0, at |-> 0]
NoAsk == [kind |-> "notes", n |-> 0, status |-> None]

\* MAL keeps a rewatch under way as a flag beside the status "watching".
normalize_status(t, r) ==
  IF t = "mal" /\ r.status = "watching" /\ r.flag THEN "repeating" ELSE r.status
mal_status(s) == IF s = "repeating" THEN "watching" ELSE s

\* What read_entry and the list fetch make of a tracker's entry.
Seen(t, r) == [status |-> normalize_status(t, r), progress |-> r.progress,
               repeat |-> r.repeat]
RowOf(t, r, keptAt) ==
  [held |-> r.status # None, status |-> normalize_status(t, r),
   progress |-> r.progress, repeat |-> r.repeat,
   at |-> IF r.status = None THEN 0 ELSE IF r.at = 0 THEN keptAt ELSE r.at]

\* List entry l as tracker t keeps it, last changed at `at`.
Held(t, l, at) ==
  [status |-> IF t = "mal" THEN mal_status(l.status) ELSE l.status,
   flag |-> t = "mal" /\ l.flag,
   progress |-> l.progress, repeat |-> l.repeat, at |-> at]

completes(n) == Total > 0 /\ n >= Total

watched_status(e, complete) ==
  IF complete THEN "completed"
  ELSE IF e.status = "repeating" THEN "repeating" ELSE "watching"

\* plan's rewatch rule, for a watched count that sends Completed.
Rewatched(e, sending, rewatch) ==
  sending = "completed"
    /\ (e.status = "repeating" \/ (e.status = "completed" /\ rewatch))

\* What a write changes: None and "keep" leave a field alone.
Change(s, setsProgress, n, counts, unflags) ==
  [status |-> s, sets |-> setsProgress, n |-> n, counts |-> counts,
   unflags |-> unflags]

\* Mutant: the mark's own number is sent, not the higher of the two.
MarkChangeExact(a, e, isAgain) ==
  LET rewatch == isAgain /\ e.status = "completed"
      s == watched_status(e, completes(a.n))
      counts == Rewatched(e, s, rewatch)
  IN Change(s, TRUE, a.n, counts, counts)

MarkChange(a, e, isAgain) ==
  LET rewatch == isAgain /\ e.status = "completed"
      n == Higher(e.progress, a.n)
      s == watched_status(e, completes(n))
      counts == Rewatched(e, s, rewatch)
  IN Change(s, TRUE, n, counts, counts)

ProgressChange(a, e) ==
  LET s == IF a.n = 0 THEN "planning" ELSE watched_status(e, completes(a.n))
      counts == a.n > 0 /\ Rewatched(e, s, FALSE)
  IN Change(s, TRUE, a.n, counts, counts)

ScoreChange(e) ==
  Change(IF completes(e.progress) THEN "completed" ELSE None, FALSE, 0, FALSE, FALSE)

\* Completed fills the list to the published total.
Filled(a, e) ==
  IF a.status = "completed" /\ Total > 0 /\ e.progress < Total
  THEN Total ELSE e.progress
StatusChange(a, e) ==
  Change(a.status, Filled(a, e) # e.progress, Filled(a, e), FALSE, TRUE)

ChangeOf(a, e, isAgain) ==
  CASE a.kind = "mark" -> MarkChange(a, e, isAgain)
    [] a.kind = "progress" -> ProgressChange(a, e)
    [] a.kind = "score" -> ScoreChange(e)
    [] a.kind = "status" -> StatusChange(a, e)
    [] a.kind = "notes" -> Change(None, FALSE, 0, FALSE, FALSE)

\* The action's own guard, decided against the tracker itself.
NotNewer(a, e, isAgain) ==
  /\ a.kind = "mark"
  /\ e.progress >= a.n
  /\ ~(isAgain /\ e.status = "completed")
NotListed(a, e) == a.kind = "notes" /\ e.status = None

\* The tracker's entry once the request has landed.
Landed(t, r, c, e) ==
  [r EXCEPT !.status = IF c.status = None THEN @
                       ELSE IF t = "mal" THEN mal_status(c.status) ELSE c.status,
            !.progress = IF c.sets THEN c.n ELSE @,
            !.repeat = IF c.counts THEN e.repeat + 1 ELSE @,
            !.flag = @ /\ ~c.unflags,
            !.at = clock]

\* Mutant: the reply's stamp is stored without the COALESCE.
StampedBare(row, s) == s
\* Mutant: a reply without a stamp is stored as one before all others.
StampedNull(row, s) == IF s = 0 THEN 0 - 1 ELSE s
Stamped(row, s) == IF s = 0 THEN row.at ELSE s

\* Mutant: the status is left as cached.
PatchProgressAlone(row, s, n, status) ==
  [row EXCEPT !.held = TRUE, !.progress = n, !.at = Stamped(row, s)]
patch_progress(row, s, n, status) ==
  [row EXCEPT !.held = TRUE, !.status = status, !.progress = n, !.at = Stamped(row, s)]
patch_score(row, s, status) ==
  [row EXCEPT !.held = TRUE, !.at = Stamped(row, s),
              !.status = IF status = None THEN @ ELSE status]
patch_notes(row, s) == [row EXCEPT !.held = TRUE, !.at = Stamped(row, s)]
\* Mutant: the entry's stamp is not moved with the count.
PatchRepeatAlone(row, n) == IF row.held THEN [row EXCEPT !.repeat = n] ELSE row
patch_repeat(row, n) ==
  IF row.held THEN [row EXCEPT !.repeat = n, !.at = Higher(@, clock)] ELSE row

\* A status write records the progress the tracker now has, filled or not.
Patched(a, c, e, row, s) ==
  CASE a.kind \in {"mark", "progress"} -> patch_progress(row, s, c.n, c.status)
    [] a.kind = "status" -> patch_progress(row, s, Filled(a, e), c.status)
    [] a.kind = "score" -> patch_score(row, s, c.status)
    [] a.kind = "notes" -> patch_notes(row, s)

------------------------------------------------------------------------------
(* The calls.                                                               *)

cached_id == IF Main \in Carried THEN Main
             ELSE CHOOSE t \in Tracker : t # Main
Writing == {j \in Job : pc[j] \in UnderWay}
Reachable == \E t \in Carried : connected[t]
MayCall == Cardinality(Writing) < MaxWriting

\* A completed show watched again from its first episode since its list
\* last changed; a film, which has none, once its list has stood still.
finished_again(n) ==
  LET row == cache[cached_id] IN
  /\ completes(n)
  /\ row.held /\ row.at # 0 /\ row.status = "completed"
  /\ IF Total = 1 THEN row.at + FilmGap < clock ELSE firstAt > row.at

Covered(a) == cache[cached_id].held /\ cache[cached_id].progress >= a.n

Moved(j, to) == pc' = [pc EXCEPT ![j] = to]

------------------------------------------------------------------------------
(* What the histories go by.                                                *)

\* Job k is past its read of tracker t's entry; it has sent and not recorded.
PastRead(k, t) == turn[k] = t /\ pc[k] \in {"send", "record", "repeat"}
Unrecorded(k, t) == turn[k] = t /\ pc[k] \in {"record", "repeat"}
Others(j, t) == {k \in Job \ {j} : PastRead(k, t)}

\* A rewatch's flag beside another status than MAL's "watching".
Dangles(r) == r.flag /\ r.status # "watching"

\* The list fetched is not the tracker's any more, but for its stamp.
Outdated == [fetch.list EXCEPT !.at = 0] # [remote[fetch.at] EXCEPT !.at = 0]

\* Call or job j is the last one under way, and ends.
Settles(j) ==
  settled' = IF Writing = {j} THEN [t \in Tracker |-> remote[t].progress]
             ELSE settled

\* A rewatch is at the tracker whose row finished_again asks.
AtMain(j) == again[j] /\ turn[j] = cached_id

\* That row's stamp goes back behind the list's.
SetBack == /\ cache'[cached_id].at < cache[cached_id].at
           /\ cache'[cached_id].at < remote[cached_id].at

Slips(when) == slipped' = (slipped \/ when)

------------------------------------------------------------------------------
(* The calls under way.                                                     *)

\* No tracker behind the ids: the call is refused, or, for a score or a
\* status, kept on this device.
CallRefused(j, a) ==
  /\ pc[j] = "idle" /\ MayCall /\ ~Reachable
  /\ ask' = [ask EXCEPT ![j] = a]
  /\ Moved(j, "refused")
  /\ UNCHANGED <<remote, store, token, slot, again, turn, entry, stamp, out,
                 fetch, time, history>>

Call(j, a) ==
  /\ pc[j] = "idle" /\ MayCall /\ Reachable
  /\ ask' = [ask EXCEPT ![j] = a]
  /\ again' = [again EXCEPT ![j] = a.kind = "mark" /\ finished_again(a.n)]
  /\ Moved(j, IF a.kind = "mark" THEN "looked" ELSE "next")
  /\ UNCHANGED <<remote, store, token, slot, turn, entry, stamp, out,
                 fetch, time, history>>

\* rewatching().insert: false for the second of two marks.
\* Mutant: what insert answers is not looked at.
InsertedAnyway(j) == again[j]
Inserted(j) == again[j] /\ ~slot
Reserve(j) ==
  /\ pc[j] = "looked"
  /\ again' = [again EXCEPT ![j] = Inserted(j)]
  /\ slot' = (slot \/ again[j])
  /\ Slips(Inserted(j) /\ ~finished_again(ask[j].n))
  /\ Moved(j, "held")
  /\ UNCHANGED <<remote, store, token, ask, turn, entry, stamp, out, fetch,
                 time, settled, astray>>

\* The cheap half of the monotonic rule, then start_holding.
Start(j) ==
  /\ pc[j] = "held"
  /\ IF ~again[j] /\ Covered(ask[j])
     THEN Moved(j, "refused") /\ Settles(j)
     ELSE Moved(j, "next") /\ UNCHANGED settled
  /\ UNCHANGED <<remote, store, token, slot, call, fetch, time, astray, slipped>>

------------------------------------------------------------------------------
(* The job.                                                                 *)

After(t) == IF t = "anilist" THEN "mal" ELSE None

\* RewatchSlot::drop, when the job's future is dropped or ends.
\* Mutant: the slot is not given up.
ReleasedNever(j) == UNCHANGED slot
Released(j) == slot' = (slot /\ ~again[j])

NoRead == [status |-> None, progress |-> 0, repeat |-> 0]

\* Mutant: the first failure ends the job.
ResolveStops(j, o) ==
  /\ entry' = [entry EXCEPT ![j] = NoRead]
  /\ stamp' = [stamp EXCEPT ![j] = 0]
  /\ out' = [out EXCEPT ![j][turn[j]] = o]
  /\ turn' = [turn EXCEPT ![j] = IF o = "failed" THEN None ELSE After(turn[j])]
  /\ Moved(j, "next")

\* The outcome of the tracker job j is at, and on to the next one; what the
\* attempt read and was answered goes out of scope.
Resolve(j, o) ==
  /\ entry' = [entry EXCEPT ![j] = NoRead]
  /\ stamp' = [stamp EXCEPT ![j] = 0]
  /\ out' = [out EXCEPT ![j][turn[j]] = o]
  /\ turn' = [turn EXCEPT ![j] = After(turn[j])]
  /\ Moved(j, "next")

\* A tracker with no id or no account is none of this write's business.
Skipped(t) == t \notin Carried \/ ~connected[t]
Visit(j) ==
  /\ pc[j] = "next" /\ turn[j] # None /\ ~Skipped(turn[j])
  /\ Moved(j, "read")
  /\ UNCHANGED <<remote, store, token, slot, call, fetch, time, history>>
Skip(j) ==
  /\ pc[j] = "next" /\ turn[j] # None /\ Skipped(turn[j])
  /\ turn' = [turn EXCEPT ![j] = After(turn[j])]
  /\ Slips(AtMain(j))
  /\ UNCHANGED <<remote, store, token, slot, pc, ask, again, entry, stamp, out,
                 fetch, time, settled, astray>>
Finish(j) ==
  /\ pc[j] = "next" /\ turn[j] = None
  /\ Moved(j, "done")
  /\ Released(j)
  /\ Settles(j)
  /\ UNCHANGED <<remote, store, token, call, fetch, time, astray, slipped>>

\* attempt: the token, the tracker's own entry, the action's guard.
Read(j) ==
  LET t == turn[j]
      e == Seen(t, remote[t])
  IN /\ pc[j] = "read" /\ token[t]
     /\ \/ NotNewer(ask[j], e, again[j]) /\ Resolve(j, "notNewer")
           /\ Slips(AtMain(j))
        \/ NotListed(ask[j], e) /\ Resolve(j, "notListed") /\ UNCHANGED slipped
        \/ /\ ~NotNewer(ask[j], e, again[j]) /\ ~NotListed(ask[j], e)
           /\ entry' = [entry EXCEPT ![j] = e]
           /\ Moved(j, "send")
           /\ UNCHANGED <<turn, out, stamp, slipped>>
     /\ UNCHANGED <<remote, store, token, slot, ask, again, fetch, time,
                    settled, astray>>
ReadFails(j) ==
  /\ pc[j] = "read" /\ (Faults \/ ~token[turn[j]])
  /\ Resolve(j, "failed")
  /\ Slips(AtMain(j))
  /\ UNCHANGED <<remote, store, token, slot, ask, again, fetch, time,
                 settled, astray>>

TheChange(j) == ChangeOf(ask[j], entry[j], again[j])
LandsOn(j, t) == Landed(t, remote[t], TheChange(j), entry[j])

\* The request lands; only a correction may take the list below what it was.
Lands(j, t) ==
  /\ remote' = [remote EXCEPT ![t] = LandsOn(j, t)]
  /\ settled' = IF ask[j].kind = "progress"
                THEN [settled EXCEPT ![t] = Lower(@, ask[j].n)] ELSE settled
Send(j) ==
  LET t == turn[j] IN
  /\ pc[j] = "send"
  /\ Lands(j, t)
  /\ astray' = [astray EXCEPT ![t] = @ \/ Others(j, t) # {} \/ Dangles(remote[t])]
  /\ \E s \in {0, clock} : stamp' = [stamp EXCEPT ![j] = s]
  /\ Moved(j, "record")
  /\ UNCHANGED <<store, token, slot, ask, again, turn, entry, out, fetch,
                 time, slipped>>
SendRefused(j) ==
  /\ pc[j] = "send" /\ Faults
  /\ Resolve(j, "failed")
  /\ Slips(AtMain(j))
  /\ UNCHANGED <<remote, store, token, slot, ask, again, fetch, time,
                 settled, astray>>
ReplyLost(j) ==
  LET t == turn[j] IN
  /\ pc[j] = "send" /\ Faults
  /\ Lands(j, t)
  /\ astray' = [astray EXCEPT ![t] = TRUE]
  /\ Resolve(j, "failed")
  /\ Slips(AtMain(j))
  /\ UNCHANGED <<store, token, slot, ask, again, fetch, time>>

Record(j) ==
  LET t == turn[j] IN
  /\ pc[j] = "record"
  /\ cache' = [cache EXCEPT ![t] =
                 Patched(ask[j], TheChange(j), entry[j], @, stamp[j])]
  /\ IF TheChange(j).counts
     THEN Moved(j, "repeat") /\ UNCHANGED <<turn, out, entry, stamp>>
     ELSE Resolve(j, "ok")
  /\ Slips(SetBack \/ (AtMain(j) /\ ~TheChange(j).counts))
  /\ UNCHANGED <<remote, connected, token, slot, ask, again, fetch, time,
                 settled, astray>>
RecordRepeat(j) ==
  LET t == turn[j] IN
  /\ pc[j] = "repeat"
  /\ cache' = [cache EXCEPT ![t] = patch_repeat(@, entry[j].repeat + 1)]
  /\ Resolve(j, "ok")
  /\ Slips(AtMain(j) /\ ~cache[t].held)
  /\ UNCHANGED <<remote, connected, token, slot, ask, again, fetch, time,
                 settled, astray>>

\* The runner drops the body at whatever await it stands (Jobs); a process
\* that goes away leaves the same behind.
Cancel(j) ==
  /\ Faults /\ pc[j] \in Running
  /\ Moved(j, "cancelled")
  /\ entry' = [entry EXCEPT ![j] = NoRead]
  /\ stamp' = [stamp EXCEPT ![j] = 0]
  /\ Released(j)
  /\ Settles(j)
  /\ astray' = [t \in Tracker |-> astray[t] \/ Unrecorded(j, t)]
  /\ Slips(again[j] /\ turn[j] \in {"anilist", cached_id})
  /\ UNCHANGED <<remote, store, token, ask, again, turn, out, fetch, time>>

------------------------------------------------------------------------------
(* The list refresh (cache.rs), one at a time; the user; the clock.         *)

RefreshFetch(t) ==
  /\ fetch.at = None
  /\ connected[t] /\ token[t]
  /\ \E s \in {0, remote[t].at} :    \* a provider may leave the stamp blank
       fetch' = [at |-> t, list |-> [remote[t] EXCEPT !.at = s]]
  /\ UNCHANGED <<remote, store, token, slot, pc, call, time, history>>

\* The fetched list replaces the rows; a stamp it lacks is kept.
replace(t) == RowOf(t, fetch.list, cache[t].at)
RefreshReplace ==
  /\ fetch.at # None
  /\ cache' = [cache EXCEPT ![fetch.at] = replace(fetch.at)]
  /\ fetch' = [at |-> None, list |-> NoEntry]
  /\ astray' = [astray EXCEPT ![fetch.at] =
                  \/ Outdated
                  \/ @ /\ \E j \in Job : PastRead(j, fetch.at)]
  /\ Slips(SetBack)
  /\ UNCHANGED <<remote, connected, token, slot, pc, call, time, settled>>

\* disconnect: the account and the rows in one transaction, then the tokens.
Disconnect(t) ==
  /\ t \in SignOuts /\ connected[t]
  /\ connected' = [connected EXCEPT ![t] = FALSE]
  /\ cache' = [cache EXCEPT ![t] = NoRow]
  /\ Slips(SetBack)
  /\ UNCHANGED <<remote, token, slot, pc, call, fetch, time, settled, astray>>
ForgetTokens(t) ==
  /\ ~connected[t] /\ token[t]
  /\ token' = [token EXCEPT ![t] = FALSE]
  /\ UNCHANGED <<remote, store, slot, pc, call, fetch, time, history>>

\* The user edits the entry on the tracker's website.
SiteEdit(t, l) ==
  /\ t \in Carried /\ remote[t].at < clock
  /\ remote' = [remote EXCEPT ![t] = Held(t, l, clock)]
  /\ settled' = [settled EXCEPT ![t] = Lower(@, l.progress)]
  /\ astray' = [astray EXCEPT ![t] = TRUE]
  /\ slipped' = TRUE
  /\ UNCHANGED <<store, token, slot, pc, call, fetch, time>>

\* The first episode is watched to its end in the player.
PlayFirst ==
  /\ firstAt < clock
  /\ firstAt' = clock /\ rounds' = rounds + 1
  /\ UNCHANGED <<remote, store, token, slot, pc, call, fetch, clock, history>>
Tick ==
  /\ clock < MaxClock
  /\ clock' = clock + 1
  /\ UNCHANGED <<remote, store, token, slot, pc, call, fetch, firstAt, rounds,
                 history>>

------------------------------------------------------------------------------
\* The trackers the user connected, their lists as the last refresh found
\* them; an account the series has no id for plays no part.
Init ==
  /\ \E r \in [Carried -> Lists] :
       remote = [t \in Tracker |-> IF t \in Carried THEN Held(t, r[t], 1) ELSE NoEntry]
  /\ \E on \in SUBSET Carried : connected = [t \in Tracker |-> t \in on]
  /\ cache = [t \in Tracker |-> IF connected[t] THEN RowOf(t, remote[t], 0) ELSE NoRow]
  /\ token = connected
  /\ slot = FALSE
  /\ pc = [j \in Job |-> "idle"]
  /\ ask = [j \in Job |-> NoAsk]
  /\ again = [j \in Job |-> FALSE]
  /\ turn = [j \in Job |-> "anilist"]
  /\ entry = [j \in Job |-> NoRead]
  /\ stamp = [j \in Job |-> 0]
  /\ out = [j \in Job |-> [t \in Tracker |-> None]]
  /\ fetch = [at |-> None, list |-> NoEntry]
  /\ firstAt = 0 /\ rounds = 0 /\ clock = 1
  /\ settled = [t \in Tracker |-> remote[t].progress]
  /\ astray = [t \in Tracker |-> FALSE]
  /\ slipped = FALSE

JobStep(j) ==
  \/ Reserve(j) \/ Start(j) \/ Visit(j) \/ Skip(j)
  \/ Read(j) \/ ReadFails(j) \/ Send(j) \/ SendRefused(j) \/ ReplyLost(j)
  \/ Record(j) \/ RecordRepeat(j) \/ Finish(j)

Next ==
  \/ \E j \in Job, a \in Ask : Call(j, a) \/ CallRefused(j, a)
  \/ \E j \in Job : JobStep(j) \/ Cancel(j)
  \/ \E t \in Tracker : RefreshFetch(t) \/ Disconnect(t) \/ ForgetTokens(t)
  \/ \E t \in Tracker, l \in SiteEdits : SiteEdit(t, l)
  \/ RefreshReplace \/ PlayFirst \/ Tick

Spec == Init /\ [][Next]_vars

------------------------------------------------------------------------------
(* Properties.                                                              *)

Alive(j) == pc[j] \in Running \cup {"held"}

\* However marks, refusals, cancellations and lost replies fall, at most one
\* call or job at a time holds a rewatch, and the slot is taken exactly while
\* it does: it is neither shared nor leaked (RewatchSlot).
SlotHeldByOne ==
  /\ \A j, k \in Job :
       Alive(j) /\ Alive(k) /\ again[j] /\ again[k] => j = k
  /\ slot <=> \E j \in Job : Alive(j) /\ again[j]

\* However many marks, scores and statuses overlap, fail or are cut short,
\* none takes a list below where it stood when last no write was under way;
\* only set_progress and the website do (attempt: a mark sends the higher of
\* what it read and its episode, and what it read may be old by then).
NeverBelowSettled == \A t \in Tracker : remote[t].progress >= settled[t]

\* A show finished again counts one rewatch on each tracker, whatever else is
\* written, fetched or fails meanwhile, but where the slot and the row's stamp
\* cannot tell (`slipped`): the slot taken on a look that no longer holds, the
\* stamp set back behind the list's, the count not recorded on the main
\* tracker, an edit on the website (finished_again, mark, record_repeat).
RewatchOnce == slipped \/ \A t \in Tracker : remote[t].repeat <= rounds

\* With nothing of a tracker sent and unrecorded, the row says what its list
\* says, but where the write cannot know it (`astray`): another write past its
\* read, a reply lost or a job dropped before the record, a list older than
\* the write, a rewatch's flag MAL kept, an edit on the website.  A refresh
\* that meets no write sets it right (record_progress, record_score, replace).
CacheAgrees ==
  \A t \in Carried :
    /\ connected[t] /\ cache[t].held /\ ~astray[t]
    /\ \A j \in Job : ~Unrecorded(j, t)
    => /\ cache[t].status = normalize_status(t, remote[t])
       /\ cache[t].progress = remote[t].progress
       /\ cache[t].repeat = remote[t].repeat

\* A row's stamp, once known, is not lost while the row stands, whatever
\* replies and refreshes leave it out (replace, patch_progress).
StampKept ==
  [][\A t \in Tracker : cache[t].held /\ cache[t].at # 0 /\ cache'[t].held
       => cache'[t].at # 0]_vars

\* A job that was not cancelled answers for every tracker the match carries
\* and that is still connected: one tracker's failure is its own alone
\* (write_one, write_all).
EachTrackerAnswered ==
  \A j \in Job : pc[j] = "done" =>
    \A t \in Carried : connected[t] => out[j][t] # None

\* Signing out leaves no rows of the progress cache behind (disconnect).
DisconnectForgets == \A t \in Tracker : ~connected[t] => ~cache[t].held
=============================================================================
