# Verification of AniBeam's core

AniBeam keeps a library of anime files: it scans folders, matches series to
AniList and MyAnimeList (MAL), plays episodes, writes progress back to the
trackers, downloads and shares. Everything of its own is in the Rust crate
`src/core` (about 130,000 lines); the shells (`src/apps/linux`, Qt/QML;
`src/apps/android`, Slint; `src/apps/cli`) send it calls and listen to its
events. These TLA+ modules model the parts of the core where several actors
move the same state, TLC checks them on small instances, and TLAPS proves the
properties that matter most for every value of the constants.

`PROJECT.json` lists the components, the runs, what each definition stands for
in the source, the theorems, and the hazards of the parts modelled or next in
the plan; those of the other parts are in the inventory's column *hard*.

## 1. The system

One process holds one `Core` (`core.rs`). A shell calls `Core::call` from any
thread; a call is answered in milliseconds and what takes longer becomes a
**job** on a tokio runtime. A job reports through the **event bus**, whose
listeners run on the emitting thread. All rows are in one SQLite **store** with
one writer thread. Tokens are in the keyring or in a file. Other devices reach
the same core through the **host**, each request on a thread of its own.

### Inventory

The state a component keeps, what it does, who it works with, what is hard
about it, and what makes it correct. **Bold**: modelled.

| component (`src/core/src/`) | state | operations | works with | hard | correct when |
|---|---|---|---|---|---|
| **jobs** `jobs.rs` | registry of running jobs, per job two throttles with a pending batch and a timer each | start, report progress and cards, cancel, cancel_all, end by return, error, panic or a dropped runtime | every component that takes longer than a call | check and insert, flush against end, guard against shutdown | one job per exclusive kind, one terminal event, the latest report always delivered, in order |
| event bus `events.rs` | sequence number, generation, listeners, ring of 2000 events | emit, subscribe, recent | all | numbers taken and delivered without a lock between; the generation before the listeners | a reader that rereads on an event never keeps a stale copy |
| **store writer** `store/mod.rs` | one queue of closures | write and wait, post, transaction, close | all | posted and waited-for writes in one order; close under callers | order kept, every caller answered |
| **atomic files** `atomic_file.rs` | a lock per path | write, write_private | calendar, engine, rules, secrets | the lock leaves the map when its last holder does | saves of one file land whole, one after the other |
| **library scan** `library/scan.rs` | scopes and paths waiting, the running pass, settle timers | scan, rescan, add and remove source, drain | jobs, watcher, store, auto-match | requests against the job's last look at its queues; files changing under the walk | what changed is read; what was removed stays gone |
| **watcher** `library/watcher.rs` | roots, debouncer, drops waiting | watch, unwatch, report | scan, core | a drop during an install walk, lost events | a source is watched while it has a row |
| settle timers, auto-match `metadata/automatch.rs` | a timer per series | arm, fire, match what is not armed | scan, jobs, providers | re-arm against a timer past its sleep | a series that settled is tried, once it settled |
| metadata `metadata/*` | match, record and schedule rows | fetch, apply, link, airing refresh | net, store | partial answers | one transaction per series |
| library reads `library/*` | a snapshot cache | cards, detail, schedule, sort, history | store, bus | a snapshot beside a change | the answer is of one moment |
| library edits `library/{delete,fixes,history}.rs` | rows, files in the trash | fix a match, delete, clear history | scan, store | files going while a scan walks | nothing deleted comes back |
| **tracker writes** `trackers/writes.rs` | the rewatch slot per series | mark, set progress, score, status, notes | trackers' servers, list cache, playback | read, decide, send and record with awaits between; two trackers, one failing | progress never set back but by a correction; one rewatch per viewing |
| **list cache** `trackers/cache.rs` | a row per list entry | refresh, patch | writes, accounts | a refresh fetched before a write replaces rows after it | with nothing under way it says what the list says |
| **accounts** `trackers/accounts.rs` | account rows, tokens | connect, disconnect, token refresh | secrets, writes, cache | two refreshes with one refresh token; sign-out beside them | signed out means no rows and no token |
| sign-in, secrets `trackers/{oauth,secrets}.rs` | the pending flow, two stores | loopback server, set, get, delete | accounts | a second sign-in during the first | a secret is in one store |
| on hold `trackers/on_hold.rs` | none of its own | sweep, move back on a play | writes, cache | a mark between its look and its write | nothing just watched is paused |
| **playback** `playback/session.rs` | open sessions | open, tick, close, chapters | store, writes, skip, presence | rules under a lock, effects after it; posted against waited writes | one view, mark and completion; resume where it was left |
| **skip windows** `playback/skip.rs` | windows, the lookup job | report chapters, look up | playback | an answer after the session closed | a moved mark line fires nothing twice |
| images `images/mod.rs` | files and their rows, four permits | ensure, fill | net, store | two fetches of one address | a row's file is there |
| downloads `downloads/*` | client connection, settings | list, add, remove, link | qBittorrent, Jackett, anirss | a client that comes and goes | pages show the client's list |
| **rolling** `downloads/rolling.rs` | stored rolls | pass, set, more | downloads | edits beside a pass and its merge | an edit made during a pass stands |
| replacing `downloads/replace.rs` | stored replacements | tick, bind | downloads, scan | the old file deleted before the new one is in | never neither |
| **followed episodes** `downloads/watch.rs` | armed keys | arm, watch, give up | schedule, rules | the ending watch arms the next while it holds its key | each followed episode has its timer |
| **releases** `releases/*` | rules file, stats | rank, read endpoints, edit rules | repos, net | read and write of one file | no edit lost |
| repositories `repos/*` | next slot per host | search, pace | net | parallel searches | the gap is kept |
| network `net/*` | limiters, clients | send, retry | providers | retry after a 429 | bounded tries, spacing kept |
| **calendar** `calendar.rs` | queued flag, file lock | rewrite, delete | bus, atomic files | a change during the rewrite | the file shows the last change |
| **episodes out** `aired.rs` | mark, one alarm | announce, arm | store, bus | mark saved before the announcement; two arms | each episode announced once |
| host `host/*` | devices' keys, profiles, conversions | serve reads, stream, convert | all reads | two viewers of one conversion | every piece asked for comes |
| **phone engine** `phone/*` | torrents, entries file | add, remove, hold | atomic files | saves from several paths | the newest list is on disk |
| casting `cast/*` | one session | start, control, stop | devices, playback | a stop during a start; a late stop | a TV shows the last session started |
| **presence** `presence/*` | a mailbox | show, clear, disconnect, quit | Discord | latest wins, a clear never dropped | what is shown is what plays |
| updater `update/*` | a download | fetch, install | net | cancel during the rename | the old copy or the new |
| transfer, franchises, profiles, small services | rows | export, import, group | store | none | single transactions, pure functions |
| contract, shells | none, read caches | calls, replies, events | core | read cache and generation | see event bus |

## 2. The modules

| module | models | checked by | proved in |
|---|---|---|---|
| `JobPromise` | what `jobs.rs` promises, abstractly | `KeepsPromise` in `jobs_registry`, `jobs_reports` | `JobsProofs` |
| `Jobs` | `jobs.rs` | `MCJobs`: `jobs_registry`, `jobs_reports` | `JobsProofs` |
| `TrackerWrites` | `trackers/writes.rs`, with what it shares with `cache.rs`, `accounts.rs` | `MCTrackerWrites`: `writes_kinds`, `writes_race` | `TrackerWritesProofs` |
| `PlaybackSession` | `playback/session.rs`, with `skip.rs`'s answer and the writer thread of `store/mod.rs` | `MCPlaybackSession`: `playback` | `PlaybackProofs` |
| `ScanQueue` | `library/scan.rs`, with `core.rs`'s `on_watch_triggers`, the watches and the launch's scan | `MCScanQueue`: `scan_queue`, `scan_window` | `ScanQueueProofs` |
| `FileRegister` | what `atomic_file.rs` promises, abstractly | `KeepsRegister` in `kept_files` | `AtomicFileProofs` |
| `AtomicFile` | `atomic_file.rs` | through `KeptFiles` | `AtomicFileProofs` |
| `KeptFiles` (on `AtomicFile`) | the owners of its files: `calendar.rs`, `phone/engine.rs`, `phone/mod.rs`, `releases/rules.rs`, `trackers/secrets.rs` | `MCKeptFiles`: `kept_files` | `AtomicFileProofs` |
| `PresenceMailbox` | `presence/mod.rs`, with its callers in `playback/session.rs` and `core.rs` | `MCPresence`: `presence` | `PresenceProofs` |
| `EpisodeSchedule` | the airing dates and the world that moves them | through `Episodes` | - |
| `EpisodeOut` (on `EpisodeSchedule`) | `aired.rs` | through `Episodes` | `EpisodesProofs` |
| `EpisodeWatch` (on `EpisodeSchedule`) | `downloads/watch.rs` | through `Episodes` | `EpisodesProofs` |
| `Episodes` | the two readers on one schedule, with the jobs that write it | `MCEpisodes`: `episodes` | `EpisodesProofs` |
| `RollWindow` | the pure part of `downloads/rolling.rs`: window, moves, finished | through `Rolling` | `RollingProofs` (lemmas) |
| `Rolling` (on `RollWindow`) | the passes of `downloads/rolling.rs` beside the client and the user | `MCRolling`: `rolling`, `rolling_aged` | `RollingProofs` |

`JobPromise` is the specification `Jobs` implements, `FileRegister` the one
`AtomicFile` does. `KeptFiles` extends `AtomicFile`: its calls are the callers
of a save, and each of a save's steps can be interleaved with them. `Episodes`
composes the alarm and the watches over the schedule they both read. What the
others need of one another is folded in: a `ScanQueue` scan starts and leaves as
`Jobs` says an exclusive kind does (and `OneAtATime` is what licenses the single
`job` variable there); a mark of `PlaybackSession` is the call `TrackerWrites`
starts from; `PresenceMailbox` has as much of the sessions as presence asks of
them; an edit of `AtomicFile`'s secrets is what a sign-in saves.

### Jobs

`registered` is `Jobs::running`. A job goes through `phase`: announced, queued
on the runtime, polled ("body"), resolved, deregistered, finished, flushed,
terminal event. Each phase boundary is a point where another thread can come in:
`start_reporting` checks and inserts under one lock (`StartReporting`) and emits
after it (`Announce`); the runner removes the entry (`Deregister`) before it
emits. `BodyPanics` and `RuntimeDrops` leave the rest to `JobGuard`. A throttle
per channel (progress; cards by series) has the value last said, the pending
batch, the window and the scheduled flush, which looks at `finished` under the
throttle's lock and emits while holding it (`FlushChecks`, `FlushEmits`). Values
are counters: only which report is newer matters.

`JobPromise` is the same component without threads, locks, timers and buffers: a
job holds its kind's slot alone, says things, is let go, and ends complete, heard
in full, or abandoned; listeners hear ever later versions of what was said.
`Jobs!Promise` maps `phase` and `outcome` to the job's standing and `emitted` to
what was heard; a job whose runner was lost at shutdown holds its slot for good.

### TrackerWrites

One series carried by AniList, MAL or both. `remote` is the trackers' lists,
`cache` our rows of them, `slot` the series' place in `REWATCHING`. A call reads
the cache (`Call`), takes the slot (`Reserve`), spawns its job (`Start`), which
per tracker in turn reads the list (`Read`), sends (`Send`), and patches the row
(`Record`, `RecordRepeat`). Between any two another job, a refresh
(`RefreshFetch`, `RefreshReplace`), a sign-out (`Disconnect`, `ForgetTokens`), a
cancellation or an edit on the website may come. `ReplyLost` is a write that
landed and whose answer did not. MAL's rewatch is a flag beside the status, as
there. Time is `clock`, which moves at any moment.

Three variables are history, there to say what holds of calls that overlap.
`settled` is the least a tracker's list said since no write was under way, and
what a correction or the website took it to. `astray` marks a tracker whose row
may say other than its list, and `slipped` a behaviour in which one viewing may be
counted twice: both are set by named steps alone, each of them one that section 5
lists, and no action reads them.

### PlaybackSession

A tick runs `effects` under the sessions' lock and leaves its list with the
caller; `Apply` then does one effect a step: send to the writer and wait
(`Send`), or post (`Post`), then announce (`Say`). The store's queue is first in
first out (`RunTask`, `TaskFails`), and closes at any moment. Positions are whole
seconds of a short file, and the thresholds (`ResumeHead`, `Interval`, ...) are
scaled with it, their order kept. `Bad` is a position that is not a number.

### ScanQueue

A call goes through `start` in its steps: asked and refused, remembered
(`Remember`), looked again (`Ask`), spawned. The job takes the path queue
(`Take`), resolves its scope to sources (`Resolve`), takes off the queue what it
covers (`Retain`), and per source installs the watch (`Visit`), walks (`Walk`)
and reconciles (`Reconcile`), then looks at its queues (`TakeNextScope`,
`LastLook`) and leaves (`Deregister`). Files change at any moment (`Change`), and
what notify saw of it arrives later (`OnWatchTriggers`), or is lost and asks for
everything (`WatchOverflow`). A removed source does not come back: adding its
path again makes another row (`gone`).

### AtomicFile and KeptFiles

A save goes through `in_turn` in its steps: its clone of the path's mutex
(`Take`), the mutex (`Lock`), the work, the mutex again (`Unlock`), and under
the map's lock the count and the entry's removal (`Release`). The work is
`replace_now`: the sibling made or truncated (`Open`), filled, synced and its
mode said again (`Fill`), renamed (`Rename`); any of them may fail (`Break`) and
the sibling is removed or cannot be (`Sweep`). A file's bytes are a version with
three facts: all of it is there, it is on the disk itself, others can read it.
`ProgramEnds` loses all memory at any step, and with the power the bytes not
synced. `FileRegister` is a file a caller asks to replace: the ask lands or
fails once, at one moment, and a reader sees one whole version; an end answers
nobody.

`KeptFiles` says what the owners add. The calendar: an event queues one rewrite
(`OnEvent`), which waits out its settle (`Settle`), is run by a thread and reads
switch and schedule under the file's lock. The torrent list is copied under the
turn of its own saves. The rules and the secrets are read, changed and saved
under a lock of theirs. A file's contents are the changes it shows.

### PresenceMailbox

`core` holds the rule (`State`) and the mailbox (`Desired`), both changed under
the presence lock; `hands` is the worker. A switch in flight may come to the lock
before the shutdown, between its steps or after it, and after it makes a worker
and a mailbox anew (`Mailbox`). A tick looks whether presence is on,
waits for the lock, looks again for its session and decides (`TickLooks`,
`Tick`); a close has taken its session out of the map before it gets there
(`CloseSession`, `CloseLooks`, `Close`). A pause timer carries its session and
generation (`Elapses`). The worker takes the whole mailbox (`WorkerTakes`),
lets go when asked, applies and delivers; a refusal drops the ask (`Refused`),
a broken connection keeps it for a retry (`FindsGone`, `Retries`). Discord
refuses, quits and starts at any moment.

### EpisodeSchedule, EpisodeOut, EpisodeWatch, Episodes

One show with numbered episodes and their dates; the clock, in hours, moves
when nothing is ready to run, jumps over a sleeping machine and can be set back.
`EpisodeOut` is the alarm of `aired.rs`: every event it hears queues one re-arm,
an arm announces what aired since the mark in one transaction (`Announces`),
says each (`Says`) and sets the one alarm (`SetsAlarm`), all under `saying`.
`EpisodeWatch` is `downloads/watch.rs`: `watch` is `ARMED`, keyed by episode and
date; a call of `arm` reads what is due and sets the keys in two steps; a watch
takes its steps, gives up once, and when it ended arms the next with its own key
still held (`EndedReads`, `EndedSets`).
`Episodes` lets the two jobs that write dates move the schedule under both: the
airing refresh arms the watches, a fetch of the whole record does not.

### RollWindow and Rolling

`RollWindow` is the arithmetic of a roll: what the window wants, what a pass
has to add, skip and erase, when a roll is finished. `Rolling` is a pass over
it: a reader of the client's list (the page's poll, or a pass of its own) takes
the stored roll (`TakesPass`), finds its parts (`Found`), reads what was
watched, sets the client's priorities, adds the held singles, erases what was
watched one at a time, and saves what changed (`Saves`) by a merge that lets
the user's edits made meanwhile stand. `nudge` after an episode is watched asks
for a pass (`asked`), and the read that pass needs may fail (`KickFails`): nobody
tries it again, so the ask waits for the next one (`lost`) or for the page's poll.
Torrents are listed, fetched and removed by the client.

## 3. The runs

| run | shows | instance |
|---|---|---|
| `jobs_registry` | one running body of an exclusive kind; one terminal event, after the slot is free; under cancel, panic, shutdown; `JobPromise` is implemented | three jobs, one exclusive and one other kind, no reports |
| `jobs_reports` | `JobPromise` is implemented by the reporting: the last report is heard before the end, in order, nothing after it; a cancelled job ends | one job, progress and two series' cards, two reports |
| `writes_kinds` | calls of every kind that overlap, fail, lose replies and are cancelled, with refreshes and the entry taken off on the website: the row agrees with the list, no write takes a list below where it stood | two calls, MAL, a list past the published total and one with the rewatch flag, two moments |
| `writes_race` | marks of a finished show that overlap, fail, lose replies and are cancelled, with refreshes and a sign-out: the slot is held by one and comes back, one rewatch per viewing, one tracker's failure leaves the other answered for, stamps are kept | two marks, both trackers, two moments |
| `playback` | one view, mark and completion; a completion forgets the resume point; what was announced is stored; the last position is kept; calls return | one caller, an episode, film or extra of four seconds, an outro found late or never |
| `scan_queue` | what changed while a scan walked is read; a removed source's series stay gone | two series of one source and one of another, the launch's scan, a call of any kind, two changes of each series, one failure |
| `kept_files` | one save at a time has a file's sibling; private files stay private; the calendar follows the schedule and the switch; the newest list and every edit answered Ok are there; `FileRegister` is implemented | two threads, three calls about one file, one end of the program with or without the power |
| `presence` | what is asked for is what the rule decided; a late tick shows nothing, a late close or timer takes nothing away; Discord comes to show what is asked | two threads, two sessions, three budgets of ticks, switches and Discord's troubles |
| `episodes` | an episode out is said once, and in time; a miss is said once; whatever is to come is waited for; a watch comes to an end | two episodes, two air times, five hours, seven budgets |
| `rolling` | only what was watched, and is behind what is kept, is erased; the window is what the client holds; an edit stands; a release frees every file; what is wanted comes | three episodes, a batch or singles, one kept behind, eleven budgets |
| `scan_window`, `rolling_aged` | where the code does not do what its comment says (section 5) | the smallest that shows it |

Some of a run's properties are a conjunction of parts that stand next to it in
the module, each with its own comment: `RulesHold` (`TypeOK`, `AtMostOnce`,
`CompletedForgets`), `TurnsKept` (`TypeOK`, `OneSaver`, `EntriesInUse`),
`ListsKept` (`KeptTypeOK`, `NewestListKept`, `NoEditLost`), `ShowsWhatIsAsked`
(`TypeOK`, `MailAgrees`, `QuietShows`, `OffHides`), `LateCallsSpare`
(`LateCloseSpares`, `PauseOutlasts`), `AlarmsKept` (`TypeOK`, `Watchful`,
`Watched`), `ErasesRight` (`TypeOK`, `OnlyWatchedErased`, `ErasedStays`).

**Why these bounds.** The hazards are between two actors at one resource, so two
calls, two jobs, two sources or two reports meet them; a third job in
`jobs_registry` is there for a slot freed and taken again while an earlier job
is still ending. `MaxSaid = 2` is the shortest history in which an older report
can overtake a newer one. In `TrackerWrites`, `MaxClock = 2` is one moment for a
list's stamp and a later one for a viewing. A file of four seconds has a second
before, on and after each scaled threshold. In `Scan`, a second
series in a source is what a rescan of the first leaves unread. Two changes of a series are one before and one
during a walk. In `KeptFiles` calls about different files share nothing but the
map of turns, whose entries two paths never share (proved), so a run's calls are
about one file (`MaxFiles`), any of them; a third call finds what two that
crossed left behind. Two sessions and two threads are the tick, the close and the
switch that cross; a third session would be a second newest one. Two episodes
are the one out and the one after it, at equal or different moments; five hours
hold both dates, the steps after each and the window. Three episodes are the one
kept behind, the one watched and the one wanted. `Budgets` (in `presence`,
`episodes`, `rolling`) bounds how often each thing from outside may happen in one
behaviour: a set of small budgets, one per combination of troubles, keeps every
interleaving of that combination. `kept_files`
(its two threads and its mutexes) and the two runs of `TrackerWrites` (their two
calls) use symmetry, and state no liveness.

**Deadlock** is not checked: with the calls spent and every queue empty each of
these systems may stop. That nobody waits for ever is stated where it matters,
as `CancelledEnds`, `CallsReturn`, `Settles`, `Heard`, `Resolved`
and `WantedComes`.

**Fairness.** `Jobs`: the runtime polls what is ready, a timer fires, and a lock
is let go (weak fairness of each runner, flush and guard step); a body's own
return is not promised, which is why only cancelled jobs are said to end.
`TrackerWrites` is checked for safety alone: no call waits on another, so that one
ends says nothing of this code. `PlaybackSession`:
a thread goes on with its call and the writer with its queue. `ScanQueue` is
checked for safety alone: that a scan ends in spite of requests that keep coming
is in the plan. `PresenceMailbox`: a thread goes on with its call, the worker
with what it has in hand, and its wait for a retry ends; Discord's quits and
starts, ticks, timers and switches are under none, and `Settles` speaks only of
an ask that stands and a Discord that stays up. `Episodes`: the runtime runs
what is ready and the clock moves; schedules, lists, files and faults are under
none. `Rolling`: a read that a nudge or an add asked for comes, or fails, which
`WantedComes` excuses with the other faults; a pass goes on, and the torrent
client lists and fetches what it was given, as clients with peers do. The page's
poll, the user and the faults are under none.

## 4. The proofs

All for any constants that meet the module's assumption, checked by TLAPS.

**`JobsProofs`.** `TypeOK` is inductive alone (`JobsTypeOK`). `RegistryInv` adds
`Slots` (a job is registered exactly in the phases of `Seated`), `Counted` (its
terminal event has been emitted exactly in phase "ended") and `OneAtATime`, which
is not inductive alone: a job that takes a slot must be known not to hold one
already. It gives `JobsOneAtATime` (with `OneBody`) and `JobsEndOnceAndFree`.
`ThrottleInv` adds `Tracked` (the last version said of an item is what is pending,
else what a flush has in hand, else what was emitted, and nothing passes it),
`Held` (only a flush holding its lock has something in hand) and `Flushed` (how
far finish has come, and who ended the job). From it follow `JobsLatestFlushed`
(once both throttles are settled, what was said is what was emitted),
`JobsReportsInOrder` and `JobsQuietAfterEnd` (action properties, step by step).
`JobsKeepPromise` puts both invariants to use: every step of `Jobs` is a step of
`JobPromise` or a stutter. A start needs `Slots` (who holds a slot in the promise
is in the registry, so the code's look there is enough), what is heard needs
`Tracked`, a complete end needs `Flushed`.

**`TrackerWritesProofs`.** `IInv` is `TypeOK`, where each call stands (`Stand`:
which fields a job in each place has filled), what a job has answered for the
trackers behind its turn (`Passed`), and `SlotHeldByOne`. Every step is first
shown to be one of eight kinds (`StepKinds`), and the parts are proved per kind.
It gives `WritesTypeOK`, `WritesSlotHeldByOne` and `WritesEachTrackerAnswered`.
`WritesStampKept` holds of every step there is. None of these and none of the
next three bounds how many calls are under way or keeps any fault, refresh,
sign-out, cancellation or website edit out.

`WritesNeverBelowSettled`: while a write is under way what it has read is no lower
than `settled` (`Floor`), only `progress` sends less than it read (`SendsNoLess`),
and `settled` moves up only when nothing is under way. `WritesCacheAgrees`: unless
a tracker is `astray`, its row agrees with its list when nothing is sent and
unrecorded, and otherwise one job has sent, and the list is ahead of the row by
exactly its change, or, between the two statements of a rewatch, by the count alone
(`Synced`, `Ahead`); `PatchedSame` and `LandedSeen` are the two halves, what is
recorded and what landed, for every kind of write.

`WritesRewatchOnce` is the one that says why `finished_again` counts a viewing
once. Its invariant is a ledger (`Counts`). With nobody holding the slot, what a
list counts, and one more if the first episode was played since the earlier of
the main row's stamp and its list's (`L`), is no more than the rounds played.
While a mark holds it, that one more is owed by the trackers the job has still to
send to (`Left`), and another is due only past the main tracker and only if the
show was begun again since (`Since`). The list's own stamp must be in it because a
refresh may bring the row's back to it; who else writes does not matter, because
only the holder counts (`LandsCount`) and a write only moves stamps on
(`NotSetBack`). Its hypotheses are of the data: not a film, whose rule is of time
and not of rounds, and no list in a rewatch at the start, which a mark finishes
and counts with no first episode played here.

**`ScanQueueProofs`.** `TypeOK` is inductive alone (`ScanTypeOK`).
`RemovedStaysGone` is inductive as it stands (`ScanRemovedStaysGone`), because
`Reconcile` writes rows only of sources that still have one (the check inside its
transaction) and a removed source has no second row. `ScanUpToDateWhenQuiet` is
of a quiet moment, so its invariant says who is to read a series that is behind
while things move: `BehindInv`, something queued, reported or asked reaches it
(`Ahead`), or the pass under way does (`InPass`); and `ReadInv`, what a walk read
and the disk has moved past since is asked for again. What stands behind a scope
changes hands at each step (asked, remembered, taken, resolved, retained,
walked), and the proof is that no hand-over drops one. The step that can is
`Retain`, which takes a path off the queue because the pass's own walk covers it:
that is so only where no two series share the folder their files are reported
at, which is the theorem's hypothesis `OwnFolders`, and which two films in one
folder do not meet (section 5). Excused are a source's series once it is
removed, and `owed`: series a failed scan had in hand or could not read, and those
that changed while their source had no watch.

**`AtomicFileProofs`.** `TurnsKept` is not inductive: that a save counts two
clones and takes the entry out is right only if the mutex it holds is still its
path's entry and no clone of it is outside the savers the count sees. The
strengthening says what each place of a save has in hand, that a save under way
holds the mutex its path's entry names, and that a mutex is one path's. It gives
`FilesTurnsKept`; with the mode of each sibling, `FilesOwnerOnly`.
`FilesKeepRegister` maps each step: the rename is the moment an ask lands, the
failure of any step the moment it fails, the release its answer; every other
step is a stutter, which needs that a sibling about to be renamed is whole.

**`EpisodesProofs`.** `EpisodesSaidOnce`: an episode said once has a date at or
before the mark, or is in the one arm's hands, and the mark never goes back; so
neither a clock set back nor an arm that crosses another says it again.
`EpisodesMissSaidOnce`: a line is said by the watch whose insert was the first,
so lines said and lines in hand together are at most one where there is a miss
and none where there is not. Both hold for any set of episodes, dates and steps.
`EpisodesAlarmsKept` is the other half, that nobody is forgotten. For the alarm
the invariant is `AlarmCovers`: unless a call of `arm`, an event or a re-arm is
on its way or the last read failed, every followed date past the mark, not just
past `Since`, is waited for by the alarm or by the call about to set it. It
speaks of the mark because the clock may go back: `Since` then does too, and an
episode older than the catch-up would be due again with no alarm. That leaves
none out needs `MARK_STEP` not above `CATCH_UP_SECS` (ten minutes and a day in
`aired.rs`), the one hypothesis. For the watches it is `WatchLeads`: while
something is due and no change went untold, a call of `arm` has yet to read or
holds a key a look would not find stale, or a watch does, or a watch is past its
looks and arms the next. `DueLasts` says time alone makes nothing due out of
nothing, which needs a least date among those to come (`HasLeast`).

**`PresenceProofs`.** The invariant says where each piece of what is shown comes
from. `SwitchInv` ties the switch to the rule and the worker's life: the rule is
on only beside a worker, and one that never was or has stopped has nothing in
hand, which is what a switch that comes after the shutdown begins anew from;
`RuleInv` has the mailbox beside the rule; `TimerInv` that something shown or let
go since a timer was armed has a later generation; `HandsInv` that what the worker
has in hand is what it last heard of; `OffInv` that an order to let go is in the
mailbox, in hand or carried out; `OpenInv` that a session that shows is open or
somebody is on the way to say it closed. Callers on their way to the lock, steps
under it and the worker's steps are each one lemma. It gives
`PresenceShowsWhatIsAsked`, `PresenceLateTickShowsNothing` and, with the one step
that may change what is wanted (`WantChanges`), `PresenceLateCallsSpare`: whole
rows of the `presence` run but its liveness, for any threads and sessions.

**`RollingProofs`.** The window's lemmas come first: the last one watched is one
that was watched (a finite set of numbers has a greatest, shown by a least
counterexample under the subset order, since induction over sets is out of
reach), the window reaches an episode of the download, and what `moves` erases
lies behind the episodes kept. The invariant then says where a pass stands beside
what is stored: `PassInv` (a pass has a stored roll of its kind, and what is
stored is what the user set), `WatchedInv` (nothing is noted as watched that was
not, nothing waits to be erased that is not behind), `GoneInv` (what was erased is
in the `gone` of the copy that counts, off the disk, and in a batch skipped by
the client) and `SinglesInv` (a single is handed over once: what the client ever
listed is among the added, so a stale list of a reader cannot bring an erased
one back). `GoneInv` and `SinglesInv` are claimed until a pass's changes are
first not saved (`torn`), which is where the code stops keeping them (section
5). It gives `RollingErasesRight` and `RollingEditsStand`.

`RollingReleaseFreesAll` adds what a released roll holds back. `RecordInv`: what
left or was seen had been added, watched was seen, only a batch waits to be
counted, and the list a pass works from has whatever its copy takes for present.
`FreeInv`: a batch too small to roll skips nothing, and a pass about to end a
roll finds it too small or has nothing of it held back.

`RollingWindowHolds` says where all this comes to rest, so its invariant has to
say how far from rest each state may be. `ClientInv` is what the client and the
copy that counts agree on: what was watched and not erased is on the disk, and
nothing on its way to the client was listed, fetched or watched. `EditedOwed`: a
change the pass under way has not seen has a pass to come. `StaleInv`: no torrent
is taken for gone by a list older than itself alone. `NoteInv`: what was watched
is noted, or a pass to come, or yet to look, has its part in its list.
`FilesInv`: a pass past its look has the files of a batch it found. `ToldInv` is
the heart of it: unless a pass is owed or is acting, the client was told what the
record says. Once quiet no pass is, and what is noted is all that was watched
(`NoteInv`), so what was told is what the window says. Like the property, it is
claimed until an ask failed (`faulted`), a change was not saved (`torn`) or the
last read for a kick or a nudge failed (`lost`).

**`PlaybackProofs`.** `AtMostOnce` counts what the store was told, so it needs
where an effect is on its way there. `OnceInv`: an effect that fires once is in
one place, with the thread that fired it, in the writer's queue or done, and its
latch is set as long as the session is open; so a tick that fires it finds it in
none. `CallsInv`: a thread that waits has one task in the queue to answer it,
and no list holds an effect twice, without which an answer could run a thread's
next effect under another's task. `ForgetInv` says what comes after a completion,
and only where there is one thread: with two, one's resume point can be posted
after the other's completion (section 5). It gives `PlaybackAtMostOnce` for any
threads and `PlaybackRulesHold` for one. `PlaybackShownIsStored`: with one thread,
the row the writer will leave (`Leaves`: the last task in its queue to write the
resume point, or the row when none does) is at the position of the last
announcement still due (`Due`), which differs from the one heard while a
completion waits for its answer or a posted point is about to be said.
`PlaybackLastWordKept`: what a call has left, and after it the queue, `Ends` in
no row once the open session has completed, and in the last word once none is
open. It is for one session open at a time: with two on the file, one that
completed earlier and closes last leaves the other's row (section 5).

**Only model-checked**: the liveness properties, which are beyond the prover,
and the two that `scan_window` and `rolling_aged` show violated. Every invariant
and action property of the other runs is a theorem's.

## 5. What the code does not do

Checked, each by a run that expects the violation:

- `scan_window`: a scope remembered after the running scan's last look, and
  before it leaves the registry, waits for a scan nobody starts
  (`library/scan.rs:1049`).
- `rolling_aged`: `finished` drops a roll whose last `added_at` is over three
  days old, and a held single keeps the `added_at` its plan gave it: the pass
  that hands one over in an older roll takes the whole roll off the list while
  the part is still coming (`downloads/rolling.rs:122` says the time counts
  from when a part was handed over).

Stated in the modules, met while modelling, and not among the runs (each is a
property of its module, or a case a property excuses by name):

- Jobs. `QuietAfterGuard`: a flush past its look at `finished` reports after the
  guard's JobFailed. `Spaced`: a scheduled flush whose timer fired while a due
  emission held the lock emits within that emission's window.
  `TerminalGuaranteed`: a runner dropped before its first poll has no guard.
- Tracker writes. Mark jobs are not one at a time and read before they write, so
  of two marks the lower episode can land last and take back what the other sent
  ("a mark only ever moves progress up", `trackers/writes.rs:1117`);
  `NeverBelowSettled` says how far. A viewing can be counted again (`slipped`)
  when a mark read its list before it took the slot and another's rewatch ended in
  between; when a refresh fetched earlier, or a reply with an older stamp, sets the
  row's stamp back behind the list's, or a sign-out forgets it; when the main
  tracker is skipped, refuses, finds nothing newer, answers too late or the job is
  dropped on the way to it, so that the other counts and the retry counts it there
  again; when the row went before `record_repeat`. A row can say other than its
  list (`astray`) after a lost reply, a job dropped between its send and its
  record, two jobs past their reads at once, a refresh that carried an older list,
  an edit on the website, and a correction of a MAL entry whose rewatch flag
  stays: `set_progress` to nothing leaves it beside "plan to watch", and the next
  mark makes that "watching", which reads back as a rewatch. The next refresh
  beside no write sets it right. `DisconnectForgets`: a refresh or a write ending
  after the sign-out brings rows back.
- Playback. `PeekLeavesPoint`: after a seek past the mark line the next played
  second completes the episode and deletes the resume point ("a seek to peek at
  the credits must not", `playback/session.rs:206`). `CompletedForgets` with two
  callers: one thread's resume point is posted after the other's close completed
  the session. `LastWordKept` with two sessions open on one file: a session that
  completed has fired its completion, and closing last it clears nothing, so the
  row the other left stays.
- Scan. `UpToDateWhenQuiet` with two films in one folder: a rescan of one takes
  its folder's queued path off the queue (`library/scan.rs:1324`) and reads that
  film alone ("takes off the queue only what its own walk covers anyway",
  `library/scan.rs:1086`). And with a watch that could not be installed: a pass
  installs the watch of each source it visits (`library/scan.rs:1131`) but walks
  what its scope reaches, so a series that changed unwatched stays behind after
  a rescan of another brought the watch (`owed`).
- Kept files. An end of the program between the switch's row and the deletion
  leaves the calendar on disk with the switch off (`stray`). A store that cannot
  be read counts as switched off. The rules file is not synced: one torn by a
  loss of power reads as no rules. No folder is synced after a rename
  (`atomic_file.rs:114`), so whether a save that was answered Ok outlasts a loss of
  power is the file system's to keep (section 6).
- Presence. `CloseClears`: `set_enabled` reads who plays before it takes its lock
  and looks again under it, before `enabled` is stored (`presence/mod.rs:585`):
  a close between the two sees presence still off and leaves the session to be
  shown. Two calls of SetPreferences that cross can leave presence other than
  the stored switch (`core.rs:943`). `Core::shutdown` waits for no call under way
  (`core.rs:1463`), so one that switches presence on can come after presence's own
  shutdown and start it again while the program goes; in the model it does, and
  only `PauseOutlasts` is not claimed past it, since a shutdown counts anew.
- Episodes. A fetch of the whole record (`metadata/fetch.rs:94`) and a read of the
  Watching list (`trackers/watching.rs:449`) write dates and arm no watch, though
  `downloads/watch.rs:195` speaks of every new date; a show hidden and taken back
  has none either (`excused`). An episode out for longer than the window when the
  program starts is never given up on, though the comment at `downloads/watch.rs:53`
  says one past three days is at once. A failed read loses the alarm until something
  changes (`aired.rs:166`). A miss whose insert fails is said by nobody, and its
  watch ends all the same (`downloads/watch.rs:327`, `GiveUpFails`). The mark is
  committed before the lines are said, so an end between them loses them. Two reads
  of the rules can land in the other order (`downloads/mod.rs:2384`).
- Rolling. A pass that erases an episode and finds its roll finished while the
  user releases it keeps the user's roll without the mark that the file is gone
  (`torn`). `LeftIsGone`: a list read before a torrent was added marks its part
  as left. A pass whose save failed, or that ends with the program, does not ask
  the client to check again. A batch whose metadata comes after the three
  minutes of `after_add` is not held back until something reads the list. A
  replacement's tick drops a follow-up with a hash its list did not have yet.
  A nudge or a kick whose read fails is not tried again (`downloads/mod.rs:2430`,
  `downloads/rolling.rs:1183`), so the window waits for the next one
  or the page's poll. A client
  asked to delete a torrent it no longer has answers Ok, and the roll takes the
  file for erased while it stays on the disk (`downloads/rolling.rs:1024`).

## 6. Abstractions

- Text, formatting, cards, images and the contents of a provider's record are
  left out; an identity is a model value, a file's contents a version.
- A SQLite transaction is one step. A read of several rows in one closure is one
  step. An emission is one step, seen by all listeners at once.
- `TrackerWrites` has one series: the slot is per series and lists are per entry,
  so two series meet nowhere else. The list kept on this device, the many-write
  and the sweep to On hold are not in it.
- `PlaybackSession` has one file, and profiles other than the owner's are left
  out. The rows' stamps are (a view only replaces an older one), and a read that
  fails between two effects behaves as a failed write does.
- `ScanQueue` reduces a reconcile to the version read per series: moves, seasons
  and episode rows are left out, and so are the timers it arms. What a pass that
  failed had in hand is excused (`owed`), as the code promises no more of it.
- `KeptFiles` counts changes and never undoes one: a file that shows a set of
  them shows every row or edit of that set. A job's end stands for any event the
  calendar hears.
- `AtomicFile` takes a rename that landed to last through a loss of power, which
  the code leaves to the file system: the folder is not synced, and a loss of
  power soon after may bring back the file of the save before. What
  `FilesKeepRegister`, `NewestListKept` and `NoEditLost` say of a loss of power is
  under that assumption; of an end of the program it is not.
- `PresenceMailbox` runs with the owner's sessions alone (`Owned`): a guest's
  ticks go no further than the sessions. It leaves out what an activity says and when it began, the
  poster's second try and the check's own timer; a send lands, is refused or
  finds the connection gone. The worker's thread is taken to start, and the one a
  shutdown let go to have stopped before a switch after it makes another.
- `EpisodeOut` and `EpisodeWatch` have one show, and hours for seconds:
  `MarkStep`, `CatchUp`, `Window` and the steps keep their order. What a step
  asks of a feed changes nothing here. Neither reader writes what the other
  reads, so most budgets run one of them (`runs`), and one runs both.
- `Rolling` has one roll. Torrents are found by their part, and a file's pieces
  are all there or not. One `asked` stands for the tasks of kicks that came close
  together, and `unattended_allowed`, which the nudge and every pass look at, is
  taken to allow it. Hash binding, the order of pieces, the backend's
  placement and rolls waiting on one another are left out.

**Not modelled**: what only transforms data (library reads, parsing, the
contract, text), what is one transaction per call (library edits, transfer,
franchises, profiles), what is behind a foreign protocol (network, casting,
Discord's frames, the torrent clients), and the shells. The components with an
order of their own that are still to be modelled are in the plan.

## 7. Plan

Done: the registry every long operation goes through (`Jobs`); the three
components whose errors the user keeps: lists (`TrackerWrites`), positions
(`PlaybackSession`), rows (`ScanQueue`); the files beside the store
(`AtomicFile`, `KeptFiles`); presence; the two readers of the schedule
(`Episodes`); rolling downloads (`Rolling`). Next, in this order:

1. `PlaybackSession`: a run with two callers, but for what they break.
   `ScanQueue`: that a scan ends once requests stop.
2. `ListPromise`, what a call on a tracker's list promises (one rewatch per
   viewing, each tracker answered for), with `TrackerWrites` implementing it as
   far as the code does.
3. `Replacing`, over `Rolling`'s client: never neither the old file nor the new.
4. `SettleTimers`: arm, abort, fire, the second removal in `settle_fired`, and
   the auto-match job's loop; over the one-at-a-time registry.
5. `Accounts`: the token refresh by two jobs, sign-out and sign-in beside it;
   composed with `TrackerWrites`' fetches for `DisconnectForgets`.
6. `OnHold` over `TrackerWrites`' lists and rows: nothing just marked is paused
   (`trackers/on_hold.rs:646`).
7. `EventBus` (sequence, generation, a shell's read cache; `events.rs:95` and
   `:123`), `Watcher`, `ImageCache`, `Converter`, `CastSession`, `Shutdown`.

Runs stay few: a component whose safety is proved keeps one run that fires its
every action, and its bounds are cut to make room for the next.
