------------------------------- MODULE KeptFiles -------------------------------
(* The files the core keeps beside its store and the rules their owners add  *)
(* to atomic_file.rs: the calendar (calendar.rs), rewritten a moment after a *)
(* change; the phone's torrent list (phone/engine.rs), saved newest last;    *)
(* the download rules (releases/rules.rs) and the secrets file               *)
(* (trackers/secrets.rs), read, changed and saved under one lock; the        *)
(* phone's sources (phone/mod.rs), saved under none but the path's turn.     *)
(* A file's contents are the set of changes it shows.                        *)
EXTENDS AtomicFile
CONSTANTS
  Change,        \* changes one file can show
  Calendar, Entries, Sources,
  Edited,        \* files edited in place: the rules, the secrets
  MaxCalls,      \* bound: calls and changes that are about one file
  MaxFiles,      \* bound: files they are about
  MaxEnds,       \* bound: ends of the program
  PowerCuts      \* whether the power may go with the program

ASSUME KeptAssumption ==
  /\ IsFiniteSet(Change)
  /\ Version = SUBSET Change
  /\ Path = {Calendar, Entries, Sources} \cup Edited
  /\ Calendar # Entries /\ Calendar # Sources /\ Entries # Sources
  /\ Edited \cap {Calendar, Entries, Sources} = {}

VARIABLES
  doing,     \* what each thread is at
  says,      \* the threads whose call still has PreferencesChanged to say
  edit,      \* the file and change a thread edits
  rows,      \* the schedule changes in the store
  unsaid,    \* changes in the store whose event is not out
  enabled,   \* the switch, in the store
  queued,    \* Calendar::queued: a rewrite is waiting out SETTLE
  due,       \* rewrites past SETTLE that no thread runs yet
  failing,   \* Calendar::failing
  stray,     \* a calendar the switching off could not delete
  entries,   \* Engine::entries
  unsaved,   \* the last save of the entries failed
  kept,      \* the edits answered Ok
  calls, ends  \* counters for the bounds

calendarVars == <<rows, unsaid, enabled, queued, due, failing, stray>>
listVars == <<entries, unsaved, kept, edit>>
bounds == <<calls, ends>>
keptVars == <<vars, doing, says, calendarVars, listVars, bounds>>

Doing == {"nothing", "write", "render", "saveCalendar", "remove", "say",
          "saveEntries", "entriesTurn", "editTurn", "saveEdit", "saveSources"}

KeptTypeOK ==
  /\ TypeOK
  /\ doing \in [Saver -> Doing]
  /\ says \subseteq Saver
  /\ edit \in [Saver -> (Edited \X Change) \cup {None}]
  /\ rows \subseteq Change
  /\ unsaid \in 0 .. Cardinality(Change) + 1
  /\ {enabled, queued, failing, stray, unsaved} \subseteq BOOLEAN
  /\ due \in Nat
  /\ entries \subseteq Change
  /\ kept \in [Edited -> SUBSET Change]

KeptInit ==
  /\ Init
  /\ doing = [s \in Saver |-> "nothing"]
  /\ says = {}
  /\ edit = [s \in Saver |-> None]
  /\ rows = {}
  /\ unsaid = 0
  /\ enabled = FALSE
  /\ queued = FALSE
  /\ due = 0
  /\ failing = FALSE
  /\ stray = FALSE
  /\ entries = {}
  /\ unsaved = FALSE
  /\ kept = [p \in Edited |-> {}]
  /\ calls = [p \in Path |-> 0]
  /\ ends = 0

Idle(s) == doing[s] = "nothing"
Begin(s, what) == doing' = [doing EXCEPT ![s] = what]
CallFor(p) ==
  /\ calls[p] < MaxCalls
  /\ Cardinality({q \in Path : calls[q] > 0} \cup {p}) <= MaxFiles
  /\ calls' = [calls EXCEPT ![p] = @ + 1]
  /\ UNCHANGED ends

NobodyAt(places) == \A s \in Saver : doing[s] \notin places

\* What a reader makes of a list file: one that is not there or does not
\* parse is empty.
ListOn(p) == IF Readable(p) \in {None, Torn} THEN {} ELSE Readable(p)

-----------------------------------------------------------------------------
(* The calendar                                                            *)

CalendarAt == {"write", "render", "saveCalendar", "remove", "say"}
CalendarLocked == {"render", "saveCalendar"}

ScheduleChanges ==
  /\ CallFor(Calendar)
  /\ \E c \in Change \ rows : rows' = rows \cup {c}
  /\ unsaid' = unsaid + 1
  /\ UNCHANGED <<vars, doing, says, enabled, queued, due, failing, stray,
                 listVars>>

\* AfterChange: a rewrite is queued unless one is already waiting.
OnEvent ==
  /\ unsaid > 0
  /\ unsaid' = unsaid - 1
  /\ queued' = TRUE
  /\ UNCHANGED <<vars, doing, says, rows, enabled, due, failing, stray,
                 listVars, bounds>>

\* SETTLE is over: the flag is cleared before the write is started.
Settle ==
  /\ queued
  /\ queued' = FALSE
  /\ due' = due + 1
  /\ UNCHANGED <<vars, doing, says, rows, unsaid, enabled, failing, stray,
                 listVars, bounds>>

\* Mutant: the runtime runs a rewrite nobody started.
StartWriteUnasked(s) ==
  /\ Idle(s)
  /\ due' = due - 1
  /\ Begin(s, "write")
  /\ UNCHANGED <<vars, says, rows, unsaid, enabled, queued, failing, stray,
                 listVars, bounds>>

\* spawn_blocking: a thread takes the rewrite up.
StartWrite(s) ==
  /\ Idle(s)
  /\ due > 0
  /\ due' = due - 1
  /\ Begin(s, "write")
  /\ UNCHANGED <<vars, says, rows, unsaid, enabled, queued, failing, stray,
                 listVars, bounds>>

\* SetPreferences: the row changes, then set_enabled runs if the switch did,
\* then the call says PreferencesChanged.
SetPreferences(s, on) ==
  /\ Idle(s)
  /\ CallFor(Calendar)
  /\ enabled' = on
  /\ stray' = (stray /\ ~on)
  /\ says' = says \cup {s}
  /\ Begin(s, IF on = enabled THEN "say" ELSE IF on THEN "write" ELSE "remove")
  /\ UNCHANGED <<vars, rows, unsaid, queued, due, failing, listVars>>

\* The end of write or remove, on whatever thread it ran.
CalendarDone(s) == Begin(s, IF s \in says THEN "say" ELSE "nothing")

\* write: the file's lock, then the switch.
LockCalendar(s) ==
  /\ doing[s] = "write"
  /\ NobodyAt(CalendarLocked)
  /\ IF enabled THEN Begin(s, "render") ELSE CalendarDone(s)
  /\ UNCHANGED <<vars, says, calendarVars, listVars, bounds>>

\* write_file: nothing to do when the file already says the same.
Render(s) ==
  /\ doing[s] = "render"
  /\ IF Readable(Calendar) = rows
       THEN /\ CalendarDone(s)
            /\ failing' = FALSE
            /\ UNCHANGED vars
       ELSE /\ Begin(s, "saveCalendar")
            /\ Take(s, Calendar, rows)
            /\ UNCHANGED failing
  /\ UNCHANGED <<says, rows, unsaid, enabled, queued, due, stray,
                 listVars, bounds>>

\* The save answers, and the file's lock is let go.
CalendarSaved(s) ==
  /\ doing[s] = "saveCalendar"
  /\ Release(s)
  /\ failing' = (out[s] = "error")
  /\ CalendarDone(s)
  /\ UNCHANGED <<says, rows, unsaid, enabled, queued, due, stray,
                 listVars, bounds>>

\* Mutant: the file is deleted without its lock.
RemoveUnlocked(s) ==
  /\ doing[s] = "remove"
  /\ failing' = FALSE
  /\ \/ DeleteFile(Calendar) /\ UNCHANGED stray
     \/ stray' = TRUE /\ UNCHANGED vars
  /\ CalendarDone(s)
  /\ UNCHANGED <<says, rows, unsaid, enabled, queued, due, listVars, bounds>>

\* remove: the file goes under its lock, or the deletion fails and says so.
Remove(s) ==
  /\ doing[s] = "remove"
  /\ NobodyAt(CalendarLocked)
  /\ failing' = FALSE
  /\ \/ DeleteFile(Calendar) /\ UNCHANGED stray
     \/ stray' = TRUE /\ UNCHANGED vars
  /\ CalendarDone(s)
  /\ UNCHANGED <<says, rows, unsaid, enabled, queued, due, listVars, bounds>>

\* Mutant: a change of the preferences queues no rewrite.
PreferencesUnheard(s) ==
  /\ doing[s] = "say"
  /\ says' = says \ {s}
  /\ Begin(s, "nothing")
  /\ UNCHANGED <<vars, calendarVars, listVars, bounds>>

PreferencesChanged(s) ==
  /\ doing[s] = "say"
  /\ says' = says \ {s}
  /\ queued' = TRUE
  /\ Begin(s, "nothing")
  /\ UNCHANGED <<vars, rows, unsaid, enabled, due, failing, stray,
                 listVars, bounds>>

-----------------------------------------------------------------------------
(* The phone's list of torrents                                            *)

\* A torrent is added, picked from or removed, then the list is saved.
EntriesChange(s) ==
  /\ Idle(s)
  /\ CallFor(Entries)
  /\ \E c \in Change \ entries : entries' = entries \cup {c}
  /\ Begin(s, "entriesTurn")
  /\ UNCHANGED <<vars, says, calendarVars, unsaved, kept, edit>>

\* Mutant: the list is copied without waiting for a save before it.
SaveEntriesAtOnce(s) ==
  /\ doing[s] = "entriesTurn"
  /\ Take(s, Entries, entries)
  /\ Begin(s, "saveEntries")
  /\ UNCHANGED <<says, calendarVars, listVars, bounds>>

\* save_entries: the list is copied once this save has the turn.
SaveEntries(s) ==
  /\ doing[s] = "entriesTurn"
  /\ NobodyAt({"saveEntries"})
  /\ Take(s, Entries, entries)
  /\ Begin(s, "saveEntries")
  /\ UNCHANGED <<says, calendarVars, listVars, bounds>>

EntriesSaved(s) ==
  /\ doing[s] = "saveEntries"
  /\ Release(s)
  /\ unsaved' = (out[s] = "error")
  /\ Begin(s, "nothing")
  /\ UNCHANGED <<says, calendarVars, entries, kept, edit, bounds>>

-----------------------------------------------------------------------------
(* Files read, changed and saved: rules and secrets                        *)

EditFile(s, p, c) ==
  /\ Idle(s)
  /\ CallFor(p)
  /\ c \notin kept[p]
  /\ edit' = [edit EXCEPT ![s] = <<p, c>>]
  /\ Begin(s, "editTurn")
  /\ UNCHANGED <<vars, says, calendarVars, entries, unsaved, kept>>

Editing(p) == \E s \in Saver : doing[s] = "saveEdit" /\ edit[s][1] = p

\* Mutant: the file is read and saved without the edits' own lock.
SaveEditUnlocked(s) ==
  /\ doing[s] = "editTurn"
  /\ Take(s, edit[s][1], ListOn(edit[s][1]) \cup {edit[s][2]})
  /\ Begin(s, "saveEdit")
  /\ UNCHANGED <<says, calendarVars, listVars, bounds>>

\* EDITING, or FileStore::writes: read, change and save under one lock.
SaveEdit(s) ==
  /\ doing[s] = "editTurn"
  /\ ~Editing(edit[s][1])
  /\ Take(s, edit[s][1], ListOn(edit[s][1]) \cup {edit[s][2]})
  /\ Begin(s, "saveEdit")
  /\ UNCHANGED <<says, calendarVars, listVars, bounds>>

EditSaved(s) ==
  /\ doing[s] = "saveEdit"
  /\ Release(s)
  /\ kept' = IF out[s] = "ok"
               THEN [kept EXCEPT ![edit[s][1]] = @ \cup {edit[s][2]}] ELSE kept
  /\ edit' = [edit EXCEPT ![s] = None]
  /\ Begin(s, "nothing")
  /\ UNCHANGED <<says, calendarVars, entries, unsaved, bounds>>

-----------------------------------------------------------------------------
(* The phone's sources: a whole list, saved under the path's turn alone    *)

SetSources(s, c) ==
  /\ Idle(s)
  /\ CallFor(Sources)
  /\ Take(s, Sources, {c})
  /\ Begin(s, "saveSources")
  /\ UNCHANGED <<says, calendarVars, listVars>>

SourcesSaved(s) ==
  /\ doing[s] = "saveSources"
  /\ Release(s)
  /\ Begin(s, "nothing")
  /\ UNCHANGED <<says, calendarVars, listVars, bounds>>

-----------------------------------------------------------------------------
(* The program ends at any step and is started again, when the launch's     *)
(* own scan is the first job to end and be heard.                          *)

TornFile(p) == disk'[p] # None /\ ~disk'[p].whole

EndAndStart(torn) ==
  /\ ends < MaxEnds
  /\ ends' = ends + 1
  /\ ProgramEnds(torn)
  /\ doing' = [s \in Saver |-> "nothing"]
  /\ says' = {}
  /\ edit' = [s \in Saver |-> None]
  /\ unsaid' = 1
  /\ queued' = FALSE
  /\ due' = 0
  /\ failing' = FALSE
  /\ stray' = (~enabled /\ disk'[Calendar] # None)
  /\ entries' = IF disk'[Entries] = None \/ TornFile(Entries)
                  THEN {} ELSE disk'[Entries].version
  /\ unsaved' = FALSE
  /\ kept' = [p \in Edited |-> IF TornFile(p) THEN {} ELSE kept[p]]
  /\ UNCHANGED <<rows, enabled, calls>>

KeptStep(s) ==
  \/ StartWrite(s)
  \/ LockCalendar(s)
  \/ Render(s)
  \/ CalendarSaved(s)
  \/ Remove(s)
  \/ PreferencesChanged(s)
  \/ SaveEntries(s)
  \/ EntriesSaved(s)
  \/ SaveEdit(s)
  \/ EditSaved(s)
  \/ SourcesSaved(s)
  \/ SaveStep(s) /\ UNCHANGED <<doing, says, calendarVars, listVars, bounds>>

KeptNext ==
  \/ ScheduleChanges
  \/ OnEvent
  \/ Settle
  \/ \E s \in Saver :
       \/ KeptStep(s)
       \/ \E on \in BOOLEAN : SetPreferences(s, on)
       \/ EntriesChange(s)
       \/ \E p \in Edited, c \in Change : EditFile(s, p, c)
       \/ \E c \in Change : SetSources(s, c)
  \/ \E torn \in IF PowerCuts THEN SUBSET Path ELSE {{}} : EndAndStart(torn)

KeptSpec == KeptInit /\ [][KeptNext]_keptVars

-----------------------------------------------------------------------------
(* Properties                                                              *)

CalendarQuiet ==
  /\ unsaid = 0
  /\ ~queued
  /\ due = 0
  /\ NobodyAt(CalendarAt)

\* Once nothing is under way the calendar is what the switch says: the
\* schedule as it is now, or no file.  Calls that switch it on and off at
\* once may cross; the events they say afterwards settle it.
CalendarFollows ==
  CalendarQuiet =>
    IF enabled THEN failing \/ Readable(Calendar) = rows
    ELSE stray \/ disk[Calendar] = None

\* "the newest is the one left on disk": with no save under way, the file
\* holds the list as it is, unless the last save failed.
NewestListKept ==
  NobodyAt({"entriesTurn", "saveEntries"}) =>
    unsaved \/ ListOn(Entries) = entries

\* "two changes at once cannot lose either": an edit answered Ok stays in
\* its file, through ends of the program too.
NoEditLost == \A p \in Edited : kept[p] \subseteq ListOn(p)

\* The files that are lists hold what their owners were told they hold.
ListsKept == KeptTypeOK /\ NewestListKept /\ NoEditLost
=============================================================================
