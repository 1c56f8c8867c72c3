---------------------------- MODULE PresenceMailbox ----------------------------
(* presence/mod.rs: what the player plays, shown on Discord.  Callers feed a *)
(* rule under the presence lock; the rule overwrites what Discord should     *)
(* show; one worker, the owner of the connection, brings Discord to it.      *)
EXTENDS Naturals, FiniteSets
CONSTANTS
  Caller,       \* threads that call into the core
  Session,      \* playback sessions, by number, in the order they open
  Owned,        \* the owner's own sessions; the others are guests'
  None,         \* nothing shown, no session, no call
  Budgets       \* bounds: what may be done at most, one of these per behaviour

ASSUME PresenceAssumption ==
  /\ Session \subseteq Nat
  /\ IsFiniteSet(Session)
  /\ Owned \subseteq Session
  /\ None \notin Session \cup Caller
  /\ Budgets \subseteq
       [opens : Nat, ticks : Nat, switches : Nat, refusals : Nat, quits : Nat,
        ends : Nat]

\* An activity: whose, and whether Discord's clock runs with it.
Activity == [session : Session, clock : BOOLEAN]

VARIABLES
  status,   \* status[s]: the session in the sessions map
  call,     \* what each caller is at
  enabled,  \* Presence::enabled, read without the lock
  rule,     \* Inner::state
  timers,   \* the pause timers that have not run out
  holder,   \* who is in set_enabled with the presence lock
  worker,   \* Inner::worker: whether the core holds a mailbox
  mail,     \* Desired
  at,       \* where the worker is
  taken,    \* what it took from the mailbox
  aim,      \* Worker::want
  dirty, connected,
  resting,  \* within RETRY of the last attempt
  shown,    \* what Discord shows
  up, live, \* Discord runs; it is the one the connection was made to
  down,     \* how far a shutdown is
  crossed,  \* for the properties: a switch went on for a closed session
  refused,  \* and: Discord refused what was sent last
  left      \* what is left of the budget

player == <<status, call>>
core == <<enabled, rule, timers, holder, worker>>
hands == <<at, taken, aim, dirty, connected, resting>>
discord == <<shown, up, live>>
vars == <<player, core, mail, hands, discord, down, crossed, refused, left>>

Rule == [enabled : BOOLEAN, owner : Session \cup {None}, paused : BOOLEAN,
         shown : BOOLEAN, generation : Nat]

\* `stale`: something has been shown or let go since the timer was armed.
Timer == [session : Session, generation : Nat, stale : BOOLEAN]

Call == [what : {"ticked", "tick"}, session : Session, paused : BOOLEAN]
  \cup [what : {"closing", "close"}, session : Session]
  \cup [what : {"set", "on"}, playing : Session \cup {None}]
  \cup [what : {"off"}]

Mail == [want : Activity \cup {None}, disconnect : BOOLEAN, quit : BOOLEAN,
         news : BOOLEAN]

ASSUME NothingAssumption == None \notin Activity \cup Call

Flags ==
  /\ enabled \in BOOLEAN /\ worker \in BOOLEAN
  /\ dirty \in BOOLEAN /\ connected \in BOOLEAN /\ resting \in BOOLEAN
  /\ up \in BOOLEAN /\ live \in BOOLEAN
  /\ crossed \in BOOLEAN /\ refused \in BOOLEAN

Data ==
  /\ status \in
       [Session -> {"unopened", "silent", "playing", "paused", "closed"}]
  /\ call \in [Caller -> Call \cup {None}]
  /\ rule \in Rule
  /\ timers \subseteq Timer
  /\ holder \in Caller \cup {None}
  /\ mail \in Mail
  /\ at \in {"none", "waiting", "apply", "deliver", "send", "quit",
             "stopped"}
  /\ taken \in [want : Activity \cup {None}, disconnect : BOOLEAN]
  /\ aim \in Activity \cup {None}
  /\ shown \in Activity \cup {None}
  /\ down \in {"no", "stored", "yes"}

TypeOK == Flags /\ Data

NewRule == [enabled |-> FALSE, owner |-> None, paused |-> FALSE,
            shown |-> FALSE, generation |-> 0]
NewMail == [want |-> None, disconnect |-> FALSE, quit |-> FALSE, news |-> FALSE]

Init ==
  /\ status = [s \in Session |-> "unopened"]
  /\ call = [c \in Caller |-> None]
  /\ enabled = FALSE
  /\ rule = NewRule
  /\ timers = {}
  /\ holder = None
  /\ worker = FALSE
  /\ mail = NewMail
  /\ at = "none"
  /\ taken = [want |-> None, disconnect |-> FALSE]
  /\ aim = None
  /\ dirty = FALSE
  /\ connected = FALSE
  /\ resting = FALSE
  /\ shown = None
  /\ up \in BOOLEAN
  /\ live = FALSE
  /\ down = "no"
  /\ crossed = FALSE
  /\ refused = FALSE
  /\ left \in Budgets

-----------------------------------------------------------------------------
(* The rule: decide, and what run does with its answer                     *)

IsOpen(s) == status[s] \in {"silent", "playing", "paused"}

\* Set and Clear overwrite what is wanted; a mailbox there is not takes none.
Post(a) ==
  mail' = IF worker THEN [mail EXCEPT !.want = a, !.news = TRUE] ELSE mail

Showing(s, runs) == [session |-> s, clock |-> runs]

Outdated == {[t EXCEPT !.stale = TRUE] : t \in timers}

\* play: the session shows as playing.
Play(s) ==
  /\ rule' = [rule EXCEPT !.enabled = TRUE, !.owner = s, !.paused = FALSE,
                          !.shown = TRUE, !.generation = @ + 1]
  /\ timers' = Outdated
  /\ Post(Showing(s, TRUE))

NoChange == UNCHANGED <<rule, timers, mail>>

\* A tick of the session shown as playing moves the clock after a seek.
TickSeeks(s) == Post(Showing(s, TRUE)) /\ UNCHANGED <<rule, timers>>

\* A pause shows without the clock and arms a timer.
TickPauses(s) ==
  /\ rule' = [rule EXCEPT !.paused = TRUE, !.generation = @ + 1]
  /\ timers' = Outdated \cup
       {[session |-> s, generation |-> rule.generation + 1, stale |-> FALSE]}
  /\ Post(Showing(s, FALSE))

DecideTick(s, paused) ==
  IF ~rule.enabled THEN NoChange
  ELSE IF rule.owner # s
    THEN IF paused THEN NoChange ELSE Play(s)
  ELSE IF paused
    THEN IF rule.paused THEN NoChange ELSE TickPauses(s)
  ELSE IF ~rule.paused /\ rule.shown
    THEN NoChange \/ TickSeeks(s)
  ELSE Play(s)

\* Mutant: a close clears whatever shows.
DecideCloseAnyones(s) ==
  IF ~rule.enabled THEN NoChange
  ELSE /\ rule' = [rule EXCEPT !.owner = None, !.paused = FALSE,
                               !.shown = FALSE, !.generation = @ + 1]
       /\ timers' = Outdated
       /\ IF rule.shown THEN Post(None) ELSE UNCHANGED mail

\* Mutant: a close forgets whether the activity still shows.
DecideCloseQuietly(s) ==
  IF rule.owner # s THEN NoChange
  ELSE /\ rule' = [rule EXCEPT !.owner = None, !.paused = FALSE,
                               !.shown = FALSE, !.generation = @ + 1]
       /\ timers' = Outdated
       /\ IF rule.paused THEN UNCHANGED mail ELSE Post(None)

DecideClose(s) ==
  IF rule.owner # s THEN NoChange
  ELSE /\ rule' = [rule EXCEPT !.owner = None, !.paused = FALSE,
                               !.shown = FALSE, !.generation = @ + 1]
       /\ timers' = Outdated
       /\ IF rule.shown THEN Post(None) ELSE UNCHANGED mail

Disable ==
  IF ~rule.enabled THEN NoChange
  ELSE /\ rule' = [NewRule EXCEPT !.generation = rule.generation + 1]
       /\ timers' = Outdated
       /\ mail' = IF worker
            THEN [mail EXCEPT !.want = None, !.disconnect = TRUE, !.news = TRUE]
            ELSE mail

-----------------------------------------------------------------------------
(* Playback sessions                                                       *)

Idle(c) == call[c] = None
Becomes(c, what) == call' = [call EXCEPT ![c] = what]
Spend(what) ==
  /\ left[what] > 0
  /\ left' = [left EXCEPT ![what] = @ - 1]

worldButPlayer == <<core, mail, hands, discord, down, crossed, refused>>

OpenSession(s) ==
  /\ status[s] = "unopened"
  /\ \A r \in Session : r < s => status[r] # "unopened"
  /\ Spend("opens")
  /\ status' = [status EXCEPT ![s] = "silent"]
  /\ UNCHANGED <<call, worldButPlayer>>

\* session::tick: a guest's goes no further than the sessions.
PlayerTicks(c, s, paused) ==
  /\ Idle(c)
  /\ IsOpen(s)
  /\ Spend("ticks")
  /\ status' = [status EXCEPT ![s] = IF paused THEN "paused" ELSE "playing"]
  /\ IF s \in Owned
       THEN Becomes(c, [what |-> "ticked", session |-> s, paused |-> paused])
       ELSE UNCHANGED call
  /\ UNCHANGED worldButPlayer

\* presence::tick up to its lock, which a switch that is off never takes.
TickLooks(c) ==
  /\ ~Idle(c)
  /\ call[c].what = "ticked"
  /\ Becomes(c, IF enabled THEN [call[c] EXCEPT !.what = "tick"] ELSE None)
  /\ UNCHANGED <<status, worldButPlayer, left>>

\* Mutant: the tick does not look again for its session.
TickUnlooked(c) ==
  /\ ~Idle(c)
  /\ call[c].what = "tick"
  /\ holder = None
  /\ DecideTick(call[c].session, call[c].paused)
  /\ Becomes(c, None)
  /\ UNCHANGED <<status, enabled, holder, worker, hands, discord, down,
                 crossed, refused, left>>

\* presence::tick under the lock: a session that has closed shows nothing.
Tick(c) ==
  /\ ~Idle(c)
  /\ call[c].what = "tick"
  /\ holder = None
  /\ IF IsOpen(call[c].session)
       THEN DecideTick(call[c].session, call[c].paused)
       ELSE NoChange
  /\ Becomes(c, None)
  /\ UNCHANGED <<status, enabled, holder, worker, hands, discord, down,
                 crossed, refused, left>>

\* session::close: the session leaves the map before presence hears of it.
CloseSession(c, s) ==
  /\ Idle(c)
  /\ IsOpen(s)
  /\ status' = [status EXCEPT ![s] = "closed"]
  /\ Becomes(c, [what |-> "closing", session |-> s])
  /\ UNCHANGED <<worldButPlayer, left>>

\* presence::close up to its lock.
CloseLooks(c) ==
  /\ ~Idle(c)
  /\ call[c].what = "closing"
  /\ IF enabled
       THEN Becomes(c, [what |-> "close", session |-> call[c].session])
       ELSE Becomes(c, None)
  /\ UNCHANGED <<status, worldButPlayer, left>>

Close(c) ==
  /\ ~Idle(c)
  /\ call[c].what = "close"
  /\ holder = None
  /\ DecideClose(call[c].session)
  /\ Becomes(c, None)
  /\ UNCHANGED <<status, enabled, holder, worker, hands, discord, down,
                 crossed, refused, left>>

\* Mutant: a timer asks only whether its session shows.
ElapsesAnyhow(t) ==
  /\ holder = None
  /\ LET clears == /\ enabled
                   /\ rule.enabled
                   /\ rule.owner = t.session
                   /\ rule.shown
     IN  /\ timers' = timers \ {t}
         /\ rule' = IF clears THEN [rule EXCEPT !.shown = FALSE] ELSE rule
         /\ IF clears THEN Post(None) ELSE UNCHANGED mail
  /\ UNCHANGED <<player, enabled, holder, worker, hands, discord, down,
                 crossed, refused, left>>

\* A pause timer runs out.  That presence is on is looked at before the lock;
\* a rule that was off since then is a rule the timer no longer fits.
Elapses(t) ==
  /\ holder = None
  /\ LET clears == /\ enabled
                   /\ rule.enabled
                   /\ rule.owner = t.session
                   /\ rule.generation = t.generation
                   /\ rule.paused
                   /\ rule.shown
     IN  /\ timers' = timers \ {t}
         /\ rule' = IF clears THEN [rule EXCEPT !.shown = FALSE] ELSE rule
         /\ IF clears THEN Post(None) ELSE UNCHANGED mail
  /\ UNCHANGED <<player, enabled, holder, worker, hands, discord, down,
                 crossed, refused, left>>

-----------------------------------------------------------------------------
(* The switch and the shutdown                                             *)

\* The owner's session that plays, the newest of several.
PlayingNow(s) ==
  LET playing == {r \in Owned : status[r] = "playing"}
  IN  IF playing = {} THEN s = None
      ELSE s \in playing /\ \A r \in playing : r <= s

\* SetPreferences stores the switch, then set_enabled looks for the session
\* that plays, with no presence lock yet.  A core that shuts down takes no new
\* call, and waits for none.
Switch(c, on) ==
  /\ Idle(c)
  /\ down = "no"
  /\ Spend("switches")
  /\ IF on
       THEN \E s \in Session \cup {None} :
              /\ PlayingNow(s)
              /\ Becomes(c, [what |-> "set", playing |-> s])
       ELSE Becomes(c, [what |-> "off"])
  /\ UNCHANGED <<status, core, mail, hands, discord, down, crossed, refused>>

\* Under the presence lock: is that session still open?  A worker that the
\* shutdown let go is taken to have stopped by then.
SwitchTakes(c) ==
  /\ ~Idle(c)
  /\ call[c].what = "set"
  /\ holder = None
  /\ worker \/ at \in {"none", "stopped"}
  /\ holder' = c
  /\ LET s == call[c].playing
     IN  Becomes(c, [what |-> "on",
                     playing |-> IF s # None /\ IsOpen(s) THEN s ELSE None])
  /\ UNCHANGED <<status, enabled, rule, timers, worker, mail, hands, discord,
                 down, crossed, refused, left>>

\* A worker there is not, is made with a mailbox of its own.
Mailbox == IF worker THEN mail ELSE NewMail
Spawned ==
  /\ worker' = TRUE
  /\ at' = "waiting"
  /\ UNCHANGED <<taken, aim, dirty, connected, resting>>

\* Mutant: what was found playing is shown, found or not.
SwitchOnAnyhow(c) ==
  /\ holder = c
  /\ enabled' = TRUE
  /\ IF worker THEN UNCHANGED <<worker, hands>> ELSE Spawned
  /\ LET s == call[c].playing
     IN  IF rule.enabled THEN NoChange
         ELSE /\ rule' = [rule EXCEPT
                             !.enabled = TRUE, !.owner = s, !.paused = FALSE,
                             !.shown = TRUE, !.generation = @ + 1]
              /\ timers' = Outdated
              /\ mail' = [Mailbox EXCEPT !.want = Showing(s, TRUE), !.news = TRUE]
  /\ LET s == call[c].playing
     IN  crossed' = (crossed \/ (s # None /\ ~IsOpen(s)))
  /\ holder' = None
  /\ Becomes(c, None)
  /\ UNCHANGED <<status, discord, down, refused, left>>

SwitchOn(c) ==
  /\ holder = c
  /\ enabled' = TRUE
  /\ IF worker THEN UNCHANGED <<worker, hands>> ELSE Spawned
  /\ LET s == call[c].playing
     IN  IF rule.enabled THEN NoChange
         ELSE IF s = None
           THEN /\ rule' = [rule EXCEPT !.enabled = TRUE]
                /\ mail' = Mailbox
                /\ UNCHANGED timers
         ELSE /\ rule' = [rule EXCEPT
                             !.enabled = TRUE, !.owner = s, !.paused = FALSE,
                             !.shown = TRUE, !.generation = @ + 1]
              /\ timers' = Outdated
              /\ mail' = [Mailbox EXCEPT !.want = Showing(s, TRUE), !.news = TRUE]
  /\ LET s == call[c].playing
     IN  crossed' = (crossed \/ (s # None /\ ~IsOpen(s)))
  /\ holder' = None
  /\ Becomes(c, None)
  /\ UNCHANGED <<status, discord, down, refused, left>>

SwitchOff(c) ==
  /\ ~Idle(c)
  /\ call[c].what = "off"
  /\ holder = None
  /\ enabled' = FALSE
  /\ Disable
  /\ Becomes(c, None)
  /\ UNCHANGED <<status, holder, worker, hands, discord, down, crossed,
                 refused, left>>

\* shutdown: off for whoever looks, then the state and the worker are taken
\* and the worker told to quit; it is waited for a second at most.  A switch
\* under way may come before, between or after.
ShutdownStarts ==
  /\ down = "no"
  /\ Spend("ends")
  /\ down' = "stored"
  /\ enabled' = FALSE
  /\ UNCHANGED <<player, rule, timers, holder, worker, mail, hands, discord,
                 crossed, refused>>

ShutdownTakes ==
  /\ down = "stored"
  /\ holder = None
  /\ rule' = NewRule
  /\ timers' = Outdated
  /\ worker' = FALSE
  /\ mail' = IF worker THEN [mail EXCEPT !.quit = TRUE, !.news = TRUE] ELSE mail
  /\ down' = "yes"
  /\ UNCHANGED <<player, enabled, holder, hands, discord, crossed, refused,
                 left>>

-----------------------------------------------------------------------------
(* The worker                                                              *)

Goes(place) == at' = place

restOfWorld == <<player, core, down, crossed>>

WorkerQuits ==
  /\ at = "waiting"
  /\ mail.quit
  /\ Goes("quit")
  /\ UNCHANGED <<restOfWorld, mail, taken, aim, dirty, connected, resting,
                 discord, refused, left>>

\* Mutant: the order to let go is read and left in the mailbox.
WorkerTakesHalf ==
  /\ at = "waiting"
  /\ ~mail.quit
  /\ mail.news
  /\ taken' = [want |-> mail.want, disconnect |-> FALSE]
  /\ mail' = [mail EXCEPT !.news = FALSE, !.disconnect = FALSE]
  /\ Goes("apply")
  /\ UNCHANGED <<restOfWorld, aim, dirty, connected, resting, discord, refused,
                 left>>

WorkerTakes ==
  /\ at = "waiting"
  /\ ~mail.quit
  /\ mail.news
  /\ taken' = [want |-> mail.want, disconnect |-> mail.disconnect]
  /\ mail' = [mail EXCEPT !.news = FALSE, !.disconnect = FALSE]
  /\ Goes("apply")
  /\ UNCHANGED <<restOfWorld, aim, dirty, connected, resting, discord, refused,
                 left>>

Retries ==
  /\ at = "waiting"
  /\ ~mail.quit /\ ~mail.news
  /\ dirty /\ aim # None /\ ~connected
  /\ ~resting
  /\ Goes("deliver")
  /\ UNCHANGED <<restOfWorld, mail, taken, aim, dirty, connected, resting,
                 discord, refused, left>>

\* disconnect: the activity is cleared and the connection closed, which
\* clears it too.
LetGo ==
  /\ connected' = FALSE
  /\ live' = FALSE
  /\ shown' = IF live THEN None ELSE shown
  /\ aim' = None
  /\ dirty' = FALSE
  /\ resting' = FALSE

\* A connection quiet for CHECK, which may be any moment here: what shows is
\* sent again, or it is let go.
Checks ==
  /\ at = "waiting"
  /\ ~mail.quit /\ ~mail.news
  /\ connected /\ ~dirty
  /\ IF aim # None
       THEN /\ dirty' = TRUE
            /\ Goes("deliver")
            /\ UNCHANGED <<aim, connected, resting, live, shown>>
       ELSE /\ LetGo
            /\ UNCHANGED at
  /\ UNCHANGED <<restOfWorld, mail, taken, up, refused, left>>

\* Mutant: nothing to show is nothing to send.
AppliesShowsOnly ==
  /\ at = "apply"
  /\ IF taken.disconnect
       THEN LetGo
       ELSE UNCHANGED <<connected, resting, live, shown>>
  /\ dirty' = (taken.want # None)
  /\ aim' = taken.want
  /\ Goes("deliver")
  /\ UNCHANGED <<restOfWorld, mail, taken, up, refused, left>>

\* Nothing shows on a connection that is not there.
Applies ==
  /\ at = "apply"
  /\ IF taken.disconnect
       THEN /\ connected' = FALSE
            /\ live' = FALSE
            /\ shown' = IF live THEN None ELSE shown
            /\ resting' = FALSE
       ELSE UNCHANGED <<connected, resting, live, shown>>
  /\ dirty' = (taken.want # None \/ connected')
  /\ aim' = taken.want
  /\ Goes("deliver")
  /\ UNCHANGED <<restOfWorld, mail, taken, up, refused, left>>

\* deliver: connect if need be, once every RETRY.
Delivers ==
  /\ at = "deliver"
  /\ \/ /\ ~dirty \/ (~connected /\ resting)
        /\ Goes("waiting")
        /\ UNCHANGED <<connected, resting, live>>
     \/ /\ dirty /\ connected
        /\ Goes("send")
        /\ UNCHANGED <<connected, resting, live>>
     \/ /\ dirty /\ ~connected /\ ~resting
        /\ resting' = TRUE
        /\ connected' = up
        /\ live' = up
        /\ Goes(IF up THEN "send" ELSE "waiting")
  /\ UNCHANGED <<restOfWorld, mail, taken, aim, dirty, shown, up, refused,
                 left>>

Lands ==
  /\ at = "send"
  /\ live
  /\ shown' = aim
  /\ dirty' = FALSE
  /\ refused' = FALSE
  /\ Goes("waiting")
  /\ UNCHANGED <<restOfWorld, mail, taken, aim, connected, resting, up, live,
                 left>>

\* Discord refuses, the second time without the poster: not tried again.
Refused ==
  /\ at = "send"
  /\ live
  /\ Spend("refusals")
  /\ dirty' = FALSE
  /\ refused' = TRUE
  /\ Goes("waiting")
  /\ UNCHANGED <<restOfWorld, mail, taken, aim, connected, resting, discord>>

\* Mutant: a send that finds Discord gone counts as done.
FindsGoneAndForgets ==
  /\ at = "send"
  /\ ~live
  /\ connected' = FALSE
  /\ dirty' = FALSE
  /\ Goes("waiting")
  /\ UNCHANGED <<restOfWorld, mail, taken, aim, resting, discord, refused,
                 left>>

\* Discord has gone: the connection is closed, and what was wanted stays due.
FindsGone ==
  /\ at = "send"
  /\ ~live
  /\ connected' = FALSE
  /\ Goes("waiting")
  /\ UNCHANGED <<restOfWorld, mail, taken, aim, dirty, resting, discord,
                 refused, left>>

\* Mutant: the worker quits and leaves the connection to the system.
StopsAtOnce ==
  /\ at = "quit"
  /\ Goes("stopped")
  /\ UNCHANGED <<restOfWorld, mail, taken, aim, dirty, connected, resting,
                 discord, refused, left>>

Stops ==
  /\ at = "quit"
  /\ LetGo
  /\ Goes("stopped")
  /\ UNCHANGED <<restOfWorld, mail, taken, up, refused, left>>

RetryIsDue ==
  /\ resting
  /\ resting' = FALSE
  /\ UNCHANGED <<restOfWorld, mail, at, taken, aim, dirty, connected, discord,
                 refused, left>>

DiscordQuits ==
  /\ up
  /\ Spend("quits")
  /\ up' = FALSE
  /\ live' = FALSE
  /\ shown' = None
  /\ UNCHANGED <<restOfWorld, mail, hands, refused>>

DiscordStarts ==
  /\ ~up
  /\ up' = TRUE
  /\ UNCHANGED <<restOfWorld, mail, hands, shown, live, refused, left>>

-----------------------------------------------------------------------------
WorkerStep ==
  \/ WorkerQuits
  \/ WorkerTakes
  \/ Retries
  \/ Checks
  \/ Applies
  \/ Delivers
  \/ Lands
  \/ FindsGone
  \/ Stops

CallerStep(c) ==
  \/ TickLooks(c)
  \/ Tick(c)
  \/ CloseLooks(c)
  \/ Close(c)
  \/ SwitchTakes(c)
  \/ SwitchOn(c)
  \/ SwitchOff(c)

Next ==
  \/ \E s \in Session : OpenSession(s)
  \/ \E c \in Caller :
       \/ \E s \in Session, paused \in BOOLEAN : PlayerTicks(c, s, paused)
       \/ \E s \in Session : CloseSession(c, s)
       \/ \E on \in BOOLEAN : Switch(c, on)
       \/ CallerStep(c)
  \/ \E t \in timers : Elapses(t)
  \/ ShutdownStarts \/ ShutdownTakes
  \/ WorkerStep
  \/ Refused
  \/ RetryIsDue
  \/ DiscordQuits \/ DiscordStarts

Spec == Init /\ [][Next]_vars

\* Threads and the clock run; nothing is asked of the player, the user or
\* Discord.
FairSpec ==
  /\ Spec
  /\ \A c \in Caller : WF_vars(CallerStep(c))
  /\ WF_vars(WorkerStep)
  /\ WF_vars(RetryIsDue)

-----------------------------------------------------------------------------
(* Properties                                                              *)

\* What the mailbox asks for is what the rule decided, whatever was
\* overwritten on the way: "a clear can never be dropped".
MailAgrees ==
  worker =>
    mail.want = IF rule.shown THEN Showing(rule.owner, ~rule.paused) ELSE None

NothingUnderWay == \A c \in Caller : Idle(c)

\* "the close of the session that owns it clears it": once every call is
\* through, what is asked for is a session that is open.
CloseClears ==
  worker /\ down = "no" /\ NothingUnderWay /\ mail.want # None =>
    IsOpen(mail.want.session)

\* The same of a tick that raced its session's close, leaving aside a switch
\* that went on while the session closed.
LateTickShowsNothing ==
  worker /\ down = "no" /\ NothingUnderWay /\ mail.want # None =>
    crossed \/ IsOpen(mail.want.session)

\* "a close that comes late must not clear the new one".
LateCloseSpares ==
  [][\A c \in Caller :
       /\ ~Idle(c)
       /\ call[c].what = "close"
       /\ call'[c] = None
       /\ mail.want # None
       => mail.want.session = call[c].session \/ mail'.want = mail.want]_vars

\* A pause timer clears only the pause it was armed for: nothing has been
\* shown, closed or switched since.  A shutdown counts anew.
PauseOutlasts ==
  [][\A t \in timers :
       /\ down # "yes"
       /\ timers' = timers \ {t}
       /\ mail.want # None /\ mail'.want = None
       /\ call' = call
       => ~t.stale]_vars

\* A worker with nothing left to do has Discord showing what is asked for,
\* as long as Discord did not refuse it and the connection is a live one.
QuietShows ==
  /\ at = "waiting" /\ ~mail.news /\ ~dirty
  /\ connected /\ live
  /\ ~refused
  => shown = mail.want

\* Switched off, or shut down, and heard of by the worker: nothing shows and
\* no connection is left.
OffHides ==
  /\ ~rule.enabled
  /\ at = "stopped" \/ (at = "waiting" /\ ~mail.news)
  => shown = None /\ ~connected

\* From the rule to the mailbox to Discord: what the worker last heard of is
\* what shows, and nothing is left showing once it is off.
ShowsWhatIsAsked == TypeOK /\ MailAgrees /\ QuietShows /\ OffHides

\* A close or a pause timer that comes late takes nothing newer down.
LateCallsSpare == LateCloseSpares /\ PauseOutlasts

\* What stays asked for comes to show on a Discord that stays up, after any
\* quits and refusals before: a retry is always still to come.
Settles ==
  \A a \in Activity \cup {None} :
    <>[](worker /\ mail.want = a /\ up) => <>[](shown = a)
=============================================================================
