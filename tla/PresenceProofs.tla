----------------------------- MODULE PresenceProofs -----------------------------
(* For any threads and sessions: what the mailbox asks for is what the rule   *)
(* decided, the worker brings Discord to it, and late calls do no harm.      *)
EXTENDS PresenceMailbox, TLAPS

\* The switch, the shutdown and the worker's birth.
SwitchInv ==
  /\ holder # None => ~Idle(holder) /\ call[holder].what = "on"
  /\ holder # None => worker \/ at \in {"none", "stopped"}
  /\ down = "no" => (enabled <=> rule.enabled)
  /\ rule.enabled => worker
  /\ worker => at # "none"
  /\ ~worker => at = "none" \/ (mail.quit /\ down = "yes")
  /\ at \in {"none", "stopped"} =>
       ~connected /\ ~dirty /\ shown = None /\ aim = None
  /\ at = "none" => mail = NewMail

\* The rule's own fields, and the mailbox beside them.
RuleInv ==
  /\ rule.owner # None => rule.enabled
  /\ rule.shown \/ rule.paused => rule.owner # None
  /\ rule.owner # None /\ ~rule.paused => rule.shown
  /\ MailAgrees

\* A timer that something has been shown or let go since is of an earlier
\* generation, until the shutdown counts anew.
TimerInv ==
  down # "yes" =>
    \A t \in timers :
      /\ t.generation <= rule.generation
      /\ t.stale => t.generation < rule.generation

\* What the worker has in hand is what it last heard of.
HandsInv ==
  /\ live => connected
  /\ shown # None => live
  /\ mail.quit => mail.news
  /\ at = "quit" => mail.quit
  /\ at = "stopped" => ~connected /\ mail.quit
  /\ at = "send" => dirty
  /\ ~mail.news =>
       IF at = "apply" THEN taken.want = mail.want ELSE aim = mail.want
  /\ at \in {"waiting", "deliver"} /\ ~dirty /\ live /\ ~refused => shown = aim

\* An order to let go is in the mailbox, in hand, or carried out.
OffInv ==
  ~rule.enabled =>
    \/ mail.news /\ (mail.disconnect \/ mail.quit)
    \/ ~mail.news /\ at = "apply" /\ taken.disconnect /\ taken.want = None
    \/ ~mail.news /\ at \in {"deliver", "waiting"} /\ ~connected /\ ~dirty
    \/ at = "none"

\* A session that shows is open, or somebody is about to say it closed.
ClosingOf(s) ==
  \E c \in Caller :
    ~Idle(c) /\ call[c].what \in {"closing", "close"} /\ call[c].session = s

OpenInv ==
  rule.owner # None /\ down = "no" =>
    crossed \/ IsOpen(rule.owner) \/ ClosingOf(rule.owner)

PInv ==
  TypeOK /\ SwitchInv /\ RuleInv /\ TimerInv /\ HandsInv /\ OffInv /\ OpenInv

-----------------------------------------------------------------------------
(* What the rule's steps leave: types, and the timers of earlier pauses    *)

LEMMA Successor == \A n \in Nat : n + 1 \in Nat
  OBVIOUS

LEMMA PostTypes ==
  ASSUME mail \in Mail, NEW a \in Activity \cup {None}, Post(a)
  PROVE  mail' \in Mail
  BY Zenon DEF Post, Mail

LEMMA ShowingTypes ==
  ASSUME NEW s \in Session, NEW runs \in BOOLEAN
  PROVE  Showing(s, runs) \in Activity
  BY DEF Showing, Activity

LEMMA OutdatedTypes ==
  ASSUME timers \subseteq Timer
  PROVE  /\ Outdated \subseteq Timer
         /\ \A t \in Outdated :
              \E u \in timers : t.generation = u.generation
  <1>1. Outdated \subseteq Timer
    BY Zenon DEF Outdated, Timer
  <1>2. ASSUME NEW t \in Outdated
        PROVE  \E u \in timers : t.generation = u.generation
    <2>1. PICK u \in timers : t = [u EXCEPT !.stale = TRUE]
      BY Zenon DEF Outdated
    <2>2. t.generation = u.generation
      BY <2>1 DEF Timer
    <2> QED BY <2>2
  <1> QED BY <1>1, <1>2

\* Whatever is decided of a session, the rule, the timers and the mailbox
\* stay what they may be.
LEMMA DecidingTypes ==
  ASSUME Data,
         \/ NoChange \/ Disable
         \/ \E s \in Session :
              Play(s) \/ TickSeeks(s) \/ TickPauses(s) \/ DecideClose(s)
  PROVE  rule' \in Rule /\ timers' \subseteq Timer /\ mail' \in Mail
  <1> USE PresenceAssumption
  <1>1. rule \in Rule /\ timers \subseteq Timer /\ mail \in Mail
    BY Zenon DEF Data
  <1>2. \A s \in Session, runs \in BOOLEAN :
          Showing(s, runs) \in Activity \cup {None}
    BY ShowingTypes
  <1>3. Outdated \subseteq Timer
    BY <1>1, OutdatedTypes
  <1>4. rule.generation + 1 \in Nat
    BY <1>1 DEF Rule
  <1>5. NewRule \in Rule
    BY DEF NewRule, Rule
  <1>6. CASE NoChange
    BY <1>1, <1>6 DEF NoChange
  <1>7. ASSUME NEW s \in Session, Play(s)
        PROVE  rule' \in Rule /\ timers' \subseteq Timer /\ mail' \in Mail
    <2>1. rule' \in Rule
      BY <1>1, <1>4, <1>7, Zenon DEF Play, Rule
    <2> QED BY <1>1, <1>2, <1>3, <1>7, <2>1, PostTypes DEF Play
  <1>8. ASSUME NEW s \in Session, TickSeeks(s)
        PROVE  rule' \in Rule /\ timers' \subseteq Timer /\ mail' \in Mail
    BY <1>1, <1>2, <1>8, PostTypes DEF TickSeeks
  <1>9. ASSUME NEW s \in Session, TickPauses(s)
        PROVE  rule' \in Rule /\ timers' \subseteq Timer /\ mail' \in Mail
    <2>1. rule' \in Rule
      BY <1>1, <1>4, <1>9, Zenon DEF TickPauses, Rule
    <2>2. [session |-> s, generation |-> rule.generation + 1,
           stale |-> FALSE] \in Timer
      BY <1>4, Zenon DEF Timer
    <2>3. timers' \subseteq Timer
      BY <1>3, <1>9, <2>2, Zenon DEF TickPauses
    <2> QED BY <1>1, <1>2, <1>9, <2>1, <2>3, PostTypes DEF TickPauses
  <1>10. ASSUME NEW s \in Session, DecideClose(s)
        PROVE  rule' \in Rule /\ timers' \subseteq Timer /\ mail' \in Mail
    <2>1. rule' \in Rule
      BY <1>1, <1>4, <1>10, Zenon DEF DecideClose, NoChange, Rule
    <2>2. timers' \subseteq Timer
      BY <1>1, <1>3, <1>10, Zenon DEF DecideClose, NoChange
    <2>3. mail' = mail \/ Post(None)
      BY <1>10 DEF DecideClose, NoChange
    <2> QED BY <1>1, <1>2, <2>1, <2>2, <2>3, PostTypes
  <1>11. CASE Disable
    <2>1. rule' \in Rule
      BY <1>1, <1>4, <1>5, <1>11, Zenon DEF Disable, NoChange, Rule
    <2>2. timers' \subseteq Timer
      BY <1>1, <1>3, <1>11, Zenon DEF Disable, NoChange
    <2>3. mail' \in Mail
      BY <1>1, <1>11, Zenon DEF Disable, NoChange, Mail
    <2> QED BY <2>1, <2>2, <2>3
  <1> QED BY <1>6, <1>7, <1>8, <1>9, <1>10, <1>11

LEMMA PresenceInit == Init => PInv
  <1> SUFFICES ASSUME Init PROVE PInv
    OBVIOUS
  <1> USE DEF Init
  <1>1. TypeOK
    <2>1. Flags
      BY Zenon DEF Flags
    <2>2. NewRule \in Rule /\ NewMail \in Mail
      BY DEF NewRule, Rule, NewMail, Mail
    <2>3. Data
      BY <2>2 DEF Data
    <2> QED BY <2>1, <2>3 DEF TypeOK
  <1>2. SwitchInv
    BY DEF SwitchInv, Idle, NewRule
  <1>3. RuleInv
    BY DEF RuleInv, MailAgrees, NewRule
  <1>4. TimerInv
    BY DEF TimerInv
  <1>5. HandsInv
    BY DEF HandsInv, NewMail
  <1>6. OffInv
    BY DEF OffInv
  <1>7. OpenInv
    BY DEF OpenInv, NewRule
  <1> QED BY <1>1, <1>2, <1>3, <1>4, <1>5, <1>6, <1>7 DEF PInv

-----------------------------------------------------------------------------
(* Under the presence lock: a tick, a close, the switch going off          *)

UnderLock(c) ==
  /\ ~Idle(c)
  /\ holder = None
  /\ Becomes(c, None)
  /\ UNCHANGED <<status, holder, worker, hands, discord, down, crossed,
                 refused, left>>

TickMoves(s) ==
  /\ rule.enabled
  /\ IsOpen(s)
  /\ \/ Play(s)
     \/ rule.owner = s /\ ~rule.paused /\ TickPauses(s)
     \/ rule.owner = s /\ ~rule.paused /\ rule.shown /\ TickSeeks(s)

\* What a tick comes to: nothing, or a move of a rule that is on, for a
\* session that is open.
LEMMA TickComesTo ==
  ASSUME NEW c \in Caller, TypeOK, Tick(c)
  PROVE  /\ UnderLock(c)
         /\ call[c].what = "tick"
         /\ call[c].session \in Session
         /\ enabled' = enabled
         /\ NoChange \/ TickMoves(call[c].session)
  <1>1. call[c] \in Call /\ call[c].what = "tick"
    BY DEF Tick, TypeOK, Data, Idle
  <1>2. call[c].session \in Session
    BY <1>1 DEF Call
  <1>3. UnderLock(c) /\ enabled' = enabled
    BY DEF Tick, UnderLock
  <1>4. NoChange \/ TickMoves(call[c].session)
    BY DEF Tick, DecideTick, TickMoves
  <1> QED BY <1>1, <1>2, <1>3, <1>4

LEMMA LockTypes ==
  ASSUME NEW c \in Caller, TypeOK, Tick(c) \/ Close(c) \/ SwitchOff(c)
  PROVE  TypeOK'
  <1>1. Flags'
    BY Zenon DEF TypeOK, Flags, Tick, Close, SwitchOff, hands, discord
  <1>2. \/ NoChange \/ Disable
        \/ \E s \in Session :
             Play(s) \/ TickSeeks(s) \/ TickPauses(s) \/ DecideClose(s)
    <2>1. CASE Tick(c)
      BY <2>1, TickComesTo DEF TickMoves
    <2>2. CASE Close(c)
      <3>1. call[c] \in Call /\ call[c].what = "close"
        BY <2>2 DEF Close, TypeOK, Data, Idle
      <3>2. call[c].session \in Session
        BY <3>1 DEF Call
      <3> QED BY <2>2, <3>2 DEF Close
    <2>3. CASE SwitchOff(c)
      BY <2>3 DEF SwitchOff
    <2> QED BY <2>1, <2>2, <2>3
  <1>3. rule' \in Rule /\ timers' \subseteq Timer /\ mail' \in Mail
    BY <1>2, DecidingTypes, Zenon DEF TypeOK
  <1>4. Data'
    BY <1>3 DEF TypeOK, Data, Tick, Close, SwitchOff, Becomes, hands, discord
  <1> QED BY <1>1, <1>4 DEF TypeOK

\* A new generation outdates the timers there are.
LEMMA NewGeneration ==
  ASSUME Data, TimerInv, down' = down,
         \/ rule' = rule /\ timers' = timers
         \/ /\ rule'.generation = rule.generation + 1
            /\ \A t \in timers' :
                 \/ t \in Outdated
                 \/ t.generation = rule.generation + 1 /\ ~t.stale
  PROVE  TimerInv'
  <1>1. CASE rule' = rule /\ timers' = timers
    BY <1>1 DEF TimerInv
  <1>2. CASE /\ rule'.generation = rule.generation + 1
             /\ \A t \in timers' :
                  \/ t \in Outdated
                  \/ t.generation = rule.generation + 1 /\ ~t.stale
    <2> SUFFICES ASSUME down # "yes", NEW t \in timers'
                 PROVE  /\ t.generation <= rule'.generation
                        /\ t.stale => t.generation < rule'.generation
      BY DEF TimerInv
    <2>1. timers \subseteq Timer /\ rule.generation \in Nat
      BY DEF Data, Rule
    <2>2. CASE t \in Outdated
      <3>1. PICK u \in timers : t.generation = u.generation
        BY <2>1, <2>2, OutdatedTypes
      <3>2. u.generation <= rule.generation /\ u.generation \in Nat
        BY <2>1 DEF TimerInv, Timer
      <3> QED BY <1>2, <2>1, <3>1, <3>2
    <2>3. CASE t.generation = rule.generation + 1 /\ ~t.stale
      BY <1>2, <2>1, <2>3
    <2> QED BY <1>2, <2>2, <2>3
  <1> QED BY <1>1, <1>2

LEMMA TickKeeps ==
  ASSUME PInv, NEW c \in Caller, Tick(c)
  PROVE  PInv'
  <1> DEFINE s == call[c].session
  <1>1. /\ UnderLock(c) /\ call[c].what = "tick" /\ s \in Session
        /\ enabled' = enabled /\ (NoChange \/ TickMoves(s))
    BY TickComesTo DEF PInv
  <1>2. TypeOK'
    BY LockTypes DEF PInv
  <1> HIDE DEF s
  <1> USE PresenceAssumption, <1>1 DEF PInv, UnderLock, TickMoves, NoChange,
          Play, TickPauses, TickSeeks, Post, Becomes, Idle, hands, discord,
          TypeOK, Data, Rule, Mail
  <1>3. SwitchInv'
    BY DEF SwitchInv, NewMail
  <1>4. RuleInv'
    <2>1. CASE NoChange
      BY <2>1 DEF RuleInv, MailAgrees
    <2>2. CASE Play(s)
      BY <2>2 DEF RuleInv, MailAgrees, Showing
    <2>3. CASE rule.owner = s /\ ~rule.paused /\ TickPauses(s)
      BY <2>3 DEF RuleInv, MailAgrees, Showing
    <2>4. CASE rule.owner = s /\ ~rule.paused /\ rule.shown /\ TickSeeks(s)
      BY <2>4 DEF RuleInv, MailAgrees, Showing
    <2> QED BY <2>1, <2>2, <2>3, <2>4
  <1>5. TimerInv'
    <2>1. CASE NoChange
      BY <2>1, NewGeneration
    <2>2. CASE Play(s)
      <3>1. rule'.generation = rule.generation + 1
        BY <2>2
      <3> QED BY <2>2, <3>1, NewGeneration
    <2>3. CASE TickPauses(s)
      <3>1. rule'.generation = rule.generation + 1
        BY <2>3
      <3> QED BY <2>3, <3>1, NewGeneration
    <2>4. CASE TickSeeks(s)
      BY <2>4, NewGeneration
    <2> QED BY <2>1, <2>2, <2>3, <2>4
  <1>6. HandsInv'
    BY DEF HandsInv, SwitchInv
  <1>7. OffInv'
    BY DEF OffInv, SwitchInv
  <1>8. OpenInv'
    BY DEF OpenInv, ClosingOf, IsOpen, RuleInv
  <1> QED BY <1>2, <1>3, <1>4, <1>5, <1>6, <1>7, <1>8

LEMMA CloseKeeps ==
  ASSUME PInv, NEW c \in Caller, Close(c)
  PROVE  PInv'
  <1> DEFINE s == call[c].session
  <1>1. /\ UnderLock(c) /\ call[c].what = "close"
        /\ enabled' = enabled /\ DecideClose(s)
    BY DEF Close, UnderLock
  <1>2. TypeOK'
    BY LockTypes DEF PInv
  <1> HIDE DEF s
  <1> USE PresenceAssumption, <1>1 DEF PInv, UnderLock, DecideClose, NoChange,
          Post, Becomes, Idle, hands, discord, TypeOK, Data, Rule, Mail
  <1>3. SwitchInv'
    BY DEF SwitchInv, NewMail
  <1>4. RuleInv'
    BY DEF RuleInv, MailAgrees, Showing, SwitchInv
  <1>5. TimerInv'
    <2>1. \/ rule' = rule /\ timers' = timers
          \/ rule'.generation = rule.generation + 1 /\ timers' = Outdated
      OBVIOUS
    <2> QED BY <2>1, NewGeneration
  <1>6. HandsInv'
    BY DEF HandsInv, SwitchInv
  <1>7. OffInv'
    BY DEF OffInv, SwitchInv, RuleInv
  \* Another session's close is still to come, this one's owns nothing now.
  <1>8. OpenInv'
    BY DEF OpenInv, ClosingOf, IsOpen, RuleInv, s
  <1> QED BY <1>2, <1>3, <1>4, <1>5, <1>6, <1>7, <1>8

LEMMA SwitchOffKeeps ==
  ASSUME PInv, NEW c \in Caller, SwitchOff(c)
  PROVE  PInv'
  <1>1. /\ UnderLock(c) /\ call[c].what = "off"
        /\ enabled' = FALSE /\ Disable
    BY DEF SwitchOff, UnderLock
  <1>2. TypeOK'
    BY LockTypes DEF PInv
  <1> USE PresenceAssumption, <1>1 DEF PInv, UnderLock, Disable, NoChange,
          NewRule, Becomes, Idle, hands, discord, TypeOK, Data, Rule, Mail
  <1>3. SwitchInv'
    BY DEF SwitchInv, NewMail
  <1>4. RuleInv'
    BY DEF RuleInv, MailAgrees, Showing, SwitchInv
  <1>5. TimerInv'
    <2>1. \/ rule' = rule /\ timers' = timers
          \/ rule'.generation = rule.generation + 1 /\ timers' = Outdated
      OBVIOUS
    <2> QED BY <2>1, NewGeneration
  <1>6. HandsInv'
    BY DEF HandsInv, SwitchInv
  <1>7. OffInv'
    BY DEF OffInv, SwitchInv, RuleInv
  <1>8. OpenInv'
    BY DEF OpenInv, ClosingOf, IsOpen, RuleInv
  <1> QED BY <1>2, <1>3, <1>4, <1>5, <1>6, <1>7, <1>8

-----------------------------------------------------------------------------
(* A pause timer, the switch going on, the shutdown                        *)

LEMMA ElapsesKeeps ==
  ASSUME PInv, NEW t \in timers, Elapses(t)
  PROVE  PInv'
  <1> USE PresenceAssumption
          DEF PInv, Elapses, Post, player, hands, discord, Idle
  <1>1. TypeOK'
    <2>1. Flags'
      BY Zenon DEF TypeOK, Flags
    <2>2. rule' \in Rule
      BY Zenon DEF TypeOK, Data, Rule
    <2>3. mail' \in Mail
      BY Zenon DEF TypeOK, Data, Mail
    <2>4. timers' \subseteq Timer
      BY Zenon DEF TypeOK, Data
    <2>5. Data'
      BY <2>2, <2>3, <2>4 DEF TypeOK, Data
    <2> QED BY <2>1, <2>5 DEF TypeOK
  <1> USE DEF TypeOK, Data, Rule, Mail
  <1>2. SwitchInv'
    BY DEF SwitchInv, NewMail
  <1>3. RuleInv'
    BY DEF RuleInv, MailAgrees, Showing
  <1>4. TimerInv'
    BY DEF TimerInv
  <1>5. HandsInv'
    BY DEF HandsInv, SwitchInv
  <1>6. OffInv'
    BY DEF OffInv, SwitchInv
  <1>7. OpenInv'
    BY DEF OpenInv, ClosingOf, IsOpen
  <1> QED BY <1>1, <1>2, <1>3, <1>4, <1>5, <1>6, <1>7

LEMMA SwitchOnKeeps ==
  ASSUME PInv, NEW c \in Caller, SwitchOn(c)
  PROVE  PInv'
  <1>1. /\ holder = c /\ c # None /\ ~Idle(c) /\ call[c].what = "on"
    BY PresenceAssumption DEF SwitchOn, PInv, SwitchInv
  <1>2. call[c].playing \in Session \cup {None}
    <2>1. call[c] \in Call
      BY <1>1 DEF PInv, TypeOK, Data, Idle
    <2> QED BY <1>1, <2>1 DEF Call
  <1>box. Mailbox \in Mail
    BY DEF Mailbox, NewMail, Mail, PInv, TypeOK, Data
  <1>3. ~rule.enabled /\ call[c].playing # None =>
          /\ rule'.generation = rule.generation + 1
          /\ timers' = Outdated
    BY DEF SwitchOn, PInv, TypeOK, Data, Rule
  <1>4. rule.enabled \/ call[c].playing = None =>
          /\ rule' = [rule EXCEPT !.enabled = TRUE]
          /\ timers' = timers
    BY DEF SwitchOn, NoChange, PInv, TypeOK, Data, Rule
  <1>5. TypeOK'
    <2>1. rule.generation + 1 \in Nat
      BY DEF PInv, TypeOK, Data, Rule
    <2>2. Flags'
      BY Zenon DEF PInv, TypeOK, Flags, SwitchOn, Spawned, hands, discord
    <2>3. rule' \in Rule
      BY <1>2, <2>1, Zenon DEF PInv, TypeOK, Data, Rule, SwitchOn, NoChange
    <2>4. timers' \subseteq Timer
      BY <1>3, <1>4, OutdatedTypes DEF PInv, TypeOK, Data
    <2>5. mail' \in Mail
      <3>1. CASE rule.enabled \/ call[c].playing = None
        <4>1. mail' = mail \/ mail' = Mailbox
          BY <3>1 DEF SwitchOn, NoChange
        <4> QED BY <1>box, <4>1 DEF PInv, TypeOK, Data
      <3>2. CASE ~rule.enabled /\ call[c].playing # None
        <4>1. mail' = [Mailbox EXCEPT !.want = Showing(call[c].playing, TRUE),
                                      !.news = TRUE]
          BY <3>2 DEF SwitchOn
        <4>2. Showing(call[c].playing, TRUE) \in Activity
          BY <1>2, <3>2, ShowingTypes
        <4> QED BY <1>box, <4>1, <4>2, Zenon DEF Mail
      <3> QED BY <3>1, <3>2
    <2>6. Data'
      BY <2>3, <2>4, <2>5
      DEF PInv, TypeOK, Data, SwitchOn, Spawned, Becomes, hands, discord
    <2> QED BY <2>2, <2>6 DEF TypeOK
  <1> USE PresenceAssumption, <1>1, <1>2
      DEF PInv, SwitchOn, Spawned, NoChange, Becomes, Idle, hands, discord,
          TypeOK, Data, Rule, Mail
  <1>6. SwitchInv'
    BY DEF SwitchInv, NewMail, HandsInv
  <1>7. RuleInv'
    <2>1. CASE ~rule.enabled /\ call[c].playing # None
      <3>1. /\ mail'.want = Showing(call[c].playing, TRUE)
            /\ rule'.owner = call[c].playing /\ rule'.shown /\ ~rule'.paused
            /\ rule'.enabled
        BY <1>box, <2>1
      <3> QED BY <2>1, <3>1 DEF RuleInv, MailAgrees
    <2>2. CASE rule.enabled
      BY <2>2 DEF RuleInv, MailAgrees, Showing, SwitchInv
    <2>3. CASE ~rule.enabled /\ call[c].playing = None
      <3>1. rule.owner = None /\ ~rule.shown /\ ~rule.paused
        BY <2>3 DEF RuleInv
      <3>2. mail'.want = None
        BY <2>3, <3>1 DEF RuleInv, MailAgrees, Mailbox, NewMail
      <3> QED BY <2>3, <3>1, <3>2 DEF RuleInv, MailAgrees
    <2> QED BY <2>1, <2>2, <2>3
  <1>8. TimerInv'
    <2>1. CASE ~rule.enabled /\ call[c].playing # None
      BY <1>3, <2>1, NewGeneration
    <2>2. CASE rule.enabled \/ call[c].playing = None
      BY <1>4, <2>2 DEF TimerInv
    <2> QED BY <2>1, <2>2
  <1>9. HandsInv'
    <2>1. CASE worker
      <3>1. UNCHANGED hands /\ Mailbox = mail
        BY <2>1 DEF Mailbox
      <3>2. mail' = mail \/ (mail'.news /\ mail'.quit = mail.quit)
        BY <3>1
      <3> QED BY <3>1, <3>2 DEF HandsInv
    <2>2. CASE ~worker
      <3>1. ~rule.enabled /\ ~connected /\ ~dirty /\ shown = None /\ aim = None
        BY <2>2 DEF SwitchInv
      <3>2. ~mail'.quit /\ (~mail'.news => mail'.want = None)
        <4>1. Mailbox = NewMail
          BY <2>2 DEF Mailbox
        <4>2. CASE call[c].playing = None
          <5>1. mail' = NewMail
            BY <3>1, <4>1, <4>2
          <5> QED BY <5>1 DEF NewMail
        <4>3. CASE call[c].playing # None
          <5>1. mail' = [NewMail EXCEPT !.want = Showing(call[c].playing, TRUE),
                                        !.news = TRUE]
            BY <3>1, <4>1, <4>3
          <5> QED BY <5>1 DEF NewMail
        <4> QED BY <4>2, <4>3
      <3>3. at' = "waiting" /\ UNCHANGED <<aim, dirty, connected, live, shown>>
        BY <2>2
      <3> QED BY <3>1, <3>2, <3>3 DEF HandsInv
    <2> QED BY <2>1, <2>2
  <1>10. OffInv'
    BY DEF OffInv
  <1>11. OpenInv'
    BY DEF OpenInv, ClosingOf, IsOpen, RuleInv
  <1> QED BY <1>5, <1>6, <1>7, <1>8, <1>9, <1>10, <1>11

LEMMA ShutdownTakesKeeps ==
  ASSUME PInv, ShutdownTakes
  PROVE  PInv'
  <1>1. TypeOK'
    <2>1. Flags'
      BY Zenon DEF PInv, TypeOK, Flags, ShutdownTakes, hands, discord
    <2>2. NewRule \in Rule
      BY DEF NewRule, Rule
    <2>3. Outdated \subseteq Timer
      BY OutdatedTypes DEF PInv, TypeOK, Data
    <2>4. mail' \in Mail
      BY Zenon DEF PInv, TypeOK, Data, Mail, ShutdownTakes
    <2>5. Data'
      BY <2>2, <2>3, <2>4
      DEF PInv, TypeOK, Data, ShutdownTakes, player, hands, discord
    <2> QED BY <2>1, <2>5 DEF TypeOK
  <1> USE DEF PInv, ShutdownTakes, NewRule, Idle, player, hands, discord,
              TypeOK, Data, Mail
  <1>2. SwitchInv'
    BY DEF SwitchInv, NewMail
  <1>3. RuleInv'
    BY DEF RuleInv, MailAgrees
  <1>4. TimerInv'
    BY DEF TimerInv
  <1>5. HandsInv'
    BY DEF HandsInv, SwitchInv
  <1>6. OffInv'
    BY DEF OffInv, SwitchInv
  <1>7. OpenInv'
    BY DEF OpenInv
  <1> QED BY <1>1, <1>2, <1>3, <1>4, <1>5, <1>6, <1>7

-----------------------------------------------------------------------------
(* The player and callers on their way to the lock                         *)

Looks(c, s, paused, on) ==
  \/ s \in Session /\ OpenSession(s)
  \/ /\ c \in Caller
     /\ \/ s \in Session /\ paused \in BOOLEAN /\ PlayerTicks(c, s, paused)
        \/ TickLooks(c)
        \/ s \in Session /\ CloseSession(c, s)
        \/ CloseLooks(c)
        \/ on \in BOOLEAN /\ Switch(c, on)
        \/ SwitchTakes(c)
  \/ ShutdownStarts

LEMMA LooksTypes ==
  ASSUME TypeOK, NEW c, NEW s, NEW paused, NEW on, Looks(c, s, paused, on)
  PROVE  TypeOK'
  <1>1. Flags'
    <2>1. /\ UNCHANGED <<worker, dirty, connected, resting, up, live, crossed,
                         refused>>
          /\ enabled' = enabled \/ enabled' = FALSE
      BY DEF Looks, OpenSession, PlayerTicks, TickLooks, CloseSession,
             CloseLooks, Switch, SwitchTakes, ShutdownStarts, worldButPlayer,
             core, hands, discord
    <2> QED BY <2>1, Zenon DEF TypeOK, Flags
  <1>2. Data'
    <2> USE PresenceAssumption, NothingAssumption
        DEF TypeOK, Data, worldButPlayer, player, core, hands, discord
    <2>1. CASE s \in Session /\ OpenSession(s)
      BY <2>1 DEF OpenSession, Becomes, Idle, Call, IsOpen
    <2>2. CASE /\ c \in Caller /\ s \in Session /\ paused \in BOOLEAN
               /\ PlayerTicks(c, s, paused)
      <3>1. status' \in
              [Session ->
                 {"unopened", "silent", "playing", "paused", "closed"}]
        BY <2>2 DEF PlayerTicks
      <3>2. [what |-> "ticked", session |-> s, paused |-> paused] \in Call
        BY <2>2, Zenon DEF Call
      <3>3. call' \in [Caller -> Call \cup {None}]
        BY <2>2, <3>2 DEF PlayerTicks, Becomes
      <3> QED BY <2>2, <3>1, <3>3 DEF PlayerTicks
    <2>3. CASE c \in Caller /\ TickLooks(c)
      BY <2>3 DEF TickLooks, Becomes, Idle, Call, IsOpen
    <2>4. CASE c \in Caller /\ s \in Session /\ CloseSession(c, s)
      BY <2>4 DEF CloseSession, Becomes, Idle, Call, IsOpen
    <2>5. CASE c \in Caller /\ CloseLooks(c)
      BY <2>5 DEF CloseLooks, Becomes, Idle, Call, IsOpen
    <2>6. CASE c \in Caller /\ Switch(c, on)
      BY <2>6 DEF Switch, Becomes, Idle, Call, IsOpen
    <2>7. CASE c \in Caller /\ SwitchTakes(c)
      BY <2>7 DEF SwitchTakes, Becomes, Idle, Call, IsOpen
    <2>8. CASE ShutdownStarts
      BY <2>8 DEF ShutdownStarts, Becomes, Idle, Call, IsOpen
    <2> QED BY <2>1, <2>2, <2>3, <2>4, <2>5, <2>6, <2>7, <2>8 DEF Looks
  <1> QED BY <1>1, <1>2 DEF TypeOK

LEMMA LooksKeep ==
  ASSUME PInv, NEW c, NEW s, NEW paused, NEW on, Looks(c, s, paused, on)
  PROVE  PInv'
  <1>1. TypeOK'
    BY LooksTypes DEF PInv
  <1> USE PresenceAssumption, NothingAssumption
      DEF PInv, worldButPlayer, core, player, hands, discord
  <1>2. SwitchInv'
    BY DEF Looks, OpenSession, PlayerTicks, TickLooks, CloseSession,
           CloseLooks, Switch, SwitchTakes, ShutdownStarts,
           SwitchInv, NewMail, TypeOK, Data, Call, Becomes, Idle
  \* Whoever closes the session that shows will say so under the lock.
  <1>3. OpenInv'
    <2>1. CASE s \in Session /\ OpenSession(s)
      BY <2>1 DEF OpenSession, OpenInv, ClosingOf, IsOpen, RuleInv, SwitchInv,
             TypeOK, Data, Becomes, Idle
    <2>2. CASE c \in Caller /\ s \in Session /\ PlayerTicks(c, s, paused)
      BY <2>2 DEF PlayerTicks, OpenInv, ClosingOf, IsOpen, RuleInv, SwitchInv,
             TypeOK, Data, Becomes, Idle
    <2>3. CASE c \in Caller /\ TickLooks(c)
      BY <2>3 DEF TickLooks, OpenInv, ClosingOf, IsOpen, RuleInv, SwitchInv,
             TypeOK, Data, Becomes, Idle
    <2>4. CASE c \in Caller /\ s \in Session /\ CloseSession(c, s)
      <3>1. call'[c] = [what |-> "closing", session |-> s]
        BY <2>4 DEF CloseSession, Becomes, TypeOK, Data
      <3>2. call'[c] # None
        <4>1. call'[c] \in Call
          BY <2>4, <3>1 DEF Call
        <4> QED BY <4>1
      <3>3. CASE rule.owner = s
        <4>1. ClosingOf(s)'
          BY <2>4, <3>1, <3>2 DEF ClosingOf, Idle
        <4> QED BY <2>4, <3>3, <4>1 DEF OpenInv, CloseSession
      <3>4. CASE rule.owner # s
        BY <2>4, <3>4
        DEF CloseSession, OpenInv, ClosingOf, IsOpen, TypeOK, Data, Becomes,
            Idle
      <3> QED BY <3>3, <3>4
    <2>5. CASE c \in Caller /\ CloseLooks(c)
      <3>1. SUFFICES ASSUME enabled PROVE OpenInv'
        BY <2>5 DEF CloseLooks, OpenInv, RuleInv, SwitchInv
      <3>2. call'[c] = [what |-> "close", session |-> call[c].session]
        BY <2>5, <3>1 DEF CloseLooks, Becomes, TypeOK, Data
      <3>3. call'[c] # None
        <4>1. call[c] \in Call /\ call[c].what = "closing"
          BY <2>5 DEF CloseLooks, Idle, TypeOK, Data
        <4>2. call[c].session \in Session
          BY <4>1 DEF Call
        <4>3. call'[c] \in Call
          BY <3>2, <4>2 DEF Call
        <4> QED BY <4>3
      <3>4. \A r \in Session : ClosingOf(r) => ClosingOf(r)'
        BY <2>5, <3>1, <3>2, <3>3
        DEF ClosingOf, CloseLooks, Becomes, Idle, TypeOK, Data
      <3> QED BY <2>5, <3>4
          DEF CloseLooks, OpenInv, IsOpen, TypeOK, Data, Rule
    <2>6. CASE c \in Caller /\ Switch(c, on)
      BY <2>6 DEF Switch, OpenInv, ClosingOf, IsOpen, RuleInv, SwitchInv,
             TypeOK, Data, Becomes, Idle
    <2>7. CASE c \in Caller /\ SwitchTakes(c)
      BY <2>7 DEF SwitchTakes, OpenInv, ClosingOf, IsOpen, RuleInv, SwitchInv,
             TypeOK, Data, Becomes, Idle
    <2>8. CASE ShutdownStarts
      BY <2>8 DEF ShutdownStarts, OpenInv, ClosingOf, IsOpen, RuleInv, SwitchInv,
             TypeOK, Data, Becomes, Idle
    <2> QED BY <2>1, <2>2, <2>3, <2>4, <2>5, <2>6, <2>7, <2>8 DEF Looks
  <1> USE DEF Looks, OpenSession, PlayerTicks, TickLooks, CloseSession,
          CloseLooks, Switch, SwitchTakes, ShutdownStarts
  <1>4. RuleInv'
    BY DEF RuleInv, MailAgrees, Showing
  <1>5. TimerInv'
    BY DEF TimerInv
  <1>6. HandsInv'
    BY DEF HandsInv
  <1>7. OffInv'
    BY DEF OffInv
  <1> QED BY <1>1, <1>2, <1>3, <1>4, <1>5, <1>6, <1>7

-----------------------------------------------------------------------------
(* The worker, the clock and Discord                                       *)

HandsMove ==
  \/ WorkerQuits \/ WorkerTakes \/ Retries \/ Checks \/ Applies \/ Delivers
  \/ Lands \/ FindsGone \/ Stops
  \/ Refused \/ RetryIsDue \/ DiscordQuits \/ DiscordStarts

LEMMA HandsTypes ==
  ASSUME TypeOK, HandsMove
  PROVE  TypeOK'
  <1> USE DEF TypeOK, restOfWorld, player, core, hands, discord, Goes
  <1>1. Flags'
    <2>1. CASE WorkerQuits
      BY <2>1, Zenon DEF WorkerQuits, Flags
    <2>2. CASE WorkerTakes
      BY <2>2, Zenon DEF WorkerTakes, Flags
    <2>3. CASE Retries
      BY <2>3, Zenon DEF Retries, Flags
    <2>4. CASE Checks
      BY <2>4, Zenon DEF Checks, LetGo, Flags
    <2>5. CASE Applies
      BY <2>5, Zenon DEF Applies, Flags
    <2>6. CASE Delivers
      BY <2>6, Zenon DEF Delivers, Flags
    <2>7. CASE Lands
      BY <2>7, Zenon DEF Lands, Flags
    <2>8. CASE FindsGone
      BY <2>8, Zenon DEF FindsGone, Flags
    <2>9. CASE Stops
      BY <2>9, Zenon DEF Stops, LetGo, Flags
    <2>10. CASE Refused
      BY <2>10, Zenon DEF Refused, Flags
    <2>11. CASE RetryIsDue
      BY <2>11, Zenon DEF RetryIsDue, Flags
    <2>12. CASE DiscordQuits
      BY <2>12, Zenon DEF DiscordQuits, Flags
    <2>13. CASE DiscordStarts
      BY <2>13, Zenon DEF DiscordStarts, Flags
    <2> QED BY <2>1, <2>2, <2>3, <2>4, <2>5, <2>6, <2>7,
               <2>8, <2>9, <2>10, <2>11, <2>12, <2>13
            DEF HandsMove
  <1>2. Data'
    <2> USE DEF Data
    <2>1. CASE WorkerQuits
      BY <2>1 DEF WorkerQuits, Mail
    <2>2. CASE WorkerTakes
      BY <2>2 DEF WorkerTakes, Mail
    <2>3. CASE Retries
      BY <2>3 DEF Retries, Mail
    <2>4. CASE Checks
      BY <2>4 DEF Checks, LetGo, Mail
    <2>5. CASE Applies
      BY <2>5 DEF Applies, Mail
    <2>6. CASE Delivers
      BY <2>6 DEF Delivers, Mail
    <2>7. CASE Lands
      BY <2>7 DEF Lands, Mail
    <2>8. CASE FindsGone
      BY <2>8 DEF FindsGone, Mail
    <2>9. CASE Stops
      BY <2>9 DEF Stops, LetGo, Mail
    <2>10. CASE Refused
      BY <2>10 DEF Refused, Mail
    <2>11. CASE RetryIsDue
      BY <2>11 DEF RetryIsDue, Mail
    <2>12. CASE DiscordQuits
      BY <2>12 DEF DiscordQuits, Mail
    <2>13. CASE DiscordStarts
      BY <2>13 DEF DiscordStarts, Mail
    <2> QED BY <2>1, <2>2, <2>3, <2>4, <2>5, <2>6, <2>7,
               <2>8, <2>9, <2>10, <2>11, <2>12, <2>13
            DEF HandsMove
  <1> QED BY <1>1, <1>2

\* The worker changes neither the rule nor what the mailbox wants.
LEMMA HandsSpare ==
  ASSUME TypeOK, HandsMove
  PROVE  /\ UNCHANGED <<status, call, enabled, rule, timers, holder, worker,
                        down, crossed>>
         /\ mail'.want = mail.want /\ mail'.quit = mail.quit
         /\ mail' # mail => at = "waiting" /\ at' = "apply" /\ ~mail.quit
  <1> USE DEF TypeOK, Data, restOfWorld, player, core, hands, discord, Goes
  <1>1. CASE WorkerQuits
    BY <1>1 DEF WorkerQuits, Mail
  <1>2. CASE WorkerTakes
    BY <1>2 DEF WorkerTakes, Mail
  <1>3. CASE Retries
    BY <1>3 DEF Retries, Mail
  <1>4. CASE Checks
    BY <1>4 DEF Checks, LetGo, Mail
  <1>5. CASE Applies
    BY <1>5 DEF Applies, Mail
  <1>6. CASE Delivers
    BY <1>6 DEF Delivers, Mail
  <1>7. CASE Lands
    BY <1>7 DEF Lands, Mail
  <1>8. CASE FindsGone
    BY <1>8 DEF FindsGone, Mail
  <1>9. CASE Stops
    BY <1>9 DEF Stops, LetGo, Mail
  <1>10. CASE Refused
    BY <1>10 DEF Refused, Mail
  <1>11. CASE RetryIsDue
    BY <1>11 DEF RetryIsDue, Mail
  <1>12. CASE DiscordQuits
    BY <1>12 DEF DiscordQuits, Mail
  <1>13. CASE DiscordStarts
    BY <1>13 DEF DiscordStarts, Mail
  <1> QED BY <1>1, <1>2, <1>3, <1>4, <1>5, <1>6, <1>7,
             <1>8, <1>9, <1>10, <1>11, <1>12, <1>13
            DEF HandsMove

LEMMA HandsKeep ==
  ASSUME PInv, HandsMove
  PROVE  PInv'
  <1>1. TypeOK'
    BY HandsTypes DEF PInv
  <1>2. /\ UNCHANGED <<status, call, enabled, rule, timers, holder, worker,
                       down, crossed>>
        /\ mail'.want = mail.want /\ mail'.quit = mail.quit
        /\ mail' # mail => at = "waiting" /\ at' = "apply" /\ ~mail.quit
    BY HandsSpare DEF PInv
  <1>3. SwitchInv'
    <2> USE DEF PInv, SwitchInv, Idle, NewMail, restOfWorld, player, core,
                hands, discord, Goes
    <2>1. CASE WorkerQuits
      BY <1>2, <2>1 DEF WorkerQuits
    <2>2. CASE WorkerTakes
      BY <1>2, <2>2 DEF WorkerTakes
    <2>3. CASE Retries
      BY <1>2, <2>3 DEF Retries
    <2>4. CASE Checks
      <3>1. /\ at = "waiting" /\ at' \notin {"none", "stopped"}
            /\ mail' = mail
        BY <2>4 DEF Checks
      <3> QED BY <1>2, <3>1
    <2>5. CASE Applies
      BY <1>2, <2>5 DEF Applies
    <2>6. CASE Delivers
      BY <1>2, <2>6 DEF Delivers
    <2>7. CASE Lands
      BY <1>2, <2>7 DEF Lands
    <2>8. CASE FindsGone
      BY <1>2, <2>8 DEF FindsGone
    <2>9. CASE Stops
      BY <1>2, <2>9 DEF Stops, LetGo, HandsInv
    <2>10. CASE Refused
      BY <1>2, <2>10 DEF Refused
    <2>11. CASE RetryIsDue
      BY <1>2, <2>11 DEF RetryIsDue
    <2>12. CASE DiscordQuits
      BY <1>2, <2>12 DEF DiscordQuits
    <2>13. CASE DiscordStarts
      BY <1>2, <2>13 DEF DiscordStarts
    <2> QED BY <2>1, <2>2, <2>3, <2>4, <2>5, <2>6, <2>7,
               <2>8, <2>9, <2>10, <2>11, <2>12, <2>13
            DEF HandsMove
  <1>4. RuleInv'
    BY <1>2 DEF PInv, RuleInv, MailAgrees
  <1>5. TimerInv'
    BY <1>2 DEF PInv, TimerInv
  <1>6. HandsInv'
    <2> USE DEF PInv, HandsInv, SwitchInv, TypeOK, Data, Mail, restOfWorld,
                player, core, hands, discord, Goes
    <2>1. CASE WorkerQuits
      BY <2>1 DEF WorkerQuits
    <2>2. CASE WorkerTakes
      BY <2>2 DEF WorkerTakes
    <2>3. CASE Retries
      BY <2>3 DEF Retries
    <2>4. CASE Checks
      BY <2>4 DEF Checks, LetGo
    <2>5. CASE Applies
      BY <2>5 DEF Applies
    <2>6. CASE Delivers
      BY <2>6 DEF Delivers
    <2>7. CASE Lands
      BY <2>7 DEF Lands
    <2>8. CASE FindsGone
      BY <2>8 DEF FindsGone
    <2>9. CASE Stops
      BY <2>9 DEF Stops, LetGo
    <2>10. CASE Refused
      BY <2>10 DEF Refused
    <2>11. CASE RetryIsDue
      BY <2>11 DEF RetryIsDue
    <2>12. CASE DiscordQuits
      BY <2>12 DEF DiscordQuits
    <2>13. CASE DiscordStarts
      BY <2>13 DEF DiscordStarts
    <2> QED BY <2>1, <2>2, <2>3, <2>4, <2>5, <2>6, <2>7,
               <2>8, <2>9, <2>10, <2>11, <2>12, <2>13
            DEF HandsMove
  \* The order to let go leaves the mailbox, is in hand, and is carried out.
  <1>7. OffInv'
    <2> USE DEF PInv, OffInv, HandsInv, SwitchInv, RuleInv, MailAgrees, TypeOK,
                Data, Mail, restOfWorld, player, core, hands, discord, Goes
    <2>1. CASE WorkerQuits
      BY <2>1 DEF WorkerQuits
    <2>2. CASE WorkerTakes
      BY <2>2 DEF WorkerTakes
    <2>3. CASE Retries
      BY <2>3 DEF Retries
    <2>4. CASE Checks
      BY <2>4 DEF Checks, LetGo
    <2>5. CASE Applies
      BY <2>5 DEF Applies
    <2>6. CASE Delivers
      BY <2>6 DEF Delivers
    <2>7. CASE Lands
      BY <2>7 DEF Lands
    <2>8. CASE FindsGone
      BY <2>8 DEF FindsGone
    <2>9. CASE Stops
      BY <2>9 DEF Stops, LetGo
    <2>10. CASE Refused
      BY <2>10 DEF Refused
    <2>11. CASE RetryIsDue
      BY <2>11 DEF RetryIsDue
    <2>12. CASE DiscordQuits
      BY <2>12 DEF DiscordQuits
    <2>13. CASE DiscordStarts
      BY <2>13 DEF DiscordStarts
    <2> QED BY <2>1, <2>2, <2>3, <2>4, <2>5, <2>6, <2>7,
               <2>8, <2>9, <2>10, <2>11, <2>12, <2>13
            DEF HandsMove
  <1>8. OpenInv'
    BY <1>2 DEF PInv, OpenInv, ClosingOf, IsOpen, Idle
  <1> QED BY <1>1, <1>3, <1>4, <1>5, <1>6, <1>7, <1>8 DEF PInv

-----------------------------------------------------------------------------
(* The theorems                                                            *)

LEMMA PresenceStep == PInv /\ [Next]_vars => PInv'
  <1> SUFFICES ASSUME PInv, [Next]_vars PROVE PInv'
    OBVIOUS
  <1>1. CASE UNCHANGED vars
    <2> USE <1>1 DEF PInv, vars, player, core, hands, discord
    <2>1. TypeOK' /\ SwitchInv'
      BY DEF TypeOK, Flags, Data, SwitchInv, Idle
    <2>2. RuleInv' /\ TimerInv' /\ HandsInv' /\ OffInv'
      BY DEF RuleInv, MailAgrees, TimerInv, HandsInv, OffInv
    <2>3. OpenInv'
      BY DEF OpenInv, ClosingOf, IsOpen, Idle
    <2> QED BY <2>1, <2>2, <2>3
  <1>2. ASSUME NEW s \in Session, OpenSession(s)
        PROVE  PInv'
    BY <1>2, LooksKeep DEF Looks
  <1>3. ASSUME NEW c \in Caller, NEW s \in Session, NEW paused \in BOOLEAN,
               PlayerTicks(c, s, paused)
        PROVE  PInv'
    BY <1>3, LooksKeep DEF Looks
  <1>4. ASSUME NEW c \in Caller, NEW s \in Session, CloseSession(c, s)
        PROVE  PInv'
    BY <1>4, LooksKeep DEF Looks
  <1>5. ASSUME NEW c \in Caller, NEW on \in BOOLEAN, Switch(c, on)
        PROVE  PInv'
    BY <1>5, LooksKeep DEF Looks
  <1>6. ASSUME NEW c \in Caller, CallerStep(c)
        PROVE  PInv'
    <2>1. CASE TickLooks(c) \/ CloseLooks(c) \/ SwitchTakes(c)
      BY <2>1, LooksKeep DEF Looks
    <2> QED BY <1>6, <2>1, TickKeeps, CloseKeeps, SwitchOnKeeps,
               SwitchOffKeeps DEF CallerStep
  <1>7. CASE \E t \in timers : Elapses(t)
    BY <1>7, ElapsesKeeps
  <1>8. CASE ShutdownStarts
    BY <1>8, LooksKeep DEF Looks
  <1>9. CASE ShutdownTakes
    BY <1>9, ShutdownTakesKeeps
  <1>10. CASE HandsMove
    BY <1>10, HandsKeep
  <1> QED BY <1>1, <1>2, <1>3, <1>4, <1>5, <1>6, <1>7, <1>8, <1>9, <1>10
          DEF Next, WorkerStep, HandsMove

LEMMA PresenceInvariant == Spec => []PInv
  BY PresenceInit, PresenceStep, PTL DEF Spec

\* What Discord shows is what the rule decided: the mailbox holds the rule's
\* last word, a worker with nothing to do has brought Discord to it, and a
\* presence that is off leaves nothing showing (presence/worker.rs).
THEOREM PresenceShowsWhatIsAsked == Spec => []ShowsWhatIsAsked
  <1>1. PInv => ShowsWhatIsAsked
    <2> SUFFICES ASSUME PInv PROVE ShowsWhatIsAsked
      OBVIOUS
    <2>1. TypeOK /\ MailAgrees
      BY DEF PInv, RuleInv
    <2>2. QuietShows
      BY DEF PInv, HandsInv, QuietShows
    <2>3. OffHides
      BY DEF PInv, OffInv, HandsInv, OffHides, TypeOK, Data
    <2> QED BY <2>1, <2>2, <2>3 DEF ShowsWhatIsAsked
  <1> QED BY <1>1, PresenceInvariant, PTL

\* Once every call is through, what is asked for is of an open session, but
\* for a switch that went on across the session's close (presence/mod.rs).
THEOREM PresenceLateTickShowsNothing == Spec => []LateTickShowsNothing
  <1>1. PInv => LateTickShowsNothing
    <2> SUFFICES ASSUME PInv, worker, down = "no", NothingUnderWay,
                        mail.want # None
                 PROVE  crossed \/ IsOpen(mail.want.session)
      BY DEF LateTickShowsNothing
    <2>1. rule.shown /\ mail.want = Showing(rule.owner, ~rule.paused)
      BY DEF PInv, RuleInv, MailAgrees
    <2>2. rule.owner # None /\ mail.want.session = rule.owner
      BY <2>1 DEF PInv, RuleInv, Showing
    <2>3. ~ClosingOf(rule.owner)
      BY DEF NothingUnderWay, ClosingOf
    <2> QED BY <2>2, <2>3 DEF PInv, OpenInv
  <1> QED BY <1>1, PresenceInvariant, PTL

\* What a step may do to what is wanted: only a step of the rule, by a call
\* that goes through or by a timer, changes it.
LEMMA WantChanges ==
  ASSUME PInv, [Next]_vars, mail'.want # mail.want
  PROVE  \/ \E c \in Caller :
              /\ ~Idle(c) /\ Becomes(c, None)
              /\ Tick(c) \/ Close(c) \/ SwitchOn(c) \/ SwitchOff(c)
         \/ call' = call /\ \E t \in timers : Elapses(t)
  <1>1. CASE UNCHANGED vars
    BY <1>1 DEF vars
  <1>2. ASSUME NEW c, NEW s, NEW paused, NEW on, Looks(c, s, paused, on)
        PROVE  mail' = mail
    BY <1>2 DEF Looks, OpenSession, PlayerTicks, TickLooks, CloseSession,
                CloseLooks, Switch, SwitchTakes, ShutdownStarts,
                worldButPlayer
  <1>3. ~HandsMove
    BY HandsSpare DEF PInv
  <1>4. ~ShutdownTakes
    BY DEF ShutdownTakes, PInv, TypeOK, Data, Mail
  <1>5. \A s \in Session : ~OpenSession(s)
    BY <1>2 DEF Looks
  <1>6. ~ShutdownStarts
    BY <1>2 DEF Looks
  <1>7. ASSUME NEW c \in Caller,
               \/ \E s \in Session, paused \in BOOLEAN :
                    PlayerTicks(c, s, paused)
               \/ \E s \in Session : CloseSession(c, s)
               \/ \E on \in BOOLEAN : Switch(c, on)
               \/ TickLooks(c) \/ CloseLooks(c) \/ SwitchTakes(c)
        PROVE  FALSE
    BY <1>2, <1>7 DEF Looks
  <1>8. ASSUME NEW c \in Caller, SwitchOn(c)
        PROVE  ~Idle(c)
    BY <1>8, PresenceAssumption DEF SwitchOn, PInv, SwitchInv
  <1>9. ASSUME NEW c \in Caller,
               Tick(c) \/ Close(c) \/ SwitchOn(c) \/ SwitchOff(c)
        PROVE  ~Idle(c) /\ Becomes(c, None)
    BY <1>8, <1>9 DEF Tick, Close, SwitchOn, SwitchOff
  <1>10. ASSUME NEW t \in timers, Elapses(t)
         PROVE  call' = call
    BY <1>10 DEF Elapses, player
  <1> QED BY <1>1, <1>3, <1>4, <1>5, <1>6, <1>7, <1>9, <1>10
          DEF Next, CallerStep, WorkerStep, HandsMove

\* A close that comes late clears only its own session, and a pause timer
\* only the pause it was armed for (presence/mod.rs).
THEOREM PresenceLateCallsSpare == Spec => LateCallsSpare
  <1> DEFINE
    Spares ==
      \A c \in Caller :
        /\ ~Idle(c)
        /\ call[c].what = "close"
        /\ call'[c] = None
        /\ mail.want # None
        => mail.want.session = call[c].session \/ mail'.want = mail.want
    Outlasts ==
      \A t \in timers :
        /\ down # "yes"
        /\ timers' = timers \ {t}
        /\ mail.want # None /\ mail'.want = None
        /\ call' = call
        => ~t.stale
  <1>1. PInv /\ [Next]_vars => Spares
    <2> SUFFICES ASSUME PInv, [Next]_vars, NEW c \in Caller, ~Idle(c),
                        call[c].what = "close", call'[c] = None,
                        mail.want # None, mail'.want # mail.want
                 PROVE  mail.want.session = call[c].session
      OBVIOUS
    <2>1. Close(c)
      <3>1. PICK d \in Caller :
              /\ ~Idle(d) /\ Becomes(d, None)
              /\ Tick(d) \/ Close(d) \/ SwitchOn(d) \/ SwitchOff(d)
        BY WantChanges DEF Idle
      <3>2. d = c
        BY <3>1 DEF Becomes, Idle, PInv, TypeOK, Data
      <3>3. ~Tick(c) /\ ~SwitchOff(c)
        BY DEF Tick, SwitchOff
      <3>4. ~SwitchOn(c)
        BY PresenceAssumption DEF SwitchOn, PInv, SwitchInv
      <3> QED BY <3>1, <3>2, <3>3, <3>4
    <2>2. rule.owner = call[c].session /\ worker
      BY <2>1 DEF Close, DecideClose, NoChange, Post
    <2>3. mail.want = Showing(rule.owner, ~rule.paused)
      BY <2>2 DEF PInv, RuleInv, MailAgrees
    <2> QED BY <2>2, <2>3 DEF Showing
  <1>2. PInv /\ [Next]_vars => Outlasts
    <2> SUFFICES ASSUME PInv, [Next]_vars, NEW t \in timers, down # "yes",
                        timers' = timers \ {t}, mail.want # None,
                        mail'.want = None, call' = call, t.stale
                 PROVE  FALSE
      OBVIOUS
    <2>1. PICK u \in timers : Elapses(u)
      BY WantChanges DEF Becomes, Idle, PInv, TypeOK, Data
    <2>2. u = t
      BY <2>1 DEF Elapses
    <2>3. enabled /\ rule.generation = t.generation
      BY <2>1, <2>2 DEF Elapses
    <2>4. t.generation < rule.generation
      BY DEF PInv, TimerInv
    <2> QED BY <2>3, <2>4 DEF PInv, TypeOK, Data, Rule
  <1>3. Spec => [][Spares]_vars
    BY <1>1, PresenceInvariant, PTL DEF Spec
  <1>4. Spec => [][Outlasts]_vars
    BY <1>2, PresenceInvariant, PTL DEF Spec
  <1> QED BY <1>3, <1>4 DEF LateCallsSpare, LateCloseSpares, PauseOutlasts

=============================================================================
