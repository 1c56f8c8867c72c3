---------------------------- MODULE PlaybackProofs ----------------------------
(* For any threads, sessions and thresholds: each of a session's rules has    *)
(* its effect once, and with one thread a completion is the last word on the  *)
(* resume point.                                                              *)
EXTENDS PlaybackSession, SequenceTheorems, FiniteSetTheorems, TLAPS

Once == {"view", "mark", "complete"}

\* No effect twice in a list.
Apart(t) == \A i, j \in 1..Len(t) : t[i].what = t[j].what => i = j
Whats(t) == {t[i].what : i \in 1..Len(t)}

\* What a call has still to apply: its list, without the first effect once that
\* one is sent.
OwedBy(x) ==
  IF x.at = "apply" THEN Whats(x.todo)
  ELSE IF x.todo = <<>> THEN {} ELSE Whats(Tail(x.todo))
Owes(c, s, w) == caller[c].s = s /\ w \in OwedBy(caller[c])

\* What the writer has still to run.
Asks(task, s, w) == task.s = s /\ task.do = w
Queued(s, w) == \E j \in 1..Len(queue) : Asks(queue[j], s, w)

Told(s, w) ==
  IF w = "view" THEN tally[s].view
  ELSE IF w = "mark" THEN tally[s].mark ELSE tally[s].complete

Latch(x, w) ==
  IF w = "view" THEN x.viewed ELSE IF w = "mark" THEN x.marked ELSE x.completed

\* A thread has a list in hand exactly while it serves a call, no effect twice
\* in it; and it waits for the one task that will answer it.
Stands(x) ==
  /\ x.at = "idle" => x = Idle
  /\ x.at # "idle" => x.todo # <<>> /\ x.s # 0
  /\ Apart(x.todo)

CallsInv ==
  /\ \A c \in Caller : Stands(caller[c])
  /\ \A i \in 1..Len(queue) :
       queue[i].for # None => caller[queue[i].for].at = "wait"
  /\ \A i, j \in 1..Len(queue) :
       queue[i].for # None /\ queue[i].for = queue[j].for => i = j

\* An effect that fires once is in one place: with a thread, with the writer
\* or done; and its latch is set as long as the session is open.
InOnePlace(s, w) ==
  /\ \A c, d \in Caller : Owes(c, s, w) /\ Owes(d, s, w) => c = d
  /\ \A i, j \in 1..Len(queue) :
       Asks(queue[i], s, w) /\ Asks(queue[j], s, w) => i = j
  /\ (\E c \in Caller : Owes(c, s, w)) => ~Queued(s, w) /\ Told(s, w) = 0
  /\ Queued(s, w) => Told(s, w) = 0
  /\ Told(s, w) <= 1

Ever(s, w) ==
  (\E c \in Caller : Owes(c, s, w)) \/ Queued(s, w) \/ Told(s, w) > 0

Latches(s, w) ==
  Ever(s, w) => s <= next /\ (s \in open => Latch(session[s], w))

OnceInv ==
  /\ \A s \in Session, w \in Once : InOnePlace(s, w) /\ Latches(s, w)
  /\ \A s \in Session : tally[s].finish <= tally[s].complete

\* With one thread, nothing of a session's resume points comes after its
\* completion.
ForgetInv ==
  (\A c, d \in Caller : c = d) =>
    \A s \in Session :
      /\ Ever(s, "complete") => \A c \in Caller : ~Owes(c, s, "resume")
      /\ \A i, j \in 1..Len(queue) :
           i < j /\ Asks(queue[i], s, "complete")
             => ~Asks(queue[j], s, "resume")
      /\ tally[s].complete > 0 =>
           ~Queued(s, "resume") /\ point.by # s

PInv == TypeOK /\ CallsInv /\ OnceInv /\ ForgetInv

-----------------------------------------------------------------------------
(* Lists of effects                                                        *)

LEMMA Kinds ==
  ASSUME NEW e \in EffectSet
  PROVE  e.what \in Once \cup {"resume"} /\ e.at \in Position
  BY DEF EffectSet, Once

\* A list with one more effect, or not.
LEMMA IfAdds ==
  ASSUME NEW t \in Seq(EffectSet), NEW b \in BOOLEAN, NEW e,
         b => e \in EffectSet
  PROVE  /\ t \o If(b, e) \in Seq(EffectSet)
         /\ Whats(t \o If(b, e)) =
              Whats(t) \cup (IF b THEN {e.what} ELSE {})
         /\ Apart(t) /\ (b => e.what \notin Whats(t)) => Apart(t \o If(b, e))
  <1>1. CASE ~b
    <2>1. t \o If(b, e) = t
      BY <1>1, ConcatEmptySeq DEF If
    <2> QED BY <1>1, <2>1
  <1>2. CASE b
    <2> DEFINE u == t \o If(b, e)
    <2>1. If(b, e) = <<e>> /\ e \in EffectSet
      BY <1>2 DEF If
    <2>2. /\ u \in Seq(EffectSet) /\ Len(u) = Len(t) + 1
          /\ \A i \in 1..Len(t) : u[i] = t[i]
          /\ u[Len(t) + 1] = e
      BY <2>1, ConcatProperties
    <2>3. 1..Len(u) = 1..Len(t) \cup {Len(t) + 1}
      BY <2>2
    <2> HIDE DEF u
    <2>4. Whats(u) = Whats(t) \cup {e.what}
      BY <2>2, <2>3 DEF Whats
    <2>5. Apart(t) /\ e.what \notin Whats(t) => Apart(u)
      BY <2>2, <2>3 DEF Apart, Whats
    <2> QED BY <1>2, <2>2, <2>4, <2>5 DEF u
  <1> QED BY <1>1, <1>2

LEMMA IfTypes ==
  ASSUME NEW b \in BOOLEAN, NEW e, b => e \in EffectSet
  PROVE  /\ If(b, e) \in Seq(EffectSet)
         /\ Whats(If(b, e)) = IF b THEN {e.what} ELSE {}
         /\ Apart(If(b, e))
  <1>1. CASE b
    <2> DEFINE u == If(b, e)
    <2>1. u = <<e>>
      BY <1>1 DEF If
    <2>11. e \in EffectSet
      BY <1>1
    <2> HIDE DEF u
    <2>2. u \in Seq(EffectSet) /\ Len(u) = 1 /\ u[1] = e
      BY <2>1, <2>11
    <2>3. 1..Len(u) = {1}
      BY <2>2
    <2> HIDE DEF u
    <2>4. Whats(u) = {e.what} /\ Apart(u)
      BY <2>2, <2>3 DEF Whats, Apart
    <2> QED BY <1>1, <2>2, <2>4 DEF u
  <1>2. CASE ~b
    <2> DEFINE u == If(b, e)
    <2>1. u \in Seq(EffectSet) /\ Len(u) = 0
      BY <1>2, EmptySeq DEF If
    <2>2. 1..Len(u) = {}
      BY <2>1
    <2> HIDE DEF u
    <2>3. Whats(u) = {} /\ Apart(u)
      BY <2>2 DEF Whats, Apart
    <2> QED BY <1>2, <2>1, <2>3 DEF u
  <1> QED BY <1>1, <1>2

\* The list without its first effect.
LEMMA TailOwes ==
  ASSUME NEW t \in Seq(EffectSet), t # <<>>
  PROVE  /\ Len(t) \in Nat \ {0}
         /\ t[1] \in EffectSet /\ t[1].what \in Whats(t)
         /\ Tail(t) \in Seq(EffectSet)
         /\ Len(t) # 1 => Tail(t) # <<>>
         /\ Whats(Tail(t)) \subseteq Whats(t)
         /\ Apart(t) => Apart(Tail(t)) /\ t[1].what \notin Whats(Tail(t))
  <1>1. /\ Len(t) \in Nat \ {0} /\ t[1] \in EffectSet
        /\ Tail(t) \in Seq(EffectSet) /\ Len(Tail(t)) = Len(t) - 1
        /\ \A i \in 1..Len(Tail(t)) : Tail(t)[i] = t[i + 1]
    BY HeadTailProperties, EmptySeq, ElementOfSeq
  <1>2. \A i \in 1..Len(Tail(t)) : i + 1 \in 1..Len(t) /\ i + 1 # 1
    BY <1>1
  <1>3. 1 \in 1..Len(t)
    BY <1>1
  <1>4. Len(t) # 1 => Tail(t) # <<>>
    <2>1. Len(<<>>) = 0
      BY EmptySeq
    <2>2. ASSUME Tail(t) = <<>> PROVE Len(Tail(t)) = 0
      BY <2>1, <2>2, Zenon
    <2>3. Len(Tail(t)) = 0 => Len(t) = 1
      BY <1>1
    <2> QED BY <2>2, <2>3, Zenon
  <1>5. Whats(Tail(t)) \subseteq Whats(t)
    BY <1>1, <1>2 DEF Whats
  <1>6. ASSUME Apart(t)
        PROVE  Apart(Tail(t)) /\ t[1].what \notin Whats(Tail(t))
    <2>1. \A i, j \in 1..Len(Tail(t)) :
            Tail(t)[i].what = Tail(t)[j].what => i + 1 = j + 1
      BY <1>1, <1>2, <1>6 DEF Apart
    <2>2. \A i \in 1..Len(Tail(t)) : Tail(t)[i].what # t[1].what
      BY <1>1, <1>2, <1>3, <1>6 DEF Apart
    <2> QED BY <2>1, <2>2 DEF Apart, Whats
  <1> QED BY <1>1, <1>3, <1>4, <1>5, <1>6 DEF Whats

-----------------------------------------------------------------------------
(* What a tick fires                                                       *)

\* The latches of a session are of its type, and fire in order.
LEMMA LatchedFires ==
  ASSUME shape \in Shape, NEW x \in Opened, NEW p \in Position \cup {Bad},
         NEW k \in Kind
  PROVE  /\ Latched(x, p, k) \in Seq(EffectSet)
         /\ Apart(Latched(x, p, k))
         /\ Whats(Latched(x, p, k)) =
              {w \in Once : p # Bad /\ \/ w = "view" /\ Views(x, p, k)
                                       \/ w = "mark" /\ Marks(x, p)
                                       \/ w = "complete" /\ Completes(x, p, k)}
  <1>1. CASE p = Bad
    <2>1. Latched(x, p, k) = <<>>
      BY <1>1 DEF Latched
    <2>2. <<>> \in Seq(EffectSet) /\ 1..Len(<<>>) = {}
      BY EmptySeq
    <2> QED BY <1>1, <2>1, <2>2 DEF Apart, Whats
  <1>2. CASE p # Bad
    <2> DEFINE v == Views(x, p, k)
               m == Marks(x, p)
               d == Completes(x, p, k)
               one == If(v, Effect("view", p))
               two == one \o If(m, Effect("mark", p))
               three == two \o If(d, Effect("complete", p))
    <2>1. p \in Position
      BY <1>2
    <2>2. /\ Effect("view", p) \in EffectSet /\ Effect("view", p).what = "view"
          /\ Effect("mark", p) \in EffectSet /\ Effect("mark", p).what = "mark"
          /\ Effect("complete", p) \in EffectSet
          /\ Effect("complete", p).what = "complete"
      BY <2>1 DEF Effect, EffectSet
    <2>3. v \in BOOLEAN /\ m \in BOOLEAN /\ d \in BOOLEAN
      BY DEF Views, Marks, Completes
    <2>4. Latched(x, p, k) = three
      BY <1>2 DEF Latched
    <2> HIDE DEF v, m, d
    <2>5. /\ one \in Seq(EffectSet) /\ Apart(one)
          /\ Whats(one) = IF v THEN {"view"} ELSE {}
      BY <2>2, <2>3, IfTypes
    <2> HIDE DEF one
    <2>6. /\ two \in Seq(EffectSet) /\ Apart(two)
          /\ Whats(two) = Whats(one) \cup (IF m THEN {"mark"} ELSE {})
      BY <2>2, <2>3, <2>5, IfAdds
    <2> HIDE DEF two
    <2>11. Whats(one) \subseteq {"view"} /\ Whats(two) \subseteq {"view", "mark"}
      BY <2>5, <2>6
    <2>12. "complete" \notin Whats(two)
      BY <2>11
    <2>7. /\ three \in Seq(EffectSet) /\ Apart(three)
          /\ Whats(three) = Whats(two) \cup (IF d THEN {"complete"} ELSE {})
      BY <2>2, <2>3, <2>6, <2>12, IfAdds
    <2>8. Whats(three) = {w \in Once : \/ w = "view" /\ v
                                       \/ w = "mark" /\ m
                                       \/ w = "complete" /\ d}
      BY <2>5, <2>6, <2>7, Zenon DEF Once
    <2> QED BY <1>2, <2>4, <2>7, <2>8 DEF v, m, d
  <1> QED BY <1>1, <1>2

\* What a tick of a session asks for.
Fires(x, p, k, w) ==
  p # Bad /\ \/ w = "view" /\ Views(x, p, k)
             \/ w = "mark" /\ Marks(x, p)
             \/ w = "complete" /\ Completes(x, p, k)
             \/ w = "resume" /\ Resumes(x, p, k)

LEMMA EffectsFire ==
  ASSUME shape \in Shape, NEW x \in Opened, NEW p \in Position \cup {Bad},
         NEW k \in Kind
  PROVE  /\ Effects(x, p, k) \in Seq(EffectSet)
         /\ Apart(Effects(x, p, k))
         /\ \A w \in Whats(Effects(x, p, k)) :
              w \in Once \cup {"resume"} /\ Fires(x, p, k, w)
  <1> DEFINE b == p # Bad /\ Resumes(x, p, k)
             t == Latched(x, p, k)
  <1>1. b \in BOOLEAN
    OBVIOUS
  <1>2. b => Effect("resume", p) \in EffectSet
    BY DEF Effect, EffectSet
  <1>3. Effect("resume", p).what = "resume"
    BY DEF Effect
  <1>4. /\ t \in Seq(EffectSet) /\ Apart(t)
        /\ \A w \in Whats(t) : w \in Once /\ Fires(x, p, k, w)
    BY LatchedFires DEF Fires
  <1>5. Effects(x, p, k) = t \o If(b, Effect("resume", p))
    BY DEF Effects
  <1>6. "resume" \notin Whats(t)
    BY <1>4 DEF Once
  <1>7. b => Fires(x, p, k, "resume")
    BY DEF Fires
  <1> HIDE DEF b, t
  <1> QED BY <1>1, <1>2, <1>3, <1>4, <1>5, <1>6, <1>7, IfAdds

LEMMA ClosingFires ==
  ASSUME shape \in Shape, NEW x \in Opened, NEW p \in Position \cup {Bad},
         NEW reason
  PROVE  /\ ClosingEffects(x, p, reason) \in Seq(EffectSet)
         /\ Apart(ClosingEffects(x, p, reason))
         /\ \A w \in Whats(ClosingEffects(x, p, reason)) :
              /\ w \in Once \cup {"resume"}
              /\ w \in Once => ~Latch(x, w)
         /\ "complete" \in Whats(ClosingEffects(x, p, reason)) =>
              "resume" \notin Whats(ClosingEffects(x, p, reason))
         /\ x.completed => "resume" \notin Whats(ClosingEffects(x, p, reason))
  <1>1. "closing" \in Kind
    BY DEF Kind
  <1>2. \A w \in Once : Fires(x, p, "closing", w) => ~Latch(x, w)
    BY DEF Fires, Views, Marks, Completes, Once, Latch
  <1>3. CASE reason = "ended" /\ ~Ticked(x, p, "closing").completed
    <2> DEFINE t == Latched(x, p, "closing")
               e == Effect("complete", Length)
    <2>1. e \in EffectSet /\ e.what = "complete"
      BY PlaybackAssumption DEF Effect, EffectSet, Position
    <2>2. /\ t \in Seq(EffectSet) /\ Apart(t)
          /\ \A w \in Whats(t) : w \in Once /\ Fires(x, p, "closing", w)
      BY <1>1, LatchedFires DEF Fires
    <2>3. ~x.completed /\ "complete" \notin Whats(t)
      <3>1. CASE p = Bad
        BY <1>3, <2>2, <3>1 DEF Ticked, Fires
      <3>2. CASE p # Bad
        <4>1. Ticked(x, p, "closing").completed =
                (x.completed \/ Completes(x, p, "closing"))
          BY <3>2 DEF Ticked, Opened
        <4> QED BY <1>3, <2>2, <4>1 DEF Fires
      <3> QED BY <3>1, <3>2
    <2>4. ClosingEffects(x, p, reason) = t \o If(TRUE, e)
      BY <1>3 DEF ClosingEffects, If
    <2>5. Latch(x, "complete") = x.completed
      BY DEF Latch
    <2> HIDE DEF t, e
    <2>6. /\ t \o If(TRUE, e) \in Seq(EffectSet)
          /\ Whats(t \o If(TRUE, e)) = Whats(t) \cup {"complete"}
          /\ Apart(t \o If(TRUE, e))
      BY <2>1, <2>2, <2>3, IfAdds
    <2>7. "resume" \notin Once /\ "complete" \in Once
      BY DEF Once
    <2>8. \A w \in Whats(t) \cup {"complete"} : w \in Once /\ ~Latch(x, w)
      BY <1>2, <2>2, <2>3, <2>5, <2>7
    <2>9. "resume" \notin Whats(t) \cup {"complete"}
      BY <2>7, <2>8
    <2> QED BY <2>4, <2>6, <2>8, <2>9
  <1>4. CASE ~(reason = "ended" /\ ~Ticked(x, p, "closing").completed)
    <2>1. ClosingEffects(x, p, reason) = Effects(x, p, "closing")
      BY <1>4 DEF ClosingEffects
    <2>2. /\ Effects(x, p, "closing") \in Seq(EffectSet)
          /\ Apart(Effects(x, p, "closing"))
          /\ \A w \in Whats(Effects(x, p, "closing")) :
               w \in Once \cup {"resume"} /\ Fires(x, p, "closing", w)
      BY <1>1, EffectsFire
    <2>3. Fires(x, p, "closing", "resume") =>
            ~x.completed /\ ~Fires(x, p, "closing", "complete")
      BY DEF Fires, Resumes
    <2> QED BY <1>2, <2>1, <2>2, <2>3
  <1> QED BY <1>3, <1>4

\* A tick sets the latches of what it fires and clears none.
LEMMA TickedLatches ==
  ASSUME shape \in Shape, NEW x \in Opened, NEW p \in Position \cup {Bad},
         NEW k \in Kind
  PROVE  /\ Ticked(x, p, k) \in Opened
         /\ \A w \in Once : Latch(x, w) => Latch(Ticked(x, p, k), w)
         /\ \A w \in Once :
              Fires(x, p, k, w) => ~Latch(x, w) /\ Latch(Ticked(x, p, k), w)
  <1>1. CASE p = Bad
    BY <1>1 DEF Ticked, Fires
  <1>2. CASE p # Bad
    <2>1. p \in Position /\ p \in Int
      BY <1>2 DEF Position
    <2>2. Watched(x, p, k) \in 0..ViewSecs
      <3>1. x.watched \in 0..ViewSecs /\ x.last \in Position \cup {Never}
        BY DEF Opened
      <3>2. Played(x, p, k) => p - x.last \in Nat
        BY <2>1, <3>1 DEF Played, Position
      <3> QED BY <3>1, <3>2, PlaybackAssumption DEF Watched
    <2>3. (IF Resumes(x, p, k) THEN p ELSE x.written)
             \in Position \cup {Never}
      BY <2>1 DEF Opened
    <2> DEFINE y == Ticked(x, p, k)
               v == x.viewed \/ Views(x, p, k)
               m == x.marked \/ Marks(x, p)
               d == x.completed \/ Completes(x, p, k)
    <2>4. v \in BOOLEAN /\ m \in BOOLEAN /\ d \in BOOLEAN
      BY DEF Opened
    <2>5. y = [x EXCEPT !.watched = Watched(x, p, k), !.last = p,
                        !.viewed = v, !.marked = m, !.completed = d,
                        !.written = IF Resumes(x, p, k) THEN p ELSE x.written]
      BY <1>2 DEF Ticked
    <2>6. y \in Opened
      <3> HIDE DEF y, v, m, d
      <3> QED BY <2>1, <2>2, <2>3, <2>4, <2>5, Zenon DEF Opened
    <2>7. y.viewed = v /\ y.marked = m /\ y.completed = d
      <3> HIDE DEF y, v, m, d
      <3> QED BY <2>5 DEF Opened
    <2> HIDE DEF y
    <2>8. \A w \in Once : Latch(x, w) => Latch(y, w)
      BY <2>7, Zenon DEF Once, Latch
    <2>9. \A w \in Once :
            Fires(x, p, k, w) => ~Latch(x, w) /\ Latch(y, w)
      BY <2>7 DEF Once, Latch, Fires, Views, Marks, Completes
    <2> QED BY <2>6, <2>8, <2>9 DEF y
  <1> QED BY <1>1, <1>2

-----------------------------------------------------------------------------
(* A call goes on                                                          *)

LEMMA IdleOwes ==
  /\ Idle \in Call /\ Idle.at = "idle" /\ Idle.s = 0 /\ OwedBy(Idle) = {}
  /\ Apart(Idle.todo) /\ Idle.todo = <<>>
  <1>1. <<>> \in Seq(EffectSet) /\ 1..Len(<<>>) = {}
    BY EmptySeq
  <1> QED BY <1>1 DEF Idle, Call, Stage, OwedBy, Apart

LEMMA Stays ==
  ASSUME NEW x \in Call, NEW place \in Stage \ {"idle", "apply"},
         x.at # "idle", x.todo # <<>>
  PROVE  /\ [x EXCEPT !.at = place] \in Call
         /\ [x EXCEPT !.at = place].at = place
         /\ [x EXCEPT !.at = place].s = x.s
         /\ [x EXCEPT !.at = place].todo = x.todo
         /\ OwedBy([x EXCEPT !.at = place]) \subseteq OwedBy(x)
         /\ x.at = "apply" /\ Apart(x.todo) =>
              /\ x.todo[1].what \in OwedBy(x)
              /\ x.todo[1].what \notin OwedBy([x EXCEPT !.at = place])
  <1> DEFINE y == [x EXCEPT !.at = place]
  <1>1. y \in Call /\ y.at = place /\ y.s = x.s /\ y.todo = x.todo
    BY DEF Call
  <1>2. x.todo \in Seq(EffectSet)
    BY DEF Call
  <1> HIDE DEF y
  <1>3. OwedBy(y) = Whats(Tail(x.todo))
    BY <1>1 DEF OwedBy
  <1>4. OwedBy(x) = IF x.at = "apply" THEN Whats(x.todo)
                    ELSE Whats(Tail(x.todo))
    BY DEF OwedBy
  <1>5. x.todo[1].what \in Whats(x.todo)
    BY <1>2, TailOwes
  <1> QED BY <1>1, <1>2, <1>3, <1>4, <1>5, TailOwes DEF y

LEMMA ServedOwes ==
  ASSUME TypeOK, CallsInv, NEW c \in Caller, caller[c].at # "idle"
  PROVE  /\ Served(c) \in Call
         /\ OwedBy(Served(c)) \subseteq OwedBy(caller[c])
         /\ caller[c].at = "apply" =>
              /\ Now(c).what \in OwedBy(caller[c])
              /\ Now(c).what \notin OwedBy(Served(c))
         /\ Served(c).s = caller[c].s \/ Served(c) = Idle
         /\ Stands(Served(c))
         /\ Served(c).at # "wait"
  <1> DEFINE x == caller[c]
             y == [x EXCEPT !.at = "apply", !.todo = Tail(x.todo)]
  <1>1. /\ x \in Call /\ x.todo \in Seq(EffectSet) /\ x.todo # <<>>
        /\ Apart(x.todo)
    BY DEF TypeOK, CallsInv, Stands, Call
  <1>2. x.todo[1].what \in Whats(x.todo)
    BY <1>1, TailOwes
  <1>3. CASE Len(x.todo) = 1
    <2>1. Served(c) = Idle
      BY <1>3 DEF Served
    <2> QED BY <1>1, <1>2, <2>1, IdleOwes DEF OwedBy, Now, Stands
  <1>4. CASE Len(x.todo) # 1
    <2>1. Served(c) = y
      BY <1>4 DEF Served
    <2>2. Tail(x.todo) \in Seq(EffectSet) /\ Tail(x.todo) # <<>>
      BY <1>1, <1>4, TailOwes
    <2>3. /\ y \in Call /\ y.at = "apply" /\ y.s = x.s
          /\ y.todo = Tail(x.todo)
      BY <1>1, <2>2 DEF Call, Stage
    <2> HIDE DEF x, y
    <2>4. OwedBy(y) = Whats(Tail(x.todo))
      BY <2>3 DEF OwedBy
    <2>5. /\ Whats(Tail(x.todo)) \subseteq OwedBy(x)
          /\ x.at = "apply" => OwedBy(x) = Whats(x.todo)
      BY <1>1, TailOwes DEF OwedBy
    <2>6. Apart(y.todo) /\ x.todo[1].what \notin Whats(Tail(x.todo))
      BY <1>1, <2>3, TailOwes
    <2>7. Now(c) = x.todo[1]
      BY DEF Now, x
    <2>8. x.s # 0
      BY DEF CallsInv, Stands, x
    <2> QED BY <1>2, <2>1, <2>2, <2>3, <2>4, <2>5, <2>6, <2>7, <2>8
            DEF x, Stands
  <1> QED BY <1>3, <1>4

-----------------------------------------------------------------------------
(* An effect moves from a call to the writer to its row                    *)

\* What no step undoes: a session under way keeps its latches, and one closed
\* is never opened again.
Opens ==
  /\ next \in Nat /\ next' \in Nat /\ next <= next'
  /\ \A s \in Session : s \in open' /\ s <= next => s \in open
  /\ \A s \in open \cap open', w \in Once :
       Latch(session[s], w) => Latch(session'[s], w)

\* The queue as it was, or without its first task.
Drained(k) ==
  /\ Len(queue') = Len(queue) - k
  /\ \A j \in 1..Len(queue') : j + k \in 1..Len(queue) /\ queue'[j] = queue[j + k]

\* A step that starts nothing: calls may give up effects, tasks may be dropped.
LEMMA OnceSpares ==
  ASSUME OnceInv, TypeOK, Opens, UNCHANGED tally,
         NEW k \in {0, 1}, Drained(k),
         \A c \in Caller, s \in Session, w \in Once :
           Owes(c, s, w)' => Owes(c, s, w)
  PROVE  OnceInv'
  <1>1. Len(queue) \in Nat /\ Len(queue') \in Int
    BY DEF TypeOK, Drained
  <1>2. ASSUME NEW s \in Session, NEW w \in Once
        PROVE  InOnePlace(s, w)' /\ Latches(s, w)'
    <2>1. InOnePlace(s, w) /\ Latches(s, w)
      BY DEF OnceInv
    <2>2. Told(s, w)' = Told(s, w)
      BY DEF Told
    <2>3. Queued(s, w)' => Queued(s, w)
      BY DEF Queued, Drained
    <2>4. \A i, j \in 1..Len(queue') :
            Asks(queue'[i], s, w) /\ Asks(queue'[j], s, w) => i = j
      <3> TAKE i, j \in 1..Len(queue')
      <3>1. Asks(queue'[i], s, w) /\ Asks(queue'[j], s, w) => i + k = j + k
        BY <2>1 DEF Drained, InOnePlace
      <3> QED BY <1>1, <3>1
    <2>5. InOnePlace(s, w)'
      BY <2>1, <2>2, <2>3, <2>4 DEF InOnePlace
    <2>6. Ever(s, w)' => Ever(s, w)
      BY <2>2, <2>3 DEF Ever
    <2>7. Latches(s, w)'
      <3>1. s \in Nat
        BY DEF Session
      <3> QED BY <2>1, <2>6, <3>1 DEF Latches, Opens
    <2> QED BY <2>5, <2>7
  <1>3. \A s \in Session : tally'[s].finish <= tally'[s].complete
    BY DEF OnceInv
  <1> QED BY <1>2, <1>3 DEF OnceInv

\* A call that starts has in hand what its session had not fired yet.
LEMMA OnceServes ==
  ASSUME OnceInv, TypeOK, Opens, UNCHANGED <<queue, tally>>,
         NEW c \in Caller, NEW s \in open, next' = next,
         \A r \in Session, w \in Once : ~Owes(c, r, w),
         \A d \in Caller \ {c} : caller'[d] = caller[d],
         \A r \in Session, w \in Once :
           Owes(c, r, w)' => /\ r = s /\ ~Latch(session[s], w)
                             /\ s \in open' => Latch(session'[s], w)
  PROVE  OnceInv'
  <1>1. ASSUME NEW r \in Session, NEW w \in Once
        PROVE  InOnePlace(r, w)' /\ Latches(r, w)'
    <2>1. InOnePlace(r, w) /\ Latches(r, w)
      BY DEF OnceInv
    <2>2. Told(r, w)' = Told(r, w) /\ Queued(r, w)' = Queued(r, w)
      BY DEF Told, Queued
    <2>3. \A d \in Caller \ {c} : Owes(d, r, w)' = Owes(d, r, w)
      BY DEF Owes
    <2>4. s <= next /\ s \in Session
      BY PlaybackAssumption DEF TypeOK, Session
    <2>5. CASE Owes(c, r, w)'
      <3>1. r = s /\ ~Latch(session[s], w) /\ (s \in open' => Latch(session'[s], w))
        BY <2>5
      <3>2. ~Ever(r, w)
        BY <2>1, <3>1 DEF Latches
      <3>3. Told(r, w) = 0
        <4>1. Told(r, w) \in Nat
          BY DEF Told, TypeOK, Tally
        <4> QED BY <3>2, <4>1 DEF Ever
      <3>4. InOnePlace(r, w)'
        BY <2>2, <2>3, <3>2, <3>3 DEF InOnePlace, Ever, Queued
      <3>5. Latches(r, w)'
        BY <2>4, <3>1 DEF Latches
      <3> QED BY <3>4, <3>5
    <2>6. CASE ~Owes(c, r, w)'
      <3>1. \A d \in Caller : Owes(d, r, w)' => Owes(d, r, w)
        BY <2>3, <2>6
      <3>2. InOnePlace(r, w)'
        BY <2>1, <2>2, <3>1 DEF InOnePlace
      <3>3. Ever(r, w)' => Ever(r, w)
        BY <2>2, <3>1 DEF Ever
      <3>4. Latches(r, w)'
        BY <2>1, <3>3 DEF Latches, Opens
      <3> QED BY <3>2, <3>4
    <2> QED BY <2>5, <2>6
  <1>2. \A r \in Session : tally'[r].finish <= tally'[r].complete
    BY DEF OnceInv
  <1> QED BY <1>1, <1>2 DEF OnceInv

\* A call hands an effect to the writer.
LEMMA OnceSends ==
  ASSUME OnceInv, TypeOK, UNCHANGED <<next, open, session, tally>>,
         NEW c \in Caller, NEW task \in Task, queue' = Append(queue, task),
         Owes(c, task.s, task.do), ~Owes(c, task.s, task.do)',
         \A d \in Caller, r \in Session, w \in Once :
           Owes(d, r, w)' => Owes(d, r, w)
  PROVE  OnceInv'
  <1>1. /\ Len(queue) \in Nat /\ Len(queue') = Len(queue) + 1
        /\ \A j \in 1..Len(queue) : queue'[j] = queue[j]
        /\ queue'[Len(queue) + 1] = task
    BY AppendProperties DEF TypeOK
  <1>2. 1..Len(queue') = 1..Len(queue) \cup {Len(queue) + 1}
    BY <1>1
  <1>3. ASSUME NEW r \in Session, NEW w \in Once
        PROVE  InOnePlace(r, w)' /\ Latches(r, w)'
    <2>1. InOnePlace(r, w) /\ Latches(r, w)
      BY DEF OnceInv
    <2>2. Told(r, w)' = Told(r, w)
      BY DEF Told
    <2>3. CASE Asks(task, r, w)
      <3>1. Owes(c, r, w) /\ ~Owes(c, r, w)'
        BY <2>3 DEF Asks
      <3>2. \A d \in Caller : ~Owes(d, r, w)'
        BY <2>1, <3>1 DEF InOnePlace
      <3>3. ~Queued(r, w) /\ Told(r, w) = 0
        BY <2>1, <3>1 DEF InOnePlace
      <3>4. \A i, j \in 1..Len(queue') :
              Asks(queue'[i], r, w) /\ Asks(queue'[j], r, w) => i = j
        BY <1>1, <1>2, <3>3 DEF Queued
      <3>5. InOnePlace(r, w)'
        BY <2>2, <3>2, <3>3, <3>4 DEF InOnePlace
      <3>6. Ever(r, w)
        BY <3>1 DEF Ever
      <3> QED BY <2>1, <3>5, <3>6 DEF Latches
    <2>4. CASE ~Asks(task, r, w)
      <3>1. Queued(r, w)' = Queued(r, w)
        BY <1>1, <1>2, <2>4 DEF Queued
      <3>2. \A i, j \in 1..Len(queue') :
              Asks(queue'[i], r, w) /\ Asks(queue'[j], r, w) => i = j
        BY <1>1, <1>2, <2>1, <2>4 DEF InOnePlace
      <3>3. InOnePlace(r, w)'
        BY <2>1, <2>2, <3>1, <3>2 DEF InOnePlace
      <3>4. Ever(r, w)' => Ever(r, w)
        BY <2>2, <3>1 DEF Ever
      <3> QED BY <2>1, <3>3, <3>4 DEF Latches
    <2> QED BY <2>3, <2>4
  <1>4. \A r \in Session : tally'[r].finish <= tally'[r].complete
    BY DEF OnceInv
  <1> QED BY <1>3, <1>4 DEF OnceInv

\* An effect is had: a mark asked for by its call, or a task run.
LEMMA OnceHas ==
  ASSUME OnceInv, TypeOK, UNCHANGED <<next, open, session>>,
         NEW s \in Session, NEW e \in Once,
         NEW k \in {0, 1}, Drained(k),
         \A d \in Caller, r \in Session, w \in Once :
           Owes(d, r, w)' => Owes(d, r, w),
         \/ \E c \in Caller : Owes(c, s, e) /\ ~Owes(c, s, e)'
         \/ k = 1 /\ Len(queue) > 0 /\ Asks(queue[1], s, e),
         Told(s, e)' = Told(s, e) + 1,
         \A r \in Session, w \in Once :
           <<r, w>> # <<s, e>> => Told(r, w)' = Told(r, w),
         \A r \in Session : tally'[r].finish <= tally'[r].complete
  PROVE  OnceInv'
  <1>1. Len(queue) \in Nat /\ Len(queue') \in Int
    BY DEF TypeOK, Drained
  <1>2. ASSUME NEW r \in Session, NEW w \in Once
        PROVE  InOnePlace(r, w)' /\ Latches(r, w)'
    <2>1. InOnePlace(r, w) /\ Latches(r, w)
      BY DEF OnceInv
    <2>2. Queued(r, w)' => Queued(r, w)
      BY DEF Queued, Drained
    <2>3. \A i, j \in 1..Len(queue') :
            Asks(queue'[i], r, w) /\ Asks(queue'[j], r, w) => i = j
      <3> TAKE i, j \in 1..Len(queue')
      <3>1. Asks(queue'[i], r, w) /\ Asks(queue'[j], r, w) => i + k = j + k
        BY <2>1 DEF Drained, InOnePlace
      <3> QED BY <1>1, <3>1
    <2>4. Told(r, w) \in Nat
      BY DEF Told, TypeOK, Tally
    <2>5. CASE <<r, w>> = <<s, e>>
      <3>1. r = s /\ w = e
        BY <2>5
      <3>2. Ever(r, w) /\ Told(r, w) = 0
        <4>1. CASE \E c \in Caller : Owes(c, s, e)
          BY <2>1, <3>1, <4>1 DEF InOnePlace, Ever
        <4>2. CASE Len(queue) > 0 /\ Asks(queue[1], s, e)
          <5>1. Queued(r, w)
            BY <1>1, <3>1, <4>2 DEF Queued
          <5> QED BY <2>1, <5>1 DEF InOnePlace, Ever
        <4> QED BY <4>1, <4>2
      <3>3. (\A d \in Caller : ~Owes(d, r, w)') /\ ~Queued(r, w)'
        <4>1. CASE \E c \in Caller : Owes(c, s, e) /\ ~Owes(c, s, e)'
          <5>1. ~Queued(r, w)
            BY <2>1, <3>1, <4>1 DEF InOnePlace
          <5>2. \A d \in Caller : ~Owes(d, r, w)'
            BY <2>1, <3>1, <4>1 DEF InOnePlace
          <5> QED BY <2>2, <5>1, <5>2
        <4>2. CASE k = 1 /\ Len(queue) > 0 /\ Asks(queue[1], s, e)
          <5>1. 1 \in 1..Len(queue) /\ Queued(r, w)
            BY <1>1, <3>1, <4>2 DEF Queued
          <5>2. \A d \in Caller : ~Owes(d, r, w)
            BY <2>1, <5>1 DEF InOnePlace
          <5>3. \A j \in 1..Len(queue) : Asks(queue[j], r, w) => j = 1
            BY <2>1, <3>1, <4>2, <5>1 DEF InOnePlace
          <5>4. ASSUME NEW j \in 1..Len(queue'), Asks(queue'[j], r, w)
                PROVE  FALSE
            <6>1. j + 1 \in 1..Len(queue) /\ Asks(queue[j + 1], r, w)
              BY <4>2, <5>4 DEF Drained
            <6>2. j + 1 = 1
              BY <5>3, <6>1
            <6> QED BY <6>2
          <5> QED BY <5>2, <5>4 DEF Queued
        <4> QED BY <4>1, <4>2
      <3>4. Told(r, w)' = 1
        BY <3>1, <3>2
      <3>5. InOnePlace(r, w)'
        BY <2>3, <3>3, <3>4 DEF InOnePlace
      <3> QED BY <2>1, <3>2, <3>5 DEF Latches
    <2>6. CASE <<r, w>> # <<s, e>>
      <3>1. Told(r, w)' = Told(r, w)
        BY <2>6
      <3>2. InOnePlace(r, w)'
        BY <2>1, <2>2, <2>3, <3>1 DEF InOnePlace
      <3>3. Ever(r, w)' => Ever(r, w)
        BY <2>2, <3>1 DEF Ever
      <3> QED BY <2>1, <3>2, <3>3 DEF Latches
    <2> QED BY <2>5, <2>6
  <1> QED BY <1>2 DEF OnceInv

-----------------------------------------------------------------------------
(* Who waits for whom                                                      *)

LEMMA CallsMove ==
  ASSUME CallsInv, TypeOK, NEW c \in Caller, NEW y \in Call, Stands(y),
         caller' = [caller EXCEPT ![c] = y], caller[c].at # "wait",
         UNCHANGED queue
  PROVE  CallsInv'
  <1>1. \A d \in Caller : caller'[d] = IF d = c THEN y ELSE caller[d]
    BY DEF TypeOK
  <1>2. \A i \in 1..Len(queue) :
          queue[i].for # None => queue[i].for \in Caller /\ queue[i].for # c
    <2>1. \A i \in 1..Len(queue) : queue[i] \in Task
      BY ElementOfSeq DEF TypeOK
    <2>2. \A i \in 1..Len(queue) : queue[i].for \in Caller \cup {None}
      BY <2>1 DEF Task
    <2> QED BY <2>2 DEF CallsInv
  <1>3. \A d \in Caller : Stands(caller'[d])
    BY <1>1 DEF CallsInv, Stands
  <1> QED BY <1>1, <1>2, <1>3 DEF CallsInv, Stands

LEMMA CallsSend ==
  ASSUME CallsInv, TypeOK, NEW c \in Caller, NEW y \in Call, Stands(y),
         caller' = [caller EXCEPT ![c] = y], caller[c].at # "wait",
         NEW task \in Task, queue' = Append(queue, task),
         task.for # None => task.for = c /\ y.at = "wait"
  PROVE  CallsInv'
  <1>1. \A d \in Caller : caller'[d] = IF d = c THEN y ELSE caller[d]
    BY DEF TypeOK
  <1>2. /\ Len(queue) \in Nat /\ Len(queue') = Len(queue) + 1
        /\ \A j \in 1..Len(queue) : queue'[j] = queue[j]
        /\ queue'[Len(queue) + 1] = task
    BY AppendProperties DEF TypeOK
  <1>3. 1..Len(queue') = 1..Len(queue) \cup {Len(queue) + 1}
    BY <1>2
  <1>4. \A i \in 1..Len(queue) :
          queue[i].for # None => queue[i].for \in Caller /\ queue[i].for # c
    <2>1. \A i \in 1..Len(queue) : queue[i] \in Task
      BY ElementOfSeq DEF TypeOK
    <2>2. \A i \in 1..Len(queue) : queue[i].for \in Caller \cup {None}
      BY <2>1 DEF Task
    <2> QED BY <2>2 DEF CallsInv
  <1>5. \A d \in Caller : Stands(caller'[d])
    BY <1>1 DEF CallsInv, Stands
  <1>6. \A i \in 1..Len(queue') :
          queue'[i].for # None => caller'[queue'[i].for].at = "wait"
    BY <1>1, <1>2, <1>3, <1>4 DEF CallsInv
  <1>7. \A i, j \in 1..Len(queue') :
          queue'[i].for # None /\ queue'[i].for = queue'[j].for => i = j
    BY <1>2, <1>3, <1>4 DEF CallsInv
  <1> QED BY <1>5, <1>6, <1>7 DEF CallsInv, Stands

\* The writer takes its first task and answers who waits for it.
LEMMA CallsAnswer ==
  ASSUME CallsInv, TypeOK, queue # <<>>, NEW how \in {"replied", "failed"},
         caller' = Answered(queue[1], how), queue' = Tail(queue)
  PROVE  /\ CallsInv'
         /\ caller' \in [Caller -> Call]
         /\ queue[1] \in Task /\ queue' \in Seq(Task) /\ Drained(1)
         /\ Len(queue) \in Nat \ {0}
         /\ \A d \in Caller, s \in Session : \A w : Owes(d, s, w)' => Owes(d, s, w)
  <1>1. /\ Len(queue) \in Nat \ {0} /\ queue' \in Seq(Task)
        /\ Len(queue') = Len(queue) - 1
        /\ \A j \in 1..Len(queue') : queue'[j] = queue[j + 1]
    BY HeadTailProperties, EmptySeq DEF TypeOK
  <1>2. Drained(1) /\ queue[1] \in Task
    BY <1>1, ElementOfSeq DEF Drained, TypeOK
  <1> DEFINE c == queue[1].for
  <1>3. \A i, j \in 1..Len(queue') :
          queue'[i].for # None /\ queue'[i].for = queue'[j].for => i = j
    <2> TAKE i, j \in 1..Len(queue')
    <2>1. queue'[i].for # None /\ queue'[i].for = queue'[j].for => i + 1 = j + 1
      BY <1>2 DEF CallsInv, Drained
    <2> QED BY <1>1, <2>1
  <1>4. CASE c = None
    <2>1. caller' = caller
      BY <1>4 DEF Answered
    <2>2. \A i \in 1..Len(queue') :
            queue'[i].for # None => caller'[queue'[i].for].at = "wait"
      BY <1>2, <2>1 DEF CallsInv, Drained
    <2> QED BY <1>1, <1>2, <1>3, <2>1, <2>2 DEF CallsInv, Owes, TypeOK
  <1>5. CASE c # None
    <2>1. c \in Caller
      BY <1>2, <1>5 DEF Task
    <2>2. 1 \in 1..Len(queue)
      BY <1>1
    <2>3. caller[c] \in Call /\ caller[c].at = "wait" /\ caller[c].todo # <<>>
          /\ Apart(caller[c].todo) /\ caller[c].s # 0
      <3>1. caller[c].at = "wait"
        BY <1>5, <2>2 DEF CallsInv
      <3> QED BY <2>1, <3>1 DEF CallsInv, Stands, TypeOK
    <2> DEFINE y == [caller[c] EXCEPT !.at = how]
    <2>4. caller' = [caller EXCEPT ![c] = y]
      BY <1>5 DEF Answered
    <2> HIDE DEF c
    <2>5. how \in Stage \ {"idle", "apply"}
      BY DEF Stage
    <2>6. /\ y \in Call /\ y.at = how /\ y.s = caller[c].s
          /\ y.todo = caller[c].todo /\ OwedBy(y) \subseteq OwedBy(caller[c])
      BY <2>3, <2>5, Stays
    <2> HIDE DEF y
    <2>7. \A d \in Caller : caller'[d] = IF d = c THEN y ELSE caller[d]
      BY <2>1, <2>4 DEF TypeOK
    <2>8. caller' \in [Caller -> Call]
      BY <2>1, <2>4, <2>6 DEF TypeOK
    <2>9. \A d \in Caller, s \in Session : \A w : Owes(d, s, w)' => Owes(d, s, w)
      BY <2>6, <2>7 DEF Owes
    <2>10. \A i \in 1..Len(queue') : queue'[i].for # c
      <3> TAKE i \in 1..Len(queue')
      <3>1. i + 1 \in 1..Len(queue) /\ queue'[i] = queue[i + 1] /\ i + 1 # 1
        BY <1>1, <1>2 DEF Drained
      <3> QED BY <1>5, <2>2, <3>1 DEF CallsInv, c
    <2>11. \A i \in 1..Len(queue') :
             queue'[i].for # None => /\ queue'[i].for \in Caller
                                     /\ caller[queue'[i].for].at = "wait"
      <3> TAKE i \in 1..Len(queue')
      <3>1. i + 1 \in 1..Len(queue) /\ queue'[i] = queue[i + 1]
        BY <1>2 DEF Drained
      <3>2. queue[i + 1] \in Task
        BY <3>1, ElementOfSeq DEF TypeOK
      <3> QED BY <3>1, <3>2 DEF CallsInv, Task
    <2>12. \A i \in 1..Len(queue') :
             queue'[i].for # None => caller'[queue'[i].for].at = "wait"
      BY <2>7, <2>10, <2>11
    <2>13. \A d \in Caller : Stands(caller'[d])
      BY <2>3, <2>6, <2>7 DEF CallsInv, Stands
    <2>14. CallsInv'
      BY <1>3, <2>12, <2>13 DEF CallsInv, Stands
    <2> QED BY <1>1, <1>2, <2>8, <2>9, <2>14
  <1> QED BY <1>4, <1>5

-----------------------------------------------------------------------------
(* A completion is the last word                                           *)

LEMMA ForgetSpares ==
  ASSUME ForgetInv, TypeOK, UNCHANGED point,
         \A s \in Session : tally'[s].complete = tally[s].complete,
         NEW k \in {0, 1}, Drained(k),
         \A c \in Caller, s \in Session, w \in Once \cup {"resume"} :
           Owes(c, s, w)' => Owes(c, s, w)
  PROVE  ForgetInv'
  <1>1. SUFFICES ASSUME \A c, d \in Caller : c = d, NEW s \in Session
                 PROVE  /\ Ever(s, "complete")' =>
                             \A c \in Caller : ~Owes(c, s, "resume")'
                        /\ \A i, j \in 1..Len(queue') :
                             i < j /\ Asks(queue'[i], s, "complete")
                               => ~Asks(queue'[j], s, "resume")
                        /\ tally'[s].complete > 0 =>
                             ~Queued(s, "resume")' /\ point'.by # s
    BY DEF ForgetInv
  <1>2. /\ Ever(s, "complete") => \A c \in Caller : ~Owes(c, s, "resume")
        /\ \A i, j \in 1..Len(queue) :
             i < j /\ Asks(queue[i], s, "complete")
               => ~Asks(queue[j], s, "resume")
        /\ tally[s].complete > 0 => ~Queued(s, "resume") /\ point.by # s
    BY <1>1 DEF ForgetInv
  <1>3. \A w : Queued(s, w)' => Queued(s, w)
    BY DEF Queued, Drained
  <1>4. Ever(s, "complete")' => Ever(s, "complete")
    BY <1>3 DEF Ever, Told, Once
  <1>5. \A i, j \in 1..Len(queue') :
          i < j /\ Asks(queue'[i], s, "complete")
            => ~Asks(queue'[j], s, "resume")
    <2> TAKE i, j \in 1..Len(queue')
    <2>1. i < j => i + k < j + k
      <3>1. Len(queue') \in Int
        BY DEF TypeOK, Drained
      <3> QED BY <3>1
    <2> QED BY <1>2, <2>1 DEF Drained
  <1> QED BY <1>2, <1>3, <1>4, <1>5

LEMMA ForgetServes ==
  ASSUME ForgetInv, OnceInv, TypeOK, UNCHANGED <<queue, tally, point>>,
         NEW c \in Caller, NEW s \in open,
         \A r \in Session, w \in Once \cup {"resume"} : ~Owes(c, r, w),
         \A r \in Session, w \in Once \cup {"resume"} :
           Owes(c, r, w)' => r = s,
         Owes(c, s, "resume")' =>
           ~Latch(session[s], "complete") /\ ~Owes(c, s, "complete")'
  PROVE  ForgetInv'
  <1>1. SUFFICES ASSUME \A a, d \in Caller : a = d, NEW r \in Session
                 PROVE  /\ Ever(r, "complete")' =>
                             \A a \in Caller : ~Owes(a, r, "resume")'
                        /\ \A i, j \in 1..Len(queue') :
                             i < j /\ Asks(queue'[i], r, "complete")
                               => ~Asks(queue'[j], r, "resume")
                        /\ tally'[r].complete > 0 =>
                             ~Queued(r, "resume")' /\ point'.by # r
    BY DEF ForgetInv
  <1>2. /\ \A i, j \in 1..Len(queue) :
             i < j /\ Asks(queue[i], r, "complete")
               => ~Asks(queue[j], r, "resume")
        /\ tally[r].complete > 0 => ~Queued(r, "resume") /\ point.by # r
    BY <1>1 DEF ForgetInv
  <1>3. Queued(r, "resume")' = Queued(r, "resume")
    BY DEF Queued
  <1>4. Ever(r, "complete")' => \A a \in Caller : ~Owes(a, r, "resume")'
    <2>1. SUFFICES ASSUME Ever(r, "complete")', Owes(c, r, "resume")'
                   PROVE  FALSE
      BY <1>1
    <2>2. r = s /\ ~Latch(session[s], "complete") /\ ~Owes(c, s, "complete")'
      BY <2>1
    <2>3. Queued(r, "complete") \/ Told(r, "complete") > 0
      <3>1. /\ Queued(r, "complete")' = Queued(r, "complete")
            /\ Told(r, "complete")' = Told(r, "complete")
        BY DEF Queued, Told
      <3>2. \A a \in Caller : ~Owes(a, r, "complete")'
        BY <1>1, <2>2
      <3> QED BY <2>1, <3>1, <3>2 DEF Ever
    <2>4. Latches(s, "complete")
      BY <2>2 DEF OnceInv, Once
    <2> QED BY <2>2, <2>3, <2>4 DEF Latches, Ever
  <1> QED BY <1>2, <1>3, <1>4

LEMMA ForgetSends ==
  ASSUME ForgetInv, TypeOK, UNCHANGED <<tally, point>>,
         NEW c \in Caller, NEW task \in Task, queue' = Append(queue, task),
         Owes(c, task.s, task.do),
         \A d \in Caller, r \in Session, w \in Once \cup {"resume"} :
           Owes(d, r, w)' => Owes(d, r, w)
  PROVE  ForgetInv'
  <1>1. SUFFICES ASSUME \A a, d \in Caller : a = d, NEW r \in Session
                 PROVE  /\ Ever(r, "complete")' =>
                             \A a \in Caller : ~Owes(a, r, "resume")'
                        /\ \A i, j \in 1..Len(queue') :
                             i < j /\ Asks(queue'[i], r, "complete")
                               => ~Asks(queue'[j], r, "resume")
                        /\ tally'[r].complete > 0 =>
                             ~Queued(r, "resume")' /\ point'.by # r
    BY DEF ForgetInv
  <1>2. /\ Ever(r, "complete") => \A a \in Caller : ~Owes(a, r, "resume")
        /\ \A i, j \in 1..Len(queue) :
             i < j /\ Asks(queue[i], r, "complete")
               => ~Asks(queue[j], r, "resume")
        /\ tally[r].complete > 0 => ~Queued(r, "resume") /\ point.by # r
    BY <1>1 DEF ForgetInv
  <1>3. /\ Len(queue) \in Nat /\ Len(queue') = Len(queue) + 1
        /\ \A j \in 1..Len(queue) : queue'[j] = queue[j]
        /\ queue'[Len(queue) + 1] = task
    BY AppendProperties DEF TypeOK
  <1>4. 1..Len(queue') = 1..Len(queue) \cup {Len(queue) + 1}
    BY <1>3
  <1>5. \A w : Queued(r, w)' <=> Queued(r, w) \/ Asks(task, r, w)
    BY <1>3, <1>4 DEF Queued
  <1>6. \A w : Asks(task, r, w) => Owes(c, r, w)
    BY DEF Asks
  <1>7. Told(r, "complete")' = Told(r, "complete")
    BY DEF Told
  <1>8. Ever(r, "complete")' => Ever(r, "complete")
    BY <1>5, <1>6, <1>7 DEF Ever, Once
  <1>9. tally[r].complete > 0 => Ever(r, "complete")
    BY DEF Ever, Told
  <1>10. Ever(r, "complete") => ~Asks(task, r, "resume")
    BY <1>2, <1>6
  <1>11. \A i, j \in 1..Len(queue') :
           i < j /\ Asks(queue'[i], r, "complete")
             => ~Asks(queue'[j], r, "resume")
    <2>1. SUFFICES ASSUME NEW i \in 1..Len(queue'), NEW j \in 1..Len(queue'),
                          i < j, Asks(queue'[i], r, "complete")
                   PROVE  ~Asks(queue'[j], r, "resume")
      OBVIOUS
    <2>2. i \in 1..Len(queue)
      BY <1>3, <1>4, <2>1
    <2>3. Ever(r, "complete")
      BY <1>3, <2>1, <2>2 DEF Ever, Queued
    <2>4. CASE j \in 1..Len(queue)
      BY <1>2, <1>3, <2>1, <2>2, <2>4
    <2>5. CASE j = Len(queue) + 1
      BY <1>3, <1>10, <2>3, <2>5
    <2> QED BY <1>4, <2>4, <2>5
  <1> QED BY <1>2, <1>5, <1>8, <1>9, <1>10, <1>11 DEF Once

LEMMA ForgetRuns ==
  ASSUME ForgetInv, TypeOK, queue # <<>>, Drained(1),
         Len(queue) \in Nat \ {0}, queue[1] \in Task,
         point' = PointAfter(queue[1]),
         \A s \in Session :
           tally'[s].complete = IF Asks(queue[1], s, "complete")
                                THEN tally[s].complete + 1
                                ELSE tally[s].complete,
         \A c \in Caller, s \in Session, w \in Once \cup {"resume"} :
           Owes(c, s, w)' => Owes(c, s, w)
  PROVE  ForgetInv'
  <1>1. SUFFICES ASSUME \A c, d \in Caller : c = d, NEW s \in Session
                 PROVE  /\ Ever(s, "complete")' =>
                             \A c \in Caller : ~Owes(c, s, "resume")'
                        /\ \A i, j \in 1..Len(queue') :
                             i < j /\ Asks(queue'[i], s, "complete")
                               => ~Asks(queue'[j], s, "resume")
                        /\ tally'[s].complete > 0 =>
                             ~Queued(s, "resume")' /\ point'.by # s
    BY DEF ForgetInv
  <1>2. /\ Ever(s, "complete") => \A c \in Caller : ~Owes(c, s, "resume")
        /\ \A i, j \in 1..Len(queue) :
             i < j /\ Asks(queue[i], s, "complete")
               => ~Asks(queue[j], s, "resume")
        /\ tally[s].complete > 0 => ~Queued(s, "resume") /\ point.by # s
    BY <1>1 DEF ForgetInv
  <1>3. 1 \in 1..Len(queue)
    OBVIOUS
  <1>4. \A w : Queued(s, w)' => Queued(s, w)
    BY DEF Queued, Drained
  <1>5. Ever(s, "complete")' => Ever(s, "complete")
    <2>1. Asks(queue[1], s, "complete") => Ever(s, "complete")
      BY <1>3 DEF Ever, Queued
    <2>2. ~Asks(queue[1], s, "complete") =>
            Told(s, "complete")' = Told(s, "complete")
      BY DEF Told
    <2> QED BY <1>4, <2>1, <2>2 DEF Ever, Once
  <1>6. \A i, j \in 1..Len(queue') :
          i < j /\ Asks(queue'[i], s, "complete")
            => ~Asks(queue'[j], s, "resume")
    <2> TAKE i, j \in 1..Len(queue')
    <2>1. i < j => i + 1 < j + 1
      <3>1. Len(queue') \in Int
        BY DEF Drained
      <3> QED BY <3>1
    <2> QED BY <1>2, <2>1 DEF Drained
  <1>7. ASSUME tally'[s].complete > 0
        PROVE  ~Queued(s, "resume")' /\ point'.by # s
    <2>1. CASE Asks(queue[1], s, "complete")
      <3>1. point' = NoRow /\ NoRow.by = 0 /\ s # 0
        BY <2>1 DEF PointAfter, Asks, NoRow, Session
      <3>2. ASSUME Queued(s, "resume")' PROVE FALSE
        <4>1. PICK j \in 1..Len(queue') : Asks(queue'[j], s, "resume")
          BY <3>2 DEF Queued
        <4>2. /\ j + 1 \in 1..Len(queue) /\ 1 < j + 1
              /\ Asks(queue[j + 1], s, "resume")
          BY <4>1 DEF Drained
        <4> QED BY <1>2, <1>3, <2>1, <4>2
      <3> QED BY <3>1, <3>2
    <2>2. CASE ~Asks(queue[1], s, "complete")
      <3>1. tally[s].complete > 0
        BY <1>7, <2>2
      <3>2. ~Queued(s, "resume") /\ point.by # s
        BY <1>2, <3>1
      <3>3. ~Asks(queue[1], s, "resume")
        BY <1>3, <3>2 DEF Queued
      <3>4. point'.by # s
        BY <2>2, <3>2, <3>3 DEF PointAfter, Asks, NoRow, Session
      <3> QED BY <1>4, <3>2, <3>4
    <2> QED BY <2>1, <2>2
  <1> QED BY <1>2, <1>5, <1>6, <1>7

-----------------------------------------------------------------------------
(* The steps                                                               *)

LEMMA PlaybackInit == Init => PInv
  <1> SUFFICES ASSUME Init PROVE PInv
    OBVIOUS
  <1> USE DEF Init
  <1>1. TypeOK
    <2>1. NewSession \in Opened
      BY PlaybackAssumption DEF NewSession, Opened
    <2>2. [view |-> 0, mark |-> 0, complete |-> 0, finish |-> 0] \in Tally
      BY DEF Tally
    <2>3. queue \in Seq(Task)
      BY EmptySeq
    <2>4. caller \in [Caller -> Call]
      BY IdleOwes
    <2>5. word \in [by : Session \cup {0}, at : Position \cup {Bad},
                    done : BOOLEAN]
      OBVIOUS
    <2>6. next \in 0..MaxSession /\ open \subseteq 1..next
      BY PlaybackAssumption
    <2> QED BY <2>1, <2>2, <2>3, <2>4, <2>5, <2>6 DEF TypeOK
  <1>2. 1..Len(queue) = {}
    BY EmptySeq
  <1>3. CallsInv
    BY <1>2, IdleOwes DEF CallsInv, Stands
  <1>4. \A s \in Session : \A w : ~Queued(s, w) /\ \A c \in Caller : ~Owes(c, s, w)
    BY <1>2, IdleOwes DEF Queued, Owes
  <1>5. \A s \in Session, w \in Once : Told(s, w) = 0
    BY DEF Told
  <1>6. OnceInv
    <2>1. \A s \in Session : tally[s].finish <= tally[s].complete
      OBVIOUS
    <2>2. ASSUME NEW s \in Session, NEW w \in Once
          PROVE  InOnePlace(s, w)
      <3>1. ~Queued(s, w) /\ Told(s, w) = 0
        BY <1>4, <1>5
      <3>2. \A i \in 1..Len(queue) : FALSE
        BY <1>2
      <3>3. \A c \in Caller : ~Owes(c, s, w)
        BY <1>4
      <3> QED BY <3>1, <3>2, <3>3 DEF InOnePlace
    <2>3. \A s \in Session, w \in Once : ~Ever(s, w)
      BY <1>4, <1>5 DEF Ever
    <2> QED BY <2>1, <2>2, <2>3 DEF OnceInv, Latches
  <1>7. ForgetInv
    BY <1>2, <1>4 DEF ForgetInv
  <1> QED BY <1>1, <1>3, <1>6, <1>7 DEF PInv

\* Sessions come and learn of the file; the store closes.
LEMMA AsideKeeps ==
  ASSUME PInv, TypeOK', Opens, UNCHANGED <<caller, queue, tally, point>>
  PROVE  PInv'
  <1>1. Drained(0)
    <2>1. Len(queue) \in Nat
      BY DEF PInv, TypeOK
    <2> QED BY <2>1 DEF Drained
  <1>2. \A c \in Caller, s \in Session, w \in Once \cup {"resume"} :
          Owes(c, s, w)' => Owes(c, s, w)
    BY DEF Owes
  <1>3. CallsInv'
    BY DEF PInv, CallsInv
  <1>4. OnceInv'
    BY <1>1, <1>2, OnceSpares DEF PInv
  <1>5. ForgetInv'
    BY <1>1, <1>2, ForgetSpares DEF PInv
  <1> QED BY <1>3, <1>4, <1>5 DEF PInv

LEMMA OpensKeep ==
  ASSUME PInv, OpenPlayback \/ CloseStore \/ \E s \in Session :
           ReportChapters(s) \/ \E o \in Outro \cup {Never} : LookupEnds(s, o)
  PROVE  PInv'
  <1> USE DEF PInv
  <1>1. next \in 0..MaxSession /\ open \subseteq 1..next /\ next \in Nat
        /\ session \in [Session -> Opened] /\ open \subseteq Session
    BY PlaybackAssumption DEF TypeOK, Session
  <1>2. CASE OpenPlayback
    <2>1. TypeOK'
      BY <1>1, <1>2, PlaybackAssumption DEF OpenPlayback, rows, TypeOK, Session
    <2>2. Opens
      BY <1>1, <1>2 DEF OpenPlayback, Opens, Session
    <2> QED BY <1>2, <2>1, <2>2, AsideKeeps DEF OpenPlayback, rows
  <1>3. CASE CloseStore
    <2>1. TypeOK'
      BY <1>3 DEF CloseStore, TypeOK
    <2>2. Opens
      BY <1>1, <1>3 DEF CloseStore, Opens
    <2> QED BY <1>3, <2>1, <2>2, AsideKeeps DEF CloseStore
  <1>4. ASSUME NEW s \in Session, ReportChapters(s)
        PROVE  PInv'
    <2> DEFINE x == [session[s] EXCEPT !.duration = TRUE]
    <2>1. session[s] \in Opened
      BY <1>1
    <2>2. x \in Opened /\ \A w \in Once : Latch(session[s], w) => Latch(x, w)
      BY <2>1 DEF Opened, Latch
    <2>3. session' = [session EXCEPT ![s] = x]
      BY <1>1, <1>4 DEF ReportChapters
    <2> HIDE DEF x
    <2>4. /\ session' \in [Session -> Opened]
          /\ \A r \in Session, w \in Once :
               Latch(session[r], w) => Latch(session'[r], w)
      BY <1>1, <2>2, <2>3
    <2>5. TypeOK'
      BY <1>4, <2>4 DEF ReportChapters, rows, TypeOK
    <2>6. Opens
      <3>1. UNCHANGED <<next, open>>
        BY <1>4 DEF ReportChapters
      <3> QED BY <1>1, <2>4, <3>1 DEF Opens
    <2> QED BY <1>4, <2>5, <2>6, AsideKeeps DEF ReportChapters, rows
  <1>5. ASSUME NEW s \in Session, NEW o \in Outro \cup {Never}, LookupEnds(s, o)
        PROVE  PInv'
    <2> DEFINE x == [session[s] EXCEPT !.outro = o]
    <2>1. session[s] \in Opened
      BY <1>1
    <2>2. x \in Opened /\ \A w \in Once : Latch(session[s], w) => Latch(x, w)
      BY <2>1 DEF Opened, Latch
    <2>3. session' = session \/ session' = [session EXCEPT ![s] = x]
      BY <1>1, <1>5 DEF LookupEnds
    <2> HIDE DEF x
    <2>4. /\ session' \in [Session -> Opened]
          /\ \A r \in Session, w \in Once :
               Latch(session[r], w) => Latch(session'[r], w)
      BY <1>1, <2>2, <2>3
    <2>5. TypeOK'
      BY <1>5, <2>4 DEF LookupEnds, rows, TypeOK
    <2>6. Opens
      BY <1>1, <1>5, <2>4 DEF LookupEnds, Opens
    <2> QED BY <1>5, <2>5, <2>6, AsideKeeps DEF LookupEnds, rows
  <1> QED BY <1>2, <1>3, <1>4, <1>5

LEMMA ServingOwes ==
  ASSUME NEW s \in Session, NEW t \in Seq(EffectSet), Apart(t),
         NEW x, x.viewed \in BOOLEAN
  PROVE  /\ Serving(s, x, t) \in Call
         /\ Stands(Serving(s, x, t))
         /\ OwedBy(Serving(s, x, t)) \subseteq Whats(t)
         /\ Serving(s, x, t).s = s \/ OwedBy(Serving(s, x, t)) = {}
  <1>1. CASE t = <<>>
    BY <1>1, IdleOwes DEF Serving, Stands
  <1>2. CASE t # <<>>
    <2> DEFINE y == [at |-> "apply", s |-> s, todo |-> t, watched |-> x.viewed]
    <2>1. Serving(s, x, t) = y
      BY <1>2 DEF Serving
    <2>2. y \in Call /\ y.at = "apply" /\ y.s = s /\ y.todo = t
      BY DEF Call, Stage
    <2> HIDE DEF y
    <2>3. s # 0
      BY DEF Session
    <2> QED BY <1>2, <2>1, <2>2, <2>3 DEF Stands, OwedBy
  <1> QED BY <1>1, <1>2

\* A call starts: what it has in hand, its session fired just now.
LEMMA ServesKeep ==
  ASSUME PInv, TypeOK', NEW c \in Caller, NEW s \in open,
         caller[c] = Idle, NEW y \in Call, Stands(y),
         caller' = [caller EXCEPT ![c] = y],
         y.s = s \/ OwedBy(y) = {},
         \A w \in OwedBy(y) \cap Once :
           ~Latch(session[s], w) /\ (s \in open' => Latch(session'[s], w)),
         "resume" \in OwedBy(y) =>
           ~session[s].completed /\ "complete" \notin OwedBy(y),
         Opens, UNCHANGED <<next, queue, tally, point>>
  PROVE  PInv'
  <1> USE DEF PInv
  <1>1. \A d \in Caller : caller'[d] = IF d = c THEN y ELSE caller[d]
    BY DEF TypeOK
  <1>2. CallsInv'
    <2>1. caller[c].at # "wait"
      BY IdleOwes
    <2> QED BY <2>1, CallsMove
  <1>3. \A r \in Session : \A w : ~Owes(c, r, w)
    BY IdleOwes DEF Owes
  <1>4. \A r \in Session : \A w : Owes(c, r, w)' => r = s /\ w \in OwedBy(y)
    BY <1>1 DEF Owes
  <1>5. OnceInv'
    <2>1. \A d \in Caller \ {c} : caller'[d] = caller[d]
      BY <1>1
    <2>2. \A r \in Session, w \in Once :
            Owes(c, r, w)' => /\ r = s /\ ~Latch(session[s], w)
                              /\ s \in open' => Latch(session'[s], w)
      BY <1>4
    <2> QED BY <1>3, <2>1, <2>2, OnceServes
  <1>6. ForgetInv'
    <2>1. s \in Session
      BY PlaybackAssumption DEF TypeOK, Session
    <2>2. Latch(session[s], "complete") = session[s].completed
      BY DEF Latch
    <2>3. Owes(c, s, "resume")' =>
            ~Latch(session[s], "complete") /\ ~Owes(c, s, "complete")'
      BY <1>4, <2>1, <2>2
    <2> QED BY <1>3, <1>4, <2>3, ForgetServes
  <1> QED BY <1>2, <1>5, <1>6

LEMMA TickKeeps ==
  ASSUME PInv, NEW c \in Caller, NEW s \in Session,
         NEW p \in Position \cup {Bad}, NEW k \in {"playing", "paused"},
         Tick(c, s, p, k)
  PROVE  PInv'
  <1> USE DEF PInv
  <1> DEFINE x == session[s]
             t == Effects(x, p, k)
             y == Serving(s, session'[s], t)
  <1>1. /\ s \in open /\ x \in Opened /\ k \in Kind /\ shape \in Shape
        /\ caller[c] = Idle
    BY DEF Tick, TypeOK, Kind
  <1>2. /\ session' = [session EXCEPT ![s] = Ticked(x, p, k)]
        /\ caller' = [caller EXCEPT ![c] = y]
        /\ UNCHANGED <<shape, next, open, lookup, queue, word, store, point,
                       shown, tally, lost>>
    BY DEF Tick, rows
  <1>3. /\ t \in Seq(EffectSet) /\ Apart(t)
        /\ \A w \in Whats(t) : w \in Once \cup {"resume"} /\ Fires(x, p, k, w)
    BY <1>1, EffectsFire
  <1>4. /\ Ticked(x, p, k) \in Opened
        /\ \A w \in Once : Latch(x, w) => Latch(Ticked(x, p, k), w)
        /\ \A w \in Once :
             Fires(x, p, k, w) => ~Latch(x, w) /\ Latch(Ticked(x, p, k), w)
    BY <1>1, TickedLatches
  <1>5. /\ session' \in [Session -> Opened]
        /\ session'[s] = Ticked(x, p, k)
        /\ \A r \in Session \ {s} : session'[r] = session[r]
    BY <1>2, <1>4 DEF TypeOK
  <1> HIDE DEF t
  <1>6. /\ y \in Call /\ Stands(y) /\ OwedBy(y) \subseteq Whats(t)
        /\ y.s = s \/ OwedBy(y) = {}
    <2>1. session'[s].viewed \in BOOLEAN
      BY <1>4, <1>5 DEF Opened
    <2> QED BY <1>3, <2>1, ServingOwes
  <1> HIDE DEF y
  <1>7. TypeOK'
    BY <1>2, <1>5, <1>6 DEF TypeOK
  <1>8. Opens
    <2>1. next \in Nat /\ open \subseteq Session
      BY PlaybackAssumption DEF TypeOK, Session
    <2> QED BY <1>2, <1>4, <1>5, <2>1 DEF Opens
  <1>9. \A w \in OwedBy(y) \cap Once :
          ~Latch(session[s], w) /\ (s \in open' => Latch(session'[s], w))
    BY <1>3, <1>4, <1>5, <1>6
  <1>10. "resume" \in OwedBy(y) =>
           ~session[s].completed /\ "complete" \notin OwedBy(y)
    <2>1. Fires(x, p, k, "resume") =>
            ~x.completed /\ ~Fires(x, p, k, "complete")
      BY DEF Fires, Resumes
    <2> QED BY <1>3, <1>6, <2>1
  <1> HIDE DEF x
  <1> QED BY <1>1, <1>2, <1>6, <1>7, <1>8, <1>9, <1>10, ServesKeep

LEMMA CloseKeeps ==
  ASSUME PInv, NEW c \in Caller, NEW s \in Session,
         NEW p \in Position \cup {Bad}, NEW reason \in {"stopped", "ended"},
         ClosePlayback(c, s, p, reason)
  PROVE  PInv'
  <1> USE DEF PInv
  <1> DEFINE x == session[s]
             t == ClosingEffects(x, p, reason)
             z == Ticked(x, p, "closing")
             y == Serving(s, z, t)
  <1>1. /\ s \in open /\ x \in Opened /\ "closing" \in Kind /\ shape \in Shape
        /\ caller[c] = Idle
    BY DEF ClosePlayback, TypeOK, Kind
  <1>2. /\ session' = [session EXCEPT ![s] = NewSession]
        /\ caller' = [caller EXCEPT ![c] = y]
        /\ open' = open \ {s}
        /\ word' = [by |-> s, at |-> p,
                    done |-> z.completed \/ reason = "ended"]
        /\ UNCHANGED <<shape, next, lookup, queue, store, point, shown, tally,
                       lost>>
    BY DEF ClosePlayback, rows
  <1>3. /\ t \in Seq(EffectSet) /\ Apart(t)
        /\ \A w \in Whats(t) :
             w \in Once \cup {"resume"} /\ (w \in Once => ~Latch(x, w))
        /\ "complete" \in Whats(t) => "resume" \notin Whats(t)
        /\ x.completed => "resume" \notin Whats(t)
    BY <1>1, ClosingFires
  <1>4. z \in Opened
    BY <1>1, TickedLatches
  <1> HIDE DEF t, z
  <1>5. /\ y \in Call /\ Stands(y) /\ OwedBy(y) \subseteq Whats(t)
        /\ y.s = s \/ OwedBy(y) = {}
    <2>1. z.viewed \in BOOLEAN
      BY <1>4 DEF Opened
    <2> QED BY <1>3, <2>1, ServingOwes
  <1> HIDE DEF y
  <1>6. /\ session' \in [Session -> Opened]
        /\ \A r \in Session \ {s} : session'[r] = session[r]
    <2>1. NewSession \in Opened
      BY PlaybackAssumption DEF NewSession, Opened
    <2> QED BY <1>2, <2>1 DEF TypeOK
  <1>7. TypeOK'
    <2>1. word' \in [by : Session \cup {0}, at : Position \cup {Bad},
                     done : BOOLEAN]
      BY <1>2, <1>4 DEF Opened
    <2> QED BY <1>2, <1>5, <1>6, <2>1 DEF TypeOK
  <1>8. Opens
    <2>1. next \in Nat /\ open \subseteq Session
      BY PlaybackAssumption DEF TypeOK, Session
    <2> QED BY <1>2, <1>6, <2>1 DEF Opens
  <1>9. /\ \A w \in OwedBy(y) \cap Once :
             ~Latch(session[s], w) /\ (s \in open' => Latch(session'[s], w))
        /\ "resume" \in OwedBy(y) =>
             ~session[s].completed /\ "complete" \notin OwedBy(y)
    BY <1>2, <1>3, <1>5
  <1> HIDE DEF x
  <1> QED BY <1>1, <1>2, <1>5, <1>7, <1>8, <1>9, ServesKeep

\* A call goes on and may give up effects.
LEMMA MovesKeep ==
  ASSUME PInv, TypeOK', NEW c \in Caller, NEW y \in Call, Stands(y),
         caller' = [caller EXCEPT ![c] = y], caller[c].at # "wait",
         y.s = caller[c].s \/ OwedBy(y) = {},
         OwedBy(y) \subseteq OwedBy(caller[c]),
         UNCHANGED <<next, open, session, queue, tally, point>>
  PROVE  PInv'
  <1> USE DEF PInv
  <1>1. \A d \in Caller : caller'[d] = IF d = c THEN y ELSE caller[d]
    BY DEF TypeOK
  <1>2. \A d \in Caller, r \in Session : \A w : Owes(d, r, w)' => Owes(d, r, w)
    BY <1>1 DEF Owes
  <1>3. Drained(0) /\ Opens
    BY PlaybackAssumption DEF TypeOK, Drained, Opens
  <1>4. CallsInv'
    BY CallsMove
  <1>5. OnceInv'
    BY <1>2, <1>3, OnceSpares
  <1>6. ForgetInv'
    BY <1>2, <1>3, ForgetSpares
  <1> QED BY <1>4, <1>5, <1>6

\* A call hands an effect to the writer and goes on.
LEMMA SendsKeep ==
  ASSUME PInv, TypeOK', NEW c \in Caller, NEW y \in Call, Stands(y),
         caller' = [caller EXCEPT ![c] = y], caller[c].at # "wait",
         y.s = caller[c].s, OwedBy(y) \subseteq OwedBy(caller[c]),
         NEW task \in Task, queue' = Append(queue, task),
         task.s = caller[c].s, task.do \in OwedBy(caller[c]) \ OwedBy(y),
         task.for # None => task.for = c /\ y.at = "wait",
         UNCHANGED <<next, open, session, tally, point>>
  PROVE  PInv'
  <1> USE DEF PInv
  <1>1. \A d \in Caller : caller'[d] = IF d = c THEN y ELSE caller[d]
    BY DEF TypeOK
  <1>2. \A d \in Caller, r \in Session : \A w : Owes(d, r, w)' => Owes(d, r, w)
    BY <1>1 DEF Owes
  <1>3. Owes(c, task.s, task.do) /\ ~Owes(c, task.s, task.do)'
    BY <1>1 DEF Owes
  <1>4. CallsInv'
    BY CallsSend
  <1>5. OnceInv'
    BY <1>2, <1>3, OnceSends
  <1>6. ForgetInv'
    BY <1>2, <1>3, ForgetSends
  <1> QED BY <1>4, <1>5, <1>6

\* A thread that applies an effect has it in hand.
LEMMA AppliesOne ==
  ASSUME TypeOK, CallsInv, NEW c \in Caller, NEW what, Applying(c, what)
  PROVE  /\ caller[c] \in Call /\ caller[c].at = "apply"
         /\ caller[c].todo # <<>> /\ caller[c].s \in Session
         /\ Apart(caller[c].todo)
         /\ Now(c) = caller[c].todo[1]
         /\ Now(c) \in EffectSet /\ Now(c).what = what
  <1>1. /\ caller[c] \in Call /\ caller[c].at = "apply"
        /\ Now(c) = caller[c].todo[1] /\ Now(c).what = what
    BY DEF Applying, Now, TypeOK
  <1>2. /\ caller[c].todo # <<>> /\ caller[c].s # 0 /\ Apart(caller[c].todo)
    BY <1>1 DEF CallsInv, Stands
  <1>3. caller[c].todo \in Seq(EffectSet) /\ caller[c].s \in Session
    BY <1>1, <1>2 DEF Call
  <1> QED BY <1>1, <1>2, <1>3, TailOwes

LEMMA SendKeeps ==
  ASSUME PInv, NEW c \in Caller, Send(c)
  PROVE  PInv'
  <1> USE DEF PInv
  <1>1. PICK what \in {"view", "complete"} : Applying(c, what)
    BY DEF Send
  <1> DEFINE x == caller[c]
             y == [x EXCEPT !.at = "wait"]
             task == [do |-> Now(c).what, s |-> x.s, at |-> Now(c).at,
                      log |-> x.watched, for |-> c]
  <1>2. /\ x \in Call /\ x.at = "apply" /\ x.todo # <<>> /\ x.s \in Session
        /\ Apart(x.todo) /\ Now(c) = x.todo[1] /\ Now(c) \in EffectSet
        /\ Now(c).what = what
    BY <1>1, AppliesOne
  <1>3. UNCHANGED <<shape, next, open, session, lookup, store, point, shown,
                    tally, word>>
    BY DEF Send
  <1>4. CASE store = "open"
    <2>1. /\ queue' = Append(queue, task) /\ caller' = [caller EXCEPT ![c] = y]
          /\ lost' = lost
      BY <1>4 DEF Send
    <2>2. "wait" \in Stage \ {"idle", "apply"}
      BY DEF Stage
    <2>3. /\ y \in Call /\ y.at = "wait" /\ y.s = x.s /\ y.todo = x.todo
          /\ OwedBy(y) \subseteq OwedBy(x)
          /\ what \in OwedBy(x) \ OwedBy(y)
      <3> HIDE DEF x
      <3> QED BY <1>2, <2>2, Stays
    <2>4. /\ task \in Task /\ task.do = what /\ task.s = x.s /\ task.for = c
      BY <1>2 DEF Task, EffectSet, Call
    <2> HIDE DEF task, y
    <2>5. Stands(y)
      BY <1>2, <2>3 DEF Stands, Session
    <2>6. queue' \in Seq(Task)
      BY <2>1, <2>4, AppendProperties DEF TypeOK
    <2>7. TypeOK'
      BY <1>3, <2>1, <2>3, <2>6 DEF TypeOK
    <2> QED BY <1>2, <1>3, <2>1, <2>3, <2>4, <2>5, <2>7, SendsKeep
  <1>5. CASE store # "open"
    <2>1. caller' = [caller EXCEPT ![c] = Idle] /\ lost' = TRUE /\ queue' = queue
      BY <1>5 DEF Send
    <2>2. Stands(Idle)
      BY IdleOwes DEF Stands
    <2>3. TypeOK'
      BY <1>3, <2>1, IdleOwes DEF TypeOK
    <2> QED BY <1>2, <1>3, <2>1, <2>2, <2>3, IdleOwes, MovesKeep
  <1> QED BY <1>4, <1>5

LEMMA PostKeeps ==
  ASSUME PInv, NEW c \in Caller, Post(c)
  PROVE  PInv'
  <1> USE DEF PInv
  <1> DEFINE x == caller[c]
             y == [x EXCEPT !.at = "say"]
             task == [do |-> "resume", s |-> x.s, at |-> Now(c).at,
                      log |-> FALSE, for |-> None]
  <1>1. /\ x \in Call /\ x.at = "apply" /\ x.todo # <<>> /\ x.s \in Session
        /\ Apart(x.todo) /\ Now(c) = x.todo[1] /\ Now(c) \in EffectSet
        /\ Now(c).what = "resume"
    BY AppliesOne DEF Post
  <1>2. /\ UNCHANGED <<shape, next, open, session, lookup, store, point, shown,
                       tally, word>>
        /\ caller' = [caller EXCEPT ![c] = y]
        /\ lost' \in BOOLEAN
        /\ queue' = IF store = "open" THEN Append(queue, task) ELSE queue
    BY DEF Post
  <1>3. "say" \in Stage \ {"idle", "apply"}
    BY DEF Stage
  <1>4. /\ y \in Call /\ y.at = "say" /\ y.s = x.s /\ y.todo = x.todo
        /\ OwedBy(y) \subseteq OwedBy(x)
        /\ "resume" \in OwedBy(x) \ OwedBy(y)
    <2> HIDE DEF x
    <2> QED BY <1>1, <1>3, Stays
  <1>5. task \in Task /\ task.do = "resume" /\ task.s = x.s /\ task.for = None
    BY <1>1 DEF Task, EffectSet
  <1> HIDE DEF task, y
  <1>6. Stands(y)
    BY <1>1, <1>4 DEF Stands, Session
  <1>7. queue' \in Seq(Task)
    BY <1>2, <1>5, AppendProperties DEF TypeOK
  <1>8. TypeOK'
    BY <1>2, <1>4, <1>7 DEF TypeOK
  <1>9. CASE store = "open"
    <2>1. queue' = Append(queue, task)
      BY <1>2, <1>9
    <2> QED BY <1>1, <1>2, <1>4, <1>5, <1>6, <1>8, <2>1, SendsKeep
  <1>10. CASE store # "open"
    <2>1. queue' = queue
      BY <1>2, <1>10
    <2> QED BY <1>1, <1>2, <1>4, <1>6, <1>8, <2>1, MovesKeep
  <1> QED BY <1>9, <1>10

LEMMA RepliesKeep ==
  ASSUME PInv, NEW c \in Caller, Say(c) \/ Replied(c) \/ Failed(c)
  PROVE  PInv'
  <1> USE DEF PInv
  <1>1. caller[c].at \in {"say", "replied", "failed"}
    BY DEF Say, Replied, Failed
  <1>2. /\ UNCHANGED <<shape, next, open, session, lookup, queue, store, point,
                       tally, word, lost>>
        /\ caller' = [caller EXCEPT ![c] = Served(c)]
             \/ caller' = [caller EXCEPT ![c] = Idle]
    BY DEF Say, Replied, Failed, rows
  <1>3. shown' \in Position \cup {Never}
    <2>1. CASE Say(c)
      <3>1. caller[c].todo \in Seq(EffectSet) /\ caller[c].todo # <<>>
        BY <1>1 DEF CallsInv, Stands, TypeOK, Call
      <3>2. Now(c) \in EffectSet
        BY <3>1, TailOwes DEF Now
      <3> QED BY <2>1, <3>2 DEF Say, EffectSet
    <2>2. CASE Replied(c) \/ Failed(c)
      BY <2>2 DEF Replied, Failed, rows, TypeOK
    <2> QED BY <2>1, <2>2
  <1>4. Stands(Idle)
    BY IdleOwes DEF Stands
  <1>5. PICK y \in {Served(c), Idle} : caller' = [caller EXCEPT ![c] = y]
    BY <1>2
  <1>6. /\ y \in Call /\ Stands(y) /\ OwedBy(y) \subseteq OwedBy(caller[c])
        /\ y.s = caller[c].s \/ OwedBy(y) = {}
    BY <1>1, <1>4, <1>5, IdleOwes, ServedOwes
  <1>7. TypeOK'
    BY <1>2, <1>3, <1>5, <1>6 DEF TypeOK
  <1> QED BY <1>1, <1>2, <1>5, <1>6, <1>7, MovesKeep

LEMMA MarkKeeps ==
  ASSUME PInv, NEW c \in Caller, Mark(c)
  PROVE  PInv'
  <1> USE DEF PInv
  <1> DEFINE x == caller[c]
             y == Served(c)
  <1>1. PICK s \in Session : /\ x \in Call /\ x.at = "apply" /\ s = x.s
                            /\ Now(c).what = "mark"
    BY AppliesOne DEF Mark
  <1> DEFINE more == [tally[s] EXCEPT !.mark = @ + 1]
  <1>2. /\ UNCHANGED <<shape, next, open, session, lookup, queue, store, point,
                       shown, word, lost>>
        /\ caller' = [caller EXCEPT ![c] = y]
        /\ tally' = [tally EXCEPT ![s] = more]
    BY <1>1 DEF Mark, TypeOK
  <1>3. /\ y \in Call /\ Stands(y) /\ y.at # "wait"
        /\ OwedBy(y) \subseteq OwedBy(x)
        /\ "mark" \in OwedBy(x) \ OwedBy(y)
        /\ y.s = s \/ OwedBy(y) = {}
    BY <1>1, ServedOwes, IdleOwes
  <1>4. tally[s] \in Tally
    BY <1>1 DEF TypeOK
  <1>5. /\ more \in Tally /\ more.mark = tally[s].mark + 1
        /\ more.view = tally[s].view /\ more.complete = tally[s].complete
        /\ more.finish = tally[s].finish
    BY <1>4 DEF Tally
  <1> HIDE DEF x, y, more
  <1>6. \A r \in Session : tally'[r] = IF r = s THEN more ELSE tally[r]
    BY <1>1, <1>2 DEF TypeOK
  <1>7. TypeOK'
    <2>1. tally' \in [Session -> Tally]
      BY <1>1, <1>2, <1>5 DEF TypeOK
    <2> QED BY <1>2, <1>3, <2>1 DEF TypeOK
  <1>8. \A d \in Caller : caller'[d] = IF d = c THEN y ELSE caller[d]
    BY <1>2 DEF TypeOK
  <1>9. /\ \A d \in Caller, r \in Session : \A w : Owes(d, r, w)' => Owes(d, r, w)
        /\ Owes(c, s, "mark") /\ ~Owes(c, s, "mark")'
    BY <1>1, <1>3, <1>8 DEF Owes, x
  <1>10. Drained(0)
    BY <1>2 DEF TypeOK, Drained
  <1>11. CallsInv'
    BY <1>1, <1>2, <1>3, CallsMove DEF x
  <1>12. /\ Told(s, "mark")' = Told(s, "mark") + 1
         /\ \A r \in Session, w \in Once :
              <<r, w>> # <<s, "mark">> => Told(r, w)' = Told(r, w)
         /\ \A r \in Session : /\ tally'[r].finish <= tally'[r].complete
                               /\ tally'[r].complete = tally[r].complete
    <2>1. Told(s, "mark")' = Told(s, "mark") + 1
      BY <1>1, <1>5, <1>6 DEF Told
    <2>2. ASSUME NEW r \in Session, NEW w \in Once, <<r, w>> # <<s, "mark">>
          PROVE  Told(r, w)' = Told(r, w)
      <3>1. CASE r = s
        BY <1>5, <1>6, <2>2, <3>1 DEF Told, Once
      <3>2. CASE r # s
        BY <1>6, <3>2 DEF Told
      <3> QED BY <3>1, <3>2
    <2>3. \A r \in Session : /\ tally'[r].finish <= tally'[r].complete
                             /\ tally'[r].complete = tally[r].complete
      BY <1>5, <1>6 DEF OnceInv
    <2> QED BY <2>1, <2>2, <2>3
  <1>13. OnceInv'
    <2>1. "mark" \in Once
      BY DEF Once
    <2>2. \E d \in Caller : Owes(d, s, "mark") /\ ~Owes(d, s, "mark")'
      BY <1>9
    <2>3. \A d \in Caller, r \in Session, w \in Once :
            Owes(d, r, w)' => Owes(d, r, w)
      BY <1>9
    <2>4. \A r \in Session : tally'[r].finish <= tally'[r].complete
      BY <1>12
    <2>5. UNCHANGED <<next, open, session>>
      BY <1>2
    <2> QED BY <1>1, <1>10, <1>12, <2>1, <2>2, <2>3, <2>4, <2>5, OnceHas
  <1>14. ForgetInv'
    BY <1>2, <1>9, <1>10, <1>12, ForgetSpares
  <1> QED BY <1>7, <1>11, <1>13, <1>14

\* The writer's task, run or failed.
LEMMA RunKeeps ==
  ASSUME PInv, RunTask
  PROVE  PInv'
  <1> USE DEF PInv
  <1>0. PICK t : t = queue[1]
    OBVIOUS
  <1> DEFINE s == t.s
  <1>1. /\ queue # <<>> /\ "replied" \in {"replied", "failed"}
        /\ caller' = Answered(t, "replied") /\ queue' = Tail(queue)
        /\ point' = PointAfter(t) /\ tally' = Tallied(t)
        /\ UNCHANGED <<shape, next, open, session, lookup, store, shown, word,
                       lost>>
    BY <1>0 DEF RunTask
  <1>2. /\ CallsInv' /\ caller' \in [Caller -> Call] /\ t \in Task
        /\ queue' \in Seq(Task) /\ Drained(1) /\ Len(queue) \in Nat \ {0}
        /\ \A d \in Caller, r \in Session : \A w : Owes(d, r, w)' => Owes(d, r, w)
    BY <1>0, <1>1, CallsAnswer
  <1> DEFINE n == tally[s]
             v == IF t.do = "view" THEN n.view + 1 ELSE n.view
             f == IF t.do = "complete" THEN n.complete + 1 ELSE n.complete
             l == IF t.do = "complete" /\ t.log /\ shape # "extra"
                  THEN n.finish + 1 ELSE n.finish
             more == [n EXCEPT !.view = v, !.complete = f, !.finish = l]
  <1>3. t.do \in {"view", "complete", "resume"} /\ s \in Session
        /\ t.at \in Position
    BY <1>2 DEF Task
  <1>4. n \in Tally
    BY <1>3 DEF TypeOK
  <1>5. tally' = [tally EXCEPT ![s] = more]
    BY <1>1, <1>3, <1>4 DEF Tallied, TypeOK
  <1>6. v \in Nat /\ f \in Nat /\ l \in Nat /\ n.mark \in Nat
    BY <1>4 DEF Tally
  <1> HIDE DEF v, f, l
  <1>7. /\ more \in Tally /\ more.view = v /\ more.complete = f
        /\ more.finish = l /\ more.mark = n.mark
    BY <1>4, <1>6 DEF Tally
  <1> HIDE DEF more
  <1>8. \A r \in Session : tally'[r] = IF r = s THEN more ELSE tally[r]
    BY <1>3, <1>5 DEF TypeOK
  <1>9. TypeOK'
    <2>1. tally' \in [Session -> Tally]
      BY <1>3, <1>5, <1>7 DEF TypeOK
    <2>2. point' \in Row \cup {NoRow}
      BY <1>1, <1>3 DEF PointAfter, Row, TypeOK
    <2> QED BY <1>1, <1>2, <2>1, <2>2 DEF TypeOK
  <1>10. \A r \in Session : tally'[r].finish <= tally'[r].complete
    <2>1. n.finish <= n.complete
      BY <1>3 DEF OnceInv
    <2>2. l <= f
      BY <1>4, <2>1 DEF l, f, Tally
    <2> QED BY <1>7, <1>8, <2>2 DEF OnceInv
  <1>11. \A r \in Session :
           tally'[r].complete = IF Asks(t, r, "complete")
                                THEN tally[r].complete + 1
                                ELSE tally[r].complete
    BY <1>7, <1>8 DEF Asks, f
  <1>12. OnceInv'
    <2>1. \A d \in Caller, r \in Session, w \in Once :
            Owes(d, r, w)' => Owes(d, r, w)
      BY <1>2
    <2>2. CASE t.do = "resume"
      <3>1. more = n
        <4>1. v = n.view /\ f = n.complete /\ l = n.finish
          BY <2>2 DEF v, f, l
        <4> QED BY <1>4, <4>1 DEF more, Tally
      <3>2. tally' = tally
        BY <1>5, <3>1 DEF TypeOK
      <3>3. Opens
        BY <1>1, PlaybackAssumption DEF Opens, TypeOK
      <3> QED BY <1>2, <2>1, <3>2, <3>3, OnceSpares
    <2>3. CASE t.do \in Once
      <3> DEFINE e == t.do
      <3>1. Told(s, e)' = Told(s, e) + 1
        BY <1>3, <1>7, <1>8, <2>3 DEF Told, v, f, Once
      <3>2. ASSUME NEW r \in Session, NEW w \in Once, <<r, w>> # <<s, e>>
            PROVE  Told(r, w)' = Told(r, w)
        <4>1. CASE r = s
          BY <1>3, <1>7, <1>8, <3>2, <4>1 DEF Told, v, f, Once
        <4>2. CASE r # s
          BY <1>8, <4>2 DEF Told
        <4> QED BY <4>1, <4>2
      <3>3. Len(queue) > 0 /\ Asks(queue[1], s, e)
        BY <1>0, <1>2 DEF Asks
      <3>4. UNCHANGED <<next, open, session>>
        BY <1>1
      <3> HIDE DEF e
      <3> QED BY <1>2, <1>3, <1>10, <2>1, <2>3, <3>1, <3>2, <3>3, <3>4,
                 OnceHas DEF e
    <2> QED BY <1>3, <2>2, <2>3 DEF Once
  <1>13. ForgetInv'
    <2>1. \A d \in Caller, r \in Session, w \in Once \cup {"resume"} :
            Owes(d, r, w)' => Owes(d, r, w)
      BY <1>2
    <2> QED BY <1>1, <1>2, <1>11, <2>1, <1>0, ForgetRuns
  <1> QED BY <1>2, <1>9, <1>12, <1>13

LEMMA FailKeeps ==
  ASSUME PInv, TaskFails
  PROVE  PInv'
  <1> USE DEF PInv
  <1>1. /\ queue # <<>> /\ "failed" \in {"replied", "failed"}
        /\ caller' = Answered(queue[1], "failed") /\ queue' = Tail(queue)
        /\ lost' = TRUE
        /\ UNCHANGED <<shape, next, open, session, lookup, store, point, shown,
                       tally, word>>
    BY DEF TaskFails
  <1>2. /\ CallsInv' /\ caller' \in [Caller -> Call]
        /\ queue' \in Seq(Task) /\ Drained(1)
        /\ \A d \in Caller, r \in Session : \A w : Owes(d, r, w)' => Owes(d, r, w)
    BY <1>1, CallsAnswer
  <1>3. TypeOK'
    BY <1>1, <1>2 DEF TypeOK
  <1>4. Opens
    BY <1>1, PlaybackAssumption DEF Opens, TypeOK
  <1>5. OnceInv'
    BY <1>1, <1>2, <1>4, OnceSpares
  <1>6. ForgetInv'
    BY <1>1, <1>2, ForgetSpares
  <1> QED BY <1>2, <1>3, <1>5, <1>6

LEMMA PlaybackStep ==
  ASSUME PInv, [Next]_vars
  PROVE  PInv'
  <1>1. CASE UNCHANGED vars
    <2>1. TypeOK'
      BY <1>1 DEF vars, PInv, TypeOK
    <2>2. Opens
      BY <1>1, PlaybackAssumption DEF vars, Opens, PInv, TypeOK
    <2> QED BY <1>1, <2>1, <2>2, AsideKeeps DEF vars
  <1>2. CASE Next
    <2>1. CASE OpenPlayback \/ CloseStore \/ \E s \in Session :
                 \/ ReportChapters(s)
                 \/ \E o \in Outro \cup {Never} : LookupEnds(s, o)
      BY <2>1, OpensKeep
    <2>2. CASE \E c \in Caller, s \in Session, p \in Position \cup {Bad} :
                 \/ \E k \in {"playing", "paused"} : Tick(c, s, p, k)
                 \/ \E reason \in {"stopped", "ended"} :
                      ClosePlayback(c, s, p, reason)
      BY <2>2, TickKeeps, CloseKeeps
    <2>3. CASE \E c \in Caller : Apply(c)
      BY <2>3, SendKeeps, MarkKeeps, PostKeeps, RepliesKeep DEF Apply
    <2>4. CASE Writer
      BY <2>4, RunKeeps, FailKeeps DEF Writer
    <2> QED BY <1>2, <2>1, <2>2, <2>3, <2>4 DEF Next
  <1> QED BY <1>1, <1>2

-----------------------------------------------------------------------------
(* What is promised                                                        *)

\* What holds throughout: the invariant the theorems below rest on.
LEMMA PlaybackInvariant == Spec => []PInv
  <1>1. PInv /\ [Next]_vars => PInv'
    BY PlaybackStep
  <1> QED BY <1>1, PlaybackInit, PTL DEF Spec

LEMMA OnceAtMost == PInv => AtMostOnce
  <1> SUFFICES ASSUME PInv, NEW s \in Session
               PROVE  /\ tally[s].view <= 1 /\ tally[s].mark <= 1
                      /\ tally[s].complete <= 1 /\ tally[s].finish <= 1
    BY DEF AtMostOnce
  <1>1. \A w \in Once : Told(s, w) <= 1
    BY DEF PInv, OnceInv, InOnePlace
  <1>2. tally[s].view <= 1 /\ tally[s].mark <= 1 /\ tally[s].complete <= 1
    BY <1>1 DEF Told, Once
  <1>3. tally[s] \in Tally /\ tally[s].finish <= tally[s].complete
    BY DEF PInv, TypeOK, OnceInv
  <1> QED BY <1>2, <1>3 DEF Tally

\* Whatever threads tick and close a session, it is viewed, marked, completed
\* and logged as finished once at most.
THEOREM PlaybackAtMostOnce == Spec => []AtMostOnce
  BY PlaybackInvariant, OnceAtMost, PTL

\* Called from one thread, each of a session's rules has its effect once and
\* a completion keeps the resume point away.
THEOREM PlaybackRulesHold ==
  ASSUME \A c, d \in Caller : c = d
  PROVE  Spec => []RulesHold
  <1>1. PInv => RulesHold
    <2> SUFFICES ASSUME PInv PROVE RulesHold
      OBVIOUS
    <2>1. TypeOK /\ AtMostOnce
      BY OnceAtMost DEF PInv
    <2>2. CompletedForgets
      <3>1. SUFFICES ASSUME point # NoRow PROVE tally[point.by].complete = 0
        BY DEF CompletedForgets
      <3>2. point.by \in Session
        BY <2>1, <3>1 DEF TypeOK, Row
      <3>3. tally[point.by].complete \in Nat
        BY <2>1, <3>2 DEF TypeOK, Tally
      <3>4. ~(tally[point.by].complete > 0)
        BY <3>2 DEF PInv, ForgetInv
      <3> QED BY <3>3, <3>4
    <2> QED BY <2>1, <2>2 DEF RulesHold
  <1> QED BY <1>1, PlaybackInvariant, PTL

-----------------------------------------------------------------------------
(* The row the writer leaves                                               *)

Writes == {"complete", "resume"}

\* The row a task or an effect leaves, when it writes the resume point.
RowOf(what, s, at) ==
  IF what = "resume" THEN [at |-> at, by |-> s] ELSE NoRow

\* Once the writer has run what it has, the row is r: the last task to write
\* it leaves r, or r is there and none writes it.
Leaves(r) ==
  /\ \A i \in 1..Len(queue) :
       (/\ queue[i].do \in Writes
        /\ \A j \in 1..Len(queue) : j > i => queue[j].do \notin Writes)
       => RowOf(queue[i].do, queue[i].s, queue[i].at) = r
  /\ (\A i \in 1..Len(queue) : queue[i].do \notin Writes) => point = r

LEMMA LeavesAppend ==
  ASSUME TypeOK, NEW task \in Task, queue' = Append(queue, task),
         point' = point, NEW r,
         task.do \in Writes => RowOf(task.do, task.s, task.at) = r,
         task.do \notin Writes => Leaves(r)
  PROVE  Leaves(r)'
  <1> DEFINE n == Len(queue)
  <1>1. /\ n \in Nat /\ Len(queue') = n + 1 /\ queue'[n + 1] = task
        /\ \A i \in 1..n : queue'[i] = queue[i]
    BY AppendProperties DEF TypeOK
  <1> HIDE DEF n
  <1>2. 1..(n + 1) = 1..n \cup {n + 1} /\ \A i \in 1..n : n + 1 > i
    BY <1>1
  <1>3. ASSUME task.do \in Writes
        PROVE  Leaves(r)'
    <2>1. ASSUME NEW i \in 1..(n + 1),
                 \A j \in 1..(n + 1) : j > i => queue'[j].do \notin Writes
          PROVE  i = n + 1
      <3>1. ~(n + 1 > i)
        BY <1>1, <1>2, <1>3, <2>1
      <3> QED BY <1>1, <3>1
    <2>2. n + 1 \in 1..(n + 1)
      BY <1>1
    <2>3. ~\A i \in 1..(n + 1) : queue'[i].do \notin Writes
      BY <1>1, <1>3, <2>2
    <2> QED BY <1>1, <1>3, <2>1, <2>3 DEF Leaves
  <1>4. ASSUME task.do \notin Writes
        PROVE  Leaves(r)'
    <2>1. ASSUME NEW i \in 1..(n + 1), queue'[i].do \in Writes,
                 \A j \in 1..(n + 1) : j > i => queue'[j].do \notin Writes
          PROVE  RowOf(queue'[i].do, queue'[i].s, queue'[i].at) = r
      <3>1. i \in 1..n /\ queue'[i] = queue[i]
        BY <1>1, <1>2, <1>4, <2>1
      <3>2. \A j \in 1..n : j > i => queue[j].do \notin Writes
        BY <1>1, <1>2, <2>1
      <3> QED BY <1>4, <2>1, <3>1, <3>2 DEF Leaves, n
    <2>2. ASSUME \A i \in 1..(n + 1) : queue'[i].do \notin Writes
          PROVE  point' = r
      <3>1. \A i \in 1..n : queue[i].do \notin Writes
        BY <1>1, <1>2, <2>2
      <3> QED BY <1>4, <3>1 DEF Leaves, n
    <2> QED BY <1>1, <2>1, <2>2 DEF Leaves
  <1> QED BY <1>3, <1>4

\* The writer runs its first task: the row it will leave is the same.
LEMMA LeavesRun ==
  ASSUME TypeOK, RunTask, NEW r, Leaves(r)
  PROVE  Leaves(r)'
  <1> DEFINE n == Len(queue)
  <1>1. queue # <<>> /\ queue' = Tail(queue) /\ point' = PointAfter(queue[1])
    BY DEF RunTask
  <1>2. /\ n \in Nat \ {0} /\ Len(queue') = n - 1
        /\ \A i \in 1..(n - 1) : queue'[i] = queue[i + 1]
    BY <1>1, EmptySeq, HeadTailProperties DEF TypeOK
  <1>3. queue[1] \in Task
    BY <1>2, ElementOfSeq DEF TypeOK
  <1> HIDE DEF n
  <1>4. \A j \in 1..n : j # 1 => j - 1 \in 1..(n - 1) /\ (j - 1) + 1 = j
    BY <1>2
  <1>5. \A j \in 1..n : j # 1 => queue[j] = queue'[j - 1]
    BY <1>2, <1>4
  <1>6. ASSUME NEW i \in 1..(n - 1), queue'[i].do \in Writes,
               \A j \in 1..(n - 1) : j > i => queue'[j].do \notin Writes
        PROVE  RowOf(queue'[i].do, queue'[i].s, queue'[i].at) = r
    <2>1. i + 1 \in 1..n /\ queue'[i] = queue[i + 1]
      BY <1>2
    <2>2. ASSUME NEW j \in 1..n, j > i + 1
          PROVE  queue[j].do \notin Writes
      <3>1. j # 1 /\ j - 1 \in 1..(n - 1) /\ j - 1 > i
        BY <1>2, <2>2
      <3> QED BY <1>5, <1>6, <3>1
    <2> QED BY <1>6, <2>1, <2>2 DEF Leaves, n
  <1>7. ASSUME \A i \in 1..(n - 1) : queue'[i].do \notin Writes
        PROVE  point' = r
    <2>1. \A j \in 1..n : j # 1 => queue[j].do \notin Writes
      BY <1>4, <1>5, <1>7
    <2>2. 1 \in 1..n /\ \A j \in 1..n : j > 1 => j # 1
      BY <1>2
    <2>3. CASE queue[1].do \in Writes
      <3>1. RowOf(queue[1].do, queue[1].s, queue[1].at) = r
        BY <2>1, <2>2, <2>3 DEF Leaves, n
      <3> QED BY <1>1, <2>3, <3>1 DEF RowOf, PointAfter, Writes
    <2>4. CASE queue[1].do \notin Writes
      <3>1. point = r
        BY <2>1, <2>4 DEF Leaves, n
      <3> QED BY <1>1, <2>4, <3>1 DEF PointAfter, Writes
    <2> QED BY <2>3, <2>4
  <1> QED BY <1>2, <1>6, <1>7 DEF Leaves

LEMMA LeavesEmpty ==
  ASSUME queue = <<>>, NEW r
  PROVE  Leaves(r) <=> point = r
  <1>1. 1..Len(queue) = {}
    BY EmptySeq
  <1> QED BY <1>1 DEF Leaves

LEMMA LeavesSame ==
  ASSUME UNCHANGED <<queue, point>>, NEW r, Leaves(r)
  PROVE  Leaves(r)'
  BY DEF Leaves

-----------------------------------------------------------------------------
(* What the shell is told of the row                                       *)

\* What the last announcement will be once the effect in hand is through.
Due(x) ==
  IF x.at = "say" THEN x.todo[1].at
  ELSE IF x.at \in {"wait", "replied"} /\ x.todo[1].what = "complete"
       THEN Never ELSE shown

\* With one thread, it is the position of the row the writer leaves.
ShownInv(c) ==
  ~lost => /\ caller[c].at # "failed"
           /\ \E r \in Row \cup {NoRow} : Leaves(r) /\ r.at = Due(caller[c])

LEMMA RowOfRow ==
  ASSUME NEW what, NEW s \in Session, NEW at \in Position
  PROVE  /\ RowOf(what, s, at) \in Row \cup {NoRow}
         /\ what = "resume" => RowOf(what, s, at).at = at
         /\ what # "resume" => RowOf(what, s, at).at = Never
  BY DEF RowOf, Row, NoRow

\* A step that leaves the row, the queue and the announcement alone, and ends
\* where no announcement is due.
LEMMA ShownSpares ==
  ASSUME NEW c, ShownInv(c), UNCHANGED <<queue, point, lost>>,
         shown' = Due(caller[c]),
         caller'[c].at \notin {"say", "wait", "replied", "failed"}
  PROVE  ShownInv(c)'
  <1>1. SUFFICES ASSUME ~lost PROVE ShownInv(c)'
    BY DEF ShownInv
  <1>2. PICK r \in Row \cup {NoRow} : Leaves(r) /\ r.at = Due(caller[c])
    BY <1>1 DEF ShownInv
  <1>3. Due(caller[c])' = shown'
    BY DEF Due
  <1>4. Leaves(r)'
    BY <1>2, LeavesSame
  <1> QED BY <1>2, <1>3, <1>4 DEF ShownInv

LEMMA ShownInit ==
  ASSUME Init, NEW c \in Caller
  PROVE  ShownInv(c)
  <1>1. Leaves(NoRow)
    BY LeavesEmpty DEF Init
  <1>2. caller[c] = Idle /\ shown = Never
    BY DEF Init
  <1>3. Due(caller[c]) = Never /\ caller[c].at # "failed"
    BY <1>2 DEF Due, Idle
  <1>4. NoRow.at = Never
    BY DEF NoRow
  <1> QED BY <1>1, <1>3, <1>4 DEF ShownInv

LEMMA ShownAside ==
  ASSUME NEW c, ShownInv(c), UNCHANGED <<queue, point, lost, shown, caller>>
  PROVE  ShownInv(c)'
  <1>1. Due(caller[c])' = Due(caller[c])
    BY DEF Due
  <1>2. \A r : Leaves(r) => Leaves(r)'
    BY LeavesSame
  <1> QED BY <1>1, <1>2 DEF ShownInv

\* A tick or a close begins: nothing is announced yet.
LEMMA ShownServes ==
  ASSUME PInv, NEW c \in Caller, ShownInv(c), caller[c] = Idle,
         NEW s, NEW x, NEW t,
         caller' = [caller EXCEPT ![c] = Serving(s, x, t)],
         UNCHANGED <<queue, point, lost, shown>>
  PROVE  ShownInv(c)'
  <1>1. caller'[c] = Serving(s, x, t)
    BY DEF PInv, TypeOK
  <1>2. caller'[c].at \in {"idle", "apply"}
    BY <1>1 DEF Serving, Idle
  <1>3. Due(caller[c]) = shown
    BY DEF Due, Idle
  <1>4. caller[c] \in Call
    BY DEF PInv, TypeOK
  <1> QED BY <1>2, <1>3, <1>4, ShownSpares

LEMMA ShownSends ==
  ASSUME PInv, NEW c \in Caller, ShownInv(c), Send(c)
  PROVE  ShownInv(c)'
  <1> DEFINE x == caller[c]
             y == [x EXCEPT !.at = "wait"]
  <1>1. SUFFICES ASSUME ~lost' PROVE ShownInv(c)'
    BY DEF ShownInv
  <1>2. PICK what \in {"view", "complete"} : Applying(c, what)
    BY DEF Send
  <1>3. /\ x \in Call /\ x.at = "apply" /\ x.s \in Session
        /\ Now(c) = x.todo[1] /\ Now(c) \in EffectSet /\ Now(c).what = what
    BY <1>2, AppliesOne DEF PInv
  <1>0. PICK task : task = [do |-> Now(c).what, s |-> x.s, at |-> Now(c).at,
                            log |-> x.watched, for |-> c]
    OBVIOUS
  <1>4. /\ queue' = Append(queue, task) /\ caller' = [caller EXCEPT ![c] = y]
        /\ lost' = lost /\ point' = point /\ shown' = shown
    BY <1>0, <1>1, <1>3 DEF Send, PInv, TypeOK
  <1>5. task \in Task /\ task.do = what /\ task.s = x.s /\ task.at = Now(c).at
    BY <1>0, <1>3 DEF Task, EffectSet, Call
  <1>6. caller'[c] = y /\ y.at = "wait" /\ y.todo = x.todo
    BY <1>3, <1>4 DEF PInv, TypeOK, Call
  <1> HIDE DEF y
  <1>7. Due(caller[c])' = IF what = "complete" THEN Never ELSE shown
    BY <1>3, <1>4, <1>6 DEF Due
  <1>8. TypeOK
    BY DEF PInv
  <1>9. CASE what = "complete"
    <2>0. NoRow.at = Never
      BY DEF NoRow
    <2>3. RowOf(task.do, task.s, task.at) = NoRow
      BY <1>5, <1>9 DEF RowOf
    <2>1. PICK r \in Row \cup {NoRow} :
            r = RowOf(task.do, task.s, task.at) /\ r.at = Never
      BY <2>0, <2>3
    <2>2. task.do \in Writes
      BY <1>5, <1>9 DEF Writes
    <2>4. Leaves(r)'
      BY <1>4, <1>5, <1>8, <2>1, <2>2, LeavesAppend
    <2>5. caller'[c].at # "failed"
      BY <1>6
    <2> QED BY <1>7, <1>9, <2>1, <2>4, <2>5 DEF ShownInv
  <1>10. CASE what = "view"
    <2>1. PICK r \in Row \cup {NoRow} : Leaves(r) /\ r.at = Due(x)
      BY <1>1, <1>4 DEF ShownInv
    <2>2. Leaves(r)'
      BY <1>4, <1>5, <1>8, <1>10, <2>1, LeavesAppend DEF Writes
    <2>3. Due(x) = shown
      BY <1>3 DEF Due
    <2>4. r.at = Due(caller[c])'
      BY <1>7, <1>10, <2>1, <2>3
    <2>5. caller'[c].at # "failed"
      BY <1>6
    <2> QED BY <2>2, <2>4, <2>5 DEF ShownInv
  <1> QED BY <1>9, <1>10

LEMMA ShownPosts ==
  ASSUME PInv, NEW c \in Caller, ShownInv(c), Post(c)
  PROVE  ShownInv(c)'
  <1> DEFINE x == caller[c]
             y == [x EXCEPT !.at = "say"]
  <1>1. SUFFICES ASSUME ~lost' PROVE ShownInv(c)'
    BY DEF ShownInv
  <1>2. /\ x \in Call /\ x.s \in Session
        /\ Now(c) = x.todo[1] /\ Now(c) \in EffectSet
    BY AppliesOne DEF PInv, Post
  <1>3. TypeOK
    BY DEF PInv
  <1>4. store = "open" /\ ~lost
    BY <1>1, <1>3 DEF Post, TypeOK
  <1>0. PICK task : task = [do |-> "resume", s |-> x.s, at |-> Now(c).at,
                            log |-> FALSE, for |-> None]
    OBVIOUS
  <1>5. /\ queue' = Append(queue, task) /\ caller' = [caller EXCEPT ![c] = y]
        /\ point' = point
    BY <1>0, <1>4 DEF Post
  <1>6. task \in Task /\ task.do = "resume" /\ task.s = x.s
        /\ task.at = Now(c).at
    BY <1>0, <1>2 DEF Task, EffectSet
  <1>7. caller'[c] = y /\ y.at = "say" /\ y.todo = x.todo
    BY <1>2, <1>3, <1>5 DEF TypeOK, Call
  <1> HIDE DEF y
  <1>8. Due(caller[c])' = Now(c).at
    BY <1>2, <1>7 DEF Due
  <1>9. PICK r \in Row \cup {NoRow} :
          r = RowOf(task.do, task.s, task.at) /\ r.at = Now(c).at
    BY <1>2, <1>6, RowOfRow DEF EffectSet
  <1>10. Leaves(r)'
    <2>1. task.do \in Writes
      BY <1>6 DEF Writes
    <2> QED BY <1>3, <1>5, <1>6, <1>9, <2>1, LeavesAppend
  <1>11. caller'[c].at # "failed"
    BY <1>7
  <1> QED BY <1>8, <1>9, <1>10, <1>11 DEF ShownInv

\* The announcement, and the reply of what announces nothing.
LEMMA ShownReplies ==
  ASSUME PInv, NEW c \in Caller, ShownInv(c),
         Mark(c) \/ Say(c) \/ Replied(c) \/ Failed(c)
  PROVE  ShownInv(c)'
  <1>1. CASE Failed(c)
    <2>1. lost
      BY <1>1 DEF Failed, ShownInv
    <2>2. lost'
      BY <1>1, <2>1 DEF Failed, rows
    <2> QED BY <2>2 DEF ShownInv
  <1>2. CASE Mark(c) \/ Say(c) \/ Replied(c)
    <2>1. /\ caller[c] \in Call /\ caller' = [caller EXCEPT ![c] = Served(c)]
          /\ UNCHANGED <<queue, point, lost>>
      BY <1>2 DEF Mark, Say, Replied, PInv, TypeOK
    <2>2. caller'[c] = Served(c)
      BY <2>1 DEF PInv, TypeOK
    <2>3. Served(c).at \in {"idle", "apply"}
      <3>1. CASE Served(c) = Idle
        BY <3>1 DEF Idle
      <3>2. CASE Served(c) = [caller[c] EXCEPT !.at = "apply",
                                               !.todo = Tail(caller[c].todo)]
        BY <2>1, <3>2 DEF Call
      <3> QED BY <3>1, <3>2 DEF Served
    <2>4. shown' = Due(caller[c])
      BY <1>2 DEF Mark, Applying, Say, Replied, Due, Now
    <2>5. caller'[c].at \notin {"say", "wait", "replied", "failed"}
      BY <2>2, <2>3
    <2> QED BY <2>1, <2>4, <2>5, ShownSpares
  <1> QED BY <1>1, <1>2

LEMMA ShownRuns ==
  ASSUME PInv, NEW c \in Caller, ShownInv(c), RunTask \/ TaskFails
  PROVE  ShownInv(c)'
  <1>1. CASE TaskFails
    BY <1>1 DEF TaskFails, ShownInv
  <1>2. CASE RunTask
    <2>1. SUFFICES ASSUME ~lost PROVE ShownInv(c)'
      BY <1>2 DEF RunTask, ShownInv
    <2>2. PICK r \in Row \cup {NoRow} : Leaves(r) /\ r.at = Due(caller[c])
      BY <2>1 DEF ShownInv
    <2>3. TypeOK /\ CallsInv
      BY DEF PInv
    <2>4. Leaves(r)'
      BY <1>2, <2>2, <2>3, LeavesRun
    <2>5. /\ queue # <<>> /\ shown' = shown
          /\ caller' = Answered(queue[1], "replied")
      BY <1>2 DEF RunTask
    <2>6. Len(queue) \in Nat \ {0}
      BY <2>3, <2>5, EmptySeq DEF TypeOK
    <2>7. queue[1].for # None => caller[queue[1].for].at = "wait"
      BY <2>3, <2>6 DEF CallsInv
    <2>8. \/ caller'[c] = caller[c]
          \/ /\ caller[c].at = "wait"
             /\ caller'[c] = [caller[c] EXCEPT !.at = "replied"]
      BY <2>3, <2>5, <2>7 DEF Answered, TypeOK
    <2>9. caller[c] \in Call
      BY <2>3 DEF TypeOK
    <2>10. caller'[c].at # "failed" /\ Due(caller[c])' = Due(caller[c])
      BY <2>1, <2>5, <2>8, <2>9 DEF Due, Call, ShownInv
    <2> QED BY <2>2, <2>4, <2>10 DEF ShownInv
  <1> QED BY <1>1, <1>2

LEMMA ShownStep ==
  ASSUME PInv, NEW c, Caller = {c}, ShownInv(c), [Next]_vars
  PROVE  ShownInv(c)'
  <1>1. c \in Caller /\ \A d \in Caller : d = c
    OBVIOUS
  <1>2. CASE \/ UNCHANGED vars \/ OpenPlayback \/ CloseStore
             \/ \E s \in Session : ReportChapters(s)
             \/ \E s \in Session, o \in Outro \cup {Never} : LookupEnds(s, o)
    <2>1. UNCHANGED <<queue, point, lost, shown, caller>>
      BY <1>2 DEF vars, rows, OpenPlayback, CloseStore, ReportChapters,
                  LookupEnds
    <2> QED BY <2>1, ShownAside
  <1>3. ASSUME NEW s \in Session, NEW p \in Position \cup {Bad},
               NEW k \in {"playing", "paused"}, Tick(c, s, p, k)
        PROVE  ShownInv(c)'
    <2>1. /\ caller[c] = Idle /\ UNCHANGED <<queue, point, lost, shown>>
          /\ caller' = [caller EXCEPT ![c] =
                          Serving(s, session'[s], Effects(session[s], p, k))]
      BY <1>3 DEF Tick, rows
    <2> QED BY <1>1, <2>1, ShownServes
  <1>4. ASSUME NEW s \in Session, NEW p \in Position \cup {Bad},
               NEW reason \in {"stopped", "ended"},
               ClosePlayback(c, s, p, reason)
        PROVE  ShownInv(c)'
    <2>1. /\ caller[c] = Idle /\ UNCHANGED <<queue, point, lost, shown>>
          /\ caller' = [caller EXCEPT ![c] =
                          Serving(s, Ticked(session[s], p, "closing"),
                                  ClosingEffects(session[s], p, reason))]
      BY <1>4 DEF ClosePlayback, rows
    <2> QED BY <1>1, <2>1, ShownServes
  <1>5. CASE \E d \in Caller : Apply(d)
    <2>1. Apply(c)
      BY <1>1, <1>5
    <2> QED BY <1>1, <2>1, ShownSends, ShownPosts, ShownReplies DEF Apply
  <1>6. CASE Writer
    BY <1>1, <1>6, ShownRuns DEF Writer
  <1>7. CASE \E d \in Caller, s \in Session, p \in Position \cup {Bad} :
               \/ \E k \in {"playing", "paused"} : Tick(d, s, p, k)
               \/ \E reason \in {"stopped", "ended"} :
                    ClosePlayback(d, s, p, reason)
    BY <1>1, <1>3, <1>4, <1>7
  <1> QED BY <1>2, <1>5, <1>6, <1>7 DEF Next

\* Called from one thread, the core has told the shell what the table holds
\* whenever every call is answered and the writer is idle, unless a write
\* was lost.
THEOREM PlaybackShownIsStored ==
  ASSUME NEW c, Caller = {c}
  PROVE  Spec => []ShownIsStored
  <1>1. Init => ShownInv(c)
    BY ShownInit
  <1>2. PInv /\ ShownInv(c) /\ [Next]_vars => ShownInv(c)'
    BY ShownStep
  <1>3. ShownInv(c) => ShownIsStored
    <2> SUFFICES ASSUME ShownInv(c), Quiet, ~lost PROVE shown = point.at
      BY DEF ShownIsStored
    <2>1. PICK r \in Row \cup {NoRow} : Leaves(r) /\ r.at = Due(caller[c])
      BY DEF ShownInv
    <2>2. caller[c] = Idle /\ queue = <<>>
      BY DEF Quiet
    <2>3. point = r
      BY <2>1, <2>2, LeavesEmpty
    <2>4. Due(caller[c]) = shown
      BY <2>2 DEF Due, Idle
    <2> QED BY <2>1, <2>3, <2>4
  <1> QED BY <1>1, <1>2, <1>3, PlaybackInvariant, PTL DEF Spec

-----------------------------------------------------------------------------
(* The last word on the resume point                                       *)

Members(t) == {t[i] : i \in 1..Len(t)}

\* The effects a call has not yet sent.
LeftOf(x) ==
  IF x.at = "apply" THEN Members(x.todo)
  ELSE IF x.todo = <<>> THEN {} ELSE Members(Tail(x.todo))

\* Once the call is through and the writer has run what it has, the row is r.
Ends(x, r) ==
  /\ \A e \in LeftOf(x) : e.what \in Writes => RowOf(e.what, x.s, e.at) = r
  /\ (\A e \in LeftOf(x) : e.what \notin Writes) => Leaves(r)

WordRow ==
  IF word.done THEN NoRow ELSE [at |-> word.at, by |-> word.by]

\* The row as it must end: none once the open session has completed, and the
\* last word once none is open.
Final(r) ==
  \/ r = NoRow /\ \E s \in open : session[s].completed
  \/ open = {} /\ word.by # 0 /\ word.at >= ResumeHead /\ r = WordRow

\* One session open at a time, and no session completed that is not.
OneOpen ==
  /\ \A s, t \in open : s = t
  /\ \A s \in Session \ open : ~session[s].completed

\* With one thread too, it ends so.
WordInv(c) == ~lost => \A r : Final(r) => Ends(caller[c], r)

LEMMA MembersIf ==
  ASSUME NEW t \in Seq(EffectSet), NEW b \in BOOLEAN, NEW e,
         b => e \in EffectSet
  PROVE  Members(t \o If(b, e)) = Members(t) \cup (IF b THEN {e} ELSE {})
  <1>1. CASE ~b
    <2>1. t \o If(b, e) = t
      BY <1>1, ConcatEmptySeq DEF If
    <2> QED BY <1>1, <2>1
  <1>2. CASE b
    <2> DEFINE u == t \o If(b, e)
    <2>1. If(b, e) = <<e>> /\ e \in EffectSet
      BY <1>2 DEF If
    <2>2. /\ Len(t) \in Nat /\ Len(u) = Len(t) + 1
          /\ \A i \in 1..Len(t) : u[i] = t[i]
          /\ u[Len(t) + 1] = e
      BY <2>1, ConcatProperties
    <2>3. 1..Len(u) = 1..Len(t) \cup {Len(t) + 1}
      BY <2>2
    <2> HIDE DEF u
    <2>4. Members(u) = Members(t) \cup {e}
      BY <2>2, <2>3 DEF Members
    <2> QED BY <1>2, <2>4 DEF u
  <1> QED BY <1>1, <1>2

LEMMA MembersNone == Members(<<>>) = {}
  <1>1. 1..Len(<<>>) = {}
    BY EmptySeq
  <1> QED BY <1>1 DEF Members

LEMMA MembersTail ==
  ASSUME NEW t \in Seq(EffectSet), t # <<>>
  PROVE  /\ Members(t) = {t[1]} \cup Members(Tail(t))
         /\ Len(t) = 1 => Members(Tail(t)) = {}
         /\ Len(t) # 1 => Tail(t) # <<>>
  <1> DEFINE n == Len(t)
             u == Tail(t)
  <1>1. /\ n \in Nat \ {0} /\ Len(u) = n - 1
        /\ \A i \in 1..(n - 1) : u[i] = t[i + 1]
    BY HeadTailProperties, EmptySeq
  <1>2. Len(t) # 1 => u # <<>>
    BY TailOwes
  <1> HIDE DEF n, u
  <1>3. \A i \in 1..n : i # 1 => i - 1 \in 1..(n - 1) /\ (i - 1) + 1 = i
    BY <1>1
  <1>4. \A i \in 1..n : i # 1 => t[i] = u[i - 1]
    BY <1>1, <1>3
  <1>5. \A i \in 1..(n - 1) : i + 1 \in 1..n
    BY <1>1
  <1>6. 1 \in 1..n
    BY <1>1
  <1>7. Members(t) = {t[1]} \cup Members(u)
    BY <1>1, <1>3, <1>4, <1>5, <1>6 DEF Members, n
  <1>8. n = 1 => 1..(n - 1) = {}
    BY <1>1
  <1>9. n = 1 => Members(u) = {}
    BY <1>1, <1>8 DEF Members
  <1> QED BY <1>2, <1>7, <1>9 DEF n, u

\* What a tick writes of the resume point: a completion clears it, a resume
\* point leaves the tick's own position.
LEMMA LatchedMembers ==
  ASSUME shape \in Shape, NEW x \in Opened, NEW p \in Position \cup {Bad},
         NEW k \in Kind
  PROVE  /\ \A e \in Members(Latched(x, p, k)) :
              /\ e.what \in Once
              /\ e.what = "complete" => p # Bad /\ Completes(x, p, k)
         /\ p # Bad /\ Completes(x, p, k) =>
              \E e \in Members(Latched(x, p, k)) : e.what = "complete"
  <1>1. \A w : w \in Whats(Latched(x, p, k)) <=>
                 \E e \in Members(Latched(x, p, k)) : e.what = w
    BY DEF Whats, Members
  <1>2. /\ \A w \in Whats(Latched(x, p, k)) :
             /\ w \in Once
             /\ w = "complete" => p # Bad /\ Completes(x, p, k)
        /\ p # Bad /\ Completes(x, p, k) =>
             "complete" \in Whats(Latched(x, p, k))
    <2> DEFINE f == {w \in Once : p # Bad /\
                       \/ w = "view" /\ Views(x, p, k)
                       \/ w = "mark" /\ Marks(x, p)
                       \/ w = "complete" /\ Completes(x, p, k)}
    <2>1. Whats(Latched(x, p, k)) = f
      BY LatchedFires
    <2>2. "complete" \in Once
      BY DEF Once
    <2>3. \A w \in f : w \in Once /\ (w = "complete" =>
                                      p # Bad /\ Completes(x, p, k))
      OBVIOUS
    <2>4. p # Bad /\ Completes(x, p, k) => "complete" \in f
      BY <2>2
    <2> QED BY <2>1, <2>3, <2>4
  <1> QED BY <1>1, <1>2

LEMMA EffectsMembers ==
  ASSUME shape \in Shape, NEW x \in Opened, NEW p \in Position \cup {Bad},
         NEW k \in Kind
  PROVE  /\ \A e \in Members(Effects(x, p, k)) :
              /\ e.what = "complete" => p # Bad /\ Completes(x, p, k)
              /\ e.what = "resume" => e.at = p /\ p # Bad /\ Resumes(x, p, k)
         /\ p # Bad /\ Completes(x, p, k) =>
              \E e \in Members(Effects(x, p, k)) : e.what = "complete"
         /\ p # Bad /\ Resumes(x, p, k) =>
              \E e \in Members(Effects(x, p, k)) : e.what = "resume"
  <1> DEFINE b == p # Bad /\ Resumes(x, p, k)
             t == Latched(x, p, k)
             e0 == Effect("resume", p)
  <1>1. b \in BOOLEAN /\ t \in Seq(EffectSet)
    BY LatchedFires
  <1>2. b => e0 \in EffectSet
    BY DEF Effect, EffectSet
  <1>3. e0.what = "resume" /\ e0.at = p
    BY DEF Effect
  <1>4. Effects(x, p, k) = t \o If(b, e0)
    BY DEF Effects
  <1>5. /\ \A e \in Members(t) :
              /\ e.what \in Once
              /\ e.what = "complete" => p # Bad /\ Completes(x, p, k)
        /\ p # Bad /\ Completes(x, p, k) =>
              \E e \in Members(t) : e.what = "complete"
    BY LatchedMembers
  <1>6. b <=> p # Bad /\ Resumes(x, p, k)
    OBVIOUS
  <1>7. "resume" \notin Once
    BY DEF Once
  <1> HIDE DEF b, t, e0
  <1>8. Members(Effects(x, p, k)) = Members(t) \cup (IF b THEN {e0} ELSE {})
    BY <1>1, <1>2, <1>4, MembersIf
  <1> QED BY <1>3, <1>5, <1>6, <1>7, <1>8

LEMMA EndsIdle ==
  ASSUME NEW r
  PROVE  Ends(Idle, r) <=> Leaves(r)
  <1>1. LeftOf(Idle) = {}
    BY DEF LeftOf, Idle
  <1> QED BY <1>1 DEF Ends

LEMMA FinalSame ==
  ASSUME UNCHANGED <<open, session, word>>, NEW r, Final(r)'
  PROVE  Final(r)
  BY DEF Final, WordRow

\* A call goes on with the same effects before it, and the row stays.
LEMMA EndsMoves ==
  ASSUME NEW c, NEW r, Ends(caller[c], r),
         LeftOf(caller'[c]) = LeftOf(caller[c]),
         caller'[c].s = caller[c].s \/ LeftOf(caller[c]) = {},
         Leaves(r) => Leaves(r)'
  PROVE  Ends(caller[c], r)'
  <1> DEFINE L == LeftOf(caller[c])
  <1>1. /\ \A e \in L : e.what \in Writes =>
             RowOf(e.what, caller[c].s, e.at) = r
        /\ (\A e \in L : e.what \notin Writes) => Leaves(r)
    BY DEF Ends
  <1>2. LeftOf(caller[c])' = L
    BY DEF LeftOf
  <1>3. \A e \in L : e.what \in Writes => RowOf(e.what, caller'[c].s, e.at) = r
    BY <1>1
  <1> QED BY <1>1, <1>2, <1>3 DEF Ends

\* A call hands on the first of its effects.
LEMMA EndsSends ==
  ASSUME NEW c, NEW r, Ends(caller[c], r), NEW e,
         LeftOf(caller[c]) = {e} \cup LeftOf(caller'[c]),
         caller'[c].s = caller[c].s \/ LeftOf(caller'[c]) = {},
         e.what \in Writes /\ RowOf(e.what, caller[c].s, e.at) = r => Leaves(r)',
         e.what \notin Writes /\ Leaves(r) => Leaves(r)'
  PROVE  Ends(caller[c], r)'
  <1> DEFINE L == LeftOf(caller'[c])
  <1>1. /\ \A f \in {e} \cup L : f.what \in Writes =>
             RowOf(f.what, caller[c].s, f.at) = r
        /\ (\A f \in {e} \cup L : f.what \notin Writes) => Leaves(r)
    BY DEF Ends
  <1>2. LeftOf(caller[c])' = L
    BY DEF LeftOf
  <1>3. \A f \in L : f.what \in Writes => RowOf(f.what, caller'[c].s, f.at) = r
    BY <1>1
  <1>4. (\A f \in L : f.what \notin Writes) => Leaves(r)'
    BY <1>1
  <1> QED BY <1>2, <1>3, <1>4 DEF Ends

\* What a call at "apply" has left: its first effect, and the rest.
LEMMA LeftApplies ==
  ASSUME NEW x \in Call, x.at = "apply", x.todo # <<>>, NEW y,
         y.todo = x.todo, y.at \in {"wait", "say"}
  PROVE  LeftOf(x) = {x.todo[1]} \cup LeftOf(y)
  <1>1. x.todo \in Seq(EffectSet)
    BY DEF Call
  <1>2. LeftOf(x) = Members(x.todo) /\ LeftOf(y) = Members(Tail(x.todo))
    BY DEF LeftOf
  <1> QED BY <1>1, <1>2, MembersTail

\* The reply of a call keeps what is left after the effect in hand.
LEMMA LeftServes ==
  ASSUME NEW c, caller[c] \in Call, caller[c].todo # <<>>
  PROVE  /\ LeftOf(Served(c)) = Members(Tail(caller[c].todo))
         /\ Served(c).s = caller[c].s \/ LeftOf(Served(c)) = {}
  <1> DEFINE t == caller[c].todo
  <1>1. t \in Seq(EffectSet)
    BY DEF Call
  <1>2. CASE Len(t) = 1
    <2>1. Served(c) = Idle
      BY <1>2 DEF Served
    <2>2. LeftOf(Idle) = {}
      BY DEF LeftOf, Idle
    <2> QED BY <1>1, <1>2, <2>1, <2>2, MembersTail
  <1>3. CASE Len(t) # 1
    <2> DEFINE y == [caller[c] EXCEPT !.at = "apply", !.todo = Tail(t)]
    <2>1. Served(c) = y
      BY <1>3 DEF Served
    <2>2. y.at = "apply" /\ y.todo = Tail(t) /\ y.s = caller[c].s
      BY DEF Call
    <2> HIDE DEF y
    <2>3. LeftOf(y) = Members(Tail(t))
      BY <2>2 DEF LeftOf
    <2> QED BY <2>1, <2>2, <2>3
  <1> QED BY <1>2, <1>3

LEMMA WordSends ==
  ASSUME PInv, NEW c \in Caller, Send(c), ~lost',
         NEW r, Ends(caller[c], r)
  PROVE  Ends(caller[c], r)'
  <1> DEFINE x == caller[c]
             y == [x EXCEPT !.at = "wait"]
  <1>1. PICK task : task = [do |-> Now(c).what, s |-> x.s, at |-> Now(c).at,
                            log |-> x.watched, for |-> c]
    OBVIOUS
  <1>2. PICK what \in {"view", "complete"} : Applying(c, what)
    BY DEF Send
  <1>3. /\ x \in Call /\ x.at = "apply" /\ x.s \in Session /\ x.todo # <<>>
        /\ Now(c) = x.todo[1] /\ Now(c) \in EffectSet /\ Now(c).what = what
    BY <1>2, AppliesOne DEF PInv
  <1>4. /\ queue' = Append(queue, task) /\ caller' = [caller EXCEPT ![c] = y]
        /\ point' = point
    BY <1>1, <1>3 DEF Send, PInv, TypeOK
  <1>5. task \in Task /\ task.do = what /\ task.s = x.s /\ task.at = Now(c).at
    BY <1>1, <1>3 DEF Task, EffectSet, Call
  <1>6. caller'[c] = y /\ y.at = "wait" /\ y.todo = x.todo /\ y.s = x.s
    BY <1>3, <1>4 DEF PInv, TypeOK, Call
  <1>7. LeftOf(x) = {x.todo[1]} \cup LeftOf(y)
    <2> HIDE DEF x, y
    <2> QED BY <1>3, <1>6, LeftApplies
  <1>8. TypeOK
    BY DEF PInv
  <1> DEFINE e == x.todo[1]
  <1>9. e.what = task.do /\ e.at = task.at
    BY <1>3, <1>5
  <1> HIDE DEF y, e
  <1>10. (\/ task.do \in Writes /\ RowOf(task.do, task.s, task.at) = r
          \/ task.do \notin Writes /\ Leaves(r))
           => Leaves(r)'
    BY <1>4, <1>5, <1>8, LeavesAppend
  <1> QED BY <1>5, <1>6, <1>7, <1>9, <1>10, EndsSends DEF e

LEMMA WordPosts ==
  ASSUME PInv, NEW c \in Caller, Post(c), ~lost',
         NEW r, Ends(caller[c], r)
  PROVE  Ends(caller[c], r)'
  <1> DEFINE x == caller[c]
             y == [x EXCEPT !.at = "say"]
  <1>1. PICK task : task = [do |-> "resume", s |-> x.s, at |-> Now(c).at,
                            log |-> FALSE, for |-> None]
    OBVIOUS
  <1>2. /\ x \in Call /\ x.at = "apply" /\ x.s \in Session /\ x.todo # <<>>
        /\ Now(c) = x.todo[1] /\ Now(c) \in EffectSet
        /\ Now(c).what = "resume"
    BY AppliesOne DEF PInv, Post
  <1>3. TypeOK
    BY DEF PInv
  <1>4. store = "open"
    BY <1>3 DEF Post, TypeOK
  <1>5. /\ queue' = Append(queue, task) /\ caller' = [caller EXCEPT ![c] = y]
        /\ point' = point
    BY <1>1, <1>4 DEF Post
  <1>6. task \in Task /\ task.do = "resume" /\ task.s = x.s
        /\ task.at = Now(c).at
    BY <1>1, <1>2 DEF Task, EffectSet
  <1>7. caller'[c] = y /\ y.at = "say" /\ y.todo = x.todo /\ y.s = x.s
    BY <1>2, <1>3, <1>5 DEF TypeOK, Call
  <1>8. LeftOf(x) = {x.todo[1]} \cup LeftOf(y)
    <2> HIDE DEF x, y
    <2> QED BY <1>2, <1>7, LeftApplies
  <1> DEFINE e == x.todo[1]
  <1>9. e.what = task.do /\ e.at = task.at
    BY <1>2, <1>6
  <1> HIDE DEF y, e
  <1>10. task.do \in Writes /\ RowOf(task.do, task.s, task.at) = r
           => Leaves(r)'
    BY <1>3, <1>5, <1>6, LeavesAppend
  <1>11. e.what \in Writes
    BY <1>6, <1>9 DEF Writes
  <1> QED BY <1>6, <1>7, <1>8, <1>9, <1>10, <1>11, EndsSends DEF e

LEMMA WordReplies ==
  ASSUME PInv, NEW c \in Caller, Mark(c) \/ Say(c) \/ Replied(c),
         NEW r, Ends(caller[c], r)
  PROVE  Ends(caller[c], r)'
  <1> DEFINE x == caller[c]
             y == Served(c)
  <1>1. /\ x \in Call /\ caller' = [caller EXCEPT ![c] = y]
        /\ UNCHANGED <<queue, point>> /\ CallsInv
    BY DEF Mark, Say, Replied, PInv, TypeOK
  <1>2. caller'[c] = y
    BY <1>1 DEF PInv, TypeOK
  <1>3. x.at \in {"apply", "say", "replied"}
    BY DEF Mark, Applying, Say, Replied
  <1>4. x.todo # <<>> /\ x.todo \in Seq(EffectSet)
    BY <1>1, <1>3 DEF CallsInv, Stands, Call
  <1>5. LeftOf(y) = Members(Tail(x.todo)) /\ (y.s = x.s \/ LeftOf(y) = {})
    BY <1>1, <1>4, LeftServes
  <1>6. Leaves(r) => Leaves(r)'
    BY <1>1, LeavesSame
  <1>7. CASE Mark(c)
    <2>1. x.at = "apply" /\ x.todo[1].what \notin Writes
      BY <1>7 DEF Mark, Applying, Now, Writes
    <2>2. LeftOf(x) = {x.todo[1]} \cup LeftOf(y)
      BY <1>4, <1>5, <2>1, MembersTail DEF LeftOf
    <2> DEFINE e == x.todo[1]
    <2> HIDE DEF y, e
    <2> QED BY <1>2, <1>5, <1>6, <2>1, <2>2, EndsSends DEF e
  <1>8. CASE Say(c) \/ Replied(c)
    <2>1. x.at # "apply"
      BY <1>8 DEF Say, Replied
    <2>2. LeftOf(x) = LeftOf(y)
      BY <1>4, <1>5, <2>1 DEF LeftOf
    <2> HIDE DEF y
    <2> QED BY <1>2, <1>5, <1>6, <2>2, EndsMoves
  <1> QED BY <1>7, <1>8

LEMMA WordRuns ==
  ASSUME PInv, NEW c \in Caller, RunTask, NEW r, Ends(caller[c], r)
  PROVE  Ends(caller[c], r)'
  <1>1. TypeOK /\ CallsInv
    BY DEF PInv
  <1>2. Leaves(r) => Leaves(r)'
    BY <1>1, LeavesRun
  <1>3. queue # <<>> /\ caller' = Answered(queue[1], "replied")
    BY DEF RunTask
  <1>4. Len(queue) \in Nat \ {0}
    BY <1>1, <1>3, EmptySeq DEF TypeOK
  <1>5. queue[1].for # None => caller[queue[1].for].at = "wait"
    BY <1>1, <1>4 DEF CallsInv
  <1>6. \/ caller'[c] = caller[c]
        \/ /\ caller[c].at = "wait"
           /\ caller'[c] = [caller[c] EXCEPT !.at = "replied"]
    BY <1>1, <1>3, <1>5 DEF Answered, TypeOK
  <1>7. caller[c] \in Call
    BY <1>1 DEF TypeOK
  <1>8. /\ caller'[c].s = caller[c].s
        /\ LeftOf(caller'[c]) = LeftOf(caller[c])
    BY <1>6, <1>7 DEF LeftOf, Call
  <1> QED BY <1>2, <1>8, EndsMoves

\* A tick or a close sets out with what it fired.
LEMMA EndsServes ==
  ASSUME PInv, NEW c \in Caller, NEW s, NEW x, NEW t \in Seq(EffectSet),
         caller' = [caller EXCEPT ![c] = Serving(s, x, t)],
         UNCHANGED <<queue, point>>, NEW r,
         \A e \in Members(t) : e.what \in Writes => RowOf(e.what, s, e.at) = r,
         (\A e \in Members(t) : e.what \notin Writes) => Leaves(r)
  PROVE  Ends(caller[c], r)'
  <1>1. caller'[c] = Serving(s, x, t)
    BY DEF PInv, TypeOK
  <1>2. LeftOf(caller'[c]) = Members(t)
    BY <1>1, MembersNone DEF LeftOf, Serving, Idle
  <1>3. \A e \in Members(t) : caller'[c].s = s
    BY <1>1, MembersNone DEF Serving
  <1>4. Leaves(r) => Leaves(r)'
    BY LeavesSame
  <1> DEFINE L == Members(t)
  <1>5. LeftOf(caller[c])' = L
    BY <1>2 DEF LeftOf
  <1>6. \A e \in L : e.what \in Writes => RowOf(e.what, caller'[c].s, e.at) = r
    BY <1>3
  <1> QED BY <1>4, <1>5, <1>6 DEF Ends

\* A session that has completed asks for no row, and the one that completes
\* now clears it.
LEMMA CompletedWrites ==
  ASSUME shape \in Shape, NEW x \in Opened, NEW p \in Position \cup {Bad},
         NEW k \in Kind, Ticked(x, p, k).completed, NEW s
  PROVE  /\ \A e \in Members(Effects(x, p, k)) :
              e.what \in Writes => RowOf(e.what, s, e.at) = NoRow
         /\ \/ x.completed
            \/ \E e \in Members(Effects(x, p, k)) : e.what \in Writes
  <1>1. Ticked(x, p, k).completed =
          (x.completed \/ (p # Bad /\ Completes(x, p, k)))
    BY DEF Ticked, Opened
  <1>2. ASSUME NEW e \in Members(Effects(x, p, k))
        PROVE  e.what # "resume"
    <2>1. SUFFICES ASSUME e.what = "resume" PROVE FALSE
      OBVIOUS
    <2>2. p # Bad /\ Resumes(x, p, k)
      BY <1>2, <2>1, EffectsMembers
    <2> QED BY <1>1, <2>2 DEF Resumes
  <1>3. p # Bad /\ Completes(x, p, k) =>
          \E e \in Members(Effects(x, p, k)) : e.what = "complete"
    BY EffectsMembers
  <1>4. \A e \in Members(Effects(x, p, k)) : RowOf(e.what, s, e.at) = NoRow
    BY <1>2 DEF RowOf
  <1> QED BY <1>1, <1>3, <1>4 DEF Writes

LEMMA OneOpenStep ==
  ASSUME MaxOpen = 1, PInv, OneOpen, [Next]_vars
  PROVE  OneOpen'
  <1>1. TypeOK
    BY DEF PInv
  <1>2. CASE OpenPlayback
    <2>1. Cardinality(open) < 1
      BY <1>2 DEF OpenPlayback
    <2>2. IsFiniteSet(open)
      <3>1. IsFiniteSet(1..next) /\ open \subseteq 1..next
        BY <1>1, FS_Interval DEF TypeOK
      <3> QED BY <3>1, FS_Subset
    <2>3. open = {}
      <3>1. Cardinality(open) = 0
        BY <2>1, <2>2, FS_CardinalityType
      <3> QED BY <2>2, <3>1, FS_EmptySet
    <2>4. open' = {next'} /\ session' = session
      BY <1>2, <2>3 DEF OpenPlayback
    <2> QED BY <2>3, <2>4 DEF OneOpen
  <1>3. CASE UNCHANGED <<open, session>>
    BY <1>3 DEF OneOpen
  <1>4. ASSUME NEW s \in Session, ReportChapters(s)
        PROVE  OneOpen'
    <2>1. s \in open /\ open' = open
          /\ session' = [session EXCEPT ![s].duration = TRUE]
      BY <1>4 DEF ReportChapters
    <2>2. \A t \in Session \ open : session'[t] = session[t]
      BY <1>1, <2>1 DEF TypeOK
    <2> QED BY <2>1, <2>2 DEF OneOpen
  <1>5. ASSUME NEW s \in Session, NEW o \in Outro \cup {Never},
               LookupEnds(s, o)
        PROVE  OneOpen'
    <2>1. open' = open /\ session' = IF s \in open /\ o # Never
                            THEN [session EXCEPT ![s].outro = o] ELSE session
      BY <1>5 DEF LookupEnds
    <2>2. \A t \in Session \ open : session'[t] = session[t]
      BY <1>1, <2>1 DEF TypeOK
    <2> QED BY <2>1, <2>2 DEF OneOpen
  <1>6. ASSUME NEW d \in Caller, NEW s \in Session,
               NEW p \in Position \cup {Bad},
               NEW k \in {"playing", "paused"}, Tick(d, s, p, k)
        PROVE  OneOpen'
    <2>1. s \in open /\ open' = open
          /\ session' = [session EXCEPT ![s] = Ticked(session[s], p, k)]
      BY <1>6 DEF Tick
    <2>2. \A t \in Session \ open : session'[t] = session[t]
      BY <1>1, <2>1 DEF TypeOK
    <2> QED BY <2>1, <2>2 DEF OneOpen
  <1>7. ASSUME NEW d \in Caller, NEW s \in Session,
               NEW p \in Position \cup {Bad},
               NEW reason \in {"stopped", "ended"},
               ClosePlayback(d, s, p, reason)
        PROVE  OneOpen'
    <2>1. s \in open /\ open' = open \ {s}
          /\ session' = [session EXCEPT ![s] = NewSession]
      BY <1>7 DEF ClosePlayback
    <2>2. \A t \in Session :
            session'[t] = IF t = s THEN NewSession ELSE session[t]
      BY <1>1, <2>1 DEF TypeOK
    <2>3. ~NewSession.completed
      BY DEF NewSession
    <2> QED BY <2>1, <2>2, <2>3 DEF OneOpen
  <1>8. CASE \/ UNCHANGED vars \/ CloseStore \/ Writer
             \/ \E d \in Caller : Apply(d)
    <2>1. UNCHANGED <<open, session>>
      BY <1>8 DEF vars, CloseStore, Writer, RunTask, TaskFails, Apply, Send,
                  Mark, Post, Say, Replied, Failed
    <2> QED BY <1>3, <2>1
  <1> QED BY <1>2, <1>4, <1>5, <1>6, <1>7, <1>8 DEF Next

\* A tick of the session that is open.
LEMMA WordTicks ==
  ASSUME PInv, OneOpen, NEW c \in Caller, WordInv(c), NEW s \in Session,
         NEW p \in Position \cup {Bad}, NEW k \in {"playing", "paused"},
         Tick(c, s, p, k), ~lost', NEW r, Final(r)'
  PROVE  Ends(caller[c], r)'
  <1> DEFINE x == session[s]
             t == Effects(x, p, k)
  <1>1. /\ caller[c] = Idle /\ s \in open /\ open' = open
        /\ session' = [session EXCEPT ![s] = Ticked(x, p, k)]
        /\ caller' = [caller EXCEPT ![c] = Serving(s, session'[s], t)]
        /\ UNCHANGED <<queue, point, lost>>
    BY DEF Tick, rows
  <1>2. /\ shape \in Shape /\ x \in Opened /\ k \in Kind
        /\ session'[s] = Ticked(x, p, k)
    BY <1>1 DEF PInv, TypeOK, Kind
  <1>3. r = NoRow /\ Ticked(x, p, k).completed
    BY <1>1, <1>2 DEF Final, OneOpen
  <1>4. t \in Seq(EffectSet)
    BY <1>2, EffectsFire
  <1>5. x.completed => Leaves(NoRow)
    <2>1. x.completed => Ends(caller[c], NoRow)
      BY <1>1 DEF WordInv, Final
    <2> QED BY <1>1, <2>1, EndsIdle
  <1>6. /\ \A e \in Members(t) :
              e.what \in Writes => RowOf(e.what, s, e.at) = r
        /\ (\A e \in Members(t) : e.what \notin Writes) => Leaves(r)
    BY <1>2, <1>3, <1>5, CompletedWrites
  <1> HIDE DEF x, t
  <1> QED BY <1>1, <1>4, <1>6, EndsServes

\* The close of the session that is open.
LEMMA WordCloses ==
  ASSUME PInv, OneOpen, NEW c \in Caller, WordInv(c), NEW s \in Session,
         NEW p \in Position \cup {Bad}, NEW reason \in {"stopped", "ended"},
         ClosePlayback(c, s, p, reason), ~lost', NEW r, Final(r)'
  PROVE  Ends(caller[c], r)'
  <1> DEFINE x == session[s]
             y == Ticked(x, p, "closing")
             t == ClosingEffects(x, p, reason)
             u == Effects(x, p, "closing")
  <1>1. /\ caller[c] = Idle /\ s \in open /\ open' = open \ {s}
        /\ caller' = [caller EXCEPT ![c] = Serving(s, y, t)]
        /\ word' = [by |-> s, at |-> p,
                    done |-> y.completed \/ reason = "ended"]
        /\ UNCHANGED <<queue, point, lost>>
    BY DEF ClosePlayback, rows
  <1>2. shape \in Shape /\ x \in Opened /\ "closing" \in Kind
    BY DEF PInv, TypeOK, Kind
  <1>3. open' = {}
    BY <1>1 DEF OneOpen
  <1>4. /\ p >= ResumeHead
        /\ r = IF y.completed \/ reason = "ended" THEN NoRow
               ELSE [at |-> p, by |-> s]
    BY <1>1, <1>3 DEF Final, WordRow
  <1>5. p # Bad
    BY <1>4, PlaybackAssumption DEF Bad
  <1>6. t \in Seq(EffectSet)
    BY <1>2, ClosingFires
  <1>7. y.completed = (x.completed \/ Completes(x, p, "closing"))
    BY <1>2, <1>5 DEF Ticked, Opened
  <1> DEFINE Good == /\ \A e \in Members(t) :
                          e.what \in Writes => RowOf(e.what, s, e.at) = r
                     /\ (\A e \in Members(t) : e.what \notin Writes) =>
                          Leaves(r)
  <1>8. ASSUME y.completed PROVE Good
    <2>1. t = u /\ r = NoRow
      BY <1>4, <1>8 DEF ClosingEffects
    <2>2. x.completed => Leaves(NoRow)
      <3>1. x.completed => Ends(caller[c], NoRow)
        BY <1>1 DEF WordInv, Final
      <3> QED BY <1>1, <3>1, EndsIdle
    <2> QED BY <1>2, <1>8, <2>1, <2>2, CompletedWrites
  <1>9. ASSUME reason = "ended", ~y.completed PROVE Good
    <2> DEFINE l == Latched(x, p, "closing")
               e0 == Effect("complete", Length)
    <2>1. t = l \o If(TRUE, e0) /\ r = NoRow
      BY <1>4, <1>9 DEF ClosingEffects, If
    <2>2. e0 \in EffectSet /\ e0.what = "complete"
      BY PlaybackAssumption DEF Effect, EffectSet, Position
    <2>3. l \in Seq(EffectSet) /\ \A e \in Members(l) : e.what \in Once
      BY <1>2, LatchedFires, LatchedMembers
    <2> HIDE DEF l, e0
    <2>4. Members(t) = Members(l) \cup {e0}
      BY <2>1, <2>2, <2>3, MembersIf
    <2>5. \A e \in Members(t) : e.what # "resume"
      BY <2>2, <2>3, <2>4 DEF Once
    <2>6. \A e \in Members(t) : RowOf(e.what, s, e.at) = r
      BY <2>1, <2>5 DEF RowOf
    <2>7. e0 \in Members(t) /\ e0.what \in Writes
      BY <2>2, <2>4 DEF Writes
    <2> QED BY <2>6, <2>7
  <1>10. ASSUME ~(y.completed \/ reason = "ended") PROVE Good
    <2>1. t = u /\ r = [at |-> p, by |-> s]
      BY <1>4, <1>10 DEF ClosingEffects
    <2>2. Resumes(x, p, "closing")
      BY <1>2, <1>4, <1>7, <1>10 DEF Resumes
    <2>3. \E e \in Members(u) : e.what = "resume"
      BY <1>2, <1>5, <2>2, EffectsMembers
    <2>6. ~Completes(x, p, "closing")
      BY <1>7, <1>10
    <2> HIDE DEF x
    <2>4. ASSUME NEW e \in Members(u)
          PROVE  e.what # "complete" /\ (e.what = "resume" => e.at = p)
      BY <1>2, <2>4, <2>6, EffectsMembers
    <2> HIDE DEF t, u
    <2>5. ASSUME NEW e \in Members(t), e.what \in Writes
          PROVE  RowOf(e.what, s, e.at) = r
      BY <2>1, <2>4, <2>5 DEF RowOf, Writes
    <2> QED BY <2>1, <2>3, <2>5 DEF Writes
  <1>11. Good
    BY <1>8, <1>9, <1>10
  <1> HIDE DEF x, t, y
  <1> QED BY <1>1, <1>6, <1>11, EndsServes

LEMMA WordStep ==
  ASSUME PInv, NEW c, Caller = {c}, ShownInv(c), OneOpen, WordInv(c),
         OneOpen', [Next]_vars
  PROVE  WordInv(c)'
  <1>1. c \in Caller /\ \A d \in Caller : d = c
    OBVIOUS
  <1>2. SUFFICES ASSUME ~lost', NEW r, Final(r)'
                 PROVE  Ends(caller[c], r)'
    BY DEF WordInv
  <1>3. ASSUME UNCHANGED <<open, session, word>>, ~lost
        PROVE  Ends(caller[c], r)
    BY <1>2, <1>3, FinalSame DEF WordInv
  <1>4. CASE \E d \in Caller : Apply(d)
    <2>1. Apply(c)
      BY <1>1, <1>4
    <2>2. UNCHANGED <<open, session, word>> /\ ~lost
      BY <1>2, <2>1 DEF Apply, Send, Mark, Post, Say, Replied, Failed, rows,
                        PInv, TypeOK
    <2>3. ~Failed(c)
      BY <2>2 DEF ShownInv, Failed
    <2> QED BY <1>1, <1>2, <1>3, <2>1, <2>2, <2>3, WordSends, WordPosts,
               WordReplies DEF Apply
  <1>5. CASE Writer
    <2>1. RunTask
      BY <1>2, <1>5 DEF Writer, TaskFails
    <2>2. UNCHANGED <<open, session, word>> /\ ~lost
      BY <1>2, <2>1 DEF RunTask
    <2> QED BY <1>1, <1>3, <2>1, <2>2, WordRuns
  <1>6. CASE \E d \in Caller, s \in Session, p \in Position \cup {Bad} :
               \/ \E k \in {"playing", "paused"} : Tick(d, s, p, k)
               \/ \E reason \in {"stopped", "ended"} :
                    ClosePlayback(d, s, p, reason)
    BY <1>1, <1>2, <1>6, WordTicks, WordCloses
  <1>7. CASE OpenPlayback
    <2>1. next' = next + 1 /\ open' = open \cup {next'} /\ session' = session
          /\ next < MaxSession
      BY <1>7 DEF OpenPlayback
    <2>2. next' \in Session \ open
      BY <2>1, PlaybackAssumption DEF PInv, TypeOK, Session
    <2>3. \A t \in open' : t = next' /\ ~session'[t].completed
      BY <2>1, <2>2 DEF OneOpen
    <2> QED BY <1>2, <2>1, <2>3 DEF Final
  <1>8. ASSUME UNCHANGED <<open, word, lost, caller, queue, point>>,
               \A t \in open : session'[t].completed = session[t].completed
        PROVE  Ends(caller[c], r)'
    <2>1. Final(r) /\ ~lost
      BY <1>2, <1>8 DEF Final, WordRow
    <2>2. Ends(caller[c], r)
      BY <2>1 DEF WordInv
    <2>3. Leaves(r) => Leaves(r)'
      BY <1>8, LeavesSame
    <2> QED BY <1>8, <2>2, <2>3, EndsMoves
  <1>9. CASE UNCHANGED vars \/ CloseStore
    BY <1>8, <1>9 DEF vars, CloseStore
  <1>10. ASSUME NEW s \in Session, ReportChapters(s)
         PROVE  Ends(caller[c], r)'
    <2>1. /\ UNCHANGED <<open, word, lost, caller, queue, point>>
          /\ session' = [session EXCEPT ![s].duration = TRUE]
      BY <1>10 DEF ReportChapters, rows
    <2>2. \A t \in open : session'[t].completed = session[t].completed
      BY <2>1 DEF PInv, TypeOK, Session, Opened
    <2> QED BY <1>8, <2>1, <2>2
  <1>11. ASSUME NEW s \in Session, NEW o \in Outro \cup {Never},
                LookupEnds(s, o)
         PROVE  Ends(caller[c], r)'
    <2>1. /\ UNCHANGED <<open, word, lost, caller, queue, point>>
          /\ \/ session' = session
             \/ session' = [session EXCEPT ![s].outro = o]
      BY <1>11 DEF LookupEnds, rows
    <2>2. \A t \in open : session'[t].completed = session[t].completed
      <3>1. CASE session' = session
        BY <3>1
      <3>2. CASE session' = [session EXCEPT ![s].outro = o]
        BY <3>2 DEF PInv, TypeOK, Session, Opened
      <3> QED BY <2>1, <3>1, <3>2
    <2> QED BY <1>8, <2>1, <2>2
  <1> QED BY <1>4, <1>5, <1>6, <1>7, <1>9, <1>10, <1>11 DEF Next

\* Called from one thread, with one session open at a time: what the last
\* session left is what the file is resumed at.
THEOREM PlaybackLastWordKept ==
  ASSUME NEW c, Caller = {c}, MaxOpen = 1
  PROVE  Spec => []LastWordKept
  <1>1. Init => ShownInv(c) /\ OneOpen /\ WordInv(c)
    <2> SUFFICES ASSUME Init PROVE OneOpen /\ WordInv(c)
      BY ShownInit
    <2>1. /\ open = {} /\ word.by = 0
          /\ \A s \in Session : session[s] = NewSession
      BY DEF Init
    <2>2. ~NewSession.completed
      BY DEF NewSession
    <2> QED BY <2>1, <2>2 DEF OneOpen, WordInv, Final
  <1>2. PInv /\ ShownInv(c) /\ OneOpen /\ WordInv(c) /\ [Next]_vars =>
          ShownInv(c)' /\ OneOpen' /\ WordInv(c)'
    BY ShownStep, OneOpenStep, WordStep
  <1>3. WordInv(c) => LastWordKept
    <2> SUFFICES ASSUME WordInv(c), Quiet, ~lost, open = {}, word.by # 0,
                        word.at >= ResumeHead
                 PROVE  point = WordRow
      BY DEF LastWordKept, WordRow
    <2>1. Ends(caller[c], WordRow)
      BY DEF WordInv, Final
    <2>2. caller[c] = Idle /\ queue = <<>>
      BY DEF Quiet
    <2> QED BY <2>1, <2>2, EndsIdle, LeavesEmpty
  <1> QED BY <1>1, <1>2, <1>3, PlaybackInvariant, PTL DEF Spec
================================================================================
