----------------------------- MODULE JobsProofs -----------------------------
(***************************************************************************)
(* Proofs about Jobs: the registry's promises and the throttle's, for any  *)
(* number of jobs, kinds and series.                                       *)
(***************************************************************************)
EXTENDS Jobs, TLAPS

-----------------------------------------------------------------------------
(* The registry                                                            *)

\* Where a runner stands decides whether its id is in the registry.
Seated == {"inserted", "spawned", "body", "resolved", "dropped", "silenced",
           "lost"}

Slots == \A j \in Job : j \in registered <=> phase[j] \in Seated

\* The terminal event has been emitted exactly when the runner ended.
Counted == \A j \in Job : ends[j] = IF phase[j] = "ended" THEN 1 ELSE 0

\* OneAtATime is not inductive alone: a job that takes a slot must be known
\* not to hold one already, which is what Slots says of an unused id.
RegistryInv == TypeOK /\ Slots /\ Counted /\ OneAtATime

LEMMA ItemsOfChannel ==
  ASSUME NEW ch \in Channel
  PROVE  ItemsOf(ch) \subseteq Item
BY DEF Channel, ItemsOf, Item

LEMMA DeliveredType ==
  ASSUME TypeOK, NEW j \in Job, NEW batch \in [Item -> Nat]
  PROVE  Delivered(j, batch) \in [Item -> Nat]
BY DEF TypeOK, Delivered

LEMMA OnChannelType ==
  ASSUME NEW ch, NEW f \in [Item -> Nat], NEW g \in [Item -> Nat]
  PROVE  OnChannel(ch, f, g) \in [Item -> Nat]
BY DEF OnChannel

LEMMA UpdatedType ==
  ASSUME TypeOK, NEW j \in Job, NEW items, NEW f \in [Item -> Nat]
  PROVE  Updated(j, items, f) \in [Item -> Nat]
BY DEF TypeOK, Updated

LEMMA NothingType == Nothing \in [Item -> Nat]
BY DEF Nothing

\* The type invariant holds initially and every step keeps it.
LEMMA TypeInit == Init => TypeOK
BY DEF Init, TypeOK, Phase, Outcome, Flush, Untaken

LEMMA TypeStep == TypeOK /\ [Next]_vars => TypeOK'
<1> USE DEF TypeOK, Phase, Outcome, Flush, Untaken, MoveTo, lifecycle, throttles
<1>1. SUFFICES ASSUME TypeOK, [Next]_vars PROVE TypeOK'
  OBVIOUS
<1>2. ASSUME NEW j \in Job, NEW k \in Kind, StartReporting(j, k) PROVE TypeOK'
  BY <1>1, <1>2 DEF StartReporting
<1>3. ASSUME NEW j \in Job, Announce(j) PROVE TypeOK'
  BY <1>1, <1>3 DEF Announce
<1>4. ASSUME NEW j \in Job, Poll(j) PROVE TypeOK'
  BY <1>1, <1>4 DEF Poll
<1>5. ASSUME NEW j \in Job, Deregister(j) PROVE TypeOK'
  BY <1>1, <1>5 DEF Deregister
<1>6. ASSUME NEW j \in Job, MarkFinished(j) PROVE TypeOK'
  BY <1>1, <1>6 DEF MarkFinished
<1>7. ASSUME NEW j \in Job, NEW ch \in Channel, FinalFlush(j, ch) PROVE TypeOK'
  <2>1. Delivered(j, OnChannel(ch, Nothing, pending[j])) \in [Item -> Nat]
    BY <1>1, DeliveredType, OnChannelType, NothingType
  <2>2. OnChannel(ch, pending[j], Nothing) \in [Item -> Nat]
    BY <1>1, OnChannelType, NothingType
  <2> QED
    BY <1>1, <1>7, <2>1, <2>2 DEF FinalFlush, Cleared, LockFree
<1>8. ASSUME NEW j \in Job, EmitTerminal(j) PROVE TypeOK'
  BY <1>1, <1>8 DEF EmitTerminal
<1>9. ASSUME NEW j \in Job, GuardMarksFinished(j) PROVE TypeOK'
  BY <1>1, <1>9 DEF GuardMarksFinished
<1>10. ASSUME NEW j \in Job, GuardDeregisters(j) PROVE TypeOK'
  BY <1>1, <1>10 DEF GuardDeregisters
<1>11. ASSUME NEW j \in Job, RuntimeDrops(j) PROVE TypeOK'
  BY <1>1, <1>11 DEF RuntimeDrops
<1>12. ASSUME NEW j \in Job, NEW ch \in Channel,
              NEW items \in SUBSET ItemsOf(ch), Report(j, ch, items)
       PROVE TypeOK'
  <2>1. /\ Updated(j, items, said[j]) \in [Item -> Nat]
        /\ Updated(j, items, pending[j]) \in [Item -> Nat]
    BY <1>1, UpdatedType
  <2>2. /\ Delivered(j, OnChannel(ch, Nothing, Updated(j, items, pending[j])))
             \in [Item -> Nat]
        /\ OnChannel(ch, pending[j], Nothing) \in [Item -> Nat]
    BY <1>1, <2>1, DeliveredType, OnChannelType, NothingType
  <2>0. /\ window \in [Job -> [Channel -> {"open", "shut"}]]
        /\ flush \in [Job -> [Channel -> Flush]]
    BY <1>1
  <2>3. /\ said' \in [Job -> [Item -> Nat]]
        /\ pending' \in [Job -> [Item -> Nat]]
        /\ emitted' \in [Job -> [Item -> Nat]]
    <3>1. /\ said \in [Job -> [Item -> Nat]]
          /\ pending \in [Job -> [Item -> Nat]]
          /\ emitted \in [Job -> [Item -> Nat]]
      BY <1>1
    <3>2. said' \in [Job -> [Item -> Nat]]
      BY <1>12, <2>1, <3>1 DEF Report, Cleared, LockFree
    <3>3. pending' \in [Job -> [Item -> Nat]]
      BY <1>12, <2>1, <2>2, <3>1 DEF Report, Cleared, LockFree
    <3>4. emitted' \in [Job -> [Item -> Nat]]
      BY <1>12, <2>2, <3>1 DEF Report, Cleared, LockFree
    <3> QED
      BY <3>2, <3>3, <3>4
  <2>4. window' \in [Job -> [Channel -> {"open", "shut"}]]
    <3>1. CASE window' = [window EXCEPT ![j][ch] = "shut"]
      BY <2>0, <3>1
    <3>2. CASE UNCHANGED window
      BY <2>0, <3>2
    <3> QED
      BY <1>12, <3>1, <3>2 DEF Report, Cleared, LockFree
  <2>5. flush' \in [Job -> [Channel -> Flush]]
    <3>1. CASE flush' = [flush EXCEPT ![j][ch] =
                 IF flush[j][ch] = "none" THEN "asleep" ELSE flush[j][ch]]
      BY <2>0, <3>1
    <3>2. CASE UNCHANGED flush
      BY <2>0, <3>2
    <3> QED
      BY <1>12, <3>1, <3>2 DEF Report, Cleared, LockFree
  <2> QED
    BY <1>1, <1>12, <2>3, <2>4, <2>5 DEF Report, Cleared, LockFree
<1>13. ASSUME NEW j \in Job, NEW ch \in Channel, IntervalPasses(j, ch)
       PROVE TypeOK'
  BY <1>1, <1>13 DEF IntervalPasses
<1>14. ASSUME NEW j \in Job, NEW ch \in Channel, FlushChecks(j, ch)
       PROVE TypeOK'
  <2>1. /\ OnChannel(ch, inHand[j], pending[j]) \in [Item -> Nat]
        /\ OnChannel(ch, pending[j], Nothing) \in [Item -> Nat]
    BY <1>1, OnChannelType, NothingType
  <2>2. CASE /\ flush' = [flush EXCEPT ![j][ch] = "holding"]
             /\ inHand' = [inHand EXCEPT ![j] = OnChannel(ch, @, pending[j])]
             /\ pending' = [pending EXCEPT ![j] = OnChannel(ch, @, Nothing)]
             /\ window' = [window EXCEPT ![j][ch] = "shut"]
             /\ UNCHANGED <<lifecycle, finished, said, emitted, runtime>>
    BY <1>1, <2>1, <2>2
  <2>3. CASE /\ flush' = [flush EXCEPT ![j][ch] = "none"]
             /\ UNCHANGED <<inHand, pending, window>>
             /\ UNCHANGED <<lifecycle, finished, said, emitted, runtime>>
    BY <1>1, <2>3
  <2> QED
    BY <1>14, <2>2, <2>3 DEF FlushChecks, Cleared
<1>15. ASSUME NEW j \in Job, NEW ch \in Channel, FlushEmits(j, ch)
       PROVE TypeOK'
  <2>1. Delivered(j, OnChannel(ch, Nothing, inHand[j])) \in [Item -> Nat]
    BY <1>1, DeliveredType, OnChannelType, NothingType
  <2>2. OnChannel(ch, inHand[j], Nothing) \in [Item -> Nat]
    BY <1>1, OnChannelType, NothingType
  <2> QED
    BY <1>1, <1>15, <2>1, <2>2 DEF FlushEmits
<1>16. ASSUME NEW j \in Job, NEW how \in {"completed", "failed", "cancelled"},
              Resolve(j, how)
       PROVE TypeOK'
  BY <1>1, <1>16 DEF Resolve
<1>17. ASSUME NEW j \in Job, BodyPanics(j) PROVE TypeOK'
  BY <1>1, <1>17 DEF BodyPanics
<1>18. ASSUME NEW j \in Job, Cancel(j) PROVE TypeOK'
  BY <1>1, <1>18 DEF Cancel
<1>19. CASE CancelAll
  BY <1>1, <1>19 DEF CancelAll
<1>20. CASE RuntimeDown
  BY <1>1, <1>20 DEF RuntimeDown
<1>21. CASE UNCHANGED vars
  BY <1>1, <1>21 DEF vars
<1> QED
  BY <1>1, <1>2, <1>3, <1>4, <1>5, <1>6, <1>7, <1>8, <1>9, <1>10, <1>11, <1>12,
     <1>13, <1>14, <1>15, <1>16, <1>17, <1>18, <1>19, <1>20, <1>21
     DEF Next, JobStep, Runner, Flusher

\* Every variable keeps its type, for any jobs, kinds, series and bound.
THEOREM JobsTypeOK == Spec => []TypeOK
BY TypeInit, TypeStep, PTL DEF Spec

LEMMA RegistryInit == Init => RegistryInv
<1> SUFFICES ASSUME Init PROVE RegistryInv
  OBVIOUS
<1>1. TypeOK
  BY TypeInit
<1>2. Slots /\ Counted /\ OneAtATime
  BY DEF Init, Slots, Seated, Counted, OneAtATime
<1> QED
  BY <1>1, <1>2 DEF RegistryInv

\* A step that leaves the registry, the kinds and the counts alone, and moves
\* at most one runner between two phases on the same side of the registry.
LEMMA RegistryUntouched ==
  ASSUME RegistryInv, TypeOK', NEW j \in Job, NEW p,
         p # "ended", p \in Seated <=> phase[j] \in Seated,
         phase' = [phase EXCEPT ![j] = p], phase[j] # "ended",
         UNCHANGED <<registered, kind, ends>>
  PROVE  RegistryInv'
<1>1. Slots'
  BY DEF RegistryInv, TypeOK, Slots
<1>2. Counted'
  BY DEF RegistryInv, TypeOK, Counted
<1>3. OneAtATime'
  BY DEF RegistryInv, OneAtATime
<1> QED
  BY <1>1, <1>2, <1>3 DEF RegistryInv

\* A runner that leaves the registry.
LEMMA RegistryLeft ==
  ASSUME RegistryInv, TypeOK', NEW j \in Job, NEW p,
         p # "ended", p \notin Seated,
         phase' = [phase EXCEPT ![j] = p], phase[j] # "ended",
         registered' = registered \ {j},
         UNCHANGED <<kind, ends>>
  PROVE  RegistryInv'
<1>1. Slots'
  BY DEF RegistryInv, TypeOK, Slots
<1>2. Counted'
  BY DEF RegistryInv, TypeOK, Counted
<1>3. OneAtATime'
  BY DEF RegistryInv, OneAtATime
<1> QED
  BY <1>1, <1>2, <1>3 DEF RegistryInv

LEMMA RegistryStep == RegistryInv /\ [Next]_vars => RegistryInv'
<1>1. SUFFICES ASSUME RegistryInv, [Next]_vars PROVE RegistryInv'
  OBVIOUS
<1>2. TypeOK /\ TypeOK'
  BY <1>1, TypeStep DEF RegistryInv
<1> USE DEF MoveTo, lifecycle, throttles
<1>3. ASSUME NEW j \in Job, NEW k \in Kind, StartReporting(j, k)
      PROVE RegistryInv'
  <2>1. j \notin registered /\ phase[j] = "unused"
    BY <1>1, <1>3 DEF RegistryInv, Slots, Seated, StartReporting
  <2>2. Slots'
    BY <1>1, <1>2, <1>3 DEF RegistryInv, TypeOK, Slots, Seated, StartReporting
  <2>3. Counted'
    BY <1>1, <1>2, <1>3 DEF RegistryInv, TypeOK, Counted, StartReporting
  <2>4. OneAtATime'
    <3>1. SUFFICES ASSUME NEW a \in registered', NEW b \in registered',
                          kind'[a] = kind'[b], kind'[a] \in Exclusive, a # b
                   PROVE FALSE
      BY DEF OneAtATime
    <3>2. /\ registered' = registered \cup {j}
          /\ kind' = [kind EXCEPT ![j] = k]
          /\ ~Busy(k)
      BY <1>3 DEF StartReporting
    <3>3. kind \in [Job -> Kind \cup {Untaken}] /\ registered \subseteq Job
      BY <1>2 DEF TypeOK
    <3>4. CASE a \in registered /\ b \in registered
      <4>1. kind[a] = kind[b] /\ kind[a] \in Exclusive
        BY <2>1, <3>1, <3>2, <3>3, <3>4
      <4> QED
        BY <1>1, <3>1, <3>4, <4>1 DEF RegistryInv, OneAtATime
    <3>5. CASE a = j
      <4>1. b \in registered /\ kind[b] = k /\ k \in Exclusive
        BY <2>1, <3>1, <3>2, <3>3, <3>5
      <4> QED
        BY <3>2, <4>1 DEF Busy
    <3>6. CASE b = j
      <4>1. a \in registered /\ kind[a] = k /\ k \in Exclusive
        BY <2>1, <3>1, <3>2, <3>3, <3>6
      <4> QED
        BY <3>2, <4>1 DEF Busy
    <3> QED
      BY <3>1, <3>2, <3>4, <3>5, <3>6
  <2> QED
    BY <1>2, <2>2, <2>3, <2>4 DEF RegistryInv
<1>4. ASSUME NEW j \in Job, Announce(j) PROVE RegistryInv'
  BY <1>1, <1>2, <1>4, RegistryUntouched DEF Announce, Seated
<1>5. ASSUME NEW j \in Job, Poll(j) PROVE RegistryInv'
  BY <1>1, <1>2, <1>5, RegistryUntouched DEF Poll, Seated
<1>6. ASSUME NEW j \in Job, Deregister(j) PROVE RegistryInv'
  BY <1>1, <1>2, <1>6, RegistryLeft DEF Deregister, Seated
<1>7. ASSUME NEW j \in Job, MarkFinished(j) PROVE RegistryInv'
  BY <1>1, <1>2, <1>7, RegistryUntouched DEF MarkFinished, Seated
<1>8. ASSUME NEW j \in Job, NEW ch \in Channel, FinalFlush(j, ch)
      PROVE RegistryInv'
  <2>1. phase[j] \in {"progress", "changed"}
    BY <1>8 DEF FinalFlush, Cleared, LockFree, Channel
  <2> QED
    BY <1>1, <1>2, <1>8, <2>1, RegistryUntouched
       DEF FinalFlush, Cleared, LockFree, Seated
<1>9. ASSUME NEW j \in Job, EmitTerminal(j) PROVE RegistryInv'
  <2>1. Slots'
    BY <1>1, <1>2, <1>9 DEF RegistryInv, TypeOK, Slots, Seated, EmitTerminal
  <2>2. Counted'
    BY <1>1, <1>2, <1>9 DEF RegistryInv, TypeOK, Counted, EmitTerminal
  <2>3. OneAtATime'
    BY <1>1, <1>9 DEF RegistryInv, OneAtATime, EmitTerminal
  <2> QED
    BY <1>2, <2>1, <2>2, <2>3 DEF RegistryInv
<1>10. ASSUME NEW j \in Job, GuardMarksFinished(j) PROVE RegistryInv'
  BY <1>1, <1>2, <1>10, RegistryUntouched DEF GuardMarksFinished, Seated
<1>11. ASSUME NEW j \in Job, GuardDeregisters(j) PROVE RegistryInv'
  BY <1>1, <1>2, <1>11, RegistryLeft DEF GuardDeregisters, Seated
<1>12. ASSUME NEW j \in Job, RuntimeDrops(j) PROVE RegistryInv'
  BY <1>1, <1>2, <1>12, RegistryUntouched DEF RuntimeDrops, Seated
<1>13. ASSUME NEW j \in Job, NEW how, Resolve(j, how) PROVE RegistryInv'
  BY <1>1, <1>2, <1>13, RegistryUntouched DEF Resolve, Seated
<1>14. ASSUME NEW j \in Job, BodyPanics(j) PROVE RegistryInv'
  BY <1>1, <1>2, <1>14, RegistryUntouched DEF BodyPanics, Seated
<1>15. ASSUME UNCHANGED <<phase, registered, kind, ends>> PROVE RegistryInv'
  BY <1>1, <1>2, <1>15 DEF RegistryInv, Slots, Counted, OneAtATime
<1>16. ASSUME NEW j \in Job, NEW ch \in Channel, NEW items,
              \/ Report(j, ch, items)
              \/ IntervalPasses(j, ch)
              \/ Flusher(j, ch)
       PROVE RegistryInv'
  BY <1>15, <1>16
     DEF Report, Cleared, LockFree, IntervalPasses, Flusher, FlushChecks, FlushEmits
<1>17. ASSUME NEW j \in Job, Cancel(j) PROVE RegistryInv'
  BY <1>15, <1>17 DEF Cancel
<1>18. CASE CancelAll \/ RuntimeDown \/ UNCHANGED vars
  BY <1>15, <1>18 DEF CancelAll, RuntimeDown, vars
<1> QED
  BY <1>1, <1>3, <1>4, <1>5, <1>6, <1>7, <1>8, <1>9, <1>10, <1>11, <1>12,
     <1>13, <1>14, <1>16, <1>17, <1>18 DEF Next, JobStep, Runner

LEMMA RegistryAlways == Spec => []RegistryInv
BY RegistryInit, RegistryStep, PTL DEF Spec

\* The registry holds at most one job of an exclusive kind, and at most one
\* body of such a kind runs, in every behaviour: start_reporting's check
\* under the lock is enough, because an entry outlives its body.
THEOREM JobsOneAtATime == Spec => [](OneAtATime /\ OneBody)
<1>1. RegistryInv => OneAtATime /\ OneBody
  BY DEF RegistryInv, Slots, Seated, OneAtATime, OneBody
<1> QED
  BY <1>1, RegistryAlways, PTL

\* Every job has at most one terminal event, and its slot is free by then.
THEOREM JobsEndOnceAndFree == Spec => []EndsOnceAndFree
<1>1. RegistryInv => EndsOnceAndFree
  BY DEF RegistryInv, Slots, Seated, Counted, EndsOnceAndFree
<1> QED
  BY <1>1, RegistryAlways, PTL

-----------------------------------------------------------------------------
(* The throttles                                                           *)

\* Where the last version said of an item is: still buffered, else in the
\* hand of a flush, else with the listeners.
Latest(j, i) ==
  IF pending[j][i] # 0 THEN pending[j][i]
  ELSE IF inHand[j][i] # 0 THEN inHand[j][i] ELSE emitted[j][i]

Tracked ==
  \A j \in Job, i \in Item :
    /\ said[j][i] = Latest(j, i)
    /\ emitted[j][i] <= said[j][i]
    /\ inHand[j][i] # 0 =>
         emitted[j][i] <= inHand[j][i] /\ inHand[j][i] <= said[j][i]

\* Only a flush that holds the lock has something in hand.
Held ==
  \A j \in Job, ch \in Channel :
    flush[j][ch] # "holding" => \A i \in ItemsOf(ch) : inHand[j][i] = 0

Settled(j, ch) ==
  flush[j][ch] # "holding" /\ \A i \in ItemsOf(ch) : pending[j][i] = 0

\* An id no call has taken has nothing buffered; how far finish has come; a
\* job in the guard's hands says so.
Flushed ==
  \A j \in Job :
    /\ phase[j] = "changed" => Settled(j, "progress")
    /\ phase[j] \in {"unused", "ending"} \/ (phase[j] = "ended" /\ ~ByGuard(j))
         => \A ch \in Channel : Settled(j, ch)
    /\ phase[j] \in {"dropped", "silenced", "dropEnding"} => ByGuard(j)

ThrottleInv == RegistryInv /\ Tracked /\ Held /\ Flushed

LEMMA ThrottleInit == Init => ThrottleInv
<1> SUFFICES ASSUME Init PROVE ThrottleInv
  OBVIOUS
<1>1. Tracked
  BY DEF Init, Tracked, Latest
<1>2. Held
  BY ItemsOfChannel DEF Init, Held
<1>3. Flushed
  BY ItemsOfChannel DEF Init, Flushed, Settled
<1> QED
  BY <1>1, <1>2, <1>3, RegistryInit DEF ThrottleInv

\* A runner that changes phase and touches no throttle.
LEMMA RunnerMoves ==
  ASSUME ThrottleInv, TypeOK', RegistryInv', NEW j \in Job, NEW p,
         phase' = [phase EXCEPT ![j] = p],
         p \notin {"unused", "changed", "ending"},
         p = "ended" => phase[j] \in {"ending", "dropEnding"},
         p \in {"dropped", "silenced", "dropEnding"} => ByGuard(j)',
         \A a \in Job \ {j} : outcome'[a] = outcome[a],
         p = "ended" => outcome'[j] = outcome[j],
         UNCHANGED throttles
  PROVE  ThrottleInv'
<1> USE DEF throttles
<1>1. TypeOK /\ Tracked /\ Held /\ Flushed
  BY DEF ThrottleInv, RegistryInv
<1>2. Tracked' /\ Held'
  BY <1>1 DEF Tracked, Latest, Held
<1>3. Flushed'
  <2>1. SUFFICES ASSUME NEW a \in Job
        PROVE /\ phase'[a] = "changed" => Settled(a, "progress")'
              /\ \/ phase'[a] \in {"unused", "ending"}
                 \/ phase'[a] = "ended" /\ ~ByGuard(a)'
                 => \A ch \in Channel : Settled(a, ch)'
              /\ phase'[a] \in {"dropped", "silenced", "dropEnding"} => ByGuard(a)'
    BY DEF Flushed
  <2>2. \A ch \in Channel : Settled(a, ch) => Settled(a, ch)'
    BY DEF Settled
  <2>3. CASE a # j
    BY <1>1, <2>2, <2>3 DEF Flushed, ByGuard, TypeOK, Channel
  <2>4. CASE a = j
    <3>1. phase'[a] = p
      BY <1>1, <2>4 DEF TypeOK
    <3>2. p = "ended" => (ByGuard(a)' <=> ByGuard(a))
      BY <2>4 DEF ByGuard
    <3> QED
      BY <1>1, <2>2, <2>4, <3>1, <3>2 DEF Flushed
  <2> QED
    BY <2>3, <2>4
<1> QED
  BY <1>2, <1>3 DEF ThrottleInv

\* A step that moves no runner, keeps the outcomes, and settles no less.
LEMMA RunnersStay ==
  ASSUME ThrottleInv, UNCHANGED <<phase, outcome>>,
         \A a \in Job, ch \in Channel :
           phase[a] # "body" /\ Settled(a, ch) => Settled(a, ch)'
  PROVE  Flushed'
BY DEF ThrottleInv, Flushed, ByGuard, Channel

LEMMA ChannelsApart ==
  ASSUME NEW i \in Item, NEW c1 \in Channel, NEW c2 \in Channel,
         i \in ItemsOf(c1), i \in ItemsOf(c2)
  PROVE  c1 = c2
BY JobsAssumption DEF Channel, ItemsOf

LEMMA ReportStep ==
  ASSUME ThrottleInv, TypeOK', RegistryInv', NEW j \in Job, NEW ch \in Channel,
         NEW items \in SUBSET ItemsOf(ch), Report(j, ch, items)
  PROVE  ThrottleInv'
<1>1. TypeOK /\ Tracked /\ Held
  BY DEF ThrottleInv, RegistryInv
<1>2. /\ phase[j] = "body"
      /\ flush[j][ch] # "holding"
      /\ UNCHANGED <<phase, outcome, inHand>>
      /\ said' = [said EXCEPT ![j] = Updated(j, items, said[j])]
  BY DEF Report, Cleared, LockFree, lifecycle
<1>3. \/ /\ emitted' = [emitted EXCEPT ![j] = Delivered(j,
                OnChannel(ch, Nothing, Updated(j, items, pending[j])))]
         /\ pending' = [pending EXCEPT ![j] = OnChannel(ch, pending[j], Nothing)]
         /\ UNCHANGED flush
      \/ /\ pending' = [pending EXCEPT ![j] = Updated(j, items, pending[j])]
         /\ flush' = [flush EXCEPT ![j][ch] =
              IF flush[j][ch] = "none" THEN "asleep" ELSE flush[j][ch]]
         /\ UNCHANGED emitted
  BY DEF Report, Cleared, LockFree
<1>4. Tracked'
  <2>1. SUFFICES ASSUME NEW a \in Job, NEW i \in Item
        PROVE /\ said'[a][i] = Latest(a, i)'
              /\ emitted'[a][i] <= said'[a][i]
              /\ inHand'[a][i] # 0 =>
                   emitted'[a][i] <= inHand'[a][i] /\ inHand'[a][i] <= said'[a][i]
    BY DEF Tracked
  <2>2. /\ said[a][i] \in Nat /\ emitted[a][i] \in Nat
        /\ pending[a][i] \in Nat /\ inHand[a][i] \in Nat
        /\ said[a][i] = Latest(a, i)
        /\ emitted[a][i] <= said[a][i]
        /\ inHand[a][i] # 0 =>
             emitted[a][i] <= inHand[a][i] /\ inHand[a][i] <= said[a][i]
    BY <1>1 DEF TypeOK, Tracked
  <2>3. CASE a # j
    <3>1. /\ said'[a] = said[a] /\ emitted'[a] = emitted[a]
          /\ pending'[a] = pending[a] /\ inHand'[a] = inHand[a]
      BY <1>1, <1>2, <1>3, <2>3 DEF TypeOK
    <3> QED
      BY <2>2, <3>1 DEF Latest
  <2>4. CASE a = j
    <3>1. /\ said'[a][i] = IF i \in items THEN said[a][i] + 1 ELSE said[a][i]
          /\ inHand'[a][i] = inHand[a][i]
      BY <1>1, <1>2, <2>4 DEF TypeOK, Updated
    <3>2. i \in ItemsOf(ch) => inHand[a][i] = 0
      BY <1>1, <1>2, <2>4 DEF Held
    <3>3. CASE /\ emitted' = [emitted EXCEPT ![j] = Delivered(j,
                    OnChannel(ch, Nothing, Updated(j, items, pending[j])))]
               /\ pending' = [pending EXCEPT ![j] = OnChannel(ch, pending[j], Nothing)]
      <4>1. pending'[a][i] = IF i \in ItemsOf(ch) THEN 0 ELSE pending[a][i]
        BY <1>1, <2>4, <3>3 DEF TypeOK, OnChannel, Nothing
      <4>2. emitted'[a][i] =
              IF i \in items THEN said[a][i] + 1
              ELSE IF i \in ItemsOf(ch) /\ pending[a][i] # 0 THEN pending[a][i]
              ELSE emitted[a][i]
        BY <1>1, <2>2, <2>4, <3>3
           DEF TypeOK, Delivered, OnChannel, Nothing, Updated
      <4> QED
        BY <2>2, <3>1, <3>2, <4>1, <4>2 DEF Latest
    <3>4. CASE /\ pending' = [pending EXCEPT ![j] = Updated(j, items, pending[j])]
               /\ UNCHANGED emitted
      <4>1. pending'[a][i] = IF i \in items THEN said[a][i] + 1 ELSE pending[a][i]
        BY <1>1, <2>4, <3>4 DEF TypeOK, Updated
      <4> QED
        BY <2>2, <3>1, <3>2, <3>4, <4>1 DEF Latest
    <3> QED
      BY <1>3, <3>3, <3>4
  <2> QED
    BY <2>3, <2>4
<1>5. \A a \in Job, c \in Channel : (flush'[a][c] = "holding") <=> (flush[a][c] = "holding")
  <2>1. CASE UNCHANGED flush
    BY <2>1
  <2>2. CASE flush' = [flush EXCEPT ![j][ch] =
               IF flush[j][ch] = "none" THEN "asleep" ELSE flush[j][ch]]
    BY <1>1, <1>2, <2>2 DEF TypeOK
  <2> QED
    BY <1>3, <2>1, <2>2
<1>6. Held'
  BY <1>1, <1>2, <1>5 DEF Held
<1>7. Flushed'
  <2>1. ASSUME NEW a \in Job, NEW c \in Channel, phase[a] # "body", Settled(a, c)
        PROVE Settled(a, c)'
    <3>1. pending'[a] = pending[a]
      BY <1>1, <1>2, <1>3, <2>1 DEF TypeOK
    <3> QED
      BY <1>5, <2>1, <3>1 DEF Settled
  <2> QED
    BY <1>2, <2>1, RunnersStay
<1> QED
  BY <1>4, <1>6, <1>7 DEF ThrottleInv

LEMMA FlushChecksStep ==
  ASSUME ThrottleInv, TypeOK', RegistryInv', NEW j \in Job, NEW ch \in Channel,
         FlushChecks(j, ch)
  PROVE  ThrottleInv'
<1>1. TypeOK /\ Tracked /\ Held
  BY DEF ThrottleInv, RegistryInv
<1>2. /\ flush[j][ch] = "awake"
      /\ UNCHANGED <<phase, outcome, said, emitted>>
  BY DEF FlushChecks, Cleared, lifecycle
<1>3. CASE /\ HasPending(j, ch)
           /\ flush' = [flush EXCEPT ![j][ch] = "holding"]
           /\ inHand' = [inHand EXCEPT ![j] = OnChannel(ch, @, pending[j])]
           /\ pending' = [pending EXCEPT ![j] = OnChannel(ch, @, Nothing)]
  <2>1. \A a \in Job, i \in Item :
          /\ inHand'[a][i] = IF a = j /\ i \in ItemsOf(ch) THEN pending[a][i]
                             ELSE inHand[a][i]
          /\ pending'[a][i] = IF a = j /\ i \in ItemsOf(ch) THEN 0
                              ELSE pending[a][i]
    BY <1>1, <1>3 DEF TypeOK, OnChannel, Nothing
  <2>2. Tracked'
    <3>1. SUFFICES ASSUME NEW a \in Job, NEW i \in Item
          PROVE /\ said'[a][i] = Latest(a, i)'
                /\ emitted'[a][i] <= said'[a][i]
                /\ inHand'[a][i] # 0 =>
                     emitted'[a][i] <= inHand'[a][i] /\ inHand'[a][i] <= said'[a][i]
      BY DEF Tracked
    <3>2. /\ said[a][i] \in Nat /\ emitted[a][i] \in Nat
          /\ pending[a][i] \in Nat /\ inHand[a][i] \in Nat
          /\ said[a][i] = Latest(a, i)
          /\ emitted[a][i] <= said[a][i]
          /\ inHand[a][i] # 0 =>
               emitted[a][i] <= inHand[a][i] /\ inHand[a][i] <= said[a][i]
      BY <1>1 DEF TypeOK, Tracked
    <3>3. a = j /\ i \in ItemsOf(ch) => inHand[a][i] = 0
      BY <1>1, <1>2 DEF Held
    <3> QED
      BY <1>2, <2>1, <3>2, <3>3 DEF Latest
  <2>3. \A a \in Job, c \in Channel :
          flush'[a][c] = IF a = j /\ c = ch THEN "holding" ELSE flush[a][c]
    BY <1>1, <1>3 DEF TypeOK
  <2>4. Held'
    <3>1. SUFFICES ASSUME NEW a \in Job, NEW c \in Channel,
                          flush'[a][c] # "holding", NEW i \in ItemsOf(c)
                   PROVE inHand'[a][i] = 0
      BY DEF Held
    <3>2. i \in Item /\ (a = j => i \notin ItemsOf(ch))
      BY <2>3, <3>1, ItemsOfChannel, ChannelsApart
    <3>3. flush[a][c] # "holding"
      BY <1>2, <2>3, <3>1
    <3> QED
      BY <1>1, <2>1, <3>1, <3>2, <3>3 DEF Held
  <2>5. Flushed'
    <3>1. ~Settled(j, ch)
      BY <1>3 DEF HasPending, Settled
    <3>2. ASSUME NEW a \in Job, NEW c \in Channel, Settled(a, c)
          PROVE Settled(a, c)'
      <4>1. flush'[a][c] # "holding"
        BY <2>3, <3>1, <3>2 DEF Settled
      <4>2. \A i \in ItemsOf(c) : pending'[a][i] = 0
        BY <2>1, <3>2, ItemsOfChannel DEF Settled
      <4> QED
        BY <4>1, <4>2 DEF Settled
    <3> QED
      BY <1>2, <3>2, RunnersStay
  <2> QED
    BY <2>2, <2>4, <2>5 DEF ThrottleInv
<1>4. CASE flush' = [flush EXCEPT ![j][ch] = "none"] /\ UNCHANGED <<inHand, pending>>
  <2>1. \A a \in Job, c \in Channel :
          (flush'[a][c] = "holding") <=> (flush[a][c] = "holding")
    BY <1>1, <1>2, <1>4 DEF TypeOK
  <2>2. Tracked'
    BY <1>1, <1>2, <1>4 DEF Tracked, Latest
  <2>3. Held'
    BY <1>1, <1>4, <2>1 DEF Held
  <2>4. Flushed'
    BY <1>2, <1>4, <2>1, RunnersStay DEF Settled
  <2> QED
    BY <2>2, <2>3, <2>4 DEF ThrottleInv
<1> QED
  BY <1>3, <1>4 DEF FlushChecks, Cleared

LEMMA FlushEmitsStep ==
  ASSUME ThrottleInv, TypeOK', RegistryInv', NEW j \in Job, NEW ch \in Channel,
         FlushEmits(j, ch)
  PROVE  ThrottleInv'
<1>1. TypeOK /\ Tracked /\ Held
  BY DEF ThrottleInv, RegistryInv
<1>2. /\ emitted' = [emitted EXCEPT ![j] =
           Delivered(j, OnChannel(ch, Nothing, inHand[j]))]
      /\ inHand' = [inHand EXCEPT ![j] = OnChannel(ch, inHand[j], Nothing)]
      /\ flush' = [flush EXCEPT ![j][ch] = "none"]
      /\ UNCHANGED <<phase, outcome, said, pending>>
  BY DEF FlushEmits, lifecycle
<1>3. \A a \in Job, i \in Item :
        inHand'[a][i] = IF a = j /\ i \in ItemsOf(ch) THEN 0 ELSE inHand[a][i]
  BY <1>1, <1>2 DEF TypeOK, OnChannel, Nothing
<1>4. \A a \in Job, i \in Item :
        emitted'[a][i] = IF a = j /\ i \in ItemsOf(ch) /\ inHand[a][i] # 0
                         THEN inHand[a][i] ELSE emitted[a][i]
  BY <1>1, <1>2 DEF TypeOK, OnChannel, Nothing, Delivered
<1>5. Tracked'
  <2>1. SUFFICES ASSUME NEW a \in Job, NEW i \in Item
        PROVE /\ said'[a][i] = Latest(a, i)'
              /\ emitted'[a][i] <= said'[a][i]
              /\ inHand'[a][i] # 0 =>
                   emitted'[a][i] <= inHand'[a][i] /\ inHand'[a][i] <= said'[a][i]
    BY DEF Tracked
  <2>2. /\ said[a][i] \in Nat /\ emitted[a][i] \in Nat
        /\ pending[a][i] \in Nat /\ inHand[a][i] \in Nat
        /\ said[a][i] = Latest(a, i)
        /\ emitted[a][i] <= said[a][i]
        /\ inHand[a][i] # 0 =>
             emitted[a][i] <= inHand[a][i] /\ inHand[a][i] <= said[a][i]
    BY <1>1 DEF TypeOK, Tracked
  <2> QED
    BY <1>2, <1>3, <1>4, <2>2 DEF Latest
<1>6. \A a \in Job, c \in Channel :
        flush'[a][c] = IF a = j /\ c = ch THEN "none" ELSE flush[a][c]
  BY <1>1, <1>2 DEF TypeOK
<1>7. Held'
  <2>1. SUFFICES ASSUME NEW a \in Job, NEW c \in Channel,
                        flush'[a][c] # "holding", NEW i \in ItemsOf(c)
                 PROVE inHand'[a][i] = 0
    BY DEF Held
  <2>2. i \in Item
    BY ItemsOfChannel
  <2>3. CASE a = j /\ c = ch
    BY <1>3, <2>2, <2>3
  <2>4. CASE ~(a = j /\ c = ch)
    BY <1>1, <1>3, <1>6, <2>1, <2>2, <2>4 DEF Held
  <2> QED
    BY <2>3, <2>4
<1>8. Flushed'
  BY <1>2, <1>6, RunnersStay DEF Settled
<1> QED
  BY <1>5, <1>7, <1>8 DEF ThrottleInv

LEMMA FinalFlushStep ==
  ASSUME ThrottleInv, TypeOK', RegistryInv', NEW j \in Job, NEW ch \in Channel,
         FinalFlush(j, ch)
  PROVE  ThrottleInv'
<1>1. TypeOK /\ Tracked /\ Held /\ Flushed
  BY DEF ThrottleInv, RegistryInv
<1>2. /\ phase[j] = ch
      /\ flush[j][ch] # "holding"
      /\ phase' = [phase EXCEPT ![j] = IF ch = "progress" THEN "changed" ELSE "ending"]
      /\ emitted' = [emitted EXCEPT ![j] =
           Delivered(j, OnChannel(ch, Nothing, pending[j]))]
      /\ pending' = [pending EXCEPT ![j] = OnChannel(ch, pending[j], Nothing)]
      /\ UNCHANGED <<outcome, flush, inHand, said>>
  BY DEF FinalFlush, Cleared, LockFree, MoveTo
<1>3. \A a \in Job, i \in Item :
        /\ pending'[a][i] = IF a = j /\ i \in ItemsOf(ch) THEN 0 ELSE pending[a][i]
        /\ emitted'[a][i] = IF a = j /\ i \in ItemsOf(ch) /\ pending[a][i] # 0
                            THEN pending[a][i] ELSE emitted[a][i]
  BY <1>1, <1>2 DEF TypeOK, OnChannel, Nothing, Delivered
<1>4. Tracked'
  <2>1. SUFFICES ASSUME NEW a \in Job, NEW i \in Item
        PROVE /\ said'[a][i] = Latest(a, i)'
              /\ emitted'[a][i] <= said'[a][i]
              /\ inHand'[a][i] # 0 =>
                   emitted'[a][i] <= inHand'[a][i] /\ inHand'[a][i] <= said'[a][i]
    BY DEF Tracked
  <2>2. /\ said[a][i] \in Nat /\ emitted[a][i] \in Nat
        /\ pending[a][i] \in Nat /\ inHand[a][i] \in Nat
        /\ said[a][i] = Latest(a, i)
        /\ emitted[a][i] <= said[a][i]
        /\ inHand[a][i] # 0 =>
             emitted[a][i] <= inHand[a][i] /\ inHand[a][i] <= said[a][i]
    BY <1>1 DEF TypeOK, Tracked
  <2>3. a = j /\ i \in ItemsOf(ch) => inHand[a][i] = 0
    BY <1>1, <1>2 DEF Held
  <2> QED
    BY <1>2, <1>3, <2>2, <2>3 DEF Latest
<1>5. Held'
  BY <1>1, <1>2 DEF Held
<1>6. ASSUME NEW a \in Job, NEW c \in Channel, Settled(a, c)
      PROVE Settled(a, c)'
  BY <1>2, <1>3, <1>6, ItemsOfChannel DEF Settled
<1>7. Settled(j, ch)'
  BY <1>2, <1>3, ItemsOfChannel DEF Settled
<1>8. Flushed'
  <2>1. SUFFICES ASSUME NEW a \in Job
        PROVE /\ phase'[a] = "changed" => Settled(a, "progress")'
              /\ \/ phase'[a] \in {"unused", "ending"}
                 \/ phase'[a] = "ended" /\ ~ByGuard(a)'
                 => \A c \in Channel : Settled(a, c)'
              /\ phase'[a] \in {"dropped", "silenced", "dropEnding"} => ByGuard(a)'
    BY DEF Flushed
  <2>2. CASE a # j
    BY <1>1, <1>2, <1>6, <2>2 DEF Flushed, ByGuard, TypeOK, Channel
  <2>3. CASE a = j /\ ch = "progress"
    <3>1. phase'[a] = "changed"
      BY <1>1, <1>2, <2>3 DEF TypeOK
    <3> QED
      BY <1>7, <2>3, <3>1
  <2>4. CASE a = j /\ ch = "changed"
    <3>1. phase'[a] = "ending" /\ Settled(a, "progress")
      BY <1>1, <1>2, <2>4 DEF TypeOK, Flushed
    <3>2. \A c \in Channel : Settled(a, c)'
      BY <1>6, <1>7, <2>4, <3>1 DEF Channel
    <3> QED
      BY <3>1, <3>2
  <2> QED
    BY <2>2, <2>3, <2>4 DEF Channel
<1> QED
  BY <1>4, <1>5, <1>8 DEF ThrottleInv

LEMMA ThrottleStep == ThrottleInv /\ [Next]_vars => ThrottleInv'
<1>1. SUFFICES ASSUME ThrottleInv, [Next]_vars PROVE ThrottleInv'
  OBVIOUS
<1>2. RegistryInv /\ RegistryInv' /\ TypeOK /\ TypeOK' /\ Flushed
  BY <1>1, RegistryStep, TypeStep DEF ThrottleInv, RegistryInv
<1> USE DEF MoveTo
<1>3. ASSUME NEW j \in Job, NEW k \in Kind, StartReporting(j, k)
      PROVE ThrottleInv'
  BY <1>1, <1>2, <1>3, RunnerMoves DEF StartReporting
<1>4. ASSUME NEW j \in Job, Announce(j) PROVE ThrottleInv'
  <2>1. CASE MoveTo(j, "lost")
    BY <1>1, <1>2, <1>4, <2>1, RunnerMoves DEF Announce
  <2>2. CASE MoveTo(j, "spawned")
    BY <1>1, <1>2, <1>4, <2>2, RunnerMoves DEF Announce
  <2> QED
    BY <1>4, <2>1, <2>2 DEF Announce
<1>5. ASSUME NEW j \in Job, Poll(j) PROVE ThrottleInv'
  BY <1>1, <1>2, <1>5, RunnerMoves DEF Poll
<1>6. ASSUME NEW j \in Job, Deregister(j) PROVE ThrottleInv'
  BY <1>1, <1>2, <1>6, RunnerMoves DEF Deregister
<1>7. ASSUME NEW j \in Job, MarkFinished(j) PROVE ThrottleInv'
  BY <1>1, <1>2, <1>7, RunnerMoves DEF MarkFinished
<1>8. ASSUME NEW j \in Job, EmitTerminal(j) PROVE ThrottleInv'
  <2>1. /\ phase' = [phase EXCEPT ![j] = "ended"]
        /\ phase[j] \in {"ending", "dropEnding"}
        /\ UNCHANGED outcome
        /\ UNCHANGED throttles
    BY <1>8 DEF EmitTerminal
  <2>2. \A a \in Job \ {j} : outcome'[a] = outcome[a]
    BY <2>1
  <2>3. outcome'[j] = outcome[j]
    BY <2>1
  <2>4. PICK p : p = "ended"
    OBVIOUS
  <2>5. /\ phase' = [phase EXCEPT ![j] = p]
        /\ p \notin {"unused", "changed", "ending"}
        /\ p \notin {"dropped", "silenced", "dropEnding"}
    BY <2>1, <2>4
  <2> HIDE <2>4
  <2> QED
    BY <1>1, <1>2, <2>1, <2>2, <2>3, <2>5, RunnerMoves
<1>9. ASSUME NEW j \in Job, GuardMarksFinished(j) PROVE ThrottleInv'
  <2>1. ByGuard(j)'
    BY <1>2, <1>9 DEF GuardMarksFinished, Flushed, ByGuard
  <2> QED
    BY <1>1, <1>2, <1>9, <2>1, RunnerMoves DEF GuardMarksFinished
<1>10. ASSUME NEW j \in Job, GuardDeregisters(j) PROVE ThrottleInv'
  <2>1. ByGuard(j)'
    BY <1>2, <1>10 DEF GuardDeregisters, Flushed, ByGuard
  <2> QED
    BY <1>1, <1>2, <1>10, <2>1, RunnerMoves DEF GuardDeregisters
<1>11. ASSUME NEW j \in Job, RuntimeDrops(j) PROVE ThrottleInv'
  <2>1. CASE /\ MoveTo(j, "dropped")
             /\ outcome' = [outcome EXCEPT ![j] = "dropped"]
    <3>1. /\ ByGuard(j)'
          /\ \A a \in Job \ {j} : outcome'[a] = outcome[a]
      BY <1>2, <2>1 DEF ByGuard, TypeOK
    <3> QED
      BY <1>1, <1>2, <1>11, <2>1, <3>1, RunnerMoves DEF RuntimeDrops
  <2>2. CASE MoveTo(j, "lost") /\ UNCHANGED outcome
    BY <1>1, <1>2, <1>11, <2>2, RunnerMoves DEF RuntimeDrops
  <2> QED
    BY <1>11, <2>1, <2>2 DEF RuntimeDrops
<1>12. ASSUME NEW j \in Job, NEW how, Resolve(j, how) PROVE ThrottleInv'
  <2>1. \A a \in Job \ {j} : outcome'[a] = outcome[a]
    BY <1>2, <1>12 DEF Resolve, TypeOK
  <2> QED
    BY <1>1, <1>2, <1>12, <2>1, RunnerMoves DEF Resolve
<1>13. ASSUME NEW j \in Job, BodyPanics(j) PROVE ThrottleInv'
  <2>1. /\ ByGuard(j)'
        /\ \A a \in Job \ {j} : outcome'[a] = outcome[a]
    BY <1>2, <1>13 DEF BodyPanics, ByGuard, TypeOK
  <2> QED
    BY <1>1, <1>2, <1>13, <2>1, RunnerMoves DEF BodyPanics
<1>14. ASSUME UNCHANGED <<phase, outcome, pending, inHand, said, emitted>>,
              \A a \in Job, c \in Channel :
                (flush'[a][c] = "holding") <=> (flush[a][c] = "holding")
       PROVE ThrottleInv'
  <2>1. Tracked' /\ Held'
    BY <1>1, <1>14 DEF ThrottleInv, Tracked, Latest, Held
  <2>2. Flushed'
    BY <1>1, <1>14, RunnersStay DEF Settled
  <2> QED
    BY <1>2, <2>1, <2>2 DEF ThrottleInv
<1>15. ASSUME NEW j \in Job, NEW ch \in Channel, IntervalPasses(j, ch)
       PROVE ThrottleInv'
  <2>1. flush' = [flush EXCEPT ![j][ch] =
                    IF flush[j][ch] = "asleep" THEN "awake" ELSE flush[j][ch]]
    BY <1>15 DEF IntervalPasses
  <2>2. \A a \in Job, c \in Channel :
          (flush'[a][c] = "holding") <=> (flush[a][c] = "holding")
    BY <1>2, <2>1 DEF TypeOK
  <2> QED
    BY <1>14, <1>15, <2>2 DEF IntervalPasses, lifecycle
<1>16. CASE RuntimeDown
  <2>1. \A a \in Job, c \in Channel :
          (flush'[a][c] = "holding") <=> (flush[a][c] = "holding")
    BY <1>2, <1>16 DEF RuntimeDown, TypeOK
  <2> QED
    BY <1>14, <1>16, <2>1 DEF RuntimeDown, lifecycle
<1>17. ASSUME NEW j \in Job, Cancel(j) PROVE ThrottleInv'
  BY <1>14, <1>17 DEF Cancel, throttles
<1>18. CASE CancelAll \/ UNCHANGED vars
  BY <1>14, <1>18 DEF CancelAll, vars, throttles
<1>19. ASSUME NEW j \in Job, NEW ch \in Channel,
              \/ \E items \in SUBSET ItemsOf(ch) : Report(j, ch, items)
              \/ FlushChecks(j, ch) \/ FlushEmits(j, ch) \/ FinalFlush(j, ch)
       PROVE ThrottleInv'
  BY <1>1, <1>2, <1>19, ReportStep, FlushChecksStep, FlushEmitsStep,
     FinalFlushStep
<1> QED
  BY <1>1, <1>3, <1>4, <1>5, <1>6, <1>7, <1>8, <1>9, <1>10, <1>11, <1>12,
     <1>13, <1>15, <1>16, <1>17, <1>18, <1>19
     DEF Next, JobStep, Runner, Flusher

LEMMA ThrottleAlways == Spec => []ThrottleInv
BY ThrottleInit, ThrottleStep, PTL DEF Spec

LEMMA FlushedByTheEnd == ThrottleInv => LatestFlushed
<1>1. SUFFICES ASSUME ThrottleInv, NEW j \in Job,
                      phase[j] \in {"ending", "ended"}, ~ByGuard(j)
               PROVE emitted[j] = said[j]
  BY DEF LatestFlushed
<1>2. TypeOK /\ Tracked /\ Held /\ \A ch \in Channel : Settled(j, ch)
  BY <1>1 DEF ThrottleInv, RegistryInv, Flushed
<1>3. ASSUME NEW i \in Item PROVE emitted[j][i] = said[j][i]
  <2>1. PICK ch \in Channel : i \in ItemsOf(ch)
    BY DEF Item, Channel, ItemsOf
  <2>2. pending[j][i] = 0 /\ inHand[j][i] = 0
    BY <1>2, <2>1 DEF Settled, Held
  <2> QED
    BY <1>2, <2>2 DEF Tracked, Latest
<1> QED
  BY <1>2, <1>3 DEF TypeOK

\* A job that ends on its runner's own path has had everything it reported
\* delivered by then, whatever the scheduled flushes were doing.
THEOREM JobsLatestFlushed == Spec => []LatestFlushed
BY FlushedByTheEnd, ThrottleAlways, PTL

-----------------------------------------------------------------------------
(* What one step may do to the listeners' view of a job                    *)

\* An emission brings versions no older than the ones listeners have, and
\* comes from the body, from a flush with the lock, or from finish.
LEMMA EmissionStep ==
  ASSUME ThrottleInv, [Next]_vars, NEW a \in Job
  PROVE  /\ \A i \in Item : emitted'[a][i] >= emitted[a][i]
         /\ \/ emitted'[a] = emitted[a]
            \/ phase[a] \in {"body", "progress", "changed"}
            \/ \E ch \in Channel : flush[a][ch] = "holding"
<1>1. TypeOK /\ Tracked
  BY DEF ThrottleInv, RegistryInv
<1>2. ASSUME NEW i \in Item
      PROVE /\ emitted[a][i] \in Nat /\ pending[a][i] \in Nat
            /\ inHand[a][i] \in Nat /\ said[a][i] \in Nat
            /\ emitted[a][i] <= said[a][i]
            /\ pending[a][i] # 0 => pending[a][i] = said[a][i]
            /\ inHand[a][i] # 0 => emitted[a][i] <= inHand[a][i]
  BY <1>1 DEF TypeOK, Tracked, Latest
<1>3. CASE emitted' = emitted
  BY <1>2, <1>3
<1>4. ASSUME NEW j \in Job, NEW ch \in Channel,
             NEW items \in SUBSET ItemsOf(ch), Report(j, ch, items),
             emitted' # emitted
      PROVE /\ \A i \in Item : emitted'[a][i] >= emitted[a][i]
            /\ emitted'[a] = emitted[a] \/ phase[a] = "body"
  <2>1. /\ phase[j] = "body"
        /\ emitted' = [emitted EXCEPT ![j] = Delivered(j,
                OnChannel(ch, Nothing, Updated(j, items, pending[j])))]
    BY <1>4 DEF Report, Cleared, LockFree
  <2>2. CASE a # j
    BY <1>1, <1>2, <2>1, <2>2 DEF TypeOK
  <2>3. CASE a = j
    <3>1. ASSUME NEW i \in Item
          PROVE emitted'[a][i] =
              IF i \in items THEN said[a][i] + 1
              ELSE IF i \in ItemsOf(ch) /\ pending[a][i] # 0 THEN pending[a][i]
              ELSE emitted[a][i]
      BY <1>1, <1>2, <2>1, <2>3
         DEF TypeOK, Delivered, OnChannel, Nothing, Updated
    <3> QED
      BY <1>2, <2>1, <2>3, <3>1
  <2> QED
    BY <2>2, <2>3
<1>5. ASSUME NEW j \in Job, NEW ch \in Channel, FlushEmits(j, ch)
      PROVE /\ \A i \in Item : emitted'[a][i] >= emitted[a][i]
            /\ emitted'[a] = emitted[a] \/ flush[a][ch] = "holding"
  <2>1. /\ flush[j][ch] = "holding"
        /\ emitted' = [emitted EXCEPT ![j] =
             Delivered(j, OnChannel(ch, Nothing, inHand[j]))]
    BY <1>5 DEF FlushEmits
  <2>2. CASE a # j
    BY <1>1, <1>2, <2>1, <2>2 DEF TypeOK
  <2>3. CASE a = j
    <3>1. ASSUME NEW i \in Item
          PROVE emitted'[a][i] =
              IF i \in ItemsOf(ch) /\ inHand[a][i] # 0 THEN inHand[a][i]
              ELSE emitted[a][i]
      BY <1>1, <2>1, <2>3 DEF TypeOK, Delivered, OnChannel, Nothing
    <3> QED
      BY <1>2, <2>1, <2>3, <3>1
  <2> QED
    BY <2>2, <2>3
<1>6. ASSUME NEW j \in Job, NEW ch \in Channel, FinalFlush(j, ch)
      PROVE /\ \A i \in Item : emitted'[a][i] >= emitted[a][i]
            /\ emitted'[a] = emitted[a] \/ phase[a] \in {"progress", "changed"}
  <2>1. /\ phase[j] \in {"progress", "changed"}
        /\ emitted' = [emitted EXCEPT ![j] =
             Delivered(j, OnChannel(ch, Nothing, pending[j]))]
    BY <1>6 DEF FinalFlush, Cleared, LockFree, Channel
  <2>2. CASE a # j
    BY <1>1, <1>2, <2>1, <2>2 DEF TypeOK
  <2>3. CASE a = j
    <3>1. ASSUME NEW i \in Item
          PROVE emitted'[a][i] =
              IF i \in ItemsOf(ch) /\ pending[a][i] # 0 THEN pending[a][i]
              ELSE emitted[a][i]
      BY <1>1, <2>1, <2>3 DEF TypeOK, Delivered, OnChannel, Nothing
    <3> QED
      BY <1>2, <2>1, <2>3, <3>1
  <2> QED
    BY <2>2, <2>3
<1>7. \/ emitted' = emitted
      \/ \E j \in Job, ch \in Channel :
           \/ \E items \in SUBSET ItemsOf(ch) : Report(j, ch, items)
           \/ FlushEmits(j, ch) \/ FinalFlush(j, ch)
  BY DEF Next, JobStep, Runner, Flusher, StartReporting, Announce, Poll,
     Deregister, MarkFinished, EmitTerminal, GuardMarksFinished,
     GuardDeregisters, RuntimeDrops, IntervalPasses, FlushChecks, Resolve,
     BodyPanics, Cancel, CancelAll, RuntimeDown, throttles, vars
<1> QED
  BY <1>3, <1>4, <1>5, <1>6, <1>7

\* Listeners never go back to an older report.
THEOREM JobsReportsInOrder == Spec => ReportsInOrder
<1>1. ThrottleInv /\ [Next]_vars =>
        [\A j \in Job, i \in Item : emitted'[j][i] >= emitted[j][i]]_vars
  BY EmissionStep
<1> QED
  BY <1>1, ThrottleAlways, PTL DEF Spec, ReportsInOrder

\* Nothing is reported for a job after the terminal event of its runner.
THEOREM JobsQuietAfterEnd == Spec => QuietAfterEnd
<1>1. ThrottleInv /\ [Next]_vars =>
        [\A j \in Job : ends[j] = 1 /\ ~ByGuard(j) => emitted'[j] = emitted[j]]_vars
  <2>1. SUFFICES ASSUME ThrottleInv, [Next]_vars, NEW j \in Job,
                        ends[j] = 1, ~ByGuard(j)
                 PROVE emitted'[j] = emitted[j]
    OBVIOUS
  <2>2. phase[j] = "ended"
    BY <2>1 DEF ThrottleInv, RegistryInv, Counted
  <2>3. \A ch \in Channel : flush[j][ch] # "holding"
    BY <2>1, <2>2 DEF ThrottleInv, Flushed, Settled
  <2> QED
    BY <2>1, <2>2, <2>3, EmissionStep
<1> QED
  BY <1>1, ThrottleAlways, PTL DEF Spec, QuietAfterEnd

-----------------------------------------------------------------------------
(* Jobs implements JobPromise                                              *)

\* A step of one job's runner leaves the standing of the others alone.
LEMMA StandingMoves ==
  ASSUME NEW j \in Job, NEW s,
         \A k \in Job \ {j} : phase'[k] = phase[k] /\ outcome'[k] = outcome[k],
         Standing(j)' = s
  PROVE  [k \in Job |-> Standing(k)]' = [[k \in Job |-> Standing(k)] EXCEPT ![j] = s]
<1>1. ASSUME NEW k \in Job, k # j PROVE Standing(k)' = Standing(k)
  BY <1>1 DEF Standing, ByGuard
<1> QED
  BY <1>1

\* Where phase and outcome leave a runner.
LEMMA StandingIs ==
  ASSUME NEW j \in Job, phase[j] \in Phase
  PROVE  /\ phase[j] = "unused" => Standing(j) = "unused"
         /\ phase[j] \in Seated => Standing(j) = "holding"
         /\ phase[j] \in {"removed", "progress", "changed", "ending",
                         "dropEnding"} => Standing(j) = "let go"
         /\ phase[j] = "ended" /\ ~ByGuard(j) => Standing(j) = "complete"
         /\ phase[j] = "ended" /\ ByGuard(j) => Standing(j) = "abandoned"
BY DEF Standing, Seated, Phase

\* A step in which no runner changes its standing and nothing is said or
\* heard is none of the promise's.
LEMMA PromiseStutters ==
  ASSUME \A k \in Job : Standing(k)' = Standing(k),
         UNCHANGED <<kind, said, emitted>>
  PROVE  UNCHANGED Promise!vars
<1>1. [k \in Job |-> Standing(k)]' = [k \in Job |-> Standing(k)]
  OBVIOUS
<1> QED
  BY <1>1 DEF Promise!vars

\* What a step brings listeners of job j is no older than what they had and
\* has been said by then.
LEMMA PromiseHears ==
  ASSUME ThrottleInv, ThrottleInv', [Next]_vars, NEW j \in Job, NEW e,
         emitted' = [emitted EXCEPT ![j] = e]
  PROVE  Promise!HearsOn(j)
<1>1. TypeOK /\ TypeOK' /\ Tracked'
  BY DEF ThrottleInv, RegistryInv
<1>2. emitted'[j] = e
  BY <1>1 DEF TypeOK
<1>3. emitted' = [emitted EXCEPT ![j] = emitted'[j]]
  BY <1>2
<1>4. ASSUME NEW i \in Item
      PROVE emitted'[j][i] \in emitted[j][i] .. said'[j][i]
  <2>1. /\ emitted[j][i] \in Nat /\ emitted'[j][i] \in Nat
        /\ said'[j][i] \in Nat
    BY <1>1 DEF TypeOK
  <2>2. emitted'[j][i] <= said'[j][i]
    BY <1>1 DEF Tracked
  <2>3. emitted'[j][i] >= emitted[j][i]
    BY EmissionStep
  <2> QED
    BY <2>1, <2>2, <2>3
<1> QED
  BY <1>3, <1>4 DEF Promise!HearsOn

LEMMA PromiseInit == Init => Promise!Init
<1> SUFFICES ASSUME Init PROVE Promise!Init
  OBVIOUS
<1>1. ASSUME NEW j \in Job PROVE Standing(j) = "unused"
  BY <1>1, StandingIs DEF Init, Phase
<1> QED
  BY <1>1 DEF Init, Promise!Init, Untaken

LEMMA PromiseStep ==
  ThrottleInv /\ ThrottleInv' /\ [Next]_vars => [Promise!Next]_(Promise!vars)
<1>1. SUFFICES ASSUME ThrottleInv, ThrottleInv', [Next]_vars
               PROVE  [Promise!Next]_(Promise!vars)
  OBVIOUS
<1>2. /\ RegistryInv /\ TypeOK /\ TypeOK' /\ Flushed /\ Tracked /\ Slots
      /\ OneAtATime
  BY <1>1 DEF ThrottleInv, RegistryInv
<1>3. ASSUME NEW j \in Job
      PROVE  /\ phase[j] = "unused" => Standing(j) = "unused"
             /\ phase[j] \in Seated => Standing(j) = "holding"
             /\ phase[j] \in {"removed", "progress", "changed", "ending",
                             "dropEnding"} => Standing(j) = "let go"
             /\ phase[j] = "ended" /\ ~ByGuard(j) => Standing(j) = "complete"
             /\ phase[j] = "ended" /\ ByGuard(j) => Standing(j) = "abandoned"
  BY <1>2, StandingIs DEF TypeOK
<1>4. ASSUME NEW j \in Job
      PROVE  /\ phase'[j] \in Seated => Standing(j)' = "holding"
             /\ phase'[j] \in {"removed", "progress", "changed", "ending",
                              "dropEnding"} => Standing(j)' = "let go"
             /\ phase'[j] = "ended" /\ ~ByGuard(j)' => Standing(j)' = "complete"
             /\ phase'[j] = "ended" /\ ByGuard(j)' => Standing(j)' = "abandoned"
  BY <1>2 DEF TypeOK, Standing, Seated, Phase
\* The steps that change the standing of one job.
<1>5. ASSUME NEW j \in Job, NEW k \in Kind, StartReporting(j, k)
      PROVE  Promise!Start(j, k)
  <2>1. /\ phase[j] = "unused" /\ ~Busy(k)
        /\ phase' = [phase EXCEPT ![j] = "inserted"]
        /\ kind' = [kind EXCEPT ![j] = k]
        /\ UNCHANGED <<outcome, said, emitted>>
    BY <1>5 DEF StartReporting, MoveTo, throttles
  <2>2. Standing(j) = "unused" /\ Standing(j)' = "holding"
    BY <1>2, <1>3, <1>4, <2>1 DEF TypeOK, Seated
  <2>3. Promise!Becomes(j, "holding")
    <3>1. \A a \in Job \ {j} : phase'[a] = phase[a] /\ outcome'[a] = outcome[a]
      BY <1>2, <2>1 DEF TypeOK
    <3> QED
      BY <2>2, <3>1, StandingMoves DEF Promise!Becomes
  <2>4. k \in Exclusive =>
          ~\E h \in Job : [a \in Job |-> Standing(a)][h] = "holding" /\ kind[h] = k
    <3>1. SUFFICES ASSUME k \in Exclusive, NEW h \in Job,
                          Standing(h) = "holding", kind[h] = k
                   PROVE FALSE
      OBVIOUS
    <3>2. phase[h] \in Seated
      BY <1>2, <1>3, <3>1 DEF TypeOK, Phase, Seated
    <3>3. h \in registered
      BY <1>2, <3>2 DEF Slots
    <3> QED
      BY <2>1, <3>1, <3>3 DEF Busy
  <2> QED
    BY <2>1, <2>2, <2>3, <2>4 DEF Promise!Start
<1>6. ASSUME NEW j \in Job, Deregister(j) \/ GuardDeregisters(j)
      PROVE  Promise!LetGo(j)
  <2>1. PICK p \in {"removed", "dropEnding"} :
          phase' = [phase EXCEPT ![j] = p]
    BY <1>6 DEF Deregister, GuardDeregisters, MoveTo
  <2>2. /\ phase[j] \in {"resolved", "silenced"}
        /\ UNCHANGED <<kind, outcome, said, emitted>>
    BY <1>6 DEF Deregister, GuardDeregisters, throttles
  <2>3. Standing(j) = "holding" /\ Standing(j)' = "let go"
    BY <1>2, <1>3, <1>4, <2>1, <2>2 DEF TypeOK, Seated
  <2>4. \A a \in Job \ {j} : phase'[a] = phase[a] /\ outcome'[a] = outcome[a]
    BY <1>2, <2>1, <2>2 DEF TypeOK
  <2> QED
    BY <2>2, <2>3, <2>4, StandingMoves DEF Promise!LetGo, Promise!Becomes
<1>7. ASSUME NEW j \in Job, EmitTerminal(j)
      PROVE  Promise!Complete(j) \/ Promise!Abandon(j)
  <2>1. /\ phase[j] \in {"ending", "dropEnding"}
        /\ phase' = [phase EXCEPT ![j] = "ended"]
        /\ UNCHANGED <<kind, outcome, said, emitted>>
    BY <1>7 DEF EmitTerminal, MoveTo, throttles
  <2>2. Standing(j) = "let go" /\ phase'[j] = "ended"
    BY <1>2, <1>3, <2>1 DEF TypeOK
  <2>3. \A a \in Job \ {j} : phase'[a] = phase[a] /\ outcome'[a] = outcome[a]
    BY <1>2, <2>1 DEF TypeOK
  <2>4. ByGuard(j)' <=> ByGuard(j)
    BY <2>1 DEF ByGuard
  <2>5. CASE ByGuard(j)
    <3>1. Standing(j)' = "abandoned"
      BY <1>4, <2>2, <2>4, <2>5
    <3> QED
      BY <2>1, <2>2, <2>3, <3>1, StandingMoves
         DEF Promise!Abandon, Promise!Becomes
  <2>6. CASE ~ByGuard(j)
    <3>1. Standing(j)' = "complete"
      BY <1>4, <2>2, <2>4, <2>6
    <3>2. phase[j] = "ending"
      BY <1>2, <2>1, <2>6 DEF Flushed
    <3>3. emitted[j] = said[j]
      BY <1>1, <2>6, <3>2, FlushedByTheEnd DEF LatestFlushed
    <3> QED
      BY <2>1, <2>2, <2>3, <3>1, <3>3, StandingMoves
         DEF Promise!Complete, Promise!Becomes
  <2> QED
    BY <2>5, <2>6
\* The steps in which something is said or heard.
<1>8. ASSUME NEW j \in Job, NEW ch \in Channel,
             NEW items \in SUBSET ItemsOf(ch), Report(j, ch, items)
      PROVE  Promise!Say(j)
  <2>1. /\ phase[j] = "body"
        /\ said' = [said EXCEPT ![j] = Updated(j, items, said[j])]
        /\ UNCHANGED <<phase, outcome, kind>>
    BY <1>8 DEF Report, lifecycle
  <2>2. \E e : emitted' = [emitted EXCEPT ![j] = e]
    BY <1>2, <1>8 DEF Report, TypeOK
  <2>3. Promise!HearsOn(j)
    BY <1>1, <2>2, PromiseHears
  <2>4. Standing(j) = "holding"
    BY <1>3, <2>1 DEF Seated
  <2>5. \A a \in Job : Standing(a)' = Standing(a)
    BY <2>1 DEF Standing, ByGuard
  <2>6. items \in SUBSET Item
    BY ItemsOfChannel
  <2>7. said' = [said EXCEPT ![j] =
          [i \in Item |-> IF i \in items THEN said[j][i] + 1 ELSE said[j][i]]]
    BY <2>1 DEF Updated
  <2> QED
    BY <2>1, <2>3, <2>4, <2>5, <2>6, <2>7 DEF Promise!Say
<1>9. ASSUME NEW j \in Job, NEW ch \in Channel,
             FlushEmits(j, ch) \/ FinalFlush(j, ch)
      PROVE  Promise!Hear(j)
  <2>1. UNCHANGED <<kind, outcome, said>>
    BY <1>9 DEF FlushEmits, FinalFlush, lifecycle
  <2>2. \E e : emitted' = [emitted EXCEPT ![j] = e]
    BY <1>9 DEF FlushEmits, FinalFlush
  <2>3. Promise!HearsOn(j)
    BY <1>1, <2>2, PromiseHears
  <2>4. \A a \in Job : Standing(a)' = Standing(a)
    <3>1. CASE UNCHANGED phase
      BY <2>1, <3>1 DEF Standing, ByGuard
    <3>2. CASE FinalFlush(j, ch)
      <4>1. PICK p \in {"changed", "ending"} : phase' = [phase EXCEPT ![j] = p]
        BY <3>2 DEF FinalFlush, MoveTo
      <4>2. phase[j] \in {"progress", "changed"}
        BY <3>2 DEF FinalFlush, Channel
      <4>3. Standing(j) = "let go" /\ Standing(j)' = "let go"
        BY <1>2, <1>3, <1>4, <4>1, <4>2 DEF TypeOK
      <4>4. ASSUME NEW a \in Job, a # j PROVE Standing(a)' = Standing(a)
        BY <1>2, <2>1, <4>1, <4>4 DEF TypeOK, Standing, ByGuard
      <4> QED
        BY <4>3, <4>4
    <3> QED
      BY <1>9, <3>1, <3>2 DEF FlushEmits, lifecycle
  <2>5. Standing(j) \in {"holding", "let go", "abandoned"}
    <3>1. CASE FinalFlush(j, ch)
      BY <1>3, <3>1 DEF FinalFlush, Channel
    <3>2. CASE FlushEmits(j, ch)
      <4>1. ~Settled(j, ch)
        BY <3>2 DEF FlushEmits, Settled
      <4>2. phase[j] # "unused"
        BY <1>2, <4>1 DEF Flushed
      <4>3. phase[j] = "ended" => ByGuard(j)
        BY <1>2, <4>1 DEF Flushed
      <4> QED
        BY <1>2, <1>3, <4>2, <4>3 DEF TypeOK, Phase, Seated
    <3> QED
      BY <1>9, <3>1, <3>2
  <2> QED
    BY <2>1, <2>3, <2>4, <2>5 DEF Promise!Hear
\* The steps none of which the promise speaks of.
<1>10. ASSUME NEW j \in Job, NEW p,
              \/ p \in Seated /\ phase[j] \in Seated
              \/ p = "progress" /\ phase[j] = "removed",
              phase' = [phase EXCEPT ![j] = p],
              \A a \in Job \ {j} : outcome'[a] = outcome[a],
              UNCHANGED <<kind, said, emitted>>
       PROVE  UNCHANGED Promise!vars
  <2>1. phase'[j] = p
    BY <1>2, <1>10 DEF TypeOK
  <2>2. Standing(j)' = Standing(j)
    <3>1. CASE p \in Seated /\ phase[j] \in Seated
      <4>1. Standing(j) = "holding"
        BY <1>3, <3>1
      <4>2. Standing(j)' = "holding"
        BY <1>4, <2>1, <3>1
      <4> QED
        BY <4>1, <4>2
    <3>2. CASE p = "progress" /\ phase[j] = "removed"
      BY <1>3, <1>4, <2>1, <3>2
    <3> QED
      BY <1>10, <3>1, <3>2
  <2>3. ASSUME NEW a \in Job, a # j PROVE Standing(a)' = Standing(a)
    BY <1>2, <1>10, <2>3 DEF TypeOK, Standing, ByGuard
  <2> QED
    BY <1>10, <2>2, <2>3, PromiseStutters
<1>11. ASSUME NEW j \in Job,
              \/ Announce(j) \/ Poll(j) \/ MarkFinished(j)
              \/ GuardMarksFinished(j) \/ RuntimeDrops(j) \/ BodyPanics(j)
              \/ \E how \in {"completed", "failed", "cancelled"} : Resolve(j, how)
       PROVE  UNCHANGED Promise!vars
  <2>1. \A a \in Job \ {j} : outcome'[a] = outcome[a]
    BY <1>2, <1>11 DEF TypeOK, Announce, Poll, MarkFinished, GuardMarksFinished,
       RuntimeDrops, BodyPanics, Resolve
  <2>2. UNCHANGED <<kind, said, emitted>>
    BY <1>11 DEF Announce, Poll, MarkFinished, GuardMarksFinished, RuntimeDrops,
       BodyPanics, Resolve, throttles
  <2>3. \E p : /\ phase' = [phase EXCEPT ![j] = p]
               /\ \/ p \in Seated /\ phase[j] \in Seated
                  \/ p = "progress" /\ phase[j] = "removed"
    BY <1>11 DEF Announce, Poll, MarkFinished, GuardMarksFinished, RuntimeDrops,
       BodyPanics, Resolve, MoveTo, Seated
  <2> QED
    BY <1>10, <2>1, <2>2, <2>3
<1>12. ASSUME \/ \E j \in Job :
                    \/ Cancel(j)
                    \/ \E ch \in Channel : IntervalPasses(j, ch) \/ FlushChecks(j, ch)
              \/ CancelAll \/ RuntimeDown \/ UNCHANGED vars
       PROVE  UNCHANGED Promise!vars
  <2>1. UNCHANGED <<phase, outcome, kind, said, emitted>>
    BY <1>12 DEF Cancel, IntervalPasses, FlushChecks, CancelAll, RuntimeDown,
       vars, lifecycle, throttles
  <2>2. \A a \in Job : Standing(a)' = Standing(a)
    BY <2>1 DEF Standing, ByGuard
  <2> QED
    BY <2>1, <2>2, PromiseStutters
<1> QED
  BY <1>1, <1>5, <1>6, <1>7, <1>8, <1>9, <1>11, <1>12
     DEF Next, JobStep, Runner, Flusher, Promise!Next

\* The job registry and its throttles do what JobPromise says, for any jobs,
\* kinds and series: behind it stands all that ThrottleInv knows of where a
\* report can be.
THEOREM JobsKeepPromise == Spec => KeepsPromise
BY PromiseInit, PromiseStep, ThrottleAlways, PTL
   DEF Spec, KeepsPromise, Promise!Spec

=============================================================================
