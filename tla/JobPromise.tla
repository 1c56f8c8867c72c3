----------------------------- MODULE JobPromise -----------------------------
(***************************************************************************)
(* What the job registry promises those who start jobs and those who       *)
(* listen to them, without threads, locks, timers or buffers: the promise  *)
(* that src/core/src/jobs.rs makes in its head comment.                    *)
(*                                                                         *)
(* A job of an exclusive kind holds its kind's slot, alone, until it is    *)
(* let go.  While it holds it, it says things about items, each said       *)
(* anew; listeners hear, of each item, ever later versions, some of them   *)
(* never.  A job that ends complete has been heard in full and is not      *)
(* heard of again; one that is abandoned, its body unwound or dropped, is  *)
(* promised its end and nothing more.                                      *)
(***************************************************************************)
EXTENDS Naturals

CONSTANTS Job, Kind, Exclusive, Item

VARIABLES
  state,  \* state[j]: "unused", "holding", "let go", "complete", "abandoned"
  kind,   \* kind[j]: the kind it was started with, once it was
  said,   \* said[j][i]: the last version the job said of an item
  heard   \* heard[j][i]: the last version listeners heard

vars == <<state, kind, said, heard>>

Init ==
  /\ state = [j \in Job |-> "unused"]
  /\ kind = [j \in Job |-> "unused"]
  /\ said = [j \in Job |-> [i \in Item |-> 0]]
  /\ heard = said

Becomes(j, s) == state' = [state EXCEPT ![j] = s]

Start(j, k) ==
  /\ state[j] = "unused"
  /\ k \in Exclusive => ~\E h \in Job : state[h] = "holding" /\ kind[h] = k
  /\ Becomes(j, "holding")
  /\ kind' = [kind EXCEPT ![j] = k]
  /\ UNCHANGED <<said, heard>>

\* Of every item a version no older than before, and said by now.
HearsOn(j) ==
  /\ \A i \in Item : heard'[j][i] \in heard[j][i] .. said'[j][i]
  /\ heard' = [heard EXCEPT ![j] = heard'[j]]

Say(j) ==
  /\ state[j] = "holding"
  /\ \E items \in SUBSET Item :
       said' = [said EXCEPT ![j] =
         [i \in Item |-> IF i \in items THEN said[j][i] + 1 ELSE said[j][i]]]
  /\ HearsOn(j)
  /\ UNCHANGED <<state, kind>>

Hear(j) ==
  /\ state[j] \in {"holding", "let go", "abandoned"}
  /\ HearsOn(j)
  /\ UNCHANGED <<state, kind, said>>

LetGo(j) ==
  /\ state[j] = "holding"
  /\ Becomes(j, "let go")
  /\ UNCHANGED <<kind, said, heard>>

Complete(j) ==
  /\ state[j] = "let go" /\ heard[j] = said[j]
  /\ Becomes(j, "complete")
  /\ UNCHANGED <<kind, said, heard>>

Abandon(j) ==
  /\ state[j] = "let go"
  /\ Becomes(j, "abandoned")
  /\ UNCHANGED <<kind, said, heard>>

Next ==
  \E j \in Job :
    \/ \E k \in Kind : Start(j, k)
    \/ Say(j) \/ Hear(j) \/ LetGo(j) \/ Complete(j) \/ Abandon(j)

Spec == Init /\ [][Next]_vars
=============================================================================
