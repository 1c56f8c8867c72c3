------------------------------ MODULE MCEpisodes ------------------------------
(* An instance of Episodes for TLC: two episodes that air at one of two       *)
(* moments, or have no date yet.                                             *)
EXTENDS Episodes

TwoEpisodes == {1, 2}
Moments == {1, 2}
Steps == <<0, 1, 2>>

Both == {"out", "watch"}
Budget(runs, changes, arrivals, naps, steps, ends, faults) ==
  [runs |-> runs, changes |-> changes, arrivals |-> arrivals, naps |-> naps,
   steps |-> steps, ends |-> ends, faults |-> faults]
\* The alarm through a nap, a clock set back, an end and a failed read; both
\* readers; the watches through two changes, files that arrive, an end, a
\* failed read, a nap and a clock set back.
Budgeted == {
  Budget({"out"}, 1, 0, 1, 1, 0, 0), Budget({"out"}, 1, 0, 0, 0, 1, 1),
  Budget(Both, 0, 2, 0, 0, 0, 0), Budget({"watch"}, 2, 0, 0, 0, 0, 0),
  Budget({"watch"}, 1, 2, 0, 0, 0, 0), Budget({"watch"}, 0, 1, 0, 0, 1, 1),
  Budget({"watch"}, 0, 1, 1, 1, 0, 0)}
=============================================================================
