------------------------- MODULE MCPlaybackSession -------------------------
(* An instance of PlaybackSession for TLC: a file of four seconds, whose    *)
(* mark line is half of its length, whose tail is the last second, and      *)
(* whose outro, when the lookup finds one, starts before the mark line or   *)
(* after it.                                                                *)
EXTENDS PlaybackSession
CONSTANT c1

OneCaller == {c1}
EveryShape == {"episode", "film", "extra"}
Outros == {1, 3}
=============================================================================
