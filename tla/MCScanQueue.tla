---------------------------- MODULE MCScanQueue ----------------------------
(* Instances of ScanQueue for TLC: one source of two series in folders of   *)
(* their own, and beside it, or not, a second source of one series.         *)
EXTENDS ScanQueue
CONSTANTS c1, notify, s1, s2, f1, f2, g1, r1, r2

OneCaller == {c1}
TheWatcher == notify
OneSource == {s1}
TwoSources == {s1, s2}
TwoSeries == {f1, f2}
TwoAndOne == {f1, f2, g1}
Roots == {r1, r2}
OneRoot == {r1}

HomeOf == [p \in Path |-> IF p \in {g1, r2} THEN s2 ELSE s1]
OwnFolders == [p \in Path |-> {p, IF p \in {g1, r2} THEN r2 ELSE r1}]
OwnReport == [f \in Series |-> f]
=============================================================================
