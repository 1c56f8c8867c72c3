------------------------------- MODULE MCJobs -------------------------------
(* Instances of Jobs for TLC.                                              *)
EXTENDS Jobs
CONSTANTS j1, j2, j3, scan, mark, progress, s1, s2

TwoJobs == {j1, j2}
OneJob == {j1}
ThreeJobs == {j1, j2, j3}
BothKinds == {scan, mark}
OnlyScan == {scan}
NoSeries == {}
TwoSeries == {s1, s2}
=============================================================================
