SPECIFICATION FairSpec
CONSTANTS
  j1 = j1
  j2 = j2
  j3 = j3
  scan = scan
  mark = mark
  progress = progress
  s1 = s1
  s2 = s2
  Progress <- progress
  Job <- OneJob
  Kind <- OnlyScan
  Exclusive <- OnlyScan
  Series <- TwoSeries
  MaxSaid = 2
PROPERTIES
  KeepsPromise
  CancelledEnds
CHECK_DEADLOCK FALSE
