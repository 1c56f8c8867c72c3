SPECIFICATION Spec
CONSTANTS
  j1 = j1
  j2 = j2
  j3 = j3
  scan = scan
  mark = mark
  progress = progress
  s1 = s1
  s2 = s2
  Progress <- progress
  Job <- ThreeJobs
  Kind <- BothKinds
  Exclusive <- OnlyScan
  Series <- NoSeries
  MaxSaid = 0
INVARIANTS
  TypeOK
  OneBody
  EndsOnceAndFree
PROPERTIES
  KeepsPromise
CHECK_DEADLOCK FALSE
