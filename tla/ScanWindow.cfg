SPECIFICATION Spec
CONSTANTS
  c1 = c1
  notify = notify
  s1 = s1
  s2 = s2
  f1 = f1
  f2 = f2
  g1 = g1
  r1 = r1
  r2 = r2
  Caller <- OneCaller
  Notify <- TheWatcher
  Source <- OneSource
  Series <- TwoSeries
  Dir <- OneRoot
  Home <- HomeOf
  Above <- OwnFolders
  Reported <- OwnReport
  Initial <- OneSource
  MaxVersion = 2
  MaxCalls = 1
  MaxFaults = 0
INVARIANTS
  NothingLeftQueued
CHECK_DEADLOCK FALSE
