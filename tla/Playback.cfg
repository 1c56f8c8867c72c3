SPECIFICATION FairSpec
CONSTANTS
  c1 = c1
  Caller <- OneCaller
  MaxSession = 1
  MaxOpen = 1
  MaxQueued = 2
  Shape <- EveryShape
  Length = 4
  Outro <- Outros
  ViewSecs = 2
  MaxTickDelta = 1
  MarkPercent = 50
  ResumeHead = 1
  Interval = 2
  ResumeTail = 1
INVARIANTS
  RulesHold
  ShownIsStored
  LastWordKept
PROPERTIES
  CallsReturn
CHECK_DEADLOCK FALSE
