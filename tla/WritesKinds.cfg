SPECIFICATION Spec
CONSTANTS
  j1 = j1
  j2 = j2
  Job <- TwoJobs
  Ask <- EveryKind
  Lists <- PastOrFlagged
  Carried <- OnlyMal
  Main = "mal"
  Total = 2
  FilmGap = 1
  MaxClock = 2
  MaxWriting = 2
  Faults = TRUE
  SignOuts = {}
  SiteEdits <- TakenOff
SYMMETRY CallsAlike
INVARIANTS
  TypeOK
  
  NeverBelowSettled
CHECK_DEADLOCK FALSE
