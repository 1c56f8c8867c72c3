SPECIFICATION Spec
CONSTANTS
  j1 = j1
  j2 = j2
  Job <- TwoJobs
  Ask <- MarkLast
  Lists <- Finished
  Carried <- BothTrackers
  Main = "mal"
  Total = 2
  FilmGap = 1
  MaxClock = 2
  MaxWriting = 2
  Faults = TRUE
  SignOuts <- OnlyMal
  SiteEdits = {}
SYMMETRY CallsAlike
INVARIANTS
  SlotHeldByOne
  RewatchOnce
  EachTrackerAnswered
PROPERTIES
  StampKept
CHECK_DEADLOCK FALSE
