SPECIFICATION FairSpec
CONSTANTS
  None = None
  Episode <- TwoEpisodes
  AirTime <- Moments
  MaxClock = 5
  CatchUp = 2
  MarkStep = 2
  After <- Steps
  Window = 2
  Budgets <- Budgeted
INVARIANTS
  SaidOnce
  MissSaidOnce
  AlarmsKept
PROPERTIES
  Heard
  Resolved
CHECK_DEADLOCK FALSE
