SPECIFICATION FairSpec
CONSTANTS
  None = None
  Count = 3
  Keep = 1
  Budgets <- Budgeted
INVARIANTS
  ErasesRight
  WindowHolds
PROPERTIES
  EditsStand
  ReleaseFreesAll
  WantedComes
CHECK_DEADLOCK FALSE
