SPECIFICATION Spec
CONSTANTS
  None = None
  Count = 3
  Keep = 1
  Budgets <- Aged
PROPERTIES
  LeavesWhenDone
CHECK_DEADLOCK FALSE
