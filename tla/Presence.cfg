SPECIFICATION FairSpec
CONSTANTS
  ui = ui
  other = other
  None = None
  Caller <- TwoCallers
  Session <- TwoSessions
  Owned <- NobodysGuest
  Budgets <- Budgeted
INVARIANTS
  ShowsWhatIsAsked
  LateTickShowsNothing
PROPERTIES
  LateCallsSpare
  Settles
CHECK_DEADLOCK FALSE
