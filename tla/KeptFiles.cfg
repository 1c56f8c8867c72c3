SPECIFICATION KeptSpec
CONSTANTS
  s1 = s1
  s2 = s2
  t1 = t1
  t2 = t2
  calendar = calendar
  list = list
  sources = sources
  secrets = secrets
  rules = rules
  None = None
  Torn = Torn
  Saver <- TwoSavers
  Turn <- TwoTurns
  Change <- Changes
  Version <- Contents
  Path <- AllPaths
  Private <- SecretsOnly
  Calendar <- calendar
  Entries <- list
  Sources <- sources
  Leftover <- SecretsOnly
  Edited <- RulesAndSecrets
  MaxCalls = 3
  MaxFiles = 1
  MaxEnds = 1
  PowerCuts = TRUE
SYMMETRY ThreadsAlike
INVARIANTS
  TurnsKept
  OwnerOnly
  CalendarFollows
  ListsKept
PROPERTIES
  KeepsRegister
CHECK_DEADLOCK FALSE
