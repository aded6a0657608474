SPECIFICATION MessagesRun
CONSTANTS
  LogIds = {l1}
  MessageIds <- MCMessageIds
  NoMessage = NoMessage
  Attempts = 2
  Workers = {w1, w2}
  Hooks = {h1, h2}
  Crashes = TRUE
  Faults = TRUE
  BodyBound = TRUE
INVARIANT StatusHasReport
INVARIANT SendsBounded
PROPERTY ReportsNeverLower
PROPERTY SendsOnlyUnsent
PROPERTY JobSettles
CHECK_DEADLOCK FALSE
