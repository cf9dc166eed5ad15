SPECIFICATION Spec
CONSTANTS
  Query = {q1}
  NoQuery = NoQuery
  MaxTotal = 3
  MaxPending = 2
  MaxConcurrency = 1
  MaxRetries = 0
  CancelOnSupersession = TRUE
  Parallel = TRUE
CHECK_DEADLOCK FALSE
PROPERTY SupersedesEverything
