SPECIFICATION SessionSpec
CONSTANTS
  short = short
  long = long
  other = other
  Query = {short, long}
  NoQuery = NoQuery
  MaxTotal = 3
  MaxPending = 2
  MaxConcurrency = 1
  MaxRetries = 0
  CancelOnSupersession = TRUE
  Parallel = FALSE
  Aside <- None
  Vague <- None
  Incomplete <- None
  Redirects <- None
  AddsTerms <- Adds
  SuppressDuplicates = TRUE
CHECK_DEADLOCK FALSE
INVARIANTS RecoveryTried
