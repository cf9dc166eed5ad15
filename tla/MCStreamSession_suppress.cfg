SPECIFICATION FairSessionSpec
CONSTANTS
  short = short
  long = long
  other = other
  Query = {short, long, other}
  NoQuery = NoQuery
  MaxTotal = 4
  MaxPending = 2
  MaxConcurrency = 1
  MaxRetries = 0
  CancelOnSupersession = TRUE
  Parallel = FALSE
  Aside <- None
  Vague <- None
  Incomplete <- JustOther
  Redirects <- AnyChange
  AddsTerms <- Adds
  SuppressDuplicates = TRUE
CHECK_DEADLOCK FALSE
INVARIANTS FinalEvidenceCurrent EvidenceIsLatest GivesUpOnlyOnFailure
PROPERTIES ImplementsGate FinishReturns
