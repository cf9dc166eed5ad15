SPECIFICATION FairSpec
CONSTANTS
  Query = {q1}
  NoQuery = NoQuery
  MaxTotal = 3
  MaxPending = 2
  MaxConcurrency = 1
  MaxRetries = 1
  CancelOnSupersession = TRUE
  Parallel = TRUE
CHECK_DEADLOCK FALSE
INVARIANTS TypeOK OutstandingWorkBounded NoLostRequest ConfirmedNeverRuns NoIdleCapacity QueueIsLive StatusHonest
PROPERTIES ResultFinal SilentAfterClose ActiveResolved AllResolved
