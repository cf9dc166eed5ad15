SPECIFICATION AnsweringFairSpec
CONSTANTS
  hot = hot
  dog = dog
  bun = bun
  MaxWords = 4
  Paragraphs <- Texts
  MaxChars = 4
  OverlapChars = 2
  Fragment = {hot, dog, bun}
  Offered <- Source
  MaxEvents = 5
  Intents = 3
  Cost <- Tokens
  Budgets = {4, 9}
  TopK = 3
  RrfK = 60
  Rankings <- Answers
  Question = {1, 2, 3}
  Passage = {1, 2, 3}
  Conflict <- Contradicting
  Dated <- Dates
  Authority <- Ranking
  Drafts <- Outputs
  MaxRetries = 1
  MaxRepairs = 1
  Command = {p1, p2}
  Corpus = {before, after}
  Original = before
  Setting <- Settings
  Citable = {1}
  Cites <- SamePassage
  Slot = {1}
  Offers <- Returned
  MaxRecords = 3
  MaxRevision = 5
CHECK_DEADLOCK FALSE
INVARIANTS ChunksAreSound ServedAsAsked ReplayIsFaithful AssemblyIsFair EveryCallAccounted OnlyVerifiedClaims AnswerIsKept VersionsExplained
PROPERTY Answered
