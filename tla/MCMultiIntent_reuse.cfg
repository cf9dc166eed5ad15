SPECIFICATION MultiSpec
CONSTANTS
  who = who
  which = which
  whom = whom
  fee = fee
  x = x
  y = y
  alpha = alpha
  beta = beta
  other = other
  Question = {who, which, whom, fee}
  Constraint = {x, y}
  Overlaps <- Wordings
  MaxIntents = 3
  Text = {alpha, other}
  Stated <- Values
  Responses <- Answers
  Sole <- Whole
  MaxRepairs = 1
  MaxJobs = 2
CHECK_DEADLOCK FALSE
INVARIANT DependentsFollow

