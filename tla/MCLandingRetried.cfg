SPECIFICATION Spec
CONSTANTS
  Workers = {w1}
  NameOf <- MCNameOf
  Attempts <- RetriedAttempts
  MaxPoll = 0
  MaxDrifts = 0
  Fragile <- AnswerLost
  MayCrash = FALSE
INVARIANT ResolvedMeansRecovered
CHECK_DEADLOCK FALSE
