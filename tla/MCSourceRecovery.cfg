SPECIFICATION Spec
CONSTANTS
  Workers = {w1, w2}
  NameOf <- MCNameOf
  Attempts <- MCAttempts
  Early = 1
  MaxReview = 1
  MaxPoll = 1
  MaxReverts = 2
  MaxServes = 2
  Fragile <- StatementsFail
  MayCrash = TRUE
SYMMETRY Symmetry
INVARIANTS
  
  ClosedMeansRecovered
CHECK_DEADLOCK FALSE
