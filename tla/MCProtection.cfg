SPECIFICATION FairSpec
CONSTANTS
  Workers = {w1, w2}
  Browsers = {b1}
  Bearers = {}
  MaxDeployed = 2
  Production = {1, 2}
  Runs = {r1}
  PageSize = 2
  MaxEnded = 1
  MaxLost = 1
INVARIANTS
  OneActivePerCause
  BaselineIsSound
PROPERTY FailureIsAttended
CHECK_DEADLOCK FALSE
