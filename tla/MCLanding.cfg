SPECIFICATION Spec
CONSTANTS
  Workers = {w1, w2}
  NameOf <- MCNameOf
  Attempts <- MCAttempts
  MaxPoll = 0
  MaxDrifts = 1
  Fragile <- ProviderFails
  MayCrash = FALSE
SYMMETRY Symmetry
INVARIANTS
  MergedAfterWatch
  ResolvedMeansRecovered
PROPERTIES
  BaselineKept
  ImplementsLandOrRestore
CHECK_DEADLOCK FALSE
