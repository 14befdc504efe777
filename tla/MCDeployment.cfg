SPECIFICATION Spec
CONSTANTS
  Workers = {w1, w2}
  NameOf <- MCNameOf
  Attempts <- MCAttempts
  JobAttempts = 2
  MaxRepair = 2
  MaxMade = 3
  MaxResumes = 0
  Risks = {"Low", "Medium", "High"}
  Fragile <- ProviderFails
  MayCrash = FALSE
SYMMETRY Symmetry
INVARIANTS
  PromotedWasVerified
  PromotedWasGranted
  RejectedIsNotPromoted
  AttemptsBounded
  AllowedIsHarmless
PROPERTIES
  ImplementsPromotion
CHECK_DEADLOCK FALSE
