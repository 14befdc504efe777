SPECIFICATION FairSpec
CONSTANTS
  Workers = {w1, w2}
  NameOf <- MCNameOf
  Attempts <- MCAttempts
  JobAttempts = 1
  MaxRepair = 1
  MaxMade = 2
  MaxResumes = 1
  Risks = {"Low", "High"}
  Fragile = {}
  MayCrash = FALSE
PROPERTIES
  NoStaleMutation
  NoneStuck
  ImplementsPromotion
CHECK_DEADLOCK FALSE
