SPECIFICATION Spec
CONSTANTS
  Incidents = {i1}
  Workers = {w1, w2}
  NameOf <- MCNameOf
  Attempts <- MCAttempts
  JobAttempts = 1
  Required = 2
  MaxResumes = 1
  Tries = {t1, t2}
  Faults = {"error", "crash"}
SYMMETRY Symmetry
INVARIANTS
  SentAtMostOnce
  SentOnlyIfGranted
  RejectedIsNotSent
  RowIsTruthful
  ResolvedMeansRecovered
  WaitingIsDecidable
PROPERTIES
  ClosedOrPaused
  OutcomeIsFinal
CHECK_DEADLOCK FALSE
