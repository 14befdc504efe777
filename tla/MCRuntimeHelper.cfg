SPECIFICATION Spec
CONSTANTS
  Conns = {c1, c2, c3}
  Reqs = {r1, r2}
SYMMETRY ConnSymmetry
INVARIANTS
  AtMostOneRestart
  SuccessMeansRestarted
  NotStartedIsTrue
  AcknowledgedIsDurable
PROPERTIES
  CompletionIsFinal
  ImplementsRestartOnce
