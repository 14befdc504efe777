SPECIFICATION Spec
CONSTANTS
  Workers = {w1, w2}
  Browsers = {b1, b2}
  Bearers = {b2}
  MaxDeployed = 2
  Production = {1, 2}
  Runs = {}
  PageSize = 2
  MaxEnded = 1
  MaxLost = 1
SYMMETRY WorkerSymmetry
INVARIANT RepairStops
CHECK_DEADLOCK FALSE
