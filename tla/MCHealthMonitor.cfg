SPECIFICATION Spec
CONSTANTS
  Workers = {w1, w2, w3}
  Incidents = {i1, i2, i3}
  MaxProbes = 12
SYMMETRY Symmetry
INVARIANTS
  OneActiveIncident
  OutageIsAttended
PROPERTIES
  OpensAfterThree
CHECK_DEADLOCK FALSE
