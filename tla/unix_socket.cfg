SPECIFICATION Spec
CONSTANTS
  Servers = {p1, p2, p3, p4}
  Overlap = FALSE
INVARIANTS
  ServingIsReachable
PROPERTIES
  FileSurvives
  RefusalsJustified
CHECK_DEADLOCK FALSE
