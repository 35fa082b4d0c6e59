SPECIFICATION Spec
CONSTANTS
  Requests = {r1, r2, r3, r4}
  MaxForks = 2
SYMMETRY Symmetry
INVARIANTS
  SlotsMatchHolders
  ProgramsBounded
PROPERTIES
  ImplementsForkSlots
CHECK_DEADLOCK FALSE
