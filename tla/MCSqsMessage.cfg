CONSTANTS
  Callers = {c1, c2}
  MaxCalls = 5
  MaxGen = 3
  Delays = {1}
  Timeouts = {0, 1, 2}
  Cap = 2
  Retention = 3
  Attempts = 2
SPECIFICATION Spec
SYMMETRY Alike
CHECK_DEADLOCK FALSE
INVARIANT TypeOK
INVARIANT HandleHolds
INVARIANT DeleteMeansDeleted
PROPERTY DeletedStaysDeleted
