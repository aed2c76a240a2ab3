SPECIFICATION Spec
CONSTANTS
  None = None
  Threads = {w1, w2}
  Limit = 2
  Reserve = 1
  Costs = {2}
  MaxRequests = 3
  MaxMonth = 2
INVARIANTS TypeOK OverrunBounded CallsBilled
PROPERTY ServedWithinLimit
SYMMETRY ThreadSymmetry
CHECK_DEADLOCK FALSE
