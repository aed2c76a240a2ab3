SPECIFICATION Spec
CONSTANTS
  None = None
  milk = milk  eggs = eggs  cake = cake
  Threads = {w1, w2}
  Names = {milk, eggs}
  Recipes = {cake}
  Requests <- SomeRequests
  Stocks <- SomeStocks
  Overlaps <- ItemsOverlap
  MaxRequests = 4
  MaxItems = 6
INVARIANTS TypeOK OneOpenPerName ToldHolds
PROPERTY DoneIsFinal
SYMMETRY ThreadSymmetry
CHECK_DEADLOCK FALSE
