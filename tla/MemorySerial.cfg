SPECIFICATION Spec
CONSTANTS
  None = None
  Unknown = Unknown
  p1 = p1  p2 = p2  p3 = p3
  milk = milk  eggs = eggs
  Names = {milk, eggs}
  MaxQuantity = 3
  Threads = {w1}
  Proposals = {p1, p2, p3}
  Parsed <- SerialParsed
  Corrections <- SerialCorrections
  Overlaps <- NoOverlap
  MayFail = TRUE
  MaxRows = 12
INVARIANTS TypeOK HistoryChains
PROPERTY ImplementsLedger
CHECK_DEADLOCK FALSE
