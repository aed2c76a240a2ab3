SPECIFICATION Spec
CONSTANTS
  None = None
  Unknown = Unknown
  p1 = p1  p2 = p2  p3 = p3
  milk = milk  eggs = eggs
  Names = {milk, eggs}
  MaxQuantity = 3
  Threads = {w1, w2}
  Proposals = {p1, p2}
  Parsed <- OverlapParsed
  Corrections <- OverlapCorrections
  Overlaps <- AnyOverlap
  MayFail = TRUE
  MaxRows = 6
INVARIANTS AppliedOnceUnlessTorn AnswersHoldUnlessTorn OneRowUnlessTorn
CHECK_DEADLOCK FALSE
