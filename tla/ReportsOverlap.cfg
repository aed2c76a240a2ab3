SPECIFICATION Spec
CONSTANTS
  None = None
  d1 = d1  d2 = d2
  k1 = k1  k2 = k2
  Threads = {w1, w2}
  Devices = {d1, d2}
  Keys = {k1, k2}
  Requests <- SomeRequests
  Overlaps <- OneReportAtATime
  MaxRequests = 4
INVARIANTS TypeOK RestartAgrees DeliveredOnce RevisionsDistinct
PROPERTY RevisionsGrow
SYMMETRY ThreadSymmetry
CHECK_DEADLOCK FALSE
