SPECIFICATION Spec
CONSTANTS
  None = None
  d1 = d1  d2 = d2
  k1 = k1  k2 = k2  k3 = k3
  t1 = t1  t2 = t2  t3 = t3  t4 = t4
  b1 = b1  b2 = b2
  m1 = m1  m2 = m2
  e1 = e1  e2 = e2
  Devices = {d1, d2}
  Keys = {k1, k2, k3}
  Buddies = {b1, b2}
  Machines = {m1, m2}
  Endpoints = {e1, e2}
  Tokens = {t1, t2, t3}
  Threads = {p1, p2}
  PairRequests <- RaceRequests
  Overlaps <- AnyRaceOverlap
  MayFail = FALSE
INVARIANT NoRevival
CHECK_DEADLOCK FALSE
