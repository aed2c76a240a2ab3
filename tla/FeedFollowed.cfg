SPECIFICATION Spec
CONSTANTS
  None = None
  legacy = legacy  u1 = u1  p1 = p1  p2 = p2
  Threads = {w1, w2}
  Audiences = {legacy, u1}
  Clients = {legacy}
  Users <- Newcomer
  Owner <- First
  Changes <- LegacyAndOwned
  MaxChanges = 2
INVARIANTS TypeOK PollsMissNothing SnapshotCovers UsageCoversCosts
SYMMETRY ThreadSymmetry
CHECK_DEADLOCK FALSE
