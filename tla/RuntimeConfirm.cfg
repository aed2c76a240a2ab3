SPECIFICATION Spec
CONSTANTS
  None = None
  light = light
  Threads = {w1, w2}
  Proposals = {light}
  Kinds = {"reply", "tool", "risky_tool"}
  Outcomes = {"success", "manual_required"}
  MayFail = TRUE
  MaxConfirms = 4
INVARIANTS TypeOK RepeatsExcused TraceTruthful
PROPERTY RecordedIsFinal
CHECK_DEADLOCK FALSE
