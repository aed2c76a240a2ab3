SPECIFICATION Spec
CONSTANTS
  None = None
  Legacy = Legacy
  ann = ann  bob = bob
  s1 = s1  s2 = s2
  Users = {ann, bob}
  Tokens = {s1, s2}
  Founders = {ann}
  MaxSlots = 2
  MaxActs = 3
  InitRegistered = {ann}
  InitHomes = {ann}
INVARIANTS TypeOK ShownIsMine
PROPERTIES EndedForCause PageSettles
CHECK_DEADLOCK FALSE
