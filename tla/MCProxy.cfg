CONSTANTS
  s1 = s1
  s2 = s2
  as = as
  rc = rc
  ow = ow
  a1 = a1
  a2 = a2
  Msgs = {s1, as, rc, ow}
  Operation <- MCOperation
  Adapters = {a1, a2}
  NoAdapter = NoAdapter
  NoMsg = NoMsg
  Modes <- MCModes
  SendLimit = 1
  MaxId = 9
  FirstId = 8
SPECIFICATION Spec
ACTION_CONSTRAINT MCBound
INVARIANTS OnePlace OwnResponse NoneWaitsForOpenConnection
CHECK_DEADLOCK FALSE
