CONSTANTS
  s1 = s1
  s2 = s2
  as = as
  rc = rc
  ow = ow
  a1 = a1
  a2 = a2
  Msgs = {s1, s2}
  Operation <- MCOperation
  Adapters = {a1}
  NoAdapter = NoAdapter
  NoMsg = NoMsg
  Modes <- OnlySerial
  SendLimit = 2
  MaxId = 9
  FirstId = 0
SPECIFICATION Spec
INVARIANT SyncStatusSet
CHECK_DEADLOCK FALSE
