CONSTANTS
  s1 = s1
  s2 = s2
  as = as
  rc = rc
  ow = ow
  a1 = a1
  a2 = a2
  Msgs = {s1, as}
  Operation <- MCOperation
  Adapters = {a1}
  NoAdapter = NoAdapter
  NoMsg = NoMsg
  Modes <- AllModes
  SendLimit = 1
  MaxId = 9
  FirstId = 0
  ISize = 2
  Val = {v1, v2}
  NoVal = none
  MaxBatch = 2
  Num = 4
  End = 99
  NumServants = 2
  Arrivals = {r1}
  Fds = {0, 1}
  Sharings = {"shared", "own", "merged"}
SPECIFICATION MCSpec
INVARIANTS NoMissedHint
PROPERTIES ShutdownReturns RequestsTaken LifeSpec HandlersReturn FifoSpec OldestReceived
  NumberPoolSpec
CHECK_DEADLOCK FALSE
