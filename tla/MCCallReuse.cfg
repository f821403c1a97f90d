CONSTANTS
  Threads = {t1, t2}
  NoThread = none
  NumSeq = 1
  QueueCap = 3
  MaxProcess = 1
  Spurious = FALSE
  MaxCalls = 1
SPECIFICATION FairSpec

PROPERTIES SyncReturns
CHECK_DEADLOCK FALSE
