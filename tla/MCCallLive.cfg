CONSTANTS
  Threads = {t1, t2}
  NoThread = none
  NumSeq = 2
  QueueCap = 3
  MaxProcess = 0
  Spurious = FALSE
  MaxCalls = 1
SPECIFICATION FairSpec
PROPERTIES SyncReturns QueueReleased
CHECK_DEADLOCK FALSE
