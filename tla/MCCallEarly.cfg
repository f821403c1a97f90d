CONSTANTS
  Threads = {t1, t2}
  NoThread = none
  NumSeq = 2
  QueueCap = 2
  MaxProcess = 1
  Spurious = FALSE
  MaxCalls = 1
SPECIFICATION Spec
INVARIANTS ReturnsAfterNotification

CHECK_DEADLOCK FALSE
