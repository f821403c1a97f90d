CONSTANTS
  Threads = {t1, t2}
  NoThread = none
  NumSeq = 2
  QueueCap = 2
  MaxProcess = 1
  Spurious = TRUE
  MaxCalls = 2
SPECIFICATION Spec
INVARIANTS NoLostWakeup NoLostSignal
PROPERTIES ExitIsLast
CHECK_DEADLOCK FALSE
