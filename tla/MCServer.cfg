SPECIFICATION MCSpec
CONSTANTS
  Conns = {c1, c2, c3}
  NoConn = NoConn
  Requests = {r1, r2}
  NoReq = NoReq
  Handles = {h1, h2}
  NumSlots = 2
  MaxConns = 2
  High = 0
  Cap = 2
  Greeting = TRUE
SYMMETRY Symmetry
INVARIANTS OneUseOfSlot NoReplyLeft CloseNoticeLast RepliedOnce
PROPERTIES ClosedAfterReplies
CHECK_DEADLOCK FALSE
