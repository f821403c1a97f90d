SPECIFICATION MCSpec
CONSTANTS
  Conns = {c1, c2}
  NoConn = NoConn
  Requests = {r1, r2}
  NoReq = NoReq
  Handles = {h1, h2}
  NumSlots = 1
  MaxConns = 1
  High = 0
  Cap = 2
  Greeting = TRUE
INVARIANT SlotLeft
CHECK_DEADLOCK FALSE
