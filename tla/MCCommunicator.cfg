SPECIFICATION MCSpec
CONSTANTS
  Apps = {t1}
  NoThread = none
  Nets = {n1}
  NumAsync = 2
  Msgs = {m1, m2, m3}
  AskingMsgs = {}
  QueueCap = 1
  Merges = {TRUE, FALSE}
  m3 = m3
  a = a
  b = b
  Servers = {a, b}
  NoServer = NoServer
  Infos <- MCInfos
  Lists <- MCLists
PROPERTIES CallbacksRun TerminateReturns Recovers
CHECK_DEADLOCK FALSE
