SPECIFICATION MCSpec
CONSTANTS
  Workers = {w1, w2}
  PoolUsers = {u1, u2}
  PoolTasks = {t1, t2, t3}
  NoTask = none
  LoopTask = t3
  Repeated = {t1}
  MaxPosts = 2
  PoolSize = 3
  Grow = 2
  FirstCoros = 1
  MaxCalls = 2
  Together = 2
  Turns = 1
  a = a
  b = b
  Servers = {a, b}
  NoServer = none
  Infos <- MCInfos
  Lists <- MCLists
  MaxString1 = 2
  Missing = missing
  Unspecified = unspecified
  Exchanges <- MCExchanges
  Streams <- MCStreams
  Garbage <- MCGarbage
  MaxPieces = 3
  MaxPacket = 45
  Expressions <- MCExpressions
  Starts <- MCStarts
  MaxFires = 3
  InvalidTime = notime
  HttpExchanges <- MCHttpExchanges
  MaxHttpPieces = 3
  SocketCalls <- MCSocketCalls
  MaxSocketCalls = 2
  MaxRecv = 2
  StartPlaces <- MCPlaces
  Links <- MCLinks
  CookieLines <- MCCookieLines
  Capitals <- MCCapitals
  MaxVisits = 1
  MaxLines = 3
  MaxNow = 3
  HostOrder <- MCHostOrder
  ObjectNames <- MCObjectNames
  Leftovers = {0, 10}
  ListChanges <- MCListChanges
  ListenTexts <- MCListenTexts
  MaxChanges = 3
  CheckTime = 2
  SlowChecks = 2
  GrowChecks = 4
  BackLimit = 1
  BackMin = 3
  Replies = {1, 2}
  MaxLeft = 3
  MaxWrites = 2
INVARIANTS NobodyForgotten EventsKept OwnAnswers NoneForgotten TriedAtIntervals
  ReadsWhatWasSent AnswersAsSent HttpAsSent AnswersThisCall CookiesAsSet
  AddressesAsListed SlowPeerClosed
PROPERTIES ErasedStaysErased UsesWhatIsUp OutAfterFailures NextIsNext
CHECK_DEADLOCK FALSE
