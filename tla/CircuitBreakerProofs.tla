------------------------- MODULE CircuitBreakerProofs -------------------------
(* Proofs about CircuitBreaker, for any servers, settings and address lists. *)
EXTENDS CircuitBreaker, FiniteSetTheorems, WellFoundedInduction, TLAPS

-----------------------------------------------------------------------------
(* What the operations on one AdapterProxy do. *)

Adapter ==
  [active : BOOLEAN, connTimeout : BOOLEAN, connExc : BOOLEAN, closed : BOOLEAN,
   retry : Nat, excCnt : Nat, freq : Nat, freqTime : Nat, total : Nat, fails : Nat,
   next : Int, limit : Int, conn : {"none", "connecting", "up"}]

\* q is r after connecting, closing or being put out of use: the time of the next
\* try stays or is a whole interval away, failures in a row are not counted, and a
\* server whose connection is up is not put out of use.
Changed(r, q) ==
  /\ q \in Adapter
  /\ q.retry = r.retry \/ q.retry = info.tryTime
  /\ q.freq = r.freq
  /\ ~ q.active /\ q.conn = "up" => ~ r.active /\ r.conn = "up"

\* Two such changes are one.
LEMMA ChangedTrans ==
  ASSUME NEW r \in Adapter, NEW q, NEW x, Changed(r, q), Changed(q, x)
  PROVE  Changed(r, x)
BY DEF Changed

\* Transceiver::close()
LEMMA CloseChanges ==
  ASSUME NEW r \in Adapter
  PROVE  Changed(r, CloseConn(r)) /\ CloseConn(r).conn = "none" /\ CloseConn(r).active = r.active
<1>1. CASE r.conn = "none"
  BY <1>1 DEF Changed, CloseConn
<1>2. CASE r.conn # "none"
  <2> DEFINE q(n) == [r EXCEPT !.conn = "none", !.limit = n, !.closed = TRUE]
  <2>1. \A n \in Int : q(n) \in Adapter
    BY DEF Adapter
  <2>2. \A n \in Int : /\ q(n).conn = "none" /\ q(n).active = r.active
                       /\ q(n).retry = r.retry /\ q(n).freq = r.freq
    BY DEF Adapter
  <2>3. CloseConn(r) = q(-1) /\ -1 \in Int
    BY <1>2 DEF CloseConn
  <2> HIDE DEF q
  <2>4. \A n \in Int : Changed(r, q(n))
    BY <2>1, <2>2 DEF Changed
  <2> QED
    BY <2>2, <2>3, <2>4
<1> QED
  BY <1>1, <1>2

\* setInactive() closes the connection and sets the time of the next try.
LEMMA InactiveChanges ==
  ASSUME NEW r \in Adapter, info \in Infos
  PROVE  /\ Changed(r, SetInactive(r)) /\ SetInactive(r).conn = "none"
         /\ ~ SetInactive(r).active /\ SetInactive(r).retry = info.tryTime
<1>1. /\ CloseConn(r) \in Adapter /\ CloseConn(r).conn = "none"
      /\ CloseConn(r).freq = r.freq
  BY CloseChanges DEF Changed
<1>2. info.tryTime \in Nat
  BY CircuitBreakerAssumption DEF InfoOK
<1>3. \A c \in Adapter, n \in Nat : 
        LET q == [c EXCEPT !.active = FALSE, !.retry = n]
        IN  q \in Adapter /\ q.active = FALSE /\ q.retry = n /\ q.conn = c.conn /\ q.freq = c.freq
  BY DEF Adapter
<1> QED
  BY <1>1, <1>2, <1>3 DEF Changed, SetInactive

\* setConTimeout() puts a server out of use or leaves it as it is.
LEMMA TimeoutChanges ==
  ASSUME NEW r \in Adapter, NEW b \in BOOLEAN, info \in Infos
  PROVE  /\ Changed(r, SetConTimeout(r, b))
         /\ ~ b => SetConTimeout(r, b).conn = r.conn
         /\ r.active = FALSE => SetConTimeout(r, b).active = FALSE
         /\ SetConTimeout(r, b) = r \/ (b /\ SetConTimeout(r, b).active = FALSE
                                          /\ SetConTimeout(r, b).retry = info.tryTime)
                                    \/ ~ b
<1>1. \A v \in BOOLEAN : LET q == [r EXCEPT !.connTimeout = v]
                         IN  /\ q \in Adapter /\ q.conn = r.conn /\ q.active = r.active
                             /\ q.retry = r.retry /\ q.freq = r.freq
  BY DEF Adapter
<1>2. CASE r.connTimeout = b
  BY <1>2 DEF SetConTimeout, Changed
<1>3. CASE r.connTimeout # b /\ b
  <2> DEFINE q == [r EXCEPT !.connTimeout = TRUE]
  <2>1. q \in Adapter /\ Changed(r, q)
    BY <1>1 DEF Changed
  <2>2. SetConTimeout(r, b) = SetInactive(q)
    BY <1>3 DEF SetConTimeout
  <2> HIDE DEF q
  <2>3. Changed(q, SetInactive(q)) /\ ~ SetInactive(q).active /\ SetInactive(q).retry = info.tryTime
    BY <2>1, InactiveChanges
  <2>4. SetInactive(q).active = FALSE
    BY <2>3 DEF Changed, Adapter
  <2> QED
    BY <1>3, <2>1, <2>2, <2>3, <2>4, ChangedTrans DEF Changed
<1>4. CASE r.connTimeout # b /\ ~ b
  BY <1>1, <1>4 DEF SetConTimeout, Changed
<1> QED
  BY <1>2, <1>3, <1>4

\* addConnExc(): its false form puts the server into use and moves no time.
LEMMA ExcChanges ==
  ASSUME NEW r \in Adapter, info \in Infos
  PROVE  /\ Changed(r, AddConnExc(r, TRUE))
         /\ AddConnExc(r, FALSE) \in Adapter
         /\ AddConnExc(r, FALSE).active = TRUE /\ AddConnExc(r, FALSE).conn = r.conn
         /\ AddConnExc(r, FALSE).retry = r.retry /\ AddConnExc(r, FALSE).freq = r.freq
<1>0. info.maxExc \in Nat
  BY CircuitBreakerAssumption DEF InfoOK
<1>1. ASSUME r.connExc
      PROVE  Changed(r, AddConnExc(r, TRUE))
  BY <1>1 DEF AddConnExc, Changed
<1>2. ASSUME ~ r.connExc /\ r.excCnt + 1 < info.maxExc
      PROVE  Changed(r, AddConnExc(r, TRUE))
  <2>1. \A n \in Nat : LET q == [r EXCEPT !.excCnt = n]
                       IN  /\ q \in Adapter /\ q.conn = r.conn /\ q.active = r.active
                           /\ q.retry = r.retry /\ q.freq = r.freq
    BY DEF Adapter
  <2>2. AddConnExc(r, TRUE) = [r EXCEPT !.excCnt = r.excCnt + 1] /\ r.excCnt + 1 \in Nat
    BY <1>2 DEF AddConnExc, Adapter
  <2>3. \A n \in Nat : Changed(r, [r EXCEPT !.excCnt = n])
    BY <2>1 DEF Changed
  <2> QED
    BY <2>2, <2>3
<1>3. ASSUME ~ r.connExc /\ ~ r.excCnt + 1 < info.maxExc
      PROVE  Changed(r, AddConnExc(r, TRUE))
  <2>1. \A n \in Nat : LET q == [r EXCEPT !.excCnt = n, !.connExc = TRUE]
                       IN  q \in Adapter /\ Changed(r, q)
    BY DEF Adapter, Changed
  <2>2. AddConnExc(r, TRUE) = SetInactive([r EXCEPT !.excCnt = info.maxExc, !.connExc = TRUE])
    BY <1>3 DEF AddConnExc
  <2>3. ASSUME NEW q \in Adapter, Changed(r, q)
        PROVE  Changed(r, SetInactive(q))
    BY <2>3, InactiveChanges, ChangedTrans
  <2> QED
    BY <1>0, <2>1, <2>2, <2>3
<1>4. Changed(r, AddConnExc(r, TRUE))
  BY <1>1, <1>2, <1>3
<1>5. /\ AddConnExc(r, FALSE) \in Adapter
      /\ AddConnExc(r, FALSE).active = TRUE /\ AddConnExc(r, FALSE).conn = r.conn
      /\ AddConnExc(r, FALSE).retry = r.retry /\ AddConnExc(r, FALSE).freq = r.freq
  BY DEF AddConnExc, Adapter
<1> QED
  BY <1>4, <1>5

\* A connection that comes up puts its server into use.
LEMMA ConnectedChanges ==
  ASSUME NEW r \in Adapter, info \in Infos
  PROVE  Changed(r, SetConnected(r))
<1> DEFINE q(n) == [r EXCEPT !.conn = "up", !.limit = n]
<1>1. \A n \in Int : q(n) \in Adapter
  BY DEF Adapter
<1>2. \A n \in Int : q(n).retry = r.retry /\ q(n).freq = r.freq
  BY DEF Adapter
<1>3. SetConnected(r) = AddConnExc(SetConTimeout(q(-1), FALSE), FALSE) /\ -1 \in Int
  BY DEF SetConnected
<1> HIDE DEF q
<1>4. \A c \in Adapter : LET x == SetConTimeout(c, FALSE)
                         IN  x \in Adapter /\ x.retry = c.retry /\ x.freq = c.freq
  <2> SUFFICES ASSUME NEW c \in Adapter
               PROVE  LET x == SetConTimeout(c, FALSE)
                      IN  x \in Adapter /\ x.retry = c.retry /\ x.freq = c.freq
    OBVIOUS
  <2>1. LET x == [c EXCEPT !.connTimeout = FALSE]
        IN  x \in Adapter /\ x.retry = c.retry /\ x.freq = c.freq
    BY DEF Adapter
  <2> QED
    BY <2>1 DEF SetConTimeout
<1>5. \A c \in Adapter : LET x == AddConnExc(c, FALSE)
                         IN  x \in Adapter /\ x.active = TRUE /\ x.retry = c.retry /\ x.freq = c.freq
  BY ExcChanges
<1>6. PICK c \in Adapter : /\ SetConnected(r) = AddConnExc(SetConTimeout(c, FALSE), FALSE)
                           /\ c.retry = r.retry /\ c.freq = r.freq
  BY <1>1, <1>2, <1>3
<1> DEFINE d == SetConTimeout(c, FALSE)
           e == AddConnExc(d, FALSE)
<1>7. d \in Adapter /\ d.retry = r.retry /\ d.freq = r.freq
  BY <1>6, <1>4
<1>8. e \in Adapter /\ e.active = TRUE /\ e.retry = r.retry /\ e.freq = r.freq
  <2> HIDE DEF d
  <2> QED
    BY <1>7, <1>5
<1>9. SetConnected(r) = e
  BY <1>6
<1> HIDE DEF d, e
<1> QED
  BY <1>8, <1>9 DEF Changed

\* What an attempt to connect may give.
Outcomes == {"connecting", "up", "throws"}

\* connect(), and the attempt of checkActive() with its exception.
LEMMA ConnectChanges ==
  ASSUME NEW r \in Adapter, info \in Infos, NEW res \in Outcomes
  PROVE  Changed(r, Connect(r, res)) /\ Changed(r, TryConnect(r, res))
<1>0. info.conTimeout \in Int
  BY CircuitBreakerAssumption DEF InfoOK
<1>1. ASSUME r.conn # "none" \/ res = "throws"
      PROVE  Changed(r, Connect(r, res))
  BY <1>1 DEF Connect, Changed
<1>2. ASSUME r.conn = "none" /\ res = "up"
      PROVE  Changed(r, Connect(r, res))
  BY <1>2, ConnectedChanges DEF Connect
<1>3. ASSUME r.conn = "none" /\ res = "connecting"
      PROVE  Changed(r, Connect(r, res))
  <2>1. \A n \in Int : LET q == [r EXCEPT !.conn = "connecting", !.limit = n]
                       IN  q \in Adapter /\ Changed(r, q)
    BY DEF Adapter, Changed
  <2> QED
    BY <1>0, <1>3, <2>1 DEF Connect
<1>4. Changed(r, Connect(r, res))
  BY <1>1, <1>2, <1>3 DEF Outcomes
<1>5. CASE r.conn = "none" /\ res = "throws"
  <2>1. LET q == [r EXCEPT !.active = FALSE]
        IN  /\ q \in Adapter /\ q.retry = r.retry /\ q.freq = r.freq /\ q.conn = r.conn
    BY DEF Adapter
  <2> QED
    BY <1>4, <1>5, <2>1 DEF TryConnect, Changed
<1>6. CASE ~ (r.conn = "none" /\ res = "throws")
  BY <1>4, <1>6 DEF TryConnect
<1> QED
  BY <1>5, <1>6

\* checkTimeout() of the connection: a server that is not due to be tried stays so.
LEMMA CheckTimeoutChanges ==
  ASSUME NEW r \in Adapter, info \in Infos
  PROVE  /\ Changed(r, CheckTimeout(r))
         /\ r.conn = "up" => CheckTimeout(r) = r
         /\ ~ r.active => ~ CheckTimeout(r).active
         /\ NotYet(r) => NotYet(CheckTimeout(r))
<1>1. CASE r.conn = "connecting" /\ r.limit = -1
  <2> DEFINE d == SetConTimeout(r, TRUE)
             e == CloseConn(d)
  <2>1. Changed(r, d) /\ (~ r.active => ~ d.active)
    BY TimeoutChanges DEF Adapter
  <2>2. d \in Adapter
    BY <2>1 DEF Changed
  <2>3. CheckTimeout(r) = e
    BY <1>1 DEF CheckTimeout
  <2> HIDE DEF d
  <2>4. Changed(d, e) /\ e.active = d.active
    BY <2>2, CloseChanges
  <2>5. Changed(r, e) /\ (~ r.active => ~ e.active)
    BY <2>1, <2>2, <2>4, ChangedTrans
  <2>6. info.tryTime > 0
    BY CircuitBreakerAssumption DEF InfoOK
  <2> QED
    BY <1>1, <2>3, <2>5, <2>6 DEF NotYet, Changed
<1>2. CASE ~ (r.conn = "connecting" /\ r.limit = -1)
  BY <1>2 DEF CheckTimeout, Changed
<1> QED
  BY <1>1, <1>2

\* checkActive(false): whom it tries to connect again gets a whole interval, and a
\* server in use with its connection up is left as it is.
LEMMA CheckActiveChanges ==
  ASSUME NEW r \in Adapter, info \in Infos, NEW res \in Outcomes
  PROVE  /\ Changed(r, CheckActive(r, res))
         /\ ~ r.active /\ ~ NotYet(CheckTimeout(r)) => CheckActive(r, res).retry = info.tryTime
         /\ r.active /\ r.conn = "up" => CheckActive(r, res) = r
<1> DEFINE c == CheckTimeout(r)
           d == RetryLater(c)
           e == TryConnect(d, res)
<1>0. info.tryTime \in Nat
  BY CircuitBreakerAssumption DEF InfoOK
<1>1. /\ c \in Adapter /\ Changed(r, c)
      /\ r.conn = "up" => c = r
      /\ ~ r.active => ~ c.active
  BY CheckTimeoutChanges DEF Changed
<1>2. CheckActive(r, res) = (IF NotYet(c) THEN c ELSE e) /\ c = CheckTimeout(r)
  BY DEF CheckActive
<1> HIDE DEF c
<1>3. Changed(c, d) /\ (~ c.active => d.retry = info.tryTime) /\ (c.active => d = c)
  <2>1. \A n \in Nat : LET q == [c EXCEPT !.retry = n]
                       IN  /\ q \in Adapter /\ q.retry = n /\ q.freq = c.freq
                           /\ q.active = c.active /\ q.conn = c.conn
    BY <1>1 DEF Adapter
  <2> QED
    BY <1>0, <1>1, <2>1 DEF RetryLater, Changed
<1>4. d \in Adapter
  BY <1>3 DEF Changed
<1> HIDE DEF d
<1>5. Changed(d, e)
  BY <1>4, ConnectChanges
<1>6. Changed(r, e)
  BY <1>1, <1>3, <1>4, <1>5, ChangedTrans
<1>7. ~ c.active => e.retry = info.tryTime
  BY <1>3, <1>5 DEF Changed
<1>8. d.conn = "up" => e = d
  BY DEF TryConnect, Connect
<1> HIDE DEF e
<1> QED
  BY <1>1, <1>2, <1>3, <1>6, <1>7, <1>8 DEF NotYet

\* checkActive(true)
LEMMA ForceActiveChanges ==
  ASSUME NEW r \in Adapter, info \in Infos, NEW res \in Outcomes
  PROVE  Changed(r, ForceActive(r, res))
<1> DEFINE c == CheckTimeout(r)
           d == [c EXCEPT !.retry = info.tryTime]
           e == TryConnect(d, res)
<1>0. info.tryTime \in Nat
  BY CircuitBreakerAssumption DEF InfoOK
<1>1. c \in Adapter /\ Changed(r, c)
  BY CheckTimeoutChanges DEF Changed
<1>2. ForceActive(r, res) = IF c.conn # "none" THEN c ELSE e
  BY DEF ForceActive
<1> HIDE DEF c
<1>3. d \in Adapter /\ Changed(c, d)
  BY <1>0, <1>1 DEF Changed, Adapter
<1> HIDE DEF d
<1>4. Changed(d, e)
  BY <1>3, ConnectChanges
<1>5. Changed(r, e)
  BY <1>1, <1>3, <1>4, ChangedTrans
<1> HIDE DEF e
<1> QED
  BY <1>1, <1>2, <1>5

\* What finishInvoke(bool) may make of r: the failures in a row are at most those since
\* the last good call, and only a full row of them puts a server out of use and leaves
\* its connection up.
Finished(r, q, fail) ==
  /\ q \in Adapter
  /\ q.retry = r.retry \/ q.retry = info.tryTime
  /\ ~ fail => q.freq = 0
  /\ fail => q.freq = r.freq \/ q.freq = Min2(r.freq + 1, info.freqFail)
  /\ r.active /\ ~ q.active /\ q.conn = "up" =>
       fail /\ Min2(r.freq + 1, info.freqFail) >= info.freqFail

\* A good call puts a server back into use.
LEMMA RetryOkFinishes ==
  ASSUME NEW r \in Adapter, info \in Infos, ~ r.active
  PROVE  Finished(r, RetryOk(r), FALSE)
<1>1. ASSUME NEW n \in Int, NEW m \in Nat, NEW k \in Nat, NEW l \in Nat
      PROVE  LET q == [r EXCEPT !.active = TRUE, !.freq = m, !.next = n, !.total = l,
                                !.fails = k, !.connTimeout = FALSE, !.connExc = FALSE]
             IN  q \in Adapter /\ q.retry = r.retry /\ q.freq = m
  BY DEF Adapter
<1> DEFINE x(n, m, k, l) == [r EXCEPT !.active = TRUE, !.freq = m, !.next = n, !.total = l,
                                      !.fails = k, !.connTimeout = FALSE, !.connExc = FALSE]
<1>2. \A n \in Int, m, k, l \in Nat :
        x(n, m, k, l) \in Adapter /\ x(n, m, k, l).retry = r.retry /\ x(n, m, k, l).freq = m
  BY <1>1
<1>3. RetryOk(r) = x(info.interval, 0, 0, 1)
  BY DEF RetryOk
<1>4. info.interval \in Int
  BY CircuitBreakerAssumption DEF InfoOK
<1> HIDE DEF x
<1>5. RetryOk(r) \in Adapter /\ RetryOk(r).retry = r.retry /\ RetryOk(r).freq = 0
  BY <1>2, <1>3, <1>4
<1> QED
  BY <1>5 DEF Finished

\* The counters of a call: a good one ends the row of failures.
LEMMA CountCallCounts ==
  ASSUME NEW r \in Adapter, info \in Infos, NEW fail \in BOOLEAN
  PROVE  LET c == CountCall(r, fail)
         IN  /\ c \in Adapter /\ c.retry = r.retry /\ c.active = r.active /\ c.conn = r.conn
             /\ c.freq = IF fail THEN Min2(r.freq + 1, info.freqFail) ELSE 0
<1> DEFINE row == Min2(r.freq + 1, info.freqFail)
           since == IF r.freq = 0 THEN info.minFreqTime ELSE r.freqTime
<1>1. info.freqFail \in Nat /\ info.minFreqTime \in Nat
  BY CircuitBreakerAssumption DEF InfoOK
<1>2. /\ row \in Nat /\ since \in Nat
      /\ r.total + 1 \in Nat /\ r.fails + 1 \in Nat
  BY <1>1 DEF Min2, Adapter
<1>3. CASE fail
  <2>1. CountCall(r, fail) = [r EXCEPT !.total = r.total + 1, !.fails = r.fails + 1,
                                       !.freq = row, !.freqTime = since]
    BY <1>3 DEF CountCall
  <2> DEFINE x(l, m, n, t) == [r EXCEPT !.total = l, !.fails = m, !.freq = n, !.freqTime = t]
             c == CountCall(r, fail)
  <2>2. \A l, m, n, t \in Nat :
          /\ x(l, m, n, t) \in Adapter /\ x(l, m, n, t).retry = r.retry
          /\ x(l, m, n, t).active = r.active /\ x(l, m, n, t).conn = r.conn
          /\ x(l, m, n, t).freq = n
    <3> TAKE l, m, n, t \in Nat
    <3> QED
      BY DEF Adapter
  <2>3. \E l, m \in Nat : c = x(l, m, row, since)
    BY <1>2, <2>1
  <2>4. row \in Nat /\ since \in Nat
    BY <1>2
  <2>5. row = Min2(r.freq + 1, info.freqFail)
    OBVIOUS
  <2> HIDE DEF x, row, since
  <2>6. PICK l \in Nat, m \in Nat : c = x(l, m, row, since)
    BY <2>3
  <2> HIDE DEF c
  <2>7. c \in Adapter /\ c.retry = r.retry /\ c.active = r.active /\ c.conn = r.conn /\ c.freq = row
    BY <2>2, <2>4, <2>6
  <2> QED
    BY <1>3, <2>5, <2>7 DEF c
<1>4. CASE ~ fail
  <2> DEFINE x(l, n) == [r EXCEPT !.total = l, !.freq = n]
             c == CountCall(r, fail)
  <2>1. \A l, n \in Nat :
          /\ x(l, n) \in Adapter /\ x(l, n).retry = r.retry /\ x(l, n).active = r.active
          /\ x(l, n).conn = r.conn /\ x(l, n).freq = n
    <3> TAKE l, n \in Nat
    <3> QED
      BY DEF Adapter
  <2>2. c = x(r.total + 1, 0)
    BY <1>4 DEF CountCall
  <2> HIDE DEF x, c
  <2>3. c \in Adapter /\ c.retry = r.retry /\ c.active = r.active /\ c.conn = r.conn /\ c.freq = 0
    BY <1>2, <2>1, <2>2
  <2> QED
    BY <1>4, <2>3 DEF c
<1> QED
  BY <1>3, <1>4

\* The window of the failure rate: its end may put the server out of use, and then
\* closes its connection.
LEMMA CountWindowChanges ==
  ASSUME NEW c \in Adapter, info \in Infos, NEW fail \in BOOLEAN
  PROVE  Changed(c, CountWindow(c, fail))
<1> DEFINE w == [c EXCEPT !.next = info.interval]
           q == [w EXCEPT !.total = 0, !.fails = 0]
<1>1. \A n \in Int : LET x == [c EXCEPT !.next = n]
                     IN  x \in Adapter /\ Changed(c, x)
  BY DEF Adapter, Changed
<1>2. info.interval \in Int
  BY CircuitBreakerAssumption DEF InfoOK
<1>3. w \in Adapter /\ Changed(c, w)
  BY <1>1, <1>2
<1>4. CountWindow(c, fail) = c \/ CountWindow(c, fail) = SetInactive(w) \/ CountWindow(c, fail) = q
  BY DEF CountWindow
<1> HIDE DEF w
<1>5. ASSUME NEW m \in Nat, NEW n \in Nat
      PROVE  LET x == [w EXCEPT !.total = m, !.fails = n]
             IN  x \in Adapter /\ Changed(w, x)
  BY <1>3 DEF Adapter, Changed
<1>6. Changed(w, q)
  BY <1>5
<1> HIDE DEF q
<1>7. Changed(c, c)
  BY DEF Changed
<1> QED
  BY <1>3, <1>4, <1>6, <1>7, InactiveChanges, ChangedTrans

\* What finishInvoke() leaves of the counters, whether the server was in use or not.
LEMMA FinishedChanges ==
  ASSUME NEW r \in Adapter, info \in Infos, NEW fail \in BOOLEAN
  PROVE  Finished(r, FinishedCall(r, fail), fail)
<1> DEFINE c == CountCall(r, fail)
<1>0. info.tryTime \in Nat
  BY CircuitBreakerAssumption DEF InfoOK
<1>1. CASE ~ r.active /\ fail
  BY <1>1 DEF FinishedCall, Finished
<1>2. CASE ~ r.active /\ ~ fail
  BY <1>2, RetryOkFinishes DEF FinishedCall
<1>3. CASE r.active
  <2>1. /\ c \in Adapter /\ c.retry = r.retry /\ c.active = r.active /\ c.conn = r.conn
        /\ c.freq = IF fail THEN Min2(r.freq + 1, info.freqFail) ELSE 0
    BY CountCallCounts
  <2>2. FinishedCall(r, fail) = IF fail /\ FailsInARow(c)
                                THEN [c EXCEPT !.active = FALSE, !.retry = info.tryTime]
                                ELSE CountWindow(c, fail)
    BY <1>3 DEF FinishedCall
  <2> HIDE DEF c
  <2>3. CASE fail /\ FailsInARow(c)
    <3>1. \A n \in Nat : LET q == [c EXCEPT !.active = FALSE, !.retry = n]
                         IN  q \in Adapter /\ q.retry = n /\ q.freq = c.freq
      BY <2>1 DEF Adapter
    <3>2. /\ FinishedCall(r, fail) \in Adapter /\ FinishedCall(r, fail).retry = info.tryTime
          /\ FinishedCall(r, fail).freq = c.freq
      BY <1>0, <2>2, <2>3, <3>1
    <3> QED
      BY <2>1, <2>3, <3>2 DEF FailsInARow, Finished
  <2>4. CASE ~ (fail /\ FailsInARow(c))
    <3>1. Changed(c, FinishedCall(r, fail))
      BY <2>1, <2>2, <2>4, CountWindowChanges
    <3> QED
      BY <1>3, <2>1, <3>1 DEF Changed, Finished
  <2> QED
    BY <2>3, <2>4
<1> QED
  BY <1>1, <1>2, <1>3 DEF Adapter

-----------------------------------------------------------------------------
(* A selection of a server. *)

\* The round visits every position of the list.
LEMMA RoundVisits ==
  ASSUME NEW j \in 1..Len(proxys), proxys \in Seq(Servers), lastRound \in Nat \ {0}
  PROVE  \E i \in 1..Len(proxys) : RoundPos(i) = j
<1> DEFINE n == Len(proxys)
           f == FirstPos
<1>1. n \in Nat \ {0}
  OBVIOUS
<1>2. f \in 1..n
  BY <1>1 DEF FirstPos
<1>3. \A i \in 1..n : RoundPos(i) = ((f + i - 2) % n) + 1
  BY DEF RoundPos
<1>4. \A a \in 0..n-1 : a % n = a /\ (a + n) % n = a
  BY <1>1
<1> HIDE DEF n, f
<1>5. CASE j >= f
  <2>1. /\ j - f + 1 \in 1..n /\ f + (j - f + 1) - 2 = j - 1
        /\ j - 1 \in 0..n-1 /\ (j - 1) + 1 = j
    BY <1>1, <1>2, <1>5 DEF n
  <2>2. RoundPos(j - f + 1) = ((j - 1) % n) + 1
    BY <1>3, <2>1
  <2> QED
    BY <1>4, <2>1, <2>2 DEF n
<1>6. CASE j < f
  <2>1. /\ j - f + 1 + n \in 1..n /\ f + (j - f + 1 + n) - 2 = (j - 1) + n
        /\ j - 1 \in 0..n-1 /\ (j - 1) + 1 = j
    BY <1>1, <1>2, <1>6 DEF n
  <2>2. RoundPos(j - f + 1 + n) = (((j - 1) + n) % n) + 1
    BY <1>3, <2>1
  <2> QED
    BY <1>4, <2>1, <2>2 DEF n
<1> QED
  BY <1>2, <1>5, <1>6 DEF n

\* Every position it asks is one of the list.
LEMMA RoundInList ==
  ASSUME NEW i \in Nat \ {0}, proxys \in Seq(Servers), proxys # <<>>, lastRound \in Nat \ {0}
  PROVE  RoundPos(i) \in 1..Len(proxys) /\ proxys[RoundPos(i)] \in Servers
<1> DEFINE n == Len(proxys)
           f == FirstPos
<1>1. n \in Nat \ {0}
  OBVIOUS
<1>2. f \in 1..n
  BY <1>1 DEF FirstPos
<1>3. RoundPos(i) = ((f + i - 2) % n) + 1
  BY DEF RoundPos
<1> HIDE DEF n, f
<1>4. f + i - 2 \in Int /\ (f + i - 2) % n \in 0..n-1
  BY <1>1, <1>2
<1> QED
  BY <1>1, <1>3, <1>4 DEF n

\* The round ends at the first server it can use, or has asked all.
LEMMA RoundEnds ==
  ASSUME proxys \in Seq(Servers), proxys # <<>>, NEW after
  PROVE  LET good == {i \in 1..Len(proxys) :
                        Usable(srv[proxys[RoundPos(i)]], after[proxys[RoundPos(i)]])}
             last == Cardinality(Asked(after))
         IN  /\ last \in 1..Len(proxys) /\ Asked(after) = 1..last
             /\ good # {} => last \in good
<1> DEFINE good == {i \in 1..Len(proxys) :
                      Usable(srv[proxys[RoundPos(i)]], after[proxys[RoundPos(i)]])}
           first == CHOOSE i \in good : \A j \in good : i <= j
<1>1. Asked(after) = IF good = {} THEN 1..Len(proxys) ELSE 1..first
  BY DEF Asked
<1>2. good # {} => first \in good
  <2> SUFFICES ASSUME good # {}
               PROVE  first \in good
    OBVIOUS
  <2>0. good \subseteq Nat
    OBVIOUS
  <2> HIDE DEF good
  <2>1. \E i \in good : \A j \in good : ~ (<<j, i>> \in OpToRel(<, Nat))
    BY <2>0, NatLessThanWellFounded, WFMin
  <2>2. \A i, j \in Nat : ~ (<<j, i>> \in OpToRel(<, Nat)) => i <= j
    BY DEF OpToRel
  <2>3. \E i \in good : \A j \in good : i <= j
    BY <2>0, <2>1, <2>2
  <2> QED
    BY <2>3 DEF first
<1>3. good \subseteq 1..Len(proxys)
  OBVIOUS
<1>4. \A k \in Nat : Cardinality(1..k) = k
  <2> TAKE k \in Nat
  <2> QED
    BY FS_Interval
<1>5. Len(proxys) \in Nat \ {0}
  OBVIOUS
<1> HIDE DEF good, first
<1>6. CASE good = {}
  BY <1>1, <1>4, <1>5, <1>6 DEF good
<1>7. CASE good # {}
  <2>1. first \in good
    BY <1>2, <1>7
  <2>2. first \in 1..Len(proxys)
    BY <1>3, <2>1
  <2>3. first \in Nat
    BY <1>5, <2>2
  <2> QED
    BY <1>1, <1>4, <1>7, <2>1, <2>2, <2>3 DEF good
<1> QED
  BY <1>6, <1>7

-----------------------------------------------------------------------------
(* The steps.  Kept is inductive: a server is not tried again before the time   *)
(* it was given, and its failures in a row are not more than those that were    *)
(* counted since its last good call.                                            *)

Kept ==
  /\ BreakerTypeOK
  /\ \A s \in Servers : /\ srv[s].retry >= tried[s] /\ tried[s] <= info.tryTime
                        /\ srv[s].freq <= streak[s] /\ streak[s] <= info.freqFail

\* _reconnect
Plans == [0..info.reconnect -> Servers \cup {NoServer}]

\* Entering the closed connections in _reconnect changes nothing else.
LEMMA TakenOver ==
  ASSUME info \in Infos, NEW new \in [Servers -> Adapter], NEW plan \in Plans,
         TakeOver(new, plan)
  PROVE  /\ srv' \in [Servers -> Adapter] /\ reconnect' \in Plans
         /\ \A s \in Servers : /\ Changed(new[s], srv'[s]) /\ srv'[s].retry = new[s].retry
                               /\ srv'[s].conn = new[s].conn /\ srv'[s].active = new[s].active
<1>1. \A r \in Adapter : LET q == [r EXCEPT !.closed = FALSE]
                         IN  /\ q \in Adapter /\ Changed(r, q) /\ q.retry = r.retry
                             /\ q.conn = r.conn /\ q.active = r.active
  BY DEF Adapter, Changed
<1>2. srv' = [s \in Servers |-> [new[s] EXCEPT !.closed = FALSE]]
  BY DEF TakeOver
<1>3. ASSUME NEW s \in Servers
      PROVE  /\ srv'[s] \in Adapter
             /\ Changed(new[s], srv'[s]) /\ srv'[s].retry = new[s].retry
             /\ srv'[s].conn = new[s].conn /\ srv'[s].active = new[s].active
  BY <1>1, <1>2
<1>4. reconnect' \in Plans
  <2>1. info.reconnect \in Nat
    BY CircuitBreakerAssumption DEF InfoOK
  <2> QED
    BY <2>1 DEF TakeOver, Plans
<1> QED
  BY <1>2, <1>3, <1>4

\* One server changes.
LEMMA OneChanged ==
  ASSUME srv \in [Servers -> Adapter], info \in Infos, NEW s \in Servers, NEW q,
         Changed(srv[s], q), NEW plan \in Plans, TakeOver([srv EXCEPT ![s] = q], plan)
  PROVE  /\ srv' \in [Servers -> Adapter] /\ reconnect' \in Plans
         /\ \A t \in Servers : Changed(srv[t], srv'[t])
<1> DEFINE new == [srv EXCEPT ![s] = q]
<1>1. new \in [Servers -> Adapter] /\ \A t \in Servers : Changed(srv[t], new[t])
  BY DEF Changed
<1>2. TakeOver(new, plan)
  OBVIOUS
<1> HIDE DEF new
<1>3. /\ srv' \in [Servers -> Adapter] /\ reconnect' \in Plans
      /\ \A t \in Servers : Changed(new[t], srv'[t])
  BY <1>1, <1>2, TakenOver
<1> QED
  BY <1>1, <1>3, ChangedTrans

\* What keeps Kept in a step that makes no call end.
LEMMA ChangesKeep ==
  ASSUME Kept, srv' \in [Servers -> Adapter], reconnect' \in Plans,
         \A s \in Servers : Changed(srv[s], srv'[s]),
         UNCHANGED <<info, proxys, settled, streak>>,
         tried' \in [Servers -> Nat], lastRound' \in Nat \ {0}, waiting' \subseteq Servers,
         \A s \in Servers : \/ tried'[s] = tried[s]
                            \/ tried'[s] = info.tryTime /\ srv'[s].retry = info.tryTime
  PROVE  Kept'
<1>1. BreakerTypeOK'
  BY DEF Kept, BreakerTypeOK, Adapter, Plans
<1>2. info.tryTime \in Nat
  BY CircuitBreakerAssumption DEF InfoOK, Kept, BreakerTypeOK
<1>3. ASSUME NEW s \in Servers
      PROVE  /\ srv'[s].retry >= tried'[s] /\ tried'[s] <= info.tryTime
             /\ srv'[s].freq <= streak'[s] /\ streak'[s] <= info.freqFail
  <2>1. Changed(srv[s], srv'[s])
    OBVIOUS
  <2>2. srv[s].retry \in Nat /\ tried[s] \in Nat /\ tried'[s] \in Nat
    BY DEF Kept, BreakerTypeOK
  <2> QED
    BY <1>2, <2>1, <2>2 DEF Kept, Changed
<1> QED
  BY <1>1, <1>3 DEF Kept

\* A selection: what it does to the servers, and that it gives the request to a server
\* that is down or not due only when none is in use and connected.
LEMMA SelectStep ==
  ASSUME Kept, Select
  PROVE  /\ srv' \in [Servers -> Adapter] /\ reconnect' \in Plans
         /\ \A s \in Servers : Changed(srv[s], srv'[s])
         /\ tried' \in [Servers -> Nat] /\ lastRound' \in Nat \ {0} /\ waiting' \subseteq Servers
         /\ \A s \in Servers : \/ tried'[s] = tried[s]
                               \/ tried'[s] = info.tryTime /\ srv'[s].retry = info.tryTime
         /\ UNCHANGED <<info, proxys, settled, streak>>
         /\ \A s \in waiting' \ waiting :
              srv'[s].conn # "up" \/ NotYet(srv[s]) =>
                \A i \in 1..Len(proxys) : ~ (srv[proxys[i]].active /\ srv[proxys[i]].conn = "up")
<1>0. /\ info \in Infos /\ proxys \in Seq(Servers) /\ proxys # <<>> /\ lastRound \in Nat \ {0}
      /\ srv \in [Servers -> Adapter] /\ reconnect \in Plans /\ waiting \subseteq Servers
      /\ tried \in [Servers -> Nat] /\ info.tryTime \in Nat
  BY CircuitBreakerAssumption DEF Kept, BreakerTypeOK, Adapter, Plans, Select, InfoOK
<1> DEFINE after(res) == [s \in Servers |->
                            CheckActive(srv[s], IF s \in Attempts THEN res[s] ELSE "connecting")]
           seen(a) == {proxys[RoundPos(i)] : i \in Asked(a)}
           last(a) == proxys[RoundPos(Cardinality(Asked(a)))]
           new(a) == [s \in Servers |-> IF s \in seen(a) THEN a[s] ELSE srv[s]]
           good(a) == {s \in seen(a) : ~ new(a)[s].connTimeout /\ ~ new(a)[s].connExc}
           range == {proxys[i] : i \in 1..Len(proxys)}
           Ask(a) ==
             /\ lastRound' = RoundPos(Cardinality(Asked(a)))
             /\ tried' = [s \in Servers |->
                            IF s \in seen(a) /\ Tries(s) THEN info.tryTime ELSE tried[s]]
             /\ IF Usable(srv[last(a)], a[last(a)])
                THEN TakeOver(new(a), reconnect) /\ waiting' = waiting \cup {last(a)}
                ELSE \E s \in IF good(a) # {} THEN good(a) ELSE range :
                       /\ \E again \in IF new(a)[s].conn = "none" THEN Results ELSE {"up"} :
                            TakeOver([new(a) EXCEPT ![s] = ForceActive(@, again)], reconnect)
                       /\ waiting' = waiting \cup {s}
<1>1. PICK res \in [Attempts -> Results] : Ask(after(res))
  BY DEF Select
<1> DEFINE a == after(res)
<1>2. ASSUME NEW s \in Servers
      PROVE  /\ Changed(srv[s], a[s]) /\ a[s] \in Adapter
             /\ Tries(s) => a[s].retry = info.tryTime
             /\ srv[s].active /\ srv[s].conn = "up" => a[s] = srv[s]
  <2> DEFINE o == IF s \in Attempts THEN res[s] ELSE "connecting"
  <2>1. o \in Outcomes
    BY DEF Outcomes, Results
  <2>2. a[s] = CheckActive(srv[s], o)
    OBVIOUS
  <2> HIDE DEF o, a
  <2> QED
    BY <1>0, <2>1, <2>2, CheckActiveChanges DEF Tries, Changed
<1>3. a \in [Servers -> Adapter]
  BY <1>2
<1>4. Ask(a)
  BY <1>1
<1> HIDE DEF a
<1> DEFINE n == Cardinality(Asked(a))
<1>5. n \in 1..Len(proxys) /\ Asked(a) = 1..n
  BY <1>0, RoundEnds
<1>6. n \in Nat \ {0} /\ n \in Asked(a) /\ last(a) \in seen(a)
  BY <1>0, <1>5
<1>7. lastRound' \in Nat \ {0} /\ last(a) \in Servers /\ seen(a) \subseteq Servers
  <2>1. \A i \in Nat \ {0} : RoundPos(i) \in 1..Len(proxys) /\ proxys[RoundPos(i)] \in Servers
    BY <1>0, RoundInList
  <2>2. Asked(a) \subseteq Nat \ {0}
    BY <1>5
  <2>3. lastRound' = RoundPos(n)
    BY <1>4
  <2>4. RoundPos(n) \in 1..Len(proxys) /\ last(a) \in Servers
    BY <1>6, <2>1
  <2>5. seen(a) \subseteq Servers
    BY <2>1, <2>2
  <2> QED
    BY <1>0, <2>3, <2>4, <2>5
<1>8. range \subseteq Servers
  BY <1>0
<1>9. /\ new(a) \in [Servers -> Adapter]
      /\ \A s \in Servers : Changed(srv[s], new(a)[s])
      /\ \A s \in seen(a) : new(a)[s] = a[s]
  <2>1. \A s \in Servers : /\ a[s] \in Adapter /\ srv[s] \in Adapter
                           /\ Changed(srv[s], a[s]) /\ Changed(srv[s], srv[s])
    BY <1>0, <1>2, <1>3 DEF Changed
  <2>2. \A s \in Servers : new(a)[s] = IF s \in seen(a) THEN a[s] ELSE srv[s]
    OBVIOUS
  <2>3. new(a) \in [Servers -> Adapter]
    BY <2>1
  <2>4. \A s \in seen(a) : new(a)[s] = a[s]
    BY <1>7, <2>2
  <2>5. \A s \in Servers : Changed(srv[s], new(a)[s])
    BY <2>1, <2>2
  <2> QED
    BY <2>3, <2>4, <2>5
<1> DEFINE w == new(a)
<1>10. PICK final \in [Servers -> Adapter] :
         /\ TakeOver(final, reconnect)
         /\ \A s \in Servers : Changed(w[s], final[s])
         /\ \/ final = w /\ waiting' = waiting \cup {last(a)} /\ Usable(srv[last(a)], a[last(a)])
            \/ /\ ~ Usable(srv[last(a)], a[last(a)])
               /\ \E s \in Servers : waiting' = waiting \cup {s}
  <2>1. CASE Usable(srv[last(a)], a[last(a)])
    BY <1>4, <1>9, <2>1 DEF Changed
  <2>2. CASE ~ Usable(srv[last(a)], a[last(a)])
    <3>1. PICK s \in IF good(a) # {} THEN good(a) ELSE range :
            /\ \E again \in IF w[s].conn = "none" THEN Results ELSE {"up"} :
                 TakeOver([w EXCEPT ![s] = ForceActive(@, again)], reconnect)
            /\ waiting' = waiting \cup {s}
      BY <1>4, <2>2
    <3>2. s \in Servers
      BY <1>7, <1>8
    <3>3. PICK again \in Outcomes : TakeOver([w EXCEPT ![s] = ForceActive(w[s], again)], reconnect)
      BY <3>1 DEF Results, Outcomes
    <3> DEFINE q == ForceActive(w[s], again)
    <3>4. w \in [Servers -> Adapter]
      BY <1>9
    <3> HIDE DEF w
    <3>5. Changed(w[s], q)
      BY <1>0, <3>2, <3>4, ForceActiveChanges
    <3>6. TakeOver([w EXCEPT ![s] = q], reconnect)
      BY <3>3
    <3> HIDE DEF q
    <3>7. /\ [w EXCEPT ![s] = q] \in [Servers -> Adapter]
          /\ \A t \in Servers : Changed(w[t], [w EXCEPT ![s] = q][t])
      BY <3>2, <3>4, <3>5 DEF Changed
    <3> QED
      BY <2>2, <3>1, <3>2, <3>6, <3>7
  <2> QED
    BY <2>1, <2>2
<1>11. /\ srv' \in [Servers -> Adapter] /\ reconnect' \in Plans
       /\ \A s \in Servers : /\ Changed(final[s], srv'[s]) /\ srv'[s].retry = final[s].retry
                             /\ srv'[s].conn = final[s].conn
  BY <1>0, <1>10, TakenOver
<1>12. \A s \in Servers : Changed(srv[s], srv'[s])
  <2> TAKE s \in Servers
  <2>1. srv[s] \in Adapter /\ Changed(srv[s], w[s]) /\ Changed(w[s], final[s]) /\ Changed(final[s], srv'[s])
    BY <1>0, <1>9, <1>10, <1>11
  <2> HIDE DEF w
  <2> QED
    BY <2>1, ChangedTrans
<1>13. waiting' \subseteq Servers
  BY <1>0, <1>7, <1>10
<1>14. ASSUME NEW s \in Servers
       PROVE  \/ tried'[s] = tried[s]
              \/ tried'[s] = info.tryTime /\ srv'[s].retry = info.tryTime
  <2>1. CASE s \in seen(a) /\ Tries(s)
    <3>1. w[s].retry = info.tryTime
      BY <1>2, <1>9, <2>1
    <3>2. Changed(w[s], final[s]) /\ srv'[s].retry = final[s].retry
      BY <1>10, <1>11
    <3>3. tried'[s] = info.tryTime
      BY <1>4, <2>1
    <3> HIDE DEF w
    <3> QED
      BY <3>1, <3>2, <3>3 DEF Changed
  <2>2. CASE ~ (s \in seen(a) /\ Tries(s))
    BY <1>4, <2>2
  <2> QED
    BY <2>1, <2>2
<1>15. tried' \in [Servers -> Nat]
  BY <1>0, <1>4
<1>16. UNCHANGED <<info, proxys, settled, streak>>
  BY DEF Select
<1>17. ASSUME NEW s \in waiting' \ waiting, srv'[s].conn # "up" \/ NotYet(srv[s]),
              NEW i \in 1..Len(proxys), srv[proxys[i]].active, srv[proxys[i]].conn = "up"
       PROVE  FALSE
  <2>1. CASE Usable(srv[last(a)], a[last(a)]) /\ final = w /\ waiting' = waiting \cup {last(a)}
    <3>1. s = last(a)
      BY <2>1
    <3>2. a[s].conn = "up" /\ ~ NotYet(CheckTimeout(srv[s]))
      BY <2>1, <3>1 DEF Usable
    <3>3. srv'[s].conn = "up"
      BY <1>6, <1>7, <1>9, <1>11, <2>1, <3>1, <3>2
    <3>4. ~ NotYet(srv[s])
      BY <1>0, <1>7, <3>1, <3>2, CheckTimeoutChanges
    <3> QED
      BY <1>17, <3>3, <3>4
  <2>2. CASE ~ Usable(srv[last(a)], a[last(a)])
    <3>1. PICK j \in 1..Len(proxys) : RoundPos(j) = i
      BY <1>0, RoundVisits
    <3> DEFINE t == proxys[i]
    <3>2. t \in Servers
      BY <1>0
    <3>3. a[t] = srv[t] /\ CheckTimeout(srv[t]) = srv[t]
      BY <1>0, <1>2, <1>17, <3>2, CheckTimeoutChanges
    <3>4. Usable(srv[proxys[RoundPos(j)]], a[proxys[RoundPos(j)]])
      BY <1>17, <3>1, <3>3 DEF Usable, NotYet
    <3>5. n \in {k \in 1..Len(proxys) : Usable(srv[proxys[RoundPos(k)]], a[proxys[RoundPos(k)]])}
      BY <1>0, <3>4, RoundEnds
    <3> QED
      BY <2>2, <3>5
  <2> QED
    BY <1>10, <2>1, <2>2
<1> QED
  BY <1>7, <1>11, <1>12, <1>13, <1>14, <1>15, <1>16, <1>17

\* The steps of a connection: each makes one server Changed.
LEMMA ConnectionStep ==
  ASSUME Kept, NEW s \in Servers,
         ForceConnect(s) \/ ConnEstablished(s) \/ ConnRefused(s) \/ ConnDropped(s)
  PROVE  /\ srv' \in [Servers -> Adapter] /\ reconnect' \in Plans
         /\ \A t \in Servers : Changed(srv[t], srv'[t])
         /\ UNCHANGED <<info, proxys, lastRound, waiting, settled, tried, streak>>
<1>0. info \in Infos /\ srv \in [Servers -> Adapter] /\ reconnect \in Plans /\ srv[s] \in Adapter
  BY DEF Kept, BreakerTypeOK, Adapter, Plans
<1>1. CASE ForceConnect(s)
  <2>1. PICK res \in Outcomes :
          TakeOver([srv EXCEPT ![s] = ForceActive(srv[s], res)], reconnect)
    BY <1>1 DEF ForceConnect, Results, Outcomes
  <2>2. Changed(srv[s], ForceActive(srv[s], res))
    BY <1>0, ForceActiveChanges
  <2> QED
    BY <1>0, <1>1, <2>1, <2>2, OneChanged DEF ForceConnect
<1>2. CASE ConnEstablished(s)
  <2>1. Changed(srv[s], SetConnected(srv[s]))
    BY <1>0, ConnectedChanges
  <2> QED
    BY <1>0, <1>2, <2>1, OneChanged DEF ConnEstablished
<1>3. CASE ConnRefused(s)
  <2>1. /\ Changed(srv[s], CloseConn(srv[s]))
        /\ Changed(CloseConn(srv[s]), AddConnExc(CloseConn(srv[s]), TRUE))
    BY <1>0, CloseChanges, ExcChanges DEF Changed
  <2>2. Changed(srv[s], AddConnExc(CloseConn(srv[s]), TRUE))
    BY <1>0, <2>1, ChangedTrans
  <2> QED
    BY <1>0, <1>3, <2>2, OneChanged DEF ConnRefused
<1>4. CASE ConnDropped(s)
  <2>1. Changed(srv[s], CloseConn(srv[s]))
    BY <1>0, CloseChanges
  <2> QED
    BY <1>0, <1>4, <2>1, OneChanged DEF ConnDropped
<1> QED
  BY <1>1, <1>2, <1>3, <1>4

\* CommunicatorEpoll::reConnect() makes the server whose entry is due Changed.
LEMMA DueReconnectStep ==
  ASSUME Kept, DueReconnect
  PROVE  /\ srv' \in [Servers -> Adapter] /\ reconnect' \in Plans
         /\ \A t \in Servers : Changed(srv[t], srv'[t])
         /\ UNCHANGED <<info, proxys, lastRound, waiting, settled, tried, streak>>
<1>0. /\ info \in Infos /\ srv \in [Servers -> Adapter] /\ reconnect \in Plans
      /\ info.reconnect \in Nat
  BY CircuitBreakerAssumption DEF Kept, BreakerTypeOK, Adapter, Plans, InfoOK
<1> DEFINE s == reconnect[0]
           plan(res) == IF srv[s].conn = "none" /\ res = "throws" THEN reconnect
                        ELSE [reconnect EXCEPT ![0] = NoServer]
<1>1. s \in Servers
  BY <1>0 DEF DueReconnect, Plans
<1>2. PICK res \in Outcomes : TakeOver([srv EXCEPT ![s] = Connect(srv[s], res)], plan(res))
  BY DEF DueReconnect, Results, Outcomes
<1>3. plan(res) \in Plans
  BY <1>0 DEF Plans
<1>4. UNCHANGED <<info, proxys, lastRound, waiting, settled, tried, streak>>
  BY DEF DueReconnect
<1> HIDE DEF s, plan
<1>5. Changed(srv[s], Connect(srv[s], res))
  BY <1>0, <1>1, ConnectChanges
<1> QED
  BY <1>0, <1>1, <1>2, <1>3, <1>4, <1>5, OneChanged

\* A call ends: of the servers only s changes, and its row of failures with it.
LEMMA FinishStep ==
  ASSUME Kept, NEW s \in Servers, NEW fail \in BOOLEAN, FinishCall(s, fail)
  PROVE  /\ Kept'
         /\ \A t \in Servers : srv[t].active /\ ~ srv'[t].active /\ srv'[t].conn = "up" =>
                                 streak'[t] >= info.freqFail
<1> DEFINE q == FinishedCall(srv[s], fail)
           new == [srv EXCEPT ![s] = q]
           row == Min2(streak[s] + 1, info.freqFail)
<1>0. /\ info \in Infos /\ srv \in [Servers -> Adapter] /\ reconnect \in Plans
      /\ streak \in [Servers -> Nat] /\ tried \in [Servers -> Nat] /\ waiting \subseteq Servers
      /\ info.freqFail \in Nat /\ info.tryTime \in Nat /\ srv[s] \in Adapter
      /\ \A t \in Servers : /\ srv[t].retry >= tried[t] /\ tried[t] <= info.tryTime
                            /\ srv[t].freq <= streak[t] /\ streak[t] <= info.freqFail
  BY CircuitBreakerAssumption DEF Kept, BreakerTypeOK, Adapter, Plans, InfoOK
<1>1. Finished(srv[s], q, fail)
  BY <1>0, FinishedChanges
<1>2. /\ TakeOver(new, reconnect) /\ waiting' \subseteq waiting
      /\ streak' = [streak EXCEPT ![s] = IF fail THEN row ELSE 0]
      /\ UNCHANGED <<info, proxys, lastRound, settled, tried>>
  BY DEF FinishCall
<1> HIDE DEF q
<1>3. new \in [Servers -> Adapter] /\ new[s] = q /\ \A t \in Servers \ {s} : new[t] = srv[t]
  BY <1>0, <1>1 DEF Finished
<1> HIDE DEF new
<1>4. /\ srv' \in [Servers -> Adapter] /\ reconnect' \in Plans
      /\ \A t \in Servers : /\ Changed(new[t], srv'[t]) /\ srv'[t].retry = new[t].retry
                            /\ srv'[t].conn = new[t].conn /\ srv'[t].active = new[t].active
  BY <1>0, <1>2, <1>3, TakenOver
<1>5. /\ srv'[s].retry = q.retry /\ srv'[s].freq = q.freq
      /\ srv'[s].conn = q.conn /\ srv'[s].active = q.active
  BY <1>3, <1>4 DEF Changed
<1>6. ASSUME NEW t \in Servers \ {s}
      PROVE  /\ srv'[t].retry = srv[t].retry /\ srv'[t].freq = srv[t].freq
             /\ srv'[t].active = srv[t].active /\ streak'[t] = streak[t]
  BY <1>0, <1>2, <1>3, <1>4 DEF Changed
<1>7. row \in Nat /\ streak'[s] = (IF fail THEN row ELSE 0) /\ streak' \in [Servers -> Nat]
  BY <1>0, <1>2 DEF Min2
<1>8. srv[s].freq \in Nat /\ srv[s].retry \in Nat /\ streak[s] \in Nat /\ tried[s] \in Nat
  BY <1>0 DEF Adapter
<1>9. srv[s].freq <= row /\ Min2(srv[s].freq + 1, info.freqFail) <= row /\ row <= info.freqFail
  BY <1>0, <1>8 DEF Min2
<1>10. BreakerTypeOK'
  BY <1>0, <1>2, <1>4, <1>7 DEF Kept, BreakerTypeOK, Adapter, Plans
<1>11. q.retry >= tried[s]
  BY <1>0, <1>1, <1>8 DEF Finished
<1>12. q.freq <= streak'[s] /\ streak'[s] <= info.freqFail
  <2>1. Min2(srv[s].freq + 1, info.freqFail) \in Nat
    BY <1>0, <1>8 DEF Min2
  <2> HIDE DEF row
  <2>2. CASE fail
    BY <1>0, <1>1, <1>7, <1>9, <2>1, <2>2 DEF Finished
  <2>3. CASE ~ fail
    BY <1>0, <1>1, <1>7, <2>3 DEF Finished
  <2> QED
    BY <2>2, <2>3
<1>13. Kept'
  <2>1. ASSUME NEW t \in Servers
        PROVE  /\ srv'[t].retry >= tried'[t] /\ tried'[t] <= info.tryTime
               /\ srv'[t].freq <= streak'[t] /\ streak'[t] <= info.freqFail
    <3>1. CASE t = s
      BY <1>0, <1>2, <1>5, <1>11, <1>12, <3>1
    <3>2. CASE t # s
      BY <1>0, <1>2, <1>6, <3>2
    <3> QED
      BY <3>1, <3>2
  <2> QED
    BY <1>2, <1>10, <2>1 DEF Kept
<1>14. ASSUME NEW t \in Servers, srv[t].active, ~ srv'[t].active, srv'[t].conn = "up"
       PROVE  streak'[t] >= info.freqFail
  <2>1. t = s
    BY <1>6, <1>14
  <2>2. fail /\ Min2(srv[s].freq + 1, info.freqFail) >= info.freqFail
    BY <1>1, <1>5, <1>14, <2>1 DEF Finished
  <2>3. Min2(srv[s].freq + 1, info.freqFail) \in Nat
    BY <1>0, <1>8 DEF Min2
  <2> HIDE DEF row
  <2> QED
    BY <1>0, <1>7, <1>9, <2>1, <2>2, <2>3
<1> QED
  BY <1>13, <1>14

\* Time passes for the two times alike.
LEMMA TickStep ==
  ASSUME Kept, Tick
  PROVE  Kept' /\ \A s \in Servers : srv'[s].active = srv[s].active
<1>0. /\ info \in Infos /\ srv \in [Servers -> Adapter] /\ reconnect \in Plans
      /\ tried \in [Servers -> Nat] /\ info.tryTime \in Nat
  BY CircuitBreakerAssumption DEF Kept, BreakerTypeOK, Adapter, Plans, InfoOK
<1> DEFINE x(r, k, l, m, n) == [r EXCEPT !.retry = k, !.freqTime = l, !.next = m, !.limit = n]
<1>1. \A r \in Adapter, k, l \in Nat, m, n \in Int :
        /\ x(r, k, l, m, n) \in Adapter /\ x(r, k, l, m, n).retry = k
        /\ x(r, k, l, m, n).freq = r.freq /\ x(r, k, l, m, n).active = r.active
  <2> TAKE r \in Adapter, k \in Nat, l \in Nat, m \in Int, n \in Int
  <2> QED
    BY DEF Adapter
<1>2. srv' = [s \in Servers |-> x(srv[s], Down(srv[s].retry, 0), Down(srv[s].freqTime, 0),
                                  Down(srv[s].next, -1), Down(srv[s].limit, -1))]
  BY DEF Tick
<1>3. \A s \in Servers : /\ Down(srv[s].retry, 0) \in Nat /\ Down(srv[s].freqTime, 0) \in Nat
                         /\ Down(srv[s].next, -1) \in Int /\ Down(srv[s].limit, -1) \in Int
  BY <1>0 DEF Down, Adapter
<1> HIDE DEF x
<1>4. ASSUME NEW s \in Servers
      PROVE  /\ srv'[s] \in Adapter /\ srv'[s].retry = Down(srv[s].retry, 0)
             /\ srv'[s].freq = srv[s].freq /\ srv'[s].active = srv[s].active
  BY <1>0, <1>1, <1>2, <1>3
<1>5. srv' \in [Servers -> Adapter]
  <2>1. srv' = [s \in Servers |-> srv'[s]]
    BY <1>2
  <2> QED
    BY <1>4, <2>1
<1>6. tried' \in [Servers -> Nat] /\ \A s \in Servers : tried'[s] = Down(tried[s], 0)
  <2>1. tried' = [s \in Servers |-> Down(tried[s], 0)]
    BY DEF Tick
  <2> QED
    BY <1>0, <2>1 DEF Down
<1>7. reconnect' \in Plans
  <2>1. DOMAIN reconnect = 0..info.reconnect
    BY <1>0 DEF Plans
  <2>2. \A d \in 0..info.reconnect : reconnect[d] \in Servers \cup {NoServer}
    BY <1>0 DEF Plans
  <2>3. reconnect' = [d \in DOMAIN reconnect |->
                        IF d + 1 \in DOMAIN reconnect THEN reconnect[d + 1] ELSE NoServer]
    BY DEF Tick
  <2>4. UNCHANGED info
    BY DEF Tick
  <2> QED
    BY <2>1, <2>2, <2>3, <2>4 DEF Plans
<1>8. UNCHANGED <<info, proxys, lastRound, waiting, settled, streak>>
  BY DEF Tick
<1>9. BreakerTypeOK'
  BY <1>5, <1>6, <1>7, <1>8 DEF Kept, BreakerTypeOK, Adapter, Plans
<1>10. ASSUME NEW s \in Servers
       PROVE  /\ srv'[s].retry >= tried'[s] /\ tried'[s] <= info.tryTime
              /\ srv'[s].freq <= streak[s] /\ streak[s] <= info.freqFail
  <2>1. srv[s].retry \in Nat /\ tried[s] \in Nat
    BY <1>0 DEF Adapter
  <2> QED
    BY <1>0, <1>4, <1>6, <2>1 DEF Kept, Down
<1> QED
  BY <1>4, <1>8, <1>9, <1>10 DEF Kept

\* Every step of the specification keeps Kept.
LEMMA BreakerInductive ==
  ASSUME Kept, [BreakerNext]_breakerVars
  PROVE  Kept'
<1>0. /\ tried \in [Servers -> Nat] /\ lastRound \in Nat \ {0} /\ waiting \subseteq Servers
  BY DEF Kept, BreakerTypeOK
<1>1. CASE Select
  BY <1>1, SelectStep, ChangesKeep
<1>2. ASSUME NEW s \in Servers, ServerStep(s)
      PROVE  Kept'
  <2>1. CASE ForceConnect(s) \/ ConnEstablished(s) \/ ConnRefused(s) \/ ConnDropped(s)
    BY <1>0, <2>1, ConnectionStep, ChangesKeep
  <2>2. CASE \E fail \in BOOLEAN : FinishCall(s, fail)
    BY <2>2, FinishStep
  <2> QED
    BY <1>2, <2>1, <2>2 DEF ServerStep
<1>3. CASE DueReconnect
  BY <1>0, <1>3, DueReconnectStep, ChangesKeep
<1>4. CASE UpdateEndpoints
  BY <1>4 DEF UpdateEndpoints, Kept, BreakerTypeOK
<1>5. CASE Tick
  BY <1>5, TickStep
<1>6. CASE Settle
  BY <1>6 DEF Settle, Kept, BreakerTypeOK
<1>7. CASE UNCHANGED breakerVars
  BY <1>7 DEF breakerVars, Kept, BreakerTypeOK
<1> QED
  BY <1>1, <1>2, <1>3, <1>4, <1>5, <1>6, <1>7 DEF BreakerNext

\* It holds at the start.
LEMMA BreakerStarts == BreakerInit => Kept
<1> SUFFICES ASSUME BreakerInit
             PROVE  Kept
  OBVIOUS
<1>1. info \in Infos /\ info.tryTime \in Nat /\ info.freqFail \in Nat /\ info.reconnect \in Nat
  BY CircuitBreakerAssumption DEF BreakerInit, InfoOK
<1>2. NewServer \in Adapter
  <2> DEFINE x(n) == [active |-> TRUE, retry |-> 0, connTimeout |-> FALSE, connExc |-> FALSE,
                      excCnt |-> 0, freq |-> 0, freqTime |-> 0, total |-> 0, fails |-> 0,
                      next |-> n, conn |-> "none", limit |-> n, closed |-> FALSE]
  <2>1. \A n \in Int : x(n) \in Adapter
    BY DEF Adapter
  <2>2. NewServer = x(-1) /\ -1 \in Int
    BY DEF NewServer
  <2> HIDE DEF x
  <2> QED
    BY <2>1, <2>2
<1>3. BreakerTypeOK
  <2>1. srv \in [Servers -> Adapter]
    BY <1>2 DEF BreakerInit
  <2>2. reconnect \in Plans
    BY <1>1 DEF BreakerInit, Plans
  <2>3. /\ info \in Infos /\ proxys \in Lists /\ lastRound \in Nat \ {0}
        /\ waiting \subseteq Servers /\ settled \in BOOLEAN
    <3>1. proxys \in Lists /\ lastRound = 1 /\ waiting = {}
      BY DEF BreakerInit
    <3>2. settled \in BOOLEAN
      BY Zenon DEF BreakerInit
    <3> QED
      BY <1>1, <3>1, <3>2
  <2>4. tried \in [Servers -> Nat] /\ streak \in [Servers -> Nat]
    <3>1. tried = [s \in Servers |-> 0] /\ streak = [s \in Servers |-> 0]
      BY DEF BreakerInit
    <3> QED
      BY <3>1
  <2> QED
    BY <2>1, <2>2, <2>3, <2>4 DEF BreakerTypeOK, Adapter, Plans
<1>4. NewServer.retry = 0 /\ NewServer.freq = 0
  BY DEF NewServer
<1> QED
  BY <1>1, <1>3, <1>4 DEF BreakerInit, Kept

\* It holds always.
LEMMA AlwaysKept == BreakerSpec => []Kept
BY BreakerStarts, BreakerInductive, PTL DEF BreakerSpec

-----------------------------------------------------------------------------
(* The theorems. *)

\* State of the adapters keeps its types, whatever the settings and the lists.
THEOREM BreakerTypes == BreakerSpec => []BreakerTypeOK
<1>1. Kept => BreakerTypeOK
  BY DEF Kept
<1> QED
  BY <1>1, AlwaysKept, PTL

\* checkActive() does not try a server that is out of use before tryTimeInterval is
\* over, whatever timeouts, forced attempts and reconnections happen in between.
THEOREM TriesAreSpaced == BreakerSpec => []TriedAtIntervals
<1>1. Kept => TriedAtIntervals
  BY DEF Kept, TriedAtIntervals
<1> QED
  BY <1>1, AlwaysKept, PTL

\* getNextValidProxy() gives a request to a server that is down or out of use only when
\* no server of the list is in use and connected.
THEOREM RoundMissesNone == BreakerSpec => UsesWhatIsUp
<1> DEFINE Fair ==
      \A s \in waiting' \ waiting :
        srv'[s].conn # "up" \/ NotYet(srv[s]) =>
          \A i \in 1..Len(proxys) : ~ (srv[proxys[i]].active /\ srv[proxys[i]].conn = "up")
<1>1. ASSUME Kept, [BreakerNext]_breakerVars
      PROVE  [Fair]_breakerVars
  <2>1. CASE Select
    BY <1>1, <2>1, SelectStep
  <2>2. CASE waiting' \subseteq waiting
    BY <2>2
  <2>3. ASSUME NEW s \in Servers, ServerStep(s)
        PROVE  waiting' \subseteq waiting
    BY <2>3 DEF ServerStep, ForceConnect, FinishCall, ConnEstablished, ConnRefused, ConnDropped
  <2>4. ASSUME DueReconnect \/ UpdateEndpoints \/ Tick \/ Settle \/ UNCHANGED breakerVars
        PROVE  waiting' \subseteq waiting
    BY <2>4 DEF DueReconnect, UpdateEndpoints, Tick, Settle, breakerVars
  <2> HIDE DEF Fair
  <2> QED
    BY <1>1, <2>1, <2>2, <2>3, <2>4 DEF BreakerNext
<1> QED
  BY <1>1, AlwaysKept, PTL DEF BreakerSpec, UsesWhatIsUp

\* A server whose connection stays up is put out of use by frequenceFailInvoke failed
\* calls in a row and by nothing else.
THEOREM OnlyFailuresPutOut == BreakerSpec => OutAfterFailures
<1> DEFINE Out ==
      \A s \in Servers : srv[s].active /\ ~ srv'[s].active /\ srv'[s].conn = "up" =>
                           streak'[s] >= info.freqFail
<1>1. ASSUME Kept, [BreakerNext]_breakerVars
      PROVE  [Out]_breakerVars
  <2>1. CASE \A s \in Servers : Changed(srv[s], srv'[s])
    BY <2>1 DEF Changed
  <2>2. CASE \E s \in Servers, fail \in BOOLEAN : FinishCall(s, fail)
    BY <1>1, <2>2, FinishStep
  <2>3. CASE \A s \in Servers : srv'[s].active = srv[s].active
    BY <2>3
  <2>4. ASSUME UpdateEndpoints \/ Settle \/ UNCHANGED breakerVars
        PROVE  \A s \in Servers : srv'[s].active = srv[s].active
    BY <2>4 DEF UpdateEndpoints, Settle, breakerVars
  <2> HIDE DEF Out
  <2>5. CASE BreakerNext
    <3>1. CASE Select
      BY <1>1, <2>1, <3>1, SelectStep
    <3>2. CASE DueReconnect
      BY <1>1, <2>1, <3>2, DueReconnectStep
    <3>3. CASE Tick
      BY <1>1, <2>3, <3>3, TickStep
    <3>4. CASE \E s \in Servers : ServerStep(s)
      BY <1>1, <2>1, <2>2, <3>4, ConnectionStep DEF ServerStep
    <3> QED
      BY <2>3, <2>4, <2>5, <3>1, <3>2, <3>3, <3>4 DEF BreakerNext
  <2> QED
    BY <1>1, <2>3, <2>4, <2>5
<1> QED
  BY <1>1, AlwaysKept, PTL DEF BreakerSpec, OutAfterFailures
===============================================================================
