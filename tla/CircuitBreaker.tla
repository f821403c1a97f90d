---------------------------- MODULE CircuitBreaker ----------------------------
(* Which server of an object gets the next request: AdapterProxy counts the  *)
(* failures of its server and takes it out of use for a while, a Transceiver *)
(* connects, EndpointManager::getNextValidProxy() goes round the servers.    *)
(* A time of the code is the number of ticks until it is reached, so that    *)
(* the clock itself needs no bound: now >= t is t = 0, and now > t is t = -1 *)
(* for the times that are compared in that way.                              *)
EXTENDS Integers, Sequences, FiniteSets

CONSTANTS
  Servers,      \* the servers, one AdapterProxy each
  NoServer,
  Infos,        \* settings: CheckTimeoutInfo, timeouts, reconnection, serial connections
  Lists         \* address lists of the object, sequences of servers

InfoOK(i) ==
  /\ i.tryTime \in Nat \ {0} /\ i.interval \in Nat /\ i.minFreqTime \in Nat
  /\ i.freqFail \in Nat \ {0} /\ i.minTimeout \in Nat /\ i.maxExc \in Nat \ {0}
  /\ i.conTimeout \in Nat /\ i.reconnect \in Nat /\ i.serial \in BOOLEAN
  /\ i.maxTotal \in Nat   \* bound: calls counted in one window

ASSUME CircuitBreakerAssumption ==
  /\ NoServer \notin Servers
  /\ \A i \in Infos : InfoOK(i)
  /\ \A l \in Lists : l \in Seq(Servers)

VARIABLES
  info,         \* the settings chosen
  srv,          \* state of each AdapterProxy and its Transceiver
  proxys,       \* _activeProxys
  lastRound,    \* _lastRoundPosition (counted from 1)
  waiting,      \* servers with requests that are not finished
  reconnect,    \* _reconnect: the server to reconnect after that many ticks
  settled,      \* history: from now on the network and the servers work
  tried,        \* history: ticks until a selection may try this server again
  streak        \* history: failed calls since the last good one

breakerVars == <<info, srv, proxys, lastRound, waiting, reconnect, settled, tried, streak>>

----------------------------------------------------------------------------
(* One server *)

NewServer ==
  [active |-> TRUE, retry |-> 0, connTimeout |-> FALSE, connExc |-> FALSE, excCnt |-> 0,
   freq |-> 0, freqTime |-> 0, total |-> 0, fails |-> 0, next |-> -1,
   conn |-> "none", limit |-> -1, closed |-> FALSE]

\* Transceiver::close(); closed is TRUE until the step has entered it in _reconnect.
CloseConn(r) ==
  IF r.conn = "none" THEN r ELSE [r EXCEPT !.conn = "none", !.limit = -1, !.closed = TRUE]

SetInactive(r) == [CloseConn(r) EXCEPT !.active = FALSE, !.retry = info.tryTime]

SetConTimeout(r, b) ==
  IF r.connTimeout = b THEN r
  ELSE IF b THEN SetInactive([r EXCEPT !.connTimeout = TRUE])
  ELSE [r EXCEPT !.connTimeout = FALSE]

\* maxConnectExc is the bound of the counter: no test tells higher values apart.
AddConnExc(r, b) ==
  IF ~b THEN [r EXCEPT !.connExc = FALSE, !.excCnt = 0, !.active = TRUE]
  ELSE IF r.connExc THEN r
  ELSE IF r.excCnt + 1 < info.maxExc THEN [r EXCEPT !.excCnt = @ + 1]
  ELSE SetInactive([r EXCEPT !.excCnt = info.maxExc, !.connExc = TRUE])

SetConnected(r) ==
  AddConnExc(SetConTimeout([r EXCEPT !.conn = "up", !.limit = -1], FALSE), FALSE)

\* connect(): res is what socket, address lookup and connect() give.
Connect(r, res) ==
  CASE r.conn # "none" \/ res = "throws" -> r
    [] r.conn = "none" /\ res = "up" -> SetConnected(r)
    [] r.conn = "none" /\ res = "connecting" ->
         [r EXCEPT !.conn = "connecting", !.limit = info.conTimeout]

\* The attempt in checkActive(): an exception leaves the server out of use.
TryConnect(r, res) ==
  IF r.conn = "none" /\ res = "throws" THEN [r EXCEPT !.active = FALSE] ELSE Connect(r, res)

CheckTimeout(r) ==
  IF r.conn = "connecting" /\ r.limit = -1 THEN CloseConn(SetConTimeout(r, TRUE)) ELSE r

NotYet(r) == ~r.active /\ r.retry > 0

\* Wrong form: the time of the next try is not moved.
RetryLaterNot(r) == r

RetryLater(r) == IF r.active THEN r ELSE [r EXCEPT !.retry = info.tryTime]

\* checkActive(false)
CheckActive(r0, res) ==
  LET r == CheckTimeout(r0)
  IN  IF NotYet(r) THEN r ELSE TryConnect(RetryLater(r), res)

Usable(r0, r) == r.conn = "up" /\ ~NotYet(CheckTimeout(r0))

\* checkActive(true)
ForceActive(r0, res) ==
  LET r == CheckTimeout(r0)
  IN  IF r.conn # "none" THEN r ELSE TryConnect([r EXCEPT !.retry = info.tryTime], res)

----------------------------------------------------------------------------
(* AdapterProxy::finishInvoke(bool) *)

\* Wrong form: only the counters are reset.
RetryOkKeeps(r) ==
  [r EXCEPT !.freq = 0, !.next = info.interval, !.total = 1, !.fails = 0,
            !.connTimeout = FALSE, !.connExc = FALSE]

RetryOk(r) ==
  [r EXCEPT !.active = TRUE, !.freq = 0, !.next = info.interval, !.total = 1, !.fails = 0,
            !.connTimeout = FALSE, !.connExc = FALSE]

Min2(a, b) == IF a < b THEN a ELSE b

\* Wrong form: a good call does not end the row of failures.
CountCallKeeps(r, fail) ==
  IF ~fail THEN [r EXCEPT !.total = @ + 1]
  ELSE [r EXCEPT !.total = @ + 1, !.fails = @ + 1,
                 !.freq = Min2(@ + 1, info.freqFail),
                 !.freqTime = IF r.freq = 0 THEN info.minFreqTime ELSE @]

\* The counter of failures in a row stops at its threshold, the last value it is compared with.
CountCall(r, fail) ==
  IF ~fail THEN [r EXCEPT !.total = @ + 1, !.freq = 0]
  ELSE [r EXCEPT !.total = @ + 1, !.fails = @ + 1,
                 !.freq = Min2(@ + 1, info.freqFail),
                 !.freqTime = IF r.freq = 0 THEN info.minFreqTime ELSE @]

FailsInARow(r) == r.freq >= info.freqFail /\ r.freqTime = 0

\* radio is 0.5 of the calls of the window.
TooMany(r) == r.fails >= info.minTimeout /\ 2 * r.fails >= r.total

CountWindow(r, fail) ==
  IF r.next >= 0 THEN r
  ELSE LET w == [r EXCEPT !.next = info.interval]
       IN  IF fail /\ TooMany(w) THEN SetInactive(w) ELSE [w EXCEPT !.total = 0, !.fails = 0]

FinishedCall(r, fail) ==
  IF ~r.active THEN (IF fail THEN r ELSE RetryOk(r))
  ELSE LET c == CountCall(r, fail)
       IN  IF fail /\ FailsInARow(c) THEN [c EXCEPT !.active = FALSE, !.retry = info.tryTime]
           ELSE CountWindow(c, fail)

----------------------------------------------------------------------------
BreakerInit ==
  /\ info \in Infos
  /\ srv = [s \in Servers |-> NewServer]
  /\ proxys \in Lists
  /\ lastRound = 1
  /\ waiting = {}
  /\ reconnect = [d \in 0..info.reconnect |-> NoServer]
  /\ settled = FALSE
  /\ tried = [s \in Servers |-> 0]
  /\ streak = [s \in Servers |-> 0]

\* The connections closed in a step enter _reconnect under the time they are due. The
\* time is the key: of two that are due at the same time the last is kept.
TakeOver(new, plan) ==
  LET shut == {s \in Servers : new[s].closed}
  IN  /\ srv' = [s \in Servers |-> [new[s] EXCEPT !.closed = FALSE]]
      /\ IF info.reconnect = 0 \/ shut = {} THEN reconnect' = plan
         ELSE \E s \in shut : reconnect' = [plan EXCEPT ![info.reconnect] = s]

\* The position the round has reached after i steps.
FirstPos == IF lastRound >= Len(proxys) THEN 1 ELSE lastRound + 1
RoundPos(i) == ((FirstPos + i - 2) % Len(proxys)) + 1

\* Wrong form: the round ends one server too early.
AskedOne(after) == {1}

\* The servers the round asks before it finds one that can be used: all when none can.
Asked(after) ==
  LET good == {i \in 1..Len(proxys) :
                 LET s == proxys[RoundPos(i)] IN Usable(srv[s], after[s])}
  IN  IF good = {} THEN 1..Len(proxys) ELSE 1..(CHOOSE i \in good : \A j \in good : i <= j)

Tries(s) == ~srv[s].active /\ ~NotYet(CheckTimeout(srv[s]))

\* What connect() may give now, and the servers of the list that
\* checkActive(false) would connect.
Results == IF settled THEN {"connecting", "up"} ELSE {"connecting", "up", "throws"}
Attempts ==
  {s \in {proxys[i] : i \in 1..Len(proxys)} :
     LET r == CheckTimeout(srv[s]) IN r.conn = "none" /\ ~NotYet(r)}

\* getNextValidProxy()
Select ==
  /\ proxys # <<>>
  /\ \E res \in [Attempts -> Results] :
       LET after == [s \in Servers |->
                       CheckActive(srv[s], IF s \in Attempts THEN res[s] ELSE "connecting")]
           asked == Asked(after)
           seen  == {proxys[RoundPos(i)] : i \in asked}
           last  == proxys[RoundPos(Cardinality(asked))]
           new   == [s \in Servers |-> IF s \in seen THEN after[s] ELSE srv[s]]
           good  == {s \in seen : ~new[s].connTimeout /\ ~new[s].connExc}
           range == {proxys[i] : i \in 1..Len(proxys)}
       IN  /\ lastRound' = RoundPos(Cardinality(asked))
           /\ tried' = [s \in Servers |->
                          IF s \in seen /\ Tries(s) THEN info.tryTime ELSE tried[s]]
           /\ IF Usable(srv[last], after[last])
              THEN /\ TakeOver(new, reconnect)
                   /\ waiting' = waiting \cup {last}
              ELSE \E s \in IF good # {} THEN good ELSE range :
                     /\ \E again \in IF new[s].conn = "none" THEN Results ELSE {"up"} :
                          TakeOver([new EXCEPT ![s] = ForceActive(@, again)], reconnect)
                     /\ waiting' = waiting \cup {s}
  /\ UNCHANGED <<info, proxys, settled, streak>>

\* ObjectProxy::finishInvoke() with serial connections: requests wait and the connection is down.
ForceConnect(s) ==
  /\ info.serial /\ s \in waiting /\ srv[s].conn # "up"
  /\ \E res \in Results :
       TakeOver([srv EXCEPT ![s] = ForceActive(@, res)], reconnect)
  /\ UNCHANGED <<info, proxys, lastRound, waiting, settled, tried, streak>>

\* A request given to s ends, with a response or by its deadline; more may wait.
FinishCall(s, fail) ==
  /\ s \in waiting
  /\ fail => ~settled
  /\ ~fail => srv[s].conn = "up"
  /\ srv[s].active => srv[s].total <= info.maxTotal
  /\ TakeOver([srv EXCEPT ![s] = FinishedCall(@, fail)], reconnect)
  /\ waiting' \in {waiting, waiting \ {s}}
  /\ streak' = [streak EXCEPT ![s] = IF fail THEN Min2(@ + 1, info.freqFail) ELSE 0]
  /\ UNCHANGED <<info, proxys, lastRound, settled, tried>>

\* An event on a connecting socket: it is up, or getsockopt() tells an error.
ConnEstablished(s) ==
  /\ srv[s].conn = "connecting"
  /\ TakeOver([srv EXCEPT ![s] = SetConnected(@)], reconnect)
  /\ UNCHANGED <<info, proxys, lastRound, waiting, settled, tried, streak>>

ConnRefused(s) ==
  /\ srv[s].conn = "connecting" /\ ~settled
  /\ TakeOver([srv EXCEPT ![s] = AddConnExc(CloseConn(@), TRUE)], reconnect)
  /\ UNCHANGED <<info, proxys, lastRound, waiting, settled, tried, streak>>

\* The peer closes or resets, or an error event arrives.
ConnDropped(s) ==
  /\ srv[s].conn # "none" /\ ~settled
  /\ TakeOver([srv EXCEPT ![s] = CloseConn(@)], reconnect)
  /\ UNCHANGED <<info, proxys, lastRound, waiting, settled, tried, streak>>

\* CommunicatorEpoll::reConnect(): an exception leaves the entry where it is.
DueReconnect ==
  LET s == reconnect[0]
  IN  /\ s # NoServer
      /\ \E res \in Results :
           TakeOver([srv EXCEPT ![s] = Connect(@, res)],
                IF srv[s].conn = "none" /\ res = "throws" THEN reconnect
                ELSE [reconnect EXCEPT ![0] = NoServer])
      /\ UNCHANGED <<info, proxys, lastRound, waiting, settled, tried, streak>>

\* updateEndpoints(): an address that comes back gets the adapter it had.
UpdateEndpoints ==
  /\ ~settled
  /\ proxys' \in Lists \ {proxys}
  /\ UNCHANGED <<info, srv, lastRound, waiting, reconnect, settled, tried, streak>>

Down(t, min) == IF t > min THEN t - 1 ELSE t

\* Time passes; run() reconnects what is due each time round, and a connection that
\* works is up before its attempt is over.
Tick ==
  /\ reconnect[0] = NoServer
  /\ settled => \A s \in Servers : srv[s].limit # 0
  /\ srv' = [s \in Servers |->
       [srv[s] EXCEPT !.retry = Down(@, 0), !.freqTime = Down(@, 0),
                      !.next = Down(@, -1), !.limit = Down(@, -1)]]
  /\ tried' = [s \in Servers |-> Down(tried[s], 0)]
  /\ reconnect' = [d \in DOMAIN reconnect |->
       IF d + 1 \in DOMAIN reconnect THEN reconnect[d + 1] ELSE NoServer]
  /\ UNCHANGED <<info, proxys, lastRound, waiting, settled, streak>>

\* History: the network calms down.
Settle ==
  /\ ~settled /\ settled' = TRUE
  /\ UNCHANGED <<info, srv, proxys, lastRound, waiting, reconnect, tried, streak>>

ServerStep(s) ==
  \/ ForceConnect(s)
  \/ \E fail \in BOOLEAN : FinishCall(s, fail)
  \/ ConnEstablished(s)
  \/ ConnRefused(s)
  \/ ConnDropped(s)

BreakerNext ==
  \/ Select
  \/ \E s \in Servers : ServerStep(s)
  \/ DueReconnect
  \/ UpdateEndpoints
  \/ Tick
  \/ Settle

BreakerSpec == BreakerInit /\ [][BreakerNext]_breakerVars

\* Once network and servers work, requests keep coming and are answered, connections that
\* are under way come up, and time passes.
BreakerFairness ==
  /\ WF_breakerVars(settled /\ Select) /\ WF_breakerVars(settled /\ Tick)
  /\ WF_breakerVars(settled /\ DueReconnect)
  /\ \A s \in Servers : /\ SF_breakerVars(settled /\ FinishCall(s, FALSE))
                        /\ WF_breakerVars(settled /\ ConnEstablished(s))

BreakerFairSpec == BreakerSpec /\ BreakerFairness

----------------------------------------------------------------------------
(* Properties *)

\* State of every adapter keeps its types.
BreakerTypeOK ==
  /\ info \in Infos /\ proxys \in Lists /\ lastRound \in Nat \ {0}
  /\ waiting \subseteq Servers /\ settled \in BOOLEAN
  /\ reconnect \in [0..info.reconnect -> Servers \cup {NoServer}]
  /\ srv \in [Servers ->
       [active : BOOLEAN, connTimeout : BOOLEAN, connExc : BOOLEAN, closed : BOOLEAN,
        retry : Nat, excCnt : Nat, freq : Nat, freqTime : Nat, total : Nat, fails : Nat,
        next : Int, limit : Int, conn : {"none", "connecting", "up"}]]
  /\ tried \in [Servers -> Nat] /\ streak \in [Servers -> Nat]

\* A server out of use that a selection has tried is not tried by another one before
\* tryTimeInterval is over, whatever timeouts, forced attempts and reconnections happen to
\* it in between (_nextRetryTime is written in four places).
TriedAtIntervals ==
  \A s \in Servers : ~srv[s].active => srv[s].retry >= tried[s]

\* A request goes to a server that is not connected, or that is out of use and not due to
\* be tried, only when no server of the list is in use and connected: the round of
\* getNextValidProxy() misses none, whatever happened to the list since the last round.
UsesWhatIsUp ==
  [][\A s \in waiting' \ waiting :
       srv'[s].conn # "up" \/ NotYet(srv[s]) =>
         \A i \in 1..Len(proxys) : ~(srv[proxys[i]].active /\ srv[proxys[i]].conn = "up")]_breakerVars

\* A server whose connection stays open is put out of use only when its last
\* frequenceFailInvoke calls have failed: no call that was answered is among those
\* counted, over changes between in use and out of use.
OutAfterFailures ==
  [][\A s \in Servers :
       srv[s].active /\ ~srv'[s].active /\ srv'[s].conn = "up" =>
         streak'[s] >= info.freqFail]_breakerVars

\* A server that works is not left out for ever: when network and servers have come to
\* work, each server of the list is in use again and stays so.
Recovers == []<>settled => <>[](\A i \in 1..Len(proxys) : srv[proxys[i]].active)
===============================================================================
