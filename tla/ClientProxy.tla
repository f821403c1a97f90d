----------------------------- MODULE ClientProxy -----------------------------
(* The life of a request inside one network thread of the client: ObjectProxy *)
(* holds the requests that have no connection yet, each AdapterProxy the       *)
(* requests of one server (TimeoutQueue), each Transceiver one TCP connection. *)
(*                                                                             *)
(* The code of the network thread is a set of handlers that call each other    *)
(* and re-enter (a finished request sends the next one, whose failure          *)
(* finishes it, ...).  stk is that call stack: its head is the code the thread *)
(* runs now, and an epoll event, a new request or the timeout scan begin only  *)
(* when it is empty.                                                           *)
EXTENDS Naturals, Sequences, FiniteSets, TimeoutQueue

CONSTANTS Msgs,         \* the requests (ReqMessage)
          Operation,    \* [Msgs -> Operations], what makes the request
          Adapters,     \* the AdapterProxy objects of the ObjectProxy
          NoAdapter, NoMsg,
          Modes,        \* the settings of the proxy (see mode)
          SendLimit,    \* _noSendQueueLimit
          MaxId,        \* the largest request id (2^32 - 1 in the code)
          FirstId       \* where _uniqId starts

Operations == [name : {"tars_invoke", "tars_invoke_async", "rpc_call", "rpc_call_async"},
               callback : BOOLEAN, id : Nat]

ASSUME ClientProxyAssumption ==
  /\ Operation \in [Msgs -> Operations] /\ \A m \in Msgs : Operation[m].id <= MaxId
  /\ NoAdapter \notin Adapters /\ NoMsg \notin Msgs
  /\ Modes \subseteq [serial : BOOLEAN, valid : BOOLEAN, lists : SUBSET SUBSET Adapters]
  /\ SendLimit \in Nat \ {0}
  /\ MaxId \in Nat \ {0} /\ FirstId \in 0 .. MaxId

\* eType: an asynchronous request without a callback expects no answer.
Kind == [m \in Msgs |->
           CASE Operation[m].name \in {"tars_invoke", "rpc_call"} -> "SYNC"
             [] Operation[m].callback -> "ASYNC"
             [] OTHER -> "ONE_WAY"]

\* The id an rpc_call brings with it (bFromRpc), and 0 for a request that gets one.
RpcId == [m \in Msgs |-> IF Operation[m].name \in {"rpc_call", "rpc_call_async"}
                         THEN Operation[m].id ELSE 0]

VARIABLES
  mode,       \* what does not change: serial (tars_connection_serial() > 0),
              \* valid (the addresses are known, EndpointManager::_valid) and
              \* lists (the address lists tars_update_endpoints brings)
  objQ,       \* ObjectProxy::_reqTimeoutQueue, oldest first
  eps,        \* EndpointManager::_activeProxys
  tq,         \* AdapterProxy::_timeoutQueue
  uniqId,     \* its id generator
  reqMsg,     \* AdapterProxy::_requestMsg (serial mode)
  conn,       \* Transceiver::_connStatus
  buffered,   \* the request whose bytes are in Transceiver::_sendBuffer
  wire,       \* the requests the server holds and may answer on this connection
  adapter,    \* ReqMessage::adapter
  id,         \* ReqMessage::request.iRequestId
  status,     \* ReqMessage::eStatus
  answer,     \* the request whose response was stored in ReqMessage::response
  outcome,    \* what the caller has seen of the request so far
  expired,    \* the waiting requests whose deadline has passed
  stk         \* the call stack of the network thread

Serial == mode.serial
Valid  == mode.valid

net  == <<conn, buffered, wire>>
reqs == <<adapter, id, status, answer, outcome, expired>>
env  == <<mode, eps>>
vars == <<objQ, env, tq, uniqId, reqMsg, net, reqs, stk>>

Statuses == {"REQ", "RSP", "TIME", "EXC"}

\* "new": not yet taken from the caller's queue.  "live": the network thread
\* holds it.  A status: handed back with that eStatus.  "gone": a one-way
\* request, deleted.  "lost": dropped, its callback never called.
Outcomes == {"new", "live", "gone", "lost"} \cup Statuses

Ops == {"call", "prep", "tail", "deliver", "flush", "in", "out", "err", "recv",
        "req", "scan", "scanObj", "abort"}
Frames == [op : Ops, a : Adapters \cup {NoAdapter}, m : Msgs \cup {NoMsg}]
Do(op, a) == [op |-> op, a |-> a, m |-> NoMsg]
DoMsg(op, a, m) == [op |-> op, a |-> a, m |-> m]

IdSet == 0 .. MaxId
Entry == [ptr : Msgs, hasSend : BOOLEAN]

TypeOK ==
  /\ mode \in Modes
  /\ objQ \in Seq(Msgs)
  /\ eps \in SUBSET Adapters
  /\ \A a \in Adapters : /\ Ids(tq[a]) \subseteq IdSet
                         /\ tq[a].data \in [Ids(tq[a]) -> Entry]
                         /\ tq[a].send \in Seq(IdSet)
  /\ uniqId \in [Adapters -> 0 .. MaxId]
  /\ reqMsg \in [Adapters -> Msgs \cup {NoMsg}]
  /\ conn \in [Adapters -> {"unconnected", "connecting", "connected"}]
  /\ buffered \in [Adapters -> Msgs \cup {NoMsg}]
  /\ wire \in [Adapters -> SUBSET Msgs]
  /\ adapter \in [Msgs -> Adapters \cup {NoAdapter}]
  /\ id \in [Msgs -> 0 .. MaxId]
  /\ status \in [Msgs -> Statuses]
  /\ answer \in [Msgs -> Msgs \cup {NoMsg}]
  /\ outcome \in [Msgs -> Outcomes]
  /\ expired \subseteq Msgs
  /\ stk \in Seq(Frames)

Init ==
  /\ mode \in Modes
  /\ objQ = << >>
  /\ eps \in mode.lists
  /\ tq = [a \in Adapters |-> EmptyQueue]
  /\ uniqId = [a \in Adapters |-> FirstId]
  /\ reqMsg = [a \in Adapters |-> NoMsg]
  /\ conn = [a \in Adapters |-> "unconnected"]
  /\ buffered = [a \in Adapters |-> NoMsg]
  /\ wire = [a \in Adapters |-> {}]
  /\ adapter = [m \in Msgs |-> NoAdapter]
  /\ id = RpcId
  /\ status = [m \in Msgs |-> "REQ"]
  /\ answer = [m \in Msgs |-> NoMsg]
  /\ outcome = [m \in Msgs |-> "new"]
  /\ expired = {}
  /\ stk = << >>

-----------------------------------------------------------------------------
(* Parts of the handlers. *)

Running(op) == stk # << >> /\ Head(stk).op = op
Return      == stk' = Tail(stk)
Calls(fs)   == stk' = fs \o Tail(stk)

\* The caller is handed the request with outcome o.
Settle(m, o) == /\ outcome' = [outcome EXCEPT ![m] = o]
                /\ expired' = expired \ {m}

\* Transceiver::close(): what is in the socket buffers is gone.
Close(a) == /\ conn' = [conn EXCEPT ![a] = "unconnected"]
            /\ buffered' = [buffered EXCEPT ![a] = NoMsg]
            /\ wire' = [wire EXCEPT ![a] = {}]

\* The bytes of m reach the server, which answers unless m is one-way.
Reaches(a, m) == wire' = [wire EXCEPT ![a] =
                            IF Kind[m] = "ONE_WAY" THEN @ ELSE @ \cup {m}]

\* Transceiver::sendRequest(): refused while bytes of an earlier request wait
\* or the connection is not up; otherwise the socket takes it all, takes a
\* part, or fails and is closed.
SendResults(a) == IF buffered[a] # NoMsg \/ conn[a] # "connected"
                  THEN {"NotSend"} ELSE {"Ok", "Full", "Error"}

SendRequest(a, m, r) ==
  \/ r = "Ok" /\ Reaches(a, m) /\ UNCHANGED <<conn, buffered>>
  \/ r = "Full" /\ buffered' = [buffered EXCEPT ![a] = m] /\ UNCHANGED <<conn, wire>>
  \/ r = "Error" /\ Close(a)
  \/ r = "NotSend" /\ UNCHANGED net

\* AdapterProxy::finishInvoke(msg) for a request whose eStatus has become s,
\* and then the code in fs.  ObjectProxy::finishInvoke comes before the
\* request is handed back, and in serial mode sends what waits.
FinishFrames(a, m) ==
  IF Serial THEN <<Do("prep", a), Do("tail", a), DoMsg("deliver", a, m)>>
            ELSE <<DoMsg("deliver", a, m)>>

FinishInvoke(a, m, s, fs) ==
  /\ status' = [status EXCEPT ![m] = s]
  /\ IF Kind[m] = "ONE_WAY"
     THEN Settle(m, "gone") /\ Calls(fs)
     ELSE Calls(FinishFrames(a, m) \o fs) /\ UNCHANGED <<outcome, expired>>

\* ObjectProxy::doInvokeException(msg).
InvokeException(m) ==
  /\ status' = IF Kind[m] = "ONE_WAY" THEN status ELSE [status EXCEPT ![m] = "EXC"]
  /\ Settle(m, CASE Kind[m] = "ONE_WAY" -> "gone"
                 [] Kind[m] = "ASYNC" /\ adapter[m] = NoAdapter -> "lost"
                 [] OTHER -> "EXC")

\* EndpointManager::selectAdapterProxy() with checkActive(): on its way round
\* the active adapters it drops connection attempts that take too long and
\* begins new ones; c is the state of the connections after it.
SelectAdapter(a, c) ==
  /\ a \in eps
  /\ c \in [Adapters -> {"unconnected", "connecting", "connected"}]
  /\ \A b \in Adapters : \/ c[b] = conn[b]
                         \/ b \in eps /\ conn[b] # "connected" /\ c[b] # "connected"
  /\ conn' = c /\ UNCHANGED <<buffered, wire>>

-----------------------------------------------------------------------------
(* A request taken from a caller's queue: ObjectProxy::invoke(). *)

\* TC_TimeoutQueueNoID: push(), pop() and timeout(), which takes any that is due (wrong: a
\* pop() that leaves the request in the queue).
PushWaiting(m) == objQ' = Append(objQ, m)
PopWaitingNot  == objQ' = objQ
PopWaiting     == objQ' = Tail(objQ)
DropWaiting(k) == objQ' = RemoveAt(objQ, k)

InvokeUnknown(m) ==
  /\ stk = << >> /\ outcome[m] = "new" /\ ~ Valid
  /\ PushWaiting(m)
  /\ outcome' = [outcome EXCEPT ![m] = "live"]
  /\ UNCHANGED <<env, tq, uniqId, reqMsg, net, adapter, id, status, answer, expired, stk>>

InvokeNoAdapter(m) ==
  /\ stk = << >> /\ outcome[m] = "new" /\ Valid /\ eps = {}
  /\ InvokeException(m)
  /\ UNCHANGED <<objQ, env, tq, uniqId, reqMsg, net, adapter, id, answer, stk>>

Invoke(m) ==
  /\ stk = << >> /\ outcome[m] = "new" /\ Valid
  /\ \E a \in eps, c \in [Adapters -> {"unconnected", "connecting", "connected"}] :
       /\ SelectAdapter(a, c)
       /\ adapter' = [adapter EXCEPT ![m] = a]
       /\ IF c[a] = "connected"
          THEN stk' = <<DoMsg("call", a, m)>> /\ UNCHANGED objQ
          ELSE PushWaiting(m) /\ UNCHANGED stk
  /\ outcome' = [outcome EXCEPT ![m] = "live"]
  /\ UNCHANGED <<env, tq, uniqId, reqMsg, id, status, answer, expired>>

-----------------------------------------------------------------------------
(* AdapterProxy::invoke(). *)

\* generateId() runs in invoke() unless the caller brought an id, and (again)
\* in invoke_connection_serial().
LastId(a, m) ==
  LET next(u) == GenerateId(u, MaxId)
  IN  CASE Serial /\ RpcId[m] = 0   -> next(next(uniqId[a]))
        [] ~ Serial /\ RpcId[m] # 0 -> uniqId[a]
        [] OTHER                    -> next(uniqId[a])

NewId(a, m) == IF ~ Serial /\ RpcId[m] # 0 THEN RpcId[m] ELSE LastId(a, m)

HasRoom(a) == Len(tq[a].send) < SendLimit

Allowed(m) == Serial => Kind[m] # "ONE_WAY"

\* Nothing waits before the request (in serial mode: and nothing is under way).
MaySend(a) == tq[a].send = << >> /\ (Serial => reqMsg[a] = NoMsg)

\* Wrong forms, which the properties rule out, stand before the definition
\* they are a wrong form of: a second request on a serial connection, ...
MaySendNextAnyway(a) == tq[a].send # << >>

\* doInvoke() has a request to send.
MaySendNext(a) == tq[a].send # << >> /\ (Serial => reqMsg[a] = NoMsg)

\* _timeoutQueue->push(); an id that is still in use ends the request.
Insert(a, m, n, sent) ==
  \/ /\ n \notin Ids(tq[a])
     /\ tq' = [tq EXCEPT ![a] = PushQueue(@, m, n, sent)]
     /\ reqMsg' = IF Serial /\ sent THEN [reqMsg EXCEPT ![a] = m] ELSE reqMsg
     /\ Return
     /\ UNCHANGED <<status, outcome, expired>>
  \/ /\ n \in Ids(tq[a])
     /\ FinishInvoke(a, m, "EXC", << >>)
     /\ UNCHANGED <<tq, reqMsg>>

CallRefused ==
  /\ Running("call")
  /\ LET a == Head(stk).a  m == Head(stk).m
     IN  ~ HasRoom(a) /\ FinishInvoke(a, m, "EXC", << >>)
  /\ UNCHANGED <<objQ, env, tq, uniqId, reqMsg, net, adapter, id, answer>>

\* assert(msg->eType != ReqMessage::ONE_WAY) in invoke_connection_serial().
CallAborts ==
  /\ Running("call")
  /\ LET a == Head(stk).a  m == Head(stk).m
     IN  HasRoom(a) /\ ~ Allowed(m)
  /\ stk' = <<[Head(stk) EXCEPT !.op = "abort"]>> \o Tail(stk)
  /\ UNCHANGED <<objQ, env, tq, uniqId, reqMsg, net, reqs>>

CallSent ==
  /\ Running("call")
  /\ LET a == Head(stk).a  m == Head(stk).m  n == NewId(a, m)
     IN  /\ HasRoom(a) /\ Allowed(m) /\ MaySend(a)
         /\ \E r \in SendResults(a) \cap {"Ok", "Full"} : SendRequest(a, m, r)
         /\ uniqId' = [uniqId EXCEPT ![a] = LastId(a, m)]
         /\ id' = [id EXCEPT ![m] = n]
         /\ IF Kind[m] = "ONE_WAY"
            THEN Settle(m, "gone") /\ Return /\ UNCHANGED <<tq, reqMsg, status>>
            ELSE Insert(a, m, n, TRUE)
  /\ UNCHANGED <<objQ, env, adapter, answer>>

CallFailed ==
  /\ Running("call")
  /\ LET a == Head(stk).a  m == Head(stk).m
     IN  /\ HasRoom(a) /\ Allowed(m) /\ MaySend(a)
         /\ "Error" \in SendResults(a)
         /\ SendRequest(a, m, "Error")
         /\ uniqId' = [uniqId EXCEPT ![a] = LastId(a, m)]
         /\ id' = [id EXCEPT ![m] = NewId(a, m)]
         /\ FinishInvoke(a, m, "EXC", << >>)
  /\ UNCHANGED <<objQ, env, tq, reqMsg, adapter, answer>>

CallQueued ==
  /\ Running("call")
  /\ LET a == Head(stk).a  m == Head(stk).m  n == NewId(a, m)
     IN  /\ HasRoom(a) /\ Allowed(m)
         /\ ~ MaySend(a) \/ "NotSend" \in SendResults(a)
         /\ uniqId' = [uniqId EXCEPT ![a] = LastId(a, m)]
         /\ id' = [id EXCEPT ![m] = n]
         /\ Insert(a, m, n, FALSE)
  /\ UNCHANGED <<objQ, env, net, adapter, answer>>

-----------------------------------------------------------------------------
(* ObjectProxy::prepareConnection() and the rest of its finishInvoke(). *)

PrepareDone ==
  /\ Running("prep") /\ objQ = << >>
  /\ Return
  /\ UNCHANGED <<objQ, env, tq, uniqId, reqMsg, net, reqs>>

\* A request that had chosen another adapter chooses again, and the adapter
\* it gets is the one the loop goes on with.
Prepare ==
  /\ Running("prep") /\ objQ # << >>
  /\ PopWaiting
  /\ LET a == Head(stk).a  m == Head(objQ)
     IN  \/ /\ adapter[m] \in {NoAdapter, a}
            /\ adapter' = [adapter EXCEPT ![m] = a]
            /\ Calls(<<DoMsg("call", a, m), Do("prep", a)>>)
            /\ UNCHANGED net
         \/ /\ adapter[m] \notin {NoAdapter, a} /\ Valid
            /\ \E b \in eps, c \in [Adapters -> {"unconnected", "connecting", "connected"}] :
                 /\ SelectAdapter(b, c)
                 /\ adapter' = [adapter EXCEPT ![m] = b]
                 /\ Calls(<<DoMsg("call", b, m), Do("prep", b)>>)
  /\ UNCHANGED <<env, tq, uniqId, reqMsg, id, status, answer, outcome, expired>>

\* No adapter to choose: the request ends and the loop is left.
PrepareNoAdapter ==
  /\ Running("prep") /\ objQ # << >>
  /\ adapter[Head(objQ)] \notin {NoAdapter, Head(stk).a}
  /\ ~ Valid \/ eps = {}
  /\ PopWaiting
  /\ InvokeException(Head(objQ))
  /\ Return
  /\ UNCHANGED <<env, tq, uniqId, reqMsg, net, adapter, id, answer>>

\* Serial mode: send the next request, or reconnect for it (checkActive(true)).
FinishTail ==
  /\ Running("tail")
  /\ LET a == Head(stk).a
     IN  \/ /\ tq[a].send = << >>
            /\ Return /\ UNCHANGED net
         \/ /\ tq[a].send # << >> /\ conn[a] = "connected"
            /\ Calls(<<Do("flush", a)>>) /\ UNCHANGED net
         \/ /\ tq[a].send # << >> /\ conn[a] # "connected"
            /\ \E s \in {"connecting", "unconnected"} : conn' = [conn EXCEPT ![a] = s]
            /\ Return /\ UNCHANGED <<buffered, wire>>
  /\ UNCHANGED <<objQ, env, tq, uniqId, reqMsg, reqs>>

\* The rest of AdapterProxy::finishInvoke(msg): the call statistics may close
\* the connection of a failing server, then the request is handed back.
Deliver ==
  /\ Running("deliver")
  /\ LET a == Head(stk).a  m == Head(stk).m
     IN  /\ Settle(m, status[m])
         /\ \/ UNCHANGED net
            \/ status[m] # "EXC" /\ Close(a)
  /\ Return
  /\ UNCHANGED <<objQ, env, tq, uniqId, reqMsg, adapter, id, status, answer>>

-----------------------------------------------------------------------------
(* Sending what waits: AdapterProxy::doInvoke(). *)

FlushDone ==
  /\ Running("flush")
  /\ LET a == Head(stk).a
     IN  tq[a].send = << >> \/ (Serial /\ reqMsg[a] # NoMsg)
  /\ Return
  /\ UNCHANGED <<objQ, env, tq, uniqId, reqMsg, net, reqs>>

\* A request that cannot be sent now stays where it is (in parallel mode also
\* when the socket has failed).
FlushStops ==
  /\ Running("flush")
  /\ LET a == Head(stk).a
     IN  /\ MaySendNext(a)
         /\ \E r \in SendResults(a) \cap (IF Serial THEN {"NotSend"} ELSE {"NotSend", "Error"}) :
              SendRequest(a, GetSend(tq[a]), r)
  /\ Return
  /\ UNCHANGED <<objQ, env, tq, uniqId, reqMsg, reqs>>

\* doInvoke_serial(): a request whose bytes cannot be sent is finished with
\* its eStatus as it is.
FlushFails ==
  /\ Running("flush") /\ Serial
  /\ LET a == Head(stk).a  m == GetSend(tq[a])
     IN  /\ MaySendNext(a)
         /\ "Error" \in SendResults(a)
         /\ SendRequest(a, m, "Error")
         /\ tq' = [tq EXCEPT ![a] = PopSend(@, TRUE)]
         /\ FinishInvoke(a, m, status[m], << >>)
  /\ UNCHANGED <<objQ, env, uniqId, reqMsg, adapter, id, answer>>

\* doInvoke_parallel() goes on until the socket is full, doInvoke_serial()
\* stops at one request.
FlushSends ==
  /\ Running("flush")
  /\ LET a == Head(stk).a  m == GetSend(tq[a])
     IN  /\ MaySendNext(a)
         /\ \E r \in SendResults(a) \cap {"Ok", "Full"} :
              /\ SendRequest(a, m, r)
              /\ IF Serial \/ r = "Full" THEN Return ELSE UNCHANGED stk
         /\ tq' = [tq EXCEPT ![a] = PopSend(@, Kind[m] = "ONE_WAY")]
         /\ reqMsg' = IF Serial THEN [reqMsg EXCEPT ![a] = m] ELSE reqMsg
         /\ IF Kind[m] = "ONE_WAY" THEN Settle(m, "gone")
                                   ELSE UNCHANGED <<outcome, expired>>
  /\ UNCHANGED <<objQ, env, uniqId, adapter, id, status, answer>>

-----------------------------------------------------------------------------
(* Epoll events: CommunicatorEpoll::handle() for a connection. *)

\* One event reports any of readable, writable and error, handled in turn.
Event(a, in, out, err) ==
  /\ stk = << >> /\ conn[a] # "unconnected"
  /\ in \/ out \/ err
  /\ stk' = (IF in THEN <<Do("in", a)>> ELSE << >>)
            \o (IF out THEN <<Do("out", a)>> ELSE << >>)
            \o (IF err THEN <<Do("err", a)>> ELSE << >>)
  /\ UNCHANGED <<objQ, env, tq, uniqId, reqMsg, net, reqs>>

\* handleInputImp() and handleOutputImp() on a connection that was closed by
\* the code that ran before them in the same event.
EventStale ==
  /\ \/ Running("in") \/ Running("out") \/ Running("err")
  /\ conn[Head(stk).a] = "unconnected"
  /\ Return
  /\ UNCHANGED <<objQ, env, tq, uniqId, reqMsg, net, reqs>>

\* ... a connection that comes up unnoticed by those who wait for it, ...
EventConnectingUnnoticed ==
  /\ Running("in") \/ Running("out")
  /\ LET a == Head(stk).a
     IN  /\ conn[a] = "connecting"
         /\ conn' = [conn EXCEPT ![a] = "connected"]
         /\ Calls(<<Do(IF Running("in") THEN "recv" ELSE "req", a)>>)
  /\ UNCHANGED <<objQ, env, tq, uniqId, reqMsg, buffered, wire, reqs>>

\* SO_ERROR tells whether the attempt has failed; if it has not,
\* setConnected() takes the waiting requests before anything is read or sent.
EventConnecting ==
  /\ Running("in") \/ Running("out")
  /\ LET a == Head(stk).a
     IN  /\ conn[a] = "connecting"
         /\ \/ Close(a) /\ Return
            \/ /\ conn' = [conn EXCEPT ![a] = "connected"]
               /\ Calls(<<Do("prep", a), Do(IF Running("in") THEN "recv" ELSE "req", a)>>)
               /\ UNCHANGED <<buffered, wire>>
  /\ UNCHANGED <<objQ, env, tq, uniqId, reqMsg, reqs>>

EventConnected ==
  /\ Running("in") \/ Running("out")
  /\ conn[Head(stk).a] = "connected"
  /\ Calls(<<Do(IF Running("in") THEN "recv" ELSE "req", Head(stk).a)>>)
  /\ UNCHANGED <<objQ, env, tq, uniqId, reqMsg, net, reqs>>

EventError ==
  /\ Running("err") /\ conn[Head(stk).a] # "unconnected"
  /\ Close(Head(stk).a)
  /\ Return
  /\ UNCHANGED <<objQ, env, tq, uniqId, reqMsg, reqs>>

\* Transceiver::doRequest(): the bytes left over go first; only when they are
\* out are further requests sent.
Request ==
  /\ Running("req")
  /\ LET a == Head(stk).a
     IN  \/ /\ conn[a] = "unconnected"
            /\ Return /\ UNCHANGED net
         \/ /\ conn[a] # "unconnected" /\ buffered[a] = NoMsg
            /\ Calls(<<Do("flush", a)>>) /\ UNCHANGED net
         \/ /\ buffered[a] # NoMsg
            /\ \/ Return /\ UNCHANGED net
               \/ Return /\ Close(a)
               \/ /\ Reaches(a, buffered[a])
                  /\ buffered' = [buffered EXCEPT ![a] = NoMsg]
                  /\ Calls(<<Do("flush", a)>>)
                  /\ UNCHANGED conn
  /\ UNCHANGED <<objQ, env, tq, uniqId, reqMsg, reqs>>

\* TcpTransceiver::doResponse() finds nothing (more) to read.
ReceiveDone ==
  /\ Running("recv")
  /\ Return
  /\ UNCHANGED <<objQ, env, tq, uniqId, reqMsg, net, reqs>>

\* The server has closed, or sent what cannot be decoded.
ReceiveClosed ==
  /\ Running("recv") /\ conn[Head(stk).a] = "connected"
  /\ Close(Head(stk).a)
  /\ Return
  /\ UNCHANGED <<objQ, env, tq, uniqId, reqMsg, reqs>>

\* The request a response is taken to answer: finishInvoke_parallel() looks the
\* id up, finishInvoke_serial() does not look at the response.
Answered(a, r) ==
  IF Serial THEN reqMsg[a]
  ELSE IF id[r] \in Ids(tq[a]) THEN tq[a].data[id[r]].ptr ELSE NoMsg

AnsweredId(a, r) == IF Serial THEN id[reqMsg[a]] ELSE id[r]

\* finishInvoke(rsp): the response to r; last says that the protocol closes
\* the connection with it (PACKET_FULL_CLOSE).
Receive(r, last) ==
  /\ Running("recv")
  /\ LET a == Head(stk).a  m == Answered(a, r)  fs == IF last THEN << >> ELSE <<Head(stk)>>
     IN  /\ conn[a] = "connected" /\ r \in wire[a]
         /\ IF last THEN Close(a)
            ELSE wire' = [wire EXCEPT ![a] = @ \ {r}] /\ UNCHANGED <<conn, buffered>>
         /\ IF m = NoMsg
            THEN Calls(fs) /\ UNCHANGED <<tq, reqMsg, answer, status, outcome, expired>>
            ELSE /\ tq' = [tq EXCEPT ![a] = EraseQueue(@, AnsweredId(a, r))]
                 /\ reqMsg' = IF Serial THEN [reqMsg EXCEPT ![a] = NoMsg] ELSE reqMsg
                 /\ answer' = [answer EXCEPT ![m] = r]
                 /\ FinishInvoke(a, m, "RSP", fs)
  /\ UNCHANGED <<objQ, env, uniqId, adapter, id>>

-----------------------------------------------------------------------------
(* Deadlines: CommunicatorEpoll::doTimeout(), ObjectProxy::doTimeout(),      *)
(* AdapterProxy::doTimeout().                                                *)

\* The clock passes the deadline of m (a scan reads the clock once).
DeadlinePasses(m) ==
  /\ stk = << >> /\ outcome[m] = "live"
  /\ expired' = expired \cup {m}
  /\ UNCHANGED <<objQ, env, tq, uniqId, reqMsg, net, adapter, id, status, answer, outcome, stk>>

\* ... deadlines that nobody looks at, ...
ScanAdaptersOnly ==
  /\ stk = << >> /\ expired # {}
  /\ stk' = <<Do("scan", NoAdapter)>>
  /\ UNCHANGED <<objQ, env, tq, uniqId, reqMsg, net, reqs>>

Scan ==
  /\ stk = << >> /\ expired # {}
  /\ stk' = <<Do("scan", NoAdapter), Do("scanObj", NoAdapter)>>
  /\ UNCHANGED <<objQ, env, tq, uniqId, reqMsg, net, reqs>>

ExpiredIds(a) == {i \in Ids(tq[a]) : tq[a].data[i].ptr \in expired}

\* ... and a late answer that finds the connection open.
StayConnected(a, m) ==
  /\ reqMsg' = IF m = reqMsg[a] THEN [reqMsg EXCEPT ![a] = NoMsg] ELSE reqMsg
  /\ UNCHANGED net

\* In serial mode a request that times out under way takes the connection
\* with it.
LeaveConnection(a, m) ==
  IF m = reqMsg[a] THEN reqMsg' = [reqMsg EXCEPT ![a] = NoMsg] /\ Close(a)
                   ELSE UNCHANGED <<reqMsg, net>>

ScanAdapter ==
  /\ Running("scan")
  /\ \E a \in Adapters : \E i \in ExpiredIds(a) :
       LET m == tq[a].data[i].ptr
       IN  /\ tq' = [tq EXCEPT ![a] = EraseQueue(@, i)]
           /\ LeaveConnection(a, m)
           /\ FinishInvoke(a, m, "TIME", <<Head(stk)>>)
  /\ UNCHANGED <<objQ, env, uniqId, adapter, id, answer>>

ScanAdaptersDone ==
  /\ Running("scan")
  /\ \A a \in Adapters : ExpiredIds(a) = {}
  /\ Return
  /\ UNCHANGED <<objQ, env, tq, uniqId, reqMsg, net, reqs>>

ScanObject ==
  /\ Running("scanObj")
  /\ \E k \in DOMAIN objQ :
       /\ objQ[k] \in expired
       /\ DropWaiting(k)
       /\ InvokeException(objQ[k])
  /\ UNCHANGED <<env, tq, uniqId, reqMsg, net, adapter, id, answer, stk>>

ScanDone ==
  /\ Running("scanObj")
  /\ \A k \in DOMAIN objQ : objQ[k] \notin expired
  /\ Return
  /\ UNCHANGED <<objQ, env, tq, uniqId, reqMsg, net, reqs>>

-----------------------------------------------------------------------------

\* EndpointManager::updateEndpoints(): the adapters of the other addresses stay.
UpdateEndpoints(s) ==
  /\ stk = << >> /\ s # eps
  /\ eps' = s
  /\ UNCHANGED <<objQ, mode, tq, uniqId, reqMsg, net, reqs, stk>>

\* The code of the handler that runs, whatever the network does.
Handler ==
  \/ CallRefused \/ CallAborts \/ CallSent \/ CallFailed \/ CallQueued
  \/ PrepareDone \/ Prepare \/ PrepareNoAdapter \/ FinishTail \/ Deliver
  \/ FlushDone \/ FlushStops \/ FlushFails \/ FlushSends
  \/ EventStale \/ EventConnecting \/ EventConnected \/ EventError \/ Request
  \/ ReceiveDone \/ ReceiveClosed \/ (\E r \in Msgs, last \in BOOLEAN : Receive(r, last))
  \/ ScanAdapter \/ ScanAdaptersDone \/ ScanObject \/ ScanDone

\* What may begin when no handler runs.
Environment ==
  \/ \E m \in Msgs : InvokeUnknown(m) \/ InvokeNoAdapter(m) \/ Invoke(m) \/ DeadlinePasses(m)
  \/ \E a \in Adapters, in, out, err \in BOOLEAN : Event(a, in, out, err)
  \/ Scan
  \/ \E s \in mode.lists : UpdateEndpoints(s)

Next == Handler \/ Environment

Spec == Init /\ [][Next]_vars

\* The network thread runs (a handler is never left, responses come to an
\* end), time passes, and the loop scans the deadlines each time round.
ThreadFairness ==
  /\ WF_vars(Handler)
  /\ SF_vars(Scan)
  /\ \A m \in Msgs : SF_vars(DeadlinePasses(m))

FairSpec == Spec /\ ThreadFairness

-----------------------------------------------------------------------------
(* Properties. *)

\* Places that refer to request m: ObjectProxy's queue, the timeout queues of
\* the adapters, the handler that runs.
InObject(m)  == {k \in DOMAIN objQ : objQ[k] = m}
InAdapter(m) == {p \in Adapters \X IdSet :
                   p[2] \in Ids(tq[p[1]]) /\ tq[p[1]].data[p[2]].ptr = m}
InHandler(m) == {k \in DOMAIN stk : stk[k].m = m}

\* A request the network thread has taken and not finished is in exactly one
\* place, and one it has handed back or deleted is in none: no request is
\* dropped, finished twice, or used after the caller may have deleted it.  In a
\* timeout queue it is in the send list too until it has been sent, and the
\* iterators between the two lists do not dangle.
OnePlace ==
  /\ \A m \in Msgs :
       Cardinality(InObject(m)) + Cardinality(InAdapter(m)) + Cardinality(InHandler(m))
         = IF outcome[m] = "live" THEN 1 ELSE 0
  /\ \A a \in Adapters : Consistent(tq[a])

\* A caller gets the response to its own request, late or early, before or
\* after a reconnection.  On a serial connection nothing but the order says whose
\* it is: the next one is that of _requestMsg, and no other is under way.  Only an
\* rpc_call, whose id is the choice of the application, can be confused with a
\* request that has the same id.
OwnResponse ==
  \A m \in Msgs : LET r == answer[m] IN
    r \in {NoMsg, m} \/ (id[r] = id[m] /\ \E k \in {r, m} : RpcId[k] # 0)

\* A request does not wait at the object for a connection that is up: all of
\* them are taken when a connection comes up, and none is added later.  (When
\* the list of addresses is emptied prepareConnection() returns at the first
\* request it cannot place, and the others do wait.)
NoneWaitsForOpenConnection ==
  stk = << >> /\ {} \notin mode.lists => \A k \in DOMAIN objQ :
    adapter[objQ[k]] # NoAdapter => conn[adapter[objQ[k]]] # "connected"

\* The caller of a synchronous call finds a status: assert(msg->eStatus !=
\* ReqMessage::REQ_REQ) in ServantProxy::invoke.
SyncStatusSet == \A m \in Msgs : Kind[m] = "SYNC" => outcome[m] # "REQ"

\* How a request may end: a one-way request without a trace, the others with
\* an answer, a timeout or an error; on a serial connection also with the
\* status of a request under way (SyncStatusSet), and the callback of an
\* asynchronous request whose object has no addresses is dropped.
EndsOf(m) ==
  IF Kind[m] = "ONE_WAY" THEN {"gone"}
  ELSE {"RSP", "TIME", "EXC"} \cup (IF Serial THEN {"REQ"} ELSE {})
       \cup (IF (~ Valid \/ {} \in mode.lists) /\ Kind[m] = "ASYNC" THEN {"lost"} ELSE {})

Life == INSTANCE RequestLife WITH
  Requests <- Msgs,
  ends     <- [m \in Msgs |-> EndsOf(m)],
  state    <- outcome

\* Every request the thread has taken ends, once, in one of these ways and
\* whatever the servers do: at the latest its deadline ends it.
LifeSpec == Life!Spec

\* No handler runs for ever: the re-entry of finishInvoke comes to an end.
HandlersReturn == []<>(stk = << >>)
==============================================================================
