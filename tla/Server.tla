-------------------------------- MODULE Server --------------------------------
(* One server: the main thread, which accepts connections, one network       *)
(* thread with its ConnectionList, and the threads that handle requests.     *)
(* Requests go from the network thread to the handlers through the queue of  *)
(* the BindAdapter, replies and orders to close go back through _sbuffer.    *)
(*                                                                           *)
(* A connection is known to the handlers by its uid: a slot of the list.     *)
EXTENDS Integers, Sequences, FiniteSets

CONSTANTS Conns,     \* the connections peers make, one after the other
          NoConn,
          Requests, NoReq, Handles,
          NumSlots,  \* maxAllConn: the slots of the list
          MaxConns,  \* getMaxConns() of the adapter
          High, Cap, \* four fifths of the queue's capacity, and all of it
          Greeting   \* the adapter has an OnConnectBuffer

ASSUME ServerAssumption ==
  /\ NoConn \notin Conns /\ NoReq \notin Requests
  /\ NumSlots \in Nat /\ MaxConns \in 1 .. NumSlots
  /\ High \in Nat /\ Cap \in Nat
  /\ Greeting \in BOOLEAN

VARIABLES
  slot,     \* _vConn: the connection of each slot
  free,     \* _free: the slots without one, in the order they will be given
  nowConns, \* _iCurConns
  uid,      \* the slot a connection was given
  life,     \* whether its socket is open
  closing,  \* _bClose
  unsent,   \* _sendBuffer: the requests whose replies are in it
  got,      \* the replies the peer has received
  accPc, accConn,                    \* the main thread in accept()
  netPc, netConn, netRet, ordered,   \* the network thread; the connection it
                                     \* deletes, where to go then, and whether
                                     \* a handler has ordered it
  recvQ,    \* _rbuffer: <<"req", r>>, <<"over", r>>, or <<"close", c>>
  sbuffer,  \* <<"s", r>>: send the reply to r, <<"c", r>>: close its connection
  notified, \* epoll has the event of _notify to report
  signal,   \* _notifySignal
  origin,   \* the connection a request came from
  hpc, hreq, todo,     \* a handler, its request, what it will do about it
  replied,  \* history: the requests send() was called for
  down      \* the process has been aborted

list    == <<slot, free, nowConns>>
conns   == <<uid, life, closing, unsent, got>>
acc     == <<accPc, accConn>>
net     == <<netPc, netConn, netRet, ordered>>
queues  == <<recvQ, sbuffer, notified, signal>>
handles == <<hpc, hreq, todo>>
vars    == <<list, conns, acc, net, queues, origin, handles, replied, down>>

Slots == 1 .. NumSlots

\* Not every peer need come, and the adapter has some handlers.
Init ==
  /\ slot = [s \in Slots |-> NoConn] /\ free = [i \in Slots |-> i]
  /\ nowConns = 0
  /\ uid = [c \in Conns |-> 0] /\ life \in [Conns -> {"out", "closed"}]
  /\ closing = [c \in Conns |-> FALSE]
  /\ unsent = [c \in Conns |-> << >>] /\ got = [c \in Conns |-> << >>]
  /\ accPc = "idle" /\ accConn = NoConn
  /\ netPc = "wait" /\ netConn = NoConn /\ netRet = "wait" /\ ordered = FALSE
  /\ recvQ = << >> /\ sbuffer = << >> /\ notified = FALSE /\ signal = FALSE
  /\ origin = [r \in Requests |-> NoConn]
  /\ replied = {}
  /\ hpc \in [Handles -> {"idle", "absent"}] /\ hreq = [h \in Handles |-> NoReq]
  /\ todo = [h \in Handles |-> {}]
  /\ down = FALSE

-----------------------------------------------------------------------------
(* Wrong forms, which the properties rule out, stand before the definition   *)
(* they are a wrong form of.                                                 *)

IncreaseNowConnection == nowConns' = nowConns + 1

\* _del(): the slot is cleared, and goes behind the other free ones; the wrong
\* forms lose it and do not clear it.
FreeNot(s)    == UNCHANGED free
Free(s)       == free' = Append(free, s)
ClearNot(s)   == UNCHANGED slot
Clear(s)      == slot' = [slot EXCEPT ![s] = NoConn]

-----------------------------------------------------------------------------
(* The main thread: accept() and addTcpConnection(). *)

\* isLimitMaxConnection() is asked before the connection is counted.
Accept(c) ==
  /\ accPc = "idle" /\ life[c] = "out"
  /\ IF nowConns + 1 > MaxConns
     THEN life' = [life EXCEPT ![c] = "closed"] /\ UNCHANGED acc
     ELSE life' = [life EXCEPT ![c] = "open"] /\ accPc' = "uid" /\ accConn' = c
  /\ UNCHANGED <<list, uid, closing, unsent, got, net, queues, origin, handles, replied, down>>

\* checkTimeout() holds the lock of the list until it is through with it.
Scanning == netPc = "scan" \/ (netPc = "del" /\ netRet = "scan")

\* getUniqId(): its assertion fails when _free is empty.
GetUniqId ==
  /\ accPc = "uid" /\ ~ Scanning
  /\ IF free = << >>
     THEN down' = TRUE /\ UNCHANGED <<free, uid, acc>>
     ELSE /\ uid' = [uid EXCEPT ![accConn] = Head(free)]
          /\ free' = Tail(free)
          /\ accPc' = "add"
          /\ UNCHANGED <<accConn, down>>
  /\ UNCHANGED <<slot, nowConns, life, closing, unsent, got, net, queues, origin, handles,
                 replied>>

AddToList ==
  /\ accPc = "add" /\ ~ Scanning
  /\ slot' = [slot EXCEPT ![uid[accConn]] = accConn]
  /\ accPc' = "count"
  /\ UNCHANGED <<free, nowConns, conns, accConn, net, queues, origin, handles, replied, down>>

\* The main thread uses its connection.  If the network thread has deleted it,
\* the process may be aborted or go on.
UseConn == IF life[accConn] = "closed" THEN down' \in BOOLEAN ELSE UNCHANGED down

\* increaseNowConnection() and _epoller.add(), "which must come last".
AddToEpoll ==
  /\ accPc = "count" /\ UseConn
  /\ IncreaseNowConnection
  /\ accPc' = "use"
  /\ UNCHANGED <<slot, free, conns, accConn, net, queues, origin, handles, replied>>

\* accept() goes on: the peer is greeted.
AfterAdd ==
  /\ accPc = "use"
  /\ IF Greeting THEN UseConn ELSE UNCHANGED down
  /\ accPc' = "idle" /\ accConn' = NoConn
  /\ UNCHANGED <<list, conns, net, queues, origin, handles, replied>>

-----------------------------------------------------------------------------
(* The network thread. *)

\* delConnection() begins: the handlers are told, the connection is no longer
\* counted, ...
Delete(c, back, order) ==
  /\ recvQ' = Append(recvQ, <<"close", c>>)
  /\ nowConns' = nowConns - 1
  /\ netPc' = "del" /\ netConn' = c /\ netRet' = back /\ ordered' = order

\* ... then close() and _del(): the slot goes behind the other free ones.
Deleted ==
  /\ netPc = "del"
  /\ life' = [life EXCEPT ![netConn] = "closed"]
  /\ unsent' = [unsent EXCEPT ![netConn] = << >>]
  /\ Clear(uid[netConn]) /\ Free(uid[netConn])
  /\ netPc' = netRet
  /\ UNCHANGED <<nowConns, uid, closing, got, acc, netConn, netRet, ordered,
                 queues, origin, handles, replied, down>>

Stays(back) == netPc' = back /\ UNCHANGED <<nowConns, recvQ, netConn, netRet, ordered>>

\* moveHeader(): what is left of the buffer (wrong: all of it).
LeftAll(buf, n) == buf
Left(buf, n)    == SubSeq(buf, n + 1, Len(buf))

\* sendBuffer() with buf in the buffer: some of it goes out, and before all of it has the
\* connection may fail.  What is in the way of an ordered close is now perhaps gone.
SendBuffer(c, buf, back) ==
  \E n \in 0 .. Len(buf) :
    /\ got' = [got EXCEPT ![c] = @ \o SubSeq(buf, 1, n)]
    /\ unsent' = [unsent EXCEPT ![c] = Left(buf, n)]
    /\ \/ IF closing[c] /\ n = Len(buf) THEN Delete(c, back, TRUE) ELSE Stays(back)
       \/ n < Len(buf) /\ Delete(c, back, FALSE)

\* Epoll reports the events of a connection that has been added to it.
Reported(c) == /\ netPc = "wait"
               /\ \E s \in Slots : slot[s] = c
               /\ ~ (accConn = c /\ accPc = "count")

\* What _iRecvBufferSize counts: a handler subtracts after it has popped.
RecvBufferSize == Len(recvQ) + Cardinality({h \in Handles : hpc[h] = "taken"})

\* isOverloadorDiscard() and insertRecvQueue(): at exactly Cap neither applies.
Insert(r) ==
  recvQ' = IF RecvBufferSize > High /\ RecvBufferSize < Cap THEN Append(recvQ, <<"over", r>>)
           ELSE IF RecvBufferSize > Cap THEN recvQ
           ELSE Append(recvQ, <<"req", r>>)

ReadRequest(c) ==
  /\ Reported(c)
  /\ \E r \in Requests : /\ origin[r] = NoConn
                         /\ origin' = [origin EXCEPT ![r] = c]
                         /\ Insert(r)
  /\ UNCHANGED <<slot, free, nowConns, conns, acc, net, sbuffer, notified, signal, handles, replied, down>>

\* An error event, end of file, a packet that cannot be parsed.
PeerCloses(c) ==
  /\ Reported(c)
  /\ Delete(c, "wait", FALSE)
  /\ UNCHANGED <<slot, free, conns, acc, sbuffer, notified, signal, origin, handles, replied, down>>

Writable(c) ==
  /\ Reported(c) /\ unsent[c] # << >>
  /\ SendBuffer(c, unsent[c], "wait")
  /\ UNCHANGED <<slot, free, uid, life, closing, acc, sbuffer, notified, signal, origin,
                 handles, replied, down>>

\* checkTimeout(), in every round of run().  Time is not modelled: each
\* connection may be past its deadline, but for the one the main thread is still
\* adding, as deadlines are at least two seconds away.
CheckTimeout ==
  /\ netPc \in {"wait", "scan"}
  /\ \/ \E s \in Slots : /\ slot[s] \notin {NoConn, accConn}
                         /\ Delete(slot[s], "scan", FALSE)
     \/ netPc = "scan" /\ Stays("wait")
  /\ UNCHANGED <<slot, free, conns, acc, sbuffer, notified, signal, origin, handles, replied, down>>

\* processPipe(): after the event is reported the signal is reset (wrong: it is
\* not), ...
PipeEvent ==
  /\ netPc = "wait" /\ notified
  /\ notified' = FALSE /\ netPc' = "reset"
  /\ UNCHANGED <<list, conns, acc, netConn, netRet, ordered, recvQ, sbuffer, signal, origin,
                 handles, replied, down>>

ResetNot == UNCHANGED signal
Reset == signal' = FALSE

ResetSignal ==
  /\ netPc = "reset"
  /\ Reset /\ netPc' = "pipe"
  /\ UNCHANGED <<list, conns, acc, netConn, netRet, ordered, recvQ, sbuffer, notified, origin,
                 handles, replied, down>>

\* ... (wrong: the connection is closed at once) ...
SetCloseNow(c) == TRUE

\* ... setClose() closes when nothing is left to be sent, ...
SetClose(c) == unsent[c] = << >>

\* ... and the orders are carried out, until there is none, on the connection
\* that has the slot now.
Pipe ==
  /\ netPc = "pipe" /\ sbuffer # << >>
  /\ LET cmd == Head(sbuffer)[1]
         r == Head(sbuffer)[2]
         c == slot[uid[origin[r]]]
     IN  \/ /\ c = NoConn
            /\ Stays("pipe") /\ UNCHANGED <<closing, unsent, got>>
         \/ /\ c # NoConn /\ cmd = "c"
            /\ closing' = [closing EXCEPT ![c] = TRUE]
            /\ IF SetClose(c) THEN Delete(c, "pipe", TRUE) ELSE Stays("pipe")
            /\ UNCHANGED <<unsent, got>>
         \/ /\ c # NoConn /\ cmd = "s"
            /\ SendBuffer(c, Append(unsent[c], r), "pipe")
            /\ UNCHANGED closing
  /\ sbuffer' = Tail(sbuffer)
  /\ UNCHANGED <<slot, free, uid, life, acc, notified, signal, origin, handles, replied, down>>

PipeDone ==
  /\ netPc = "pipe" /\ sbuffer = << >>
  /\ netPc' = "wait"
  /\ UNCHANGED <<list, conns, acc, netConn, netRet, ordered, queues, origin, handles, replied, down>>

-----------------------------------------------------------------------------
(* A handler: handleImp(), ServantHandle, NetThread::send() and close(). *)

Go(h, l) == hpc' = [hpc EXCEPT ![h] = l]

Leave(h) == Go(h, "idle") /\ hreq' = [hreq EXCEPT ![h] = NoReq]

\* handle(), handleOverload() and handleTimeout() send a reply or none; a servant
\* or an exception may have the connection closed, before the reply or after it.
Take(h) ==
  /\ hpc[h] = "idle" /\ recvQ # << >>
  /\ recvQ' = Tail(recvQ)
  /\ IF Head(recvQ)[1] = "close"   \* handleClose(): nothing that is kept
     THEN UNCHANGED handles
     ELSE /\ Go(h, "taken") /\ hreq' = [hreq EXCEPT ![h] = Head(recvQ)[2]]
          /\ \E t \in SUBSET {"reply", "close"} : todo' = [todo EXCEPT ![h] = t]
  /\ UNCHANGED <<list, conns, acc, net, sbuffer, notified, signal, origin, replied, down>>

Reply(h) ==
  /\ hpc[h] \in {"taken", "act"} /\ "reply" \in todo[h]
  /\ sbuffer' = Append(sbuffer, <<"s", hreq[h]>>)
  /\ todo' = [todo EXCEPT ![h] = @ \ {"reply"}]
  /\ replied' = replied \cup {hreq[h]}
  /\ Go(h, "check")
  /\ UNCHANGED <<list, conns, acc, net, recvQ, notified, signal, origin, hreq, down>>

NoReply(h) ==
  /\ hpc[h] = "taken" /\ todo[h] = {} /\ Leave(h)
  /\ UNCHANGED <<list, conns, acc, net, queues, origin, todo, replied, down>>

\* NetThread::close()
Close(h) ==
  /\ hpc[h] \in {"taken", "act"} /\ "close" \in todo[h]
  /\ sbuffer' = Append(sbuffer, <<"c", hreq[h]>>)
  /\ todo' = [todo EXCEPT ![h] = @ \ {"close"}]
  /\ Go(h, "notify")
  /\ UNCHANGED <<list, conns, acc, net, recvQ, notified, signal, origin, hreq, replied, down>>

Done(h) == IF todo[h] # {} THEN Go(h, "act") /\ UNCHANGED hreq ELSE Leave(h)

\* NetThread::send() notifies only if nobody else is about to.
CheckSignal(h) ==
  /\ hpc[h] = "check"
  /\ IF signal THEN Done(h) ELSE Go(h, "set") /\ UNCHANGED hreq
  /\ UNCHANGED <<list, conns, acc, net, queues, origin, todo, replied, down>>

SetSignal(h) ==
  /\ hpc[h] = "set"
  /\ signal' = TRUE /\ Go(h, "notify")
  /\ UNCHANGED <<list, conns, acc, net, recvQ, sbuffer, notified, origin, hreq, todo, replied, down>>

Notify(h) ==
  /\ hpc[h] = "notify"
  /\ notified' = TRUE /\ Done(h)
  /\ UNCHANGED <<list, conns, acc, net, recvQ, sbuffer, signal, origin, todo, replied, down>>

-----------------------------------------------------------------------------

Main == (\E c \in Conns : Accept(c)) \/ GetUniqId \/ AddToList \/ AddToEpoll \/ AfterAdd

\* What the network thread does of itself, ...
Loop == Deleted \/ CheckTimeout \/ PipeEvent \/ ResetSignal \/ Pipe \/ PipeDone

\* ... and what connections make it do.
Event(c) == ReadRequest(c) \/ PeerCloses(c) \/ Writable(c)

Handle(h) == \/ Take(h) \/ Reply(h) \/ NoReply(h) \/ Close(h)
             \/ CheckSignal(h) \/ SetSignal(h) \/ Notify(h)

Next == /\ ~ down
        /\ \/ Main \/ Loop
           \/ \E c \in Conns : Event(c)
           \/ \E h \in Handles : Handle(h)

Spec == Init /\ [][Next]_vars

-----------------------------------------------------------------------------
(* Properties. *)

TypeOK ==
  /\ slot \in [Slots -> Conns \cup {NoConn}] /\ free \in Seq(Slots)
  /\ nowConns \in Int
  /\ uid \in [Conns -> Slots \cup {0}]
  /\ life \in [Conns -> {"out", "open", "closed"}]
  /\ closing \in [Conns -> BOOLEAN]
  /\ unsent \in [Conns -> Seq(Requests)] /\ got \in [Conns -> Seq(Requests)]
  /\ accPc \in {"idle", "uid", "add", "count", "use"} /\ accConn \in Conns \cup {NoConn}
  /\ netPc \in {"wait", "reset", "pipe", "scan", "del"} /\ netConn \in Conns \cup {NoConn}
  /\ netRet \in {"wait", "pipe", "scan"} /\ ordered \in BOOLEAN
  /\ recvQ \in Seq(({"req", "over"} \X Requests) \cup ({"close"} \X Conns))
  /\ sbuffer \in Seq({"s", "c"} \X Requests)
  /\ notified \in BOOLEAN /\ signal \in BOOLEAN
  /\ origin \in [Requests -> Conns \cup {NoConn}]
  /\ hpc \in [Handles -> {"idle", "taken", "check", "set", "notify", "act", "absent"}]
  /\ hreq \in [Handles -> Requests \cup {NoReq}] /\ todo \in [Handles -> SUBSET {"reply", "close"}]
  /\ replied \subseteq Requests /\ down \in BOOLEAN

\* No slot is lost or given out twice: it is free, once, or has a connection, or
\* the main thread is about to put one there.
IsFree(s) == \E i \in 1 .. Len(free) : free[i] = s
InHand(s) == accPc = "add" /\ uid[accConn] = s

OneUseOfSlot ==
  /\ \A i, j \in 1 .. Len(free) : free[i] = free[j] => i = j
  /\ \A s \in Slots : /\ slot[s] = NoConn <=> IsFree(s) \/ InHand(s)
                      /\ ~ (IsFree(s) /\ InHand(s))

\* No reply is left behind: when there are any the network thread is at work
\* on them, will be told by epoll, or a handler is about to notify it.
NoReplyLeft ==
  sbuffer # << >> => \/ notified \/ netPc \in {"reset", "pipe"}
                     \/ netPc = "del" /\ netRet = "pipe"
                     \/ \E h \in Handles : hpc[h] \in {"check", "set", "notify"}

\* The handlers are told once that a connection is closed, and after they have
\* been given all its requests.
CloseNoticeLast ==
  \A i, j \in 1 .. Len(recvQ) :
    i < j /\ recvQ[i][1] = "close" =>
      IF recvQ[j][1] = "close" THEN recvQ[j][2] # recvQ[i][2]
                               ELSE origin[recvQ[j][2]] # recvQ[i][2]

\* A peer gets a reply at most once.
Copies(q, r) == Cardinality({i \in 1 .. Len(q) : q[i] = r})

RepliedOnce ==
  \A r \in Requests :
    \A c, d \in Conns :
      IF c = d THEN Copies(got[c] \o unsent[c], r) + Copies(sbuffer, <<"s", r>>) <= 1
               ELSE Copies(got[c] \o unsent[c], r) + Copies(got[d] \o unsent[d], r) <= 1

\* _bClose, "close the connection after the current data has been sent": when a
\* servant has a connection closed nothing is left in its buffer, and what it
\* replied before has gone out.
ClosedAfterReplies ==
  [][Deleted /\ ordered =>
       /\ unsent[netConn] = << >>
       /\ \A r \in replied : \/ origin[r] # netConn
                             \/ Copies(got[netConn], r) + Copies(sbuffer, <<"s", r>>) = 1]_vars

\* assert(uid > 0 && uid <= _total) in getUniqId(): within the limit of the
\* adapter there is a slot.
SlotLeft == accPc = "uid" => free # << >>
===============================================================================
