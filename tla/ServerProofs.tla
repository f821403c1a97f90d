----------------------------- MODULE ServerProofs -----------------------------
(* Proofs about Server, for any number of connections, requests, handlers and  *)
(* slots: no reply is left, the slots and the numbers of connections are kept  *)
(* apart, a connection is reported closed once and last, and a request is      *)
(* answered once, and before an ordered close.                                 *)
EXTENDS Server, SequenceTheorems, FiniteSetTheorems, TLAPS

USE DEF Slots

-----------------------------------------------------------------------------
(* The signal between the handlers and the network thread. *)

Hpc == {"idle", "taken", "check", "set", "notify", "act", "absent"}

\* While _notifySignal is set somebody notifies the network thread, or it has
\* been notified and has not come to reset it.
SignalInv ==
  signal => notified \/ netPc = "reset" \/ \E h \in Handles : hpc[h] = "notify"

Signalled == hpc \in [Handles -> Hpc] /\ SignalInv /\ NoReplyLeft

\* A handler that finds the flag set may leave the notification to the one that set it.
LEMMA HandleSignalled ==
  ASSUME Signalled, NEW h \in Handles, Handle(h)
  PROVE  Signalled'
<1> USE DEF Signalled, SignalInv, NoReplyLeft, Hpc, Go, Leave, Done, net
<1>1. CASE Take(h)
  BY <1>1 DEF Take, handles
<1>2. CASE Reply(h)
  BY <1>2 DEF Reply
<1>3. CASE NoReply(h)
  BY <1>3 DEF NoReply, queues
<1>4. CASE Close(h)
  BY <1>4 DEF Close
<1>5. CASE CheckSignal(h)
  BY <1>5 DEF CheckSignal, queues
<1>6. CASE SetSignal(h)
  BY <1>6 DEF SetSignal
<1>7. CASE Notify(h)
  BY <1>7 DEF Notify
<1> QED
  BY <1>1, <1>2, <1>3, <1>4, <1>5, <1>6, <1>7 DEF Handle

\* The network thread leaves its loop over the replies only when there is none.
LEMMA NetSignalled ==
  ASSUME Signalled, Loop \/ \E c \in Conns : Event(c)
  PROVE  Signalled'
<1> USE DEF Signalled, SignalInv, NoReplyLeft, queues, handles
<1>1. CASE Deleted
  BY <1>1 DEF Deleted
<1>2. CASE CheckTimeout
  BY <1>2 DEF CheckTimeout, Delete, Stays
<1>3. CASE PipeEvent
  BY <1>3 DEF PipeEvent
<1>4. CASE ResetSignal
  BY <1>4 DEF ResetSignal, Reset
<1>5. CASE Pipe
  BY <1>5 DEF Pipe, SendBuffer, Delete, Stays
<1>6. CASE PipeDone
  BY <1>6 DEF PipeDone
<1>7. ASSUME NEW c \in Conns, Event(c)
      PROVE  Signalled'
  <2>1. CASE ReadRequest(c) \/ PeerCloses(c)
    BY <2>1 DEF Reported, ReadRequest, PeerCloses, Delete, net
  <2>2. CASE Writable(c)
    <3>1. netPc = "wait" /\ UNCHANGED <<sbuffer, signal, notified, hpc>>
      BY <2>2 DEF Writable, Reported
    <3>2. netPc' \in {"wait", "del"}
      BY <2>2 DEF Writable, SendBuffer, Delete, Stays
    <3> QED
      BY <3>1, <3>2
  <2> QED
    BY <1>7, <2>1, <2>2 DEF Event
<1> QED
  BY <1>1, <1>2, <1>3, <1>4, <1>5, <1>6, <1>7 DEF Loop

\* The main thread has nothing to do with the flag.
LEMMA MainSignalled ==
  ASSUME Signalled, Main
  PROVE  Signalled'
BY DEF Main, Accept, GetUniqId, AddToList, AddToEpoll, AfterAdd, Signalled, SignalInv, NoReplyLeft,
       net, queues, handles

\* No reply is left behind in _sbuffer: send() may skip the notification
\* whenever it finds _notifySignal set, with any number of handlers.
THEOREM RepliesNoticed == Spec => []NoReplyLeft
<1>1. Init => Signalled
  BY DEF Init, Signalled, SignalInv, NoReplyLeft, Hpc
<1>2. Signalled /\ [Next]_vars => Signalled'
  <2> SUFFICES ASSUME Signalled, [Next]_vars PROVE Signalled'
    OBVIOUS
  <2>1. CASE UNCHANGED vars
    BY <2>1 DEF vars, net, queues, handles, Signalled, SignalInv, NoReplyLeft
  <2> QED
    BY <2>1, HandleSignalled, NetSignalled, MainSignalled DEF Next
<1>3. Signalled => NoReplyLeft
  BY DEF Signalled
<1> QED
  BY <1>1, <1>2, <1>3, PTL DEF Spec

-----------------------------------------------------------------------------
(* Type correctness.  A request the handlers or the queues have came from a    *)
(* connection that had a slot; so the network thread looks up slots only.      *)

Items == ({"req", "over"} \X Requests) \cup ({"close"} \X Conns)

Known(r) == r \in Requests /\ origin[r] \in Conns /\ uid[origin[r]] \in Slots

RecvKnown == \A i \in 1 .. Len(recvQ) : recvQ[i][1] # "close" => Known(recvQ[i][2])
SentKnown == \A i \in 1 .. Len(sbuffer) : Known(sbuffer[i][2])
HeldKnown == \A h \in Handles : hpc[h] \notin {"idle", "absent"} => Known(hreq[h])

KnownInv == RecvKnown /\ SentKnown /\ HeldKnown

AccInv ==
  /\ accPc # "idle" => accConn \in Conns /\ life[accConn] # "out"
  /\ accPc = "uid" => uid[accConn] = 0
  /\ accPc \in {"add", "count", "use"} => uid[accConn] \in Slots
  /\ \A c \in Conns : life[c] = "out" => uid[c] = 0

ListInv == \A s \in Slots : slot[s] # NoConn => uid[slot[s]] = s

NetInv == netPc = "del" => netConn \in Conns /\ uid[netConn] \in Slots

Typed == TypeOK /\ KnownInv /\ AccInv /\ ListInv /\ NetInv

\* No connection yet.
LEMMA InitTyped == Init => Typed
<1> SUFFICES ASSUME Init PROVE Typed
  OBVIOUS
<1> USE ServerAssumption DEF Init
<1>1. free \in Seq(Slots) /\ slot \in [Slots -> Conns \cup {NoConn}]
  OBVIOUS
<1>2. /\ uid \in [Conns -> Slots \cup {0}] /\ life \in [Conns -> {"out", "open", "closed"}]
      /\ closing \in [Conns -> BOOLEAN]
      /\ unsent \in [Conns -> Seq(Requests)] /\ got \in [Conns -> Seq(Requests)]
  OBVIOUS
<1>3. /\ recvQ \in Seq(Items) /\ sbuffer \in Seq({"s", "c"} \X Requests)
      /\ Len(recvQ) = 0 /\ Len(sbuffer) = 0
  OBVIOUS
<1>4. /\ hpc \in [Handles -> {"idle", "taken", "check", "set", "notify", "act", "absent"}]
      /\ hreq \in [Handles -> Requests \cup {NoReq}] /\ todo \in [Handles -> SUBSET {"reply", "close"}]
      /\ \A h \in Handles : hpc[h] \in {"idle", "absent"}
  OBVIOUS
<1>5. KnownInv
  BY <1>3, <1>4 DEF KnownInv, RecvKnown, SentKnown, HeldKnown
<1>6. AccInv /\ ListInv /\ NetInv
  BY <1>1, <1>2 DEF AccInv, ListInv, NetInv
<1>7. /\ nowConns \in Int /\ accPc = "idle" /\ accConn = NoConn
      /\ netPc = "wait" /\ netConn = NoConn /\ netRet = "wait" /\ ordered = FALSE
      /\ notified = FALSE /\ signal = FALSE /\ origin \in [Requests -> Conns \cup {NoConn}]
      /\ replied = {} /\ down = FALSE
  OBVIOUS
<1> HIDE DEF Init
<1>8. TypeOK
  BY <1>1, <1>2, <1>3, <1>4, <1>7 DEF TypeOK, Items
<1> QED
  BY <1>5, <1>6, <1>8 DEF Typed

\* What is put on the queues.
LEMMA RecvTyped ==
  ASSUME Typed, NEW x \in Items, recvQ' = Append(recvQ, x),
         x[1] # "close" => Known(x[2])', \A r \in Requests : Known(r) => Known(r)'
  PROVE  recvQ' \in Seq(Items) /\ RecvKnown'
<1>1. recvQ \in Seq(Items)
  BY DEF Typed, TypeOK, Items
<1>2. \A i \in 1 .. Len(recvQ) : recvQ[i] \in Items
  BY <1>1
<1>3. \A y \in Items : y[1] # "close" => y[2] \in Requests
  BY DEF Items
<1>4. \A i \in 1 .. Len(recvQ) : recvQ[i][1] # "close" => Known(recvQ[i][2])'
  BY <1>2, <1>3 DEF Typed, KnownInv, RecvKnown
<1>5. /\ recvQ' \in Seq(Items) /\ Len(recvQ') = Len(recvQ) + 1
      /\ \A i \in 1 .. Len(recvQ') : recvQ'[i] = IF i = Len(recvQ) + 1 THEN x ELSE recvQ[i]
  BY <1>1, AppendProperties
<1> QED
  BY <1>1, <1>4, <1>5 DEF RecvKnown, Known

\* An order is about a request that came from a connection with a slot.
LEMMA SendTyped ==
  ASSUME Typed, NEW cmd \in {"s", "c"}, NEW r \in Requests, Known(r),
         sbuffer' = Append(sbuffer, <<cmd, r>>), UNCHANGED <<origin, uid>>
  PROVE  /\ sbuffer' \in Seq({"s", "c"} \X Requests)
         /\ SentKnown'
<1>1. sbuffer \in Seq({"s", "c"} \X Requests)
  BY DEF Typed, TypeOK
<1>2. /\ sbuffer' \in Seq({"s", "c"} \X Requests) /\ Len(sbuffer') = Len(sbuffer) + 1
      /\ \A i \in 1 .. Len(sbuffer') :
           sbuffer'[i] = IF i = Len(sbuffer) + 1 THEN <<cmd, r>> ELSE sbuffer[i]
  BY <1>1, AppendProperties
<1> QED
  BY <1>1, <1>2 DEF Typed, KnownInv, SentKnown, Known

\* The notices of a connection that is deleted are about it.
LEMMA DeleteTyped ==
  ASSUME Typed, NEW c \in Conns, NEW back \in {"wait", "pipe", "scan"}, NEW order \in BOOLEAN,
         uid[c] \in Slots,
         Delete(c, back, order), UNCHANGED <<origin, uid, slot>>
  PROVE  /\ recvQ' \in Seq(Items) /\ nowConns' \in Int
         /\ RecvKnown'
         /\ netPc' = "del" /\ netConn' \in Conns \cup {NoConn}
         /\ netRet' \in {"wait", "pipe", "scan"} /\ ordered' \in BOOLEAN /\ NetInv'
<1>1. <<"close", c>> \in Items /\ recvQ' = Append(recvQ, <<"close", c>>)
  BY DEF Delete, Items
<1>2. \A r \in Requests : Known(r) => Known(r)'
  BY DEF Known
<1>3. recvQ' \in Seq(Items) /\ RecvKnown'
  BY <1>1, <1>2, RecvTyped
<1> QED
  BY <1>3 DEF Delete, NetInv, Typed, TypeOK

\* What depends on origin and uid alone stays when a connection is given a slot.
LEMMA KnownStays ==
  ASSUME Typed, \A r \in Requests : Known(r) => Known(r)',
         UNCHANGED <<recvQ, sbuffer, hpc, hreq>>
  PROVE  KnownInv'
<1>1. /\ \A i \in 1 .. Len(recvQ) : recvQ[i][1] # "close" => Known(recvQ[i][2])'
      /\ \A i \in 1 .. Len(sbuffer) : Known(sbuffer[i][2])'
      /\ \A h \in Handles : hpc[h] \notin {"idle", "absent"} => Known(hreq[h])'
  BY DEF Typed, KnownInv, RecvKnown, SentKnown, HeldKnown, Known
<1> QED
  BY <1>1 DEF KnownInv, RecvKnown, SentKnown, HeldKnown, Known

\* The main thread gives a connection a free slot and puts it there.
LEMMA MainTyped ==
  ASSUME Typed, Main
  PROVE  Typed'
<1> USE ServerAssumption DEF net, queues, handles, conns, acc, list
<1>0. TypeOK /\ AccInv /\ ListInv /\ NetInv
  BY DEF Typed
<1>1. ASSUME NEW c \in Conns, Accept(c)
      PROVE  Typed'
  <2>1. TypeOK'
    BY ZenonT(60), <1>0, <1>1 DEF TypeOK, Accept
  <2>2. AccInv' /\ ListInv' /\ NetInv'
    BY <1>0, <1>1 DEF AccInv, ListInv, NetInv, Accept, TypeOK
  <2>3. KnownInv'
    BY <1>1, KnownStays DEF Accept, Known
  <2> QED
    BY <2>1, <2>2, <2>3 DEF Typed
<1>2. CASE GetUniqId
  <2>1. CASE free = << >>
    <3>1. TypeOK' /\ AccInv' /\ ListInv' /\ NetInv'
      BY <1>0, <1>2, <2>1 DEF TypeOK, AccInv, ListInv, NetInv, GetUniqId
    <3>2. KnownInv'
      BY <1>2, <2>1, KnownStays DEF GetUniqId, Known
    <3> QED
      BY <3>1, <3>2 DEF Typed
  <2>2. CASE free # << >>
    <3>1. /\ Head(free) \in Slots /\ Tail(free) \in Seq(Slots)
      BY <1>0, <2>2 DEF TypeOK
    <3>2. /\ uid' = [uid EXCEPT ![accConn] = Head(free)] /\ free' = Tail(free)
          /\ accPc = "uid" /\ accPc' = "add" /\ accConn \in Conns /\ uid[accConn] = 0
          /\ uid \in [Conns -> Slots \cup {0}] /\ life[accConn] # "out"
      BY <1>0, <1>2, <2>2 DEF GetUniqId, AccInv, TypeOK
    <3>3. TypeOK'
      BY <1>0, <1>2, <2>2, <3>1, <3>2 DEF TypeOK, GetUniqId
    <3>4. AccInv' /\ ListInv' /\ NetInv'
      BY <1>0, <1>2, <2>2, <3>1, <3>2 DEF AccInv, ListInv, NetInv, GetUniqId, TypeOK
    <3>5. KnownInv'
      <4>1. \A r \in Requests : Known(r) => Known(r)'
        BY <1>2, <2>2, <3>1, <3>2 DEF GetUniqId, Known
      <4> QED
        BY <1>2, <2>2, <4>1, KnownStays DEF GetUniqId
    <3> QED
      BY <3>3, <3>4, <3>5 DEF Typed
  <2> QED
    BY <2>1, <2>2
<1>3. CASE AddToList
  <2>1. /\ accConn \in Conns /\ uid[accConn] \in Slots
        /\ slot' = [slot EXCEPT ![uid[accConn]] = accConn]
    BY <1>0, <1>3 DEF AddToList, AccInv
  <2>2. TypeOK'
    BY <1>0, <1>3, <2>1 DEF TypeOK, AddToList
  <2>3. AccInv' /\ ListInv' /\ NetInv'
    BY <1>0, <1>3, <2>1 DEF AccInv, ListInv, NetInv, AddToList, TypeOK
  <2>4. KnownInv'
    BY <1>3, KnownStays DEF AddToList, Known
  <2> QED
    BY <2>2, <2>3, <2>4 DEF Typed
<1>4. CASE AddToEpoll
  <2>1. down' \in BOOLEAN
    BY <1>0, <1>4 DEF AddToEpoll, UseConn, TypeOK
  <2>2. TypeOK'
    BY <1>0, <1>4, <2>1 DEF TypeOK, AddToEpoll, IncreaseNowConnection
  <2>3. AccInv' /\ ListInv' /\ NetInv'
    BY <1>0, <1>4 DEF AccInv, ListInv, NetInv, AddToEpoll
  <2>4. KnownInv'
    BY <1>4, KnownStays DEF AddToEpoll, Known
  <2> QED
    BY <2>2, <2>3, <2>4 DEF Typed
<1>5. CASE AfterAdd
  <2>1. down' \in BOOLEAN
    BY <1>0, <1>5 DEF AfterAdd, UseConn, TypeOK
  <2>2. TypeOK'
    BY <1>0, <1>5, <2>1 DEF TypeOK, AfterAdd
  <2>3. AccInv' /\ ListInv' /\ NetInv'
    BY <1>0, <1>5 DEF AccInv, ListInv, NetInv, AfterAdd
  <2>4. KnownInv'
    BY <1>5, KnownStays DEF AfterAdd, Known
  <2> QED
    BY <2>2, <2>3, <2>4 DEF Typed
<1> QED
  BY <1>1, <1>2, <1>3, <1>4, <1>5 DEF Main

\* A handler leaves its connections, the list, and the other threads alone.
HandleLeaves == UNCHANGED <<list, conns, acc, net, origin, down>>

\* A handler has requests that came through the queue.
LEMMA HandleTyped ==
  ASSUME Typed, NEW h \in Handles, Handle(h)
  PROVE  Typed'
<1> USE ServerAssumption DEF net, queues, handles, conns, acc, list
<1>0. TypeOK /\ AccInv /\ ListInv /\ NetInv /\ RecvKnown /\ SentKnown /\ HeldKnown
  BY DEF Typed, KnownInv
<1>1. /\ HandleLeaves
      /\ replied' \subseteq Requests /\ notified' \in BOOLEAN /\ signal' \in BOOLEAN
  <2>1. hpc[h] \notin {"idle", "absent"} => hreq[h] \in Requests
    BY <1>0 DEF HeldKnown, Known
  <2> QED
    BY <1>0, <2>1 DEF TypeOK, HandleLeaves, Handle, Take, Reply, NoReply, Close, CheckSignal,
                      SetSignal, Notify
<1>8. todo' \in [Handles -> SUBSET {"reply", "close"}]
  <2>1. todo \in [Handles -> SUBSET {"reply", "close"}]
    BY <1>0 DEF TypeOK
  <2>2. \/ UNCHANGED todo
        \/ \E t \in SUBSET {"reply", "close"} : todo' = [todo EXCEPT ![h] = t]
    <3>1. \A x : todo[h] \ {x} \in SUBSET {"reply", "close"}
      BY <2>1
    <3> QED
      BY <3>1 DEF Handle, Take, Reply, NoReply, Close, CheckSignal, SetSignal, Notify
  <2> QED
    BY <2>1, <2>2
<1>2. /\ AccInv' /\ ListInv' /\ NetInv'
      /\ \A r \in Requests : Known(r) => Known(r)'
  BY <1>0, <1>1 DEF HandleLeaves, AccInv, ListInv, NetInv, Known
<1>3. recvQ' \in Seq(Items) /\ RecvKnown'
  <2>1. CASE UNCHANGED recvQ
    BY <1>0, <1>1, <2>1 DEF TypeOK, Items, RecvKnown, Known, HandleLeaves
  <2>2. CASE recvQ # << >> /\ recvQ' = Tail(recvQ)
    <3>1. recvQ \in Seq(Items)
      BY <1>0 DEF TypeOK, Items
    <3>2. /\ recvQ' \in Seq(Items) /\ Len(recvQ') = Len(recvQ) - 1
          /\ \A i \in 1 .. Len(recvQ') : recvQ'[i] = recvQ[i + 1]
      BY <2>2, <3>1, HeadTailProperties
    <3>3. \A i \in 1 .. Len(recvQ') : i + 1 \in 1 .. Len(recvQ)
      BY <3>1, <3>2
    <3>4. \A i \in 1 .. Len(recvQ) : recvQ[i][1] # "close" =>
            /\ recvQ[i][2] \in Requests /\ origin[recvQ[i][2]] \in Conns
            /\ uid[origin[recvQ[i][2]]] \in Slots
      BY <1>0 DEF RecvKnown, Known
    <3>5. UNCHANGED <<origin, uid>>
      BY <1>1 DEF HandleLeaves
    <3> QED
      BY <3>2, <3>3, <3>4, <3>5 DEF RecvKnown, Known
  <2> QED
    BY <2>1, <2>2 DEF Handle, Take, Reply, NoReply, Close, CheckSignal, SetSignal, Notify
<1>4. sbuffer' \in Seq({"s", "c"} \X Requests) /\ SentKnown'
  <2>1. CASE UNCHANGED sbuffer
    BY <1>0, <1>1, <2>1 DEF TypeOK, SentKnown, Known, HandleLeaves
  <2>2. CASE Reply(h) \/ Close(h)
    <3>1. Known(hreq[h]) /\ hreq[h] \in Requests
      BY <1>0, <2>2 DEF Reply, Close, HeldKnown, Known
    <3>2. UNCHANGED <<origin, uid>>
      BY <1>1 DEF HandleLeaves
    <3> QED
      BY <2>2, <3>1, <3>2, SendTyped DEF Reply, Close
  <2> QED
    BY <2>1, <2>2 DEF Handle, Take, NoReply, CheckSignal, SetSignal, Notify
<1>5. /\ hpc' \in [Handles -> Hpc] /\ hreq' \in [Handles -> Requests \cup {NoReq}]
      /\ HeldKnown'
  <2>0. /\ hpc \in [Handles -> Hpc] /\ hreq \in [Handles -> Requests \cup {NoReq}]
        /\ UNCHANGED <<origin, uid>>
    BY <1>0, <1>1 DEF TypeOK, HandleLeaves, Hpc
  <2>1. CASE Take(h) /\ Head(recvQ)[1] # "close"
    <3>1. recvQ \in Seq(Items) /\ recvQ # << >>
      BY <1>0, <2>1 DEF TypeOK, Items, Take
    <3>2. Head(recvQ) = recvQ[1] /\ 1 \in 1 .. Len(recvQ)
      BY <3>1
    <3>3. Known(Head(recvQ)[2]) /\ Head(recvQ)[2] \in Requests
      BY <1>0, <2>1, <3>2 DEF RecvKnown, Known
    <3>4. /\ hpc' = [hpc EXCEPT ![h] = "taken"]
          /\ hreq' = [hreq EXCEPT ![h] = Head(recvQ)[2]]
      BY <2>1 DEF Take, Go
    <3> QED
      BY <1>0, <2>0, <3>3, <3>4 DEF HeldKnown, Known, Hpc
  <2>2. CASE Take(h) /\ Head(recvQ)[1] = "close"
    BY <1>0, <2>0, <2>2 DEF Take, HeldKnown, Known
  <2>3. CASE UNCHANGED hreq /\ hpc[h] \notin {"idle", "absent"}
             /\ \E l \in Hpc \ {"absent"} : hpc' = [hpc EXCEPT ![h] = l]
    BY <1>0, <2>0, <2>3 DEF HeldKnown, Known, Hpc
  <2>4. CASE Leave(h)
    BY <1>0, <2>0, <2>4 DEF Leave, Go, HeldKnown, Known, Hpc
  <2> QED
    BY <2>1, <2>2, <2>3, <2>4 DEF Handle, Take, Reply, NoReply, Close, CheckSignal, SetSignal,
                                  Notify, Done, Go, Hpc
<1>6. TypeOK'
  BY <1>0, <1>1, <1>3, <1>4, <1>5, <1>8 DEF TypeOK, Items, Hpc, HandleLeaves
<1>7. KnownInv'
  BY <1>3, <1>4, <1>5 DEF KnownInv
<1> QED
  BY <1>2, <1>6, <1>7 DEF Typed

\* What the network thread changes of itself, whether or not it deletes c.
NetTypes ==
  /\ recvQ' \in Seq(Items) /\ RecvKnown' /\ nowConns' \in Int
  /\ netPc' \in {"wait", "reset", "pipe", "scan", "del"} /\ netConn' \in Conns \cup {NoConn}
  /\ netRet' \in {"wait", "pipe", "scan"} /\ ordered' \in BOOLEAN /\ NetInv'

\* A connection that stays changes nothing of this.
LEMMA StaysTyped ==
  ASSUME Typed, NEW back \in {"wait", "pipe", "scan"}, Stays(back), UNCHANGED <<origin, uid>>
  PROVE  NetTypes
BY DEF Typed, TypeOK, KnownInv, RecvKnown, Known, NetInv, NetTypes, Stays, Items

\* What is sent and what is left are parts of what there was.
LEMMA SendBufferTyped ==
  ASSUME Typed, NEW c \in Conns, NEW buf \in Seq(Requests), NEW back \in {"wait", "pipe"},
         uid[c] \in Slots, SendBuffer(c, buf, back), UNCHANGED <<origin, uid, slot>>
  PROVE  /\ NetTypes
         /\ unsent' \in [Conns -> Seq(Requests)] /\ got' \in [Conns -> Seq(Requests)]
<1>0. unsent \in [Conns -> Seq(Requests)] /\ got \in [Conns -> Seq(Requests)]
  BY DEF Typed, TypeOK
<1>1. ASSUME NEW order \in BOOLEAN, Delete(c, back, order)
      PROVE  NetTypes
  BY <1>1, DeleteTyped DEF NetTypes
<1>2. Stays(back) => NetTypes
  BY StaysTyped
<1>3. ASSUME NEW n \in 0 .. Len(buf),
             got' = [got EXCEPT ![c] = @ \o SubSeq(buf, 1, n)],
             unsent' = [unsent EXCEPT ![c] = Left(buf, n)],
             \/ IF closing[c] /\ n = Len(buf) THEN Delete(c, back, TRUE) ELSE Stays(back)
             \/ n < Len(buf) /\ Delete(c, back, FALSE)
      PROVE  /\ NetTypes
             /\ unsent' \in [Conns -> Seq(Requests)] /\ got' \in [Conns -> Seq(Requests)]
  <2>1. NetTypes
    BY <1>1, <1>2, <1>3
  <2>2. SubSeq(buf, 1, n) \in Seq(Requests) /\ Left(buf, n) \in Seq(Requests)
    BY SubSeqProperties DEF Left
  <2>3. got[c] \o SubSeq(buf, 1, n) \in Seq(Requests)
    BY <1>0, <2>2, ConcatProperties
  <2> QED
    BY <1>0, <1>3, <2>1, <2>2, <2>3
<1> QED
  BY <1>3 DEF SendBuffer

\* A connection with an event is read from, written to or deleted.
LEMMA EventTyped ==
  ASSUME Typed, NEW c \in Conns, Event(c)
  PROVE  Typed'
<1> USE ServerAssumption DEF net, queues, handles, conns, acc, list
<1>0. TypeOK /\ AccInv /\ ListInv /\ NetInv /\ RecvKnown /\ SentKnown /\ HeldKnown
  BY DEF Typed, KnownInv
<1>1. uid[c] \in Slots /\ c # NoConn
  BY <1>0 DEF Event, ReadRequest, PeerCloses, Writable, Reported, ListInv
<1>2. ASSUME NEW r \in Requests, origin[r] = NoConn, origin' = [origin EXCEPT ![r] = c],
             Insert(r), UNCHANGED <<slot, free, nowConns, conns, acc, net, sbuffer, notified,
                                    signal, handles, replied, down>>
      PROVE  Typed'
  <2>1. origin' \in [Requests -> Conns \cup {NoConn}]
        /\ Known(r)' /\ \A q \in Requests : Known(q) => Known(q)'
    BY <1>0, <1>1, <1>2 DEF TypeOK, Known
  <2>2. recvQ' \in Seq(Items) /\ RecvKnown'
    <3>1. CASE recvQ' = recvQ
      BY <1>0, <2>1, <3>1 DEF TypeOK, Items, RecvKnown, Known
    <3>2. ASSUME NEW k \in {"req", "over"}, recvQ' = Append(recvQ, <<k, r>>)
          PROVE  recvQ' \in Seq(Items) /\ RecvKnown'
      BY <2>1, <3>2, RecvTyped DEF Items
    <3> QED
      BY <1>2, <3>1, <3>2 DEF Insert
  <2>3. SentKnown' /\ HeldKnown'
    BY <1>0, <1>2, <2>1 DEF SentKnown, HeldKnown, Known
  <2>4. AccInv' /\ ListInv' /\ NetInv'
    BY <1>0, <1>2 DEF AccInv, ListInv, NetInv
  <2>5. TypeOK'
    BY <1>0, <1>2, <2>1, <2>2 DEF TypeOK, Items
  <2> QED
    BY <2>2, <2>3, <2>4, <2>5 DEF Typed, KnownInv
<1>3. ASSUME NetTypes, unsent' \in [Conns -> Seq(Requests)], got' \in [Conns -> Seq(Requests)],
             UNCHANGED <<slot, free, uid, life, closing, acc, sbuffer, notified, signal, origin,
                         handles, replied, down>>
      PROVE  Typed'
  <2>1. SentKnown' /\ HeldKnown' /\ RecvKnown'
    BY <1>0, <1>3 DEF SentKnown, HeldKnown, Known, NetTypes
  <2>2. AccInv' /\ ListInv' /\ NetInv'
    BY <1>0, <1>3 DEF AccInv, ListInv, NetTypes
  <2>3. TypeOK'
    BY <1>0, <1>3 DEF TypeOK, Items, NetTypes
  <2> QED
    BY <2>1, <2>2, <2>3 DEF Typed, KnownInv
<1>4. CASE PeerCloses(c)
  <2>1. NetTypes
    BY <1>1, <1>4, DeleteTyped DEF PeerCloses, NetTypes
  <2> QED
    BY <1>0, <1>3, <1>4, <2>1 DEF PeerCloses, TypeOK
<1>5. CASE Writable(c)
  <2>1. unsent[c] \in Seq(Requests)
    BY <1>0 DEF TypeOK
  <2>2. SendBuffer(c, unsent[c], "wait") /\ UNCHANGED <<origin, uid, slot>>
    BY <1>5 DEF Writable
  <2> QED
    BY <1>1, <1>3, <1>5, <2>1, <2>2, SendBufferTyped DEF Writable
<1> QED
  BY <1>2, <1>4, <1>5 DEF Event, ReadRequest

\* The connection the network thread finds is that of the slot.
LEMMA PipeTyped ==
  ASSUME Typed, Pipe
  PROVE  /\ NetTypes
         /\ closing' \in [Conns -> BOOLEAN]
         /\ unsent' \in [Conns -> Seq(Requests)] /\ got' \in [Conns -> Seq(Requests)]
         /\ sbuffer' \in Seq({"s", "c"} \X Requests) /\ SentKnown'
<1>0. /\ TypeOK /\ ListInv /\ SentKnown
      /\ UNCHANGED <<origin, uid, slot>>
  BY DEF Typed, KnownInv, Pipe
<1> DEFINE cmd == Head(sbuffer)[1]
           r == Head(sbuffer)[2]
           c == slot[uid[origin[r]]]
<1>1. sbuffer \in Seq({"s", "c"} \X Requests) /\ sbuffer # << >>
  BY <1>0 DEF TypeOK, Pipe
<1>2. Head(sbuffer) = sbuffer[1] /\ 1 \in 1 .. Len(sbuffer)
  BY <1>1
<1>3. r \in Requests /\ Known(r)
  BY <1>0, <1>2 DEF SentKnown, Known
<1>4. c # NoConn => c \in Conns /\ uid[c] \in Slots
  BY <1>0, <1>3 DEF TypeOK, Known, ListInv
<1>5. sbuffer' \in Seq({"s", "c"} \X Requests) /\ SentKnown'
  <2>1. /\ sbuffer' \in Seq({"s", "c"} \X Requests) /\ Len(sbuffer') = Len(sbuffer) - 1
        /\ \A i \in 1 .. Len(sbuffer') : sbuffer'[i] = sbuffer[i + 1]
    BY <1>1, HeadTailProperties DEF Pipe
  <2>2. \A i \in 1 .. Len(sbuffer') : i + 1 \in 1 .. Len(sbuffer)
    BY <1>1, <2>1
  <2>3. \A i \in 1 .. Len(sbuffer) : /\ sbuffer[i][2] \in Requests
                                     /\ origin[sbuffer[i][2]] \in Conns
                                     /\ uid[origin[sbuffer[i][2]]] \in Slots
    BY <1>0 DEF SentKnown, Known
  <2> QED
    BY <1>0, <2>1, <2>2, <2>3 DEF SentKnown, Known
<1>6. /\ closing \in [Conns -> BOOLEAN]
      /\ unsent \in [Conns -> Seq(Requests)] /\ got \in [Conns -> Seq(Requests)]
  BY <1>0 DEF TypeOK
<1>7. CASE c = NoConn /\ Stays("pipe") /\ UNCHANGED <<closing, unsent, got>>
  BY <1>0, <1>5, <1>6, <1>7, StaysTyped
<1>8. CASE /\ c # NoConn /\ closing' = [closing EXCEPT ![c] = TRUE]
           /\ IF SetClose(c) THEN Delete(c, "pipe", TRUE) ELSE Stays("pipe")
           /\ UNCHANGED <<unsent, got>>
  <2>1. NetTypes
    BY <1>0, <1>4, <1>8, DeleteTyped, StaysTyped DEF NetTypes
  <2> QED
    BY <1>5, <1>6, <1>8, <2>1
<1>9. CASE c # NoConn /\ SendBuffer(c, Append(unsent[c], r), "pipe") /\ UNCHANGED closing
  <2>1. Append(unsent[c], r) \in Seq(Requests)
    BY <1>3, <1>4, <1>6, <1>9, AppendProperties
  <2> QED
    BY <1>0, <1>4, <1>5, <1>6, <1>9, <2>1, SendBufferTyped
<1> QED
  BY <1>7, <1>8, <1>9, <1>5 DEF Pipe

\* The network thread.
LEMMA LoopTyped ==
  ASSUME Typed, Loop
  PROVE  Typed'
<1> USE ServerAssumption DEF net, queues, handles, conns, acc, list
<1>0. TypeOK /\ AccInv /\ ListInv /\ NetInv /\ RecvKnown /\ SentKnown /\ HeldKnown
  BY DEF Typed, KnownInv
<1>1. ASSUME UNCHANGED <<origin, uid, recvQ, sbuffer, hpc, hreq>>
      PROVE  KnownInv'
  BY <1>1, KnownStays DEF Known
<1>2. CASE Deleted
  <2>1. netConn \in Conns /\ uid[netConn] \in Slots
    BY <1>0, <1>2 DEF Deleted, NetInv
  <2>2. Append(free, uid[netConn]) \in Seq(Slots)
    BY <1>0, <2>1, AppendProperties DEF TypeOK
  <2>3. /\ free' \in Seq(Slots) /\ slot' \in [Slots -> Conns \cup {NoConn}]
        /\ life' \in [Conns -> {"out", "open", "closed"}]
        /\ unsent' \in [Conns -> Seq(Requests)]
        /\ netPc' \in {"wait", "pipe", "scan"}
    BY <1>0, <1>2, <2>1, <2>2 DEF TypeOK, Deleted, Clear, Free
  <2>4. TypeOK'
    BY <1>0, <1>2, <2>3 DEF TypeOK, Deleted
  <2>5. AccInv' /\ ListInv' /\ NetInv'
    BY <1>0, <1>2, <2>1, <2>3 DEF AccInv, ListInv, NetInv, Deleted, Clear, TypeOK
  <2> QED
    BY <1>1, <1>2, <2>4, <2>5 DEF Deleted, Typed
<1>3. CASE CheckTimeout
  <2>1. NetTypes
    <3>1. ASSUME NEW s \in Slots, slot[s] \notin {NoConn, accConn}, Delete(slot[s], "scan", FALSE)
          PROVE  NetTypes
      <4>1. slot[s] \in Conns /\ uid[slot[s]] \in Slots
        BY <1>0, <3>1 DEF TypeOK, ListInv
      <4> QED
        BY <1>3, <3>1, <4>1, DeleteTyped DEF CheckTimeout, NetTypes
    <3>2. Stays("wait") => NetTypes
      BY <1>3, StaysTyped DEF CheckTimeout
    <3> QED
      BY <1>3, <3>1, <3>2 DEF CheckTimeout
  <2>2. TypeOK'
    BY <1>0, <1>3, <2>1 DEF TypeOK, Items, NetTypes, CheckTimeout
  <2>3. AccInv' /\ ListInv' /\ NetInv' /\ KnownInv'
    BY <1>0, <1>3, <2>1 DEF AccInv, ListInv, NetTypes, CheckTimeout, KnownInv, SentKnown,
                            HeldKnown, Known
  <2> QED
    BY <2>2, <2>3 DEF Typed
<1>4. CASE PipeEvent \/ ResetSignal \/ PipeDone
  <2>1. TypeOK'
    BY ZenonT(60), <1>0, <1>4 DEF TypeOK, PipeEvent, ResetSignal, Reset, PipeDone
  <2>2. AccInv' /\ ListInv' /\ NetInv'
    BY <1>0, <1>4 DEF AccInv, ListInv, NetInv, PipeEvent, ResetSignal, PipeDone
  <2> QED
    BY <1>1, <1>4, <2>1, <2>2 DEF PipeEvent, ResetSignal, PipeDone, Typed
<1>5. CASE Pipe
  <2>1. /\ NetTypes /\ closing' \in [Conns -> BOOLEAN]
        /\ unsent' \in [Conns -> Seq(Requests)] /\ got' \in [Conns -> Seq(Requests)]
        /\ sbuffer' \in Seq({"s", "c"} \X Requests) /\ SentKnown'
    BY <1>5, PipeTyped
  <2>2. UNCHANGED <<slot, free, uid, life, acc, notified, signal, origin, handles, replied, down>>
    BY <1>5 DEF Pipe
  <2>3. TypeOK'
    BY <1>0, <2>1, <2>2 DEF TypeOK, Items, NetTypes
  <2>4. AccInv' /\ ListInv' /\ NetInv' /\ KnownInv'
    BY <1>0, <2>1, <2>2 DEF AccInv, ListInv, NetTypes, KnownInv, HeldKnown, Known
  <2> QED
    BY <2>3, <2>4 DEF Typed
<1> QED
  BY <1>2, <1>3, <1>4, <1>5 DEF Loop

\* All three.
LEMMA StepTyped == Typed /\ [Next]_vars => Typed'
<1> SUFFICES ASSUME Typed, [Next]_vars PROVE Typed'
  OBVIOUS
<1>1. CASE UNCHANGED vars
  <2>1. TypeOK' /\ AccInv' /\ ListInv' /\ NetInv'
    BY <1>1 DEF vars, list, conns, acc, net, queues, handles, Typed, TypeOK, AccInv, ListInv, NetInv
  <2>2. KnownInv'
    BY <1>1, KnownStays DEF vars, conns, queues, handles, Known
  <2> QED
    BY <2>1, <2>2 DEF Typed
<1> QED
  BY <1>1, MainTyped, LoopTyped, EventTyped, HandleTyped DEF Next

\* The state keeps its types; above all, every slot a thread looks up or gives
\* back, send(), close() and delConnection(), is one of the list.
THEOREM TypeCorrect == Spec => []TypeOK
<1>1. Typed => TypeOK
  BY DEF Typed
<1> QED
  BY <1>1, InitTyped, StepTyped, PTL DEF Spec

-----------------------------------------------------------------------------
(* The slots of the list.  _del() relies on the connection it deletes being    *)
(* in its slot.                                                                *)

DeletedInSlot == netPc = "del" => slot[uid[netConn]] = netConn

SlotsInv == OneUseOfSlot /\ DeletedInSlot

\* A slot is put back only after its connection has been deleted.
LEMMA StepSlots ==
  ASSUME Typed, SlotsInv, [Next]_vars
  PROVE  SlotsInv'
<1> USE ServerAssumption DEF net, queues, handles, conns, acc, list
<1>0. /\ slot \in [Slots -> Conns \cup {NoConn}] /\ free \in Seq(Slots)
      /\ uid \in [Conns -> Slots \cup {0}]
      /\ AccInv /\ ListInv /\ NetInv /\ OneUseOfSlot /\ DeletedInSlot
  BY DEF Typed, TypeOK, SlotsInv
<1>1. ASSUME UNCHANGED <<slot, free, uid>>,
             accPc = "add" <=> accPc' = "add", accPc = "add" => UNCHANGED accConn,
             DeletedInSlot'
      PROVE  SlotsInv'
  BY <1>0, <1>1 DEF SlotsInv, OneUseOfSlot, IsFree, InHand
<1>2. CASE GetUniqId /\ free # << >>
  <2>1. /\ free' = Tail(free) /\ uid' = [uid EXCEPT ![accConn] = Head(free)]
        /\ accPc = "uid" /\ accPc' = "add" /\ accConn \in Conns /\ uid[accConn] = 0
        /\ UNCHANGED <<slot, accConn, netPc, netConn>>
    BY <1>0, <1>2 DEF GetUniqId, AccInv
  <2>2. /\ Head(free) = free[1] /\ 1 \in 1 .. Len(free) /\ Head(free) \in Slots
        /\ Len(Tail(free)) = Len(free) - 1
        /\ \A i \in 1 .. Len(Tail(free)) : Tail(free)[i] = free[i + 1]
    BY <1>0, <1>2, HeadTailProperties
  <2>3. \A s \in Slots : IsFree(s) <=> s = Head(free) \/ IsFree(s)'
    <3>1. \A i \in 1 .. Len(free) : i = 1 \/ i - 1 \in 1 .. Len(Tail(free))
      BY <1>0, <2>2
    <3>2. \A i \in 1 .. Len(Tail(free)) : i + 1 \in 1 .. Len(free)
      BY <1>0, <2>2
    <3> QED
      BY SMTT(60), <2>1, <2>2, <3>1, <3>2 DEF IsFree
  <2>4. ~ (\E i \in 1 .. Len(free') : free'[i] = Head(free))
    <3>1. \A i \in 1 .. Len(Tail(free)) : i + 1 \in 1 .. Len(free) /\ i + 1 # 1
      BY <1>0, <2>2
    <3> QED
      BY <1>0, <2>1, <2>2, <3>1 DEF OneUseOfSlot
  <2>5. \A s \in Slots : ~ InHand(s) /\ (InHand(s)' <=> s = Head(free))
    BY <1>0, <2>1, <2>2 DEF InHand
  <2>6. \A i, j \in 1 .. Len(free') : free'[i] = free'[j] => i = j
    <3>1. \A i, j \in 1 .. Len(free) : free[i] = free[j] => i = j
      BY <1>0 DEF OneUseOfSlot
    <3>2. \A i \in 1 .. Len(Tail(free)) : i + 1 \in 1 .. Len(free)
      BY <1>0, <2>2
    <3>3. \A i, j \in 1 .. Len(Tail(free)) : i + 1 = j + 1 => i = j
      BY <1>0, <2>2
    <3> QED
      BY <2>1, <2>2, <3>1, <3>2, <3>3
  <2>7. \A s \in Slots : IsFree(s)' => s # Head(free)
    BY <2>4 DEF IsFree
  <2>10. \A s \in Slots : IsFree(s)' <=> IsFree(s) /\ s # Head(free)
    BY <2>3, <2>7
  <2>11. \A s \in Slots : slot[s] = NoConn <=> IsFree(s)
    BY <1>0, <2>5 DEF OneUseOfSlot
  <2>12. IsFree(Head(free))
    BY <2>2 DEF IsFree
  <2>9. OneUseOfSlot'
    BY <2>1, <2>5, <2>6, <2>10, <2>11, <2>12 DEF OneUseOfSlot
  <2>8. DeletedInSlot'
    BY <1>0, <2>1 DEF DeletedInSlot, NetInv
  <2> QED
    BY <2>8, <2>9 DEF SlotsInv
<1>3. CASE AddToList
  <2>1. /\ accPc = "add" /\ accPc' = "count" /\ accConn \in Conns /\ uid[accConn] \in Slots
        /\ slot' = [slot EXCEPT ![uid[accConn]] = accConn]
        /\ UNCHANGED <<free, uid, accConn, netPc, netConn>>
    BY <1>0, <1>3 DEF AddToList, AccInv
  <2>2. slot[uid[accConn]] = NoConn /\ ~ IsFree(uid[accConn])
    BY <1>0, <2>1 DEF OneUseOfSlot, InHand
  <2>3. OneUseOfSlot'
    BY <1>0, <2>1, <2>2 DEF OneUseOfSlot, IsFree, InHand
  <2>4. DeletedInSlot'
    BY <1>0, <2>1, <2>2 DEF DeletedInSlot, NetInv
  <2> QED
    BY <2>3, <2>4 DEF SlotsInv
<1>4. CASE Deleted
  <2> DEFINE s0 == uid[netConn]
  <2>1. /\ netPc = "del" /\ netPc' # "del" /\ s0 \in Slots /\ netConn \in Conns
        /\ slot' = [slot EXCEPT ![s0] = NoConn] /\ free' = Append(free, s0)
        /\ slot[s0] = netConn
        /\ UNCHANGED <<uid, accPc, accConn>>
    BY <1>0, <1>4 DEF Deleted, Clear, Free, NetInv, DeletedInSlot, Typed, TypeOK
  <2>2. ~ IsFree(s0) /\ ~ InHand(s0)
    BY <1>0, <2>1 DEF OneUseOfSlot
  <2>3. /\ Len(free') = Len(free) + 1 /\ free'[Len(free) + 1] = s0
        /\ \A i \in 1 .. Len(free) : free'[i] = free[i]
    BY <1>0, <2>1, AppendProperties
  <2>9. \A i : i \in 1 .. Len(free') <=> i \in 1 .. Len(free) \/ i = Len(free) + 1
    BY <1>0, <2>3
  <2>4. \A s \in Slots : IsFree(s)' <=> IsFree(s) \/ s = s0
    BY <2>3, <2>9 DEF IsFree
  <2>5. \A i, j \in 1 .. Len(free') : free'[i] = free'[j] => i = j
    BY <1>0, <2>2, <2>3, <2>9 DEF OneUseOfSlot, IsFree
  <2>6. \A s \in Slots : InHand(s)' <=> InHand(s)
    BY <2>1 DEF InHand
  <2>7. OneUseOfSlot'
    BY <1>0, <2>1, <2>2, <2>4, <2>5, <2>6 DEF OneUseOfSlot
  <2> QED
    BY <2>1, <2>7 DEF SlotsInv, DeletedInSlot
<1>5. CASE Pipe
  <2>1. /\ netPc' = "del" => netConn' \in Conns /\ uid[netConn'] \in Slots
                             /\ slot[uid[netConn']] = netConn'
        /\ UNCHANGED <<slot, free, uid, accPc, accConn>>
    <3>1. LET c == slot[uid[origin[Head(sbuffer)[2]]]]
          IN  c # NoConn => slot[uid[c]] = c
      <4>1. sbuffer \in Seq({"s", "c"} \X Requests) /\ sbuffer # << >> /\ SentKnown
        BY <1>5 DEF Pipe, Typed, TypeOK, KnownInv
      <4>2. Known(Head(sbuffer)[2])
        <5>1. Head(sbuffer) = sbuffer[1] /\ 1 \in 1 .. Len(sbuffer)
          BY <4>1
        <5> QED
          BY <4>1, <5>1 DEF SentKnown
      <4> QED
        BY <1>0, <4>2 DEF Known, ListInv
    <3>2. netPc' = "del" => netConn' = slot[uid[origin[Head(sbuffer)[2]]]] /\ netConn' # NoConn
      BY <1>5 DEF Pipe, SendBuffer, Delete, Stays
    <3>3. NetInv'
      BY <1>5, PipeTyped DEF NetTypes
    <3>4. UNCHANGED <<slot, free, uid, accPc, accConn>>
      BY <1>5 DEF Pipe
    <3> QED
      BY <3>1, <3>2, <3>3, <3>4 DEF NetInv
  <2> QED
    BY <1>0, <1>1, <2>1 DEF DeletedInSlot
<1>6. CASE CheckTimeout
  <2>1. netPc' = "del" => slot[uid[netConn']] = netConn'
    BY <1>0, <1>6 DEF CheckTimeout, Delete, Stays, ListInv
  <2> QED
    BY <1>0, <1>1, <1>6, <2>1 DEF CheckTimeout, DeletedInSlot
<1>7. ASSUME NEW c \in Conns, Event(c)
      PROVE  SlotsInv'
  <2>1. slot[uid[c]] = c
    BY <1>0, <1>7 DEF Event, ReadRequest, PeerCloses, Writable, Reported, ListInv
  <2>2. netPc' = "del" => netConn' = c
    BY <1>7 DEF Event, Reported, ReadRequest, PeerCloses, Writable, SendBuffer, Delete, Stays
  <2>3. UNCHANGED <<slot, free, uid, accPc, accConn>>
    BY <1>7 DEF Event, ReadRequest, PeerCloses, Writable
  <2> QED
    BY <1>1, <2>1, <2>2, <2>3 DEF DeletedInSlot
<1>8. CASE PipeEvent \/ ResetSignal \/ PipeDone
  BY <1>0, <1>1, <1>8 DEF PipeEvent, ResetSignal, PipeDone, DeletedInSlot
<1>9. ASSUME NEW c \in Conns, Accept(c)
      PROVE  SlotsInv'
  BY <1>0, <1>1, <1>9 DEF Accept, DeletedInSlot
<1>10. CASE GetUniqId /\ free = << >>
  BY <1>0, <1>1, <1>10 DEF GetUniqId, DeletedInSlot
<1>11. CASE AddToEpoll \/ AfterAdd
  BY <1>0, <1>1, <1>11 DEF AddToEpoll, AfterAdd, DeletedInSlot
<1>12. ASSUME NEW h \in Handles, Handle(h)
       PROVE  SlotsInv'
  BY <1>0, <1>1, <1>12 DEF Handle, Take, Reply, NoReply, Close, CheckSignal, SetSignal, Notify,
                           DeletedInSlot
<1>13. CASE UNCHANGED vars
  BY <1>0, <1>1, <1>13 DEF vars, DeletedInSlot
<1> QED
  BY <1>2, <1>3, <1>4, <1>5, <1>6, <1>7, <1>8, <1>9, <1>10, <1>11, <1>12, <1>13
     DEF Next, Main, Loop

\* No slot is lost or given out twice, although the main thread takes slots and
\* the network thread gives them back, each in several steps.
THEOREM SlotsOnce == Spec => []OneUseOfSlot
<1>1. Init => SlotsInv
  BY ServerAssumption DEF Init, SlotsInv, OneUseOfSlot, DeletedInSlot, IsFree, InHand
<1>2. Typed /\ SlotsInv /\ [Next]_vars => SlotsInv'
  BY StepSlots
<1>3. SlotsInv => OneUseOfSlot
  BY DEF SlotsInv
<1> QED
  BY <1>1, <1>2, <1>3, InitTyped, StepTyped, PTL DEF Spec

(*****************************************************************************)
(* Replies and notices                                                       *)
(*****************************************************************************)

(* The inductive invariants. *)

Listed(c) == \E s \in Slots : slot[s] = c

\* The connection has been put into the list, where it may still be.
Past(c) == life[c] # "out" /\ ~ (accConn = c /\ accPc \in {"uid", "add"})

\* The connections that are deleted or about to be; the handlers have been told of no
\* other that it is closed.
Ending == {c \in Conns : Past(c) /\ (Listed(c) => netPc = "del" /\ netConn = c)}

NoticeInv == \A i \in 1 .. Len(recvQ) : recvQ[i][1] = "close" => recvQ[i][2] \in Ending

\* What the peer has received or will when the buffer is sent.
Line(c) == got[c] \o unsent[c]

In(q, x)  == \E i \in 1 .. Len(q) : q[i] = x
Once(q)   == \A i, j \in 1 .. Len(q) : q[i] = q[j] => i = j
Apart(q)  == \A i, j \in 1 .. Len(q) : q[i] = q[j] /\ q[i][1] = "s" => i = j
InSent(r) == In(sbuffer, <<"s", r>>)

\* A reply is on its way in one place.
OutInv ==
  /\ \A c \in Conns : Once(Line(c))
  /\ \A c, d \in Conns, r \in Requests : In(Line(c), r) /\ In(Line(d), r) => c = d
  /\ Apart(sbuffer)
  /\ \A c \in Conns, r \in Requests : In(Line(c), r) => ~ InSent(r) /\ r \in replied
  /\ \A r \in Requests : InSent(r) => r \in replied

\* The handler has a request it may still reply to.
Owes(h) == hpc[h] = "taken" \/ "reply" \in todo[h]

\* It waits for a handler.
Waits(q, r) == \E i \in 1 .. Len(q) : q[i][1] # "close" /\ q[i][2] = r
WaitOnce(q) ==
  \A i, j \in 1 .. Len(q) : q[i][1] # "close" /\ q[j][1] # "close" /\ q[i][2] = q[j][2] => i = j

OriginPast == \A r \in Requests, c \in Conns : origin[r] = c => Past(c)

\* A request that may still be replied to is in one place, and has not been yet.
PendInv ==
  /\ WaitOnce(recvQ)
  /\ \A r \in Requests : Waits(recvQ, r) => r \notin replied
  /\ \A h \in Handles : Owes(h) => /\ hpc[h] \notin {"idle", "absent"}
                                  /\ hreq[h] \notin replied /\ ~ Waits(recvQ, hreq[h])
  /\ \A h, g \in Handles : Owes(h) /\ Owes(g) /\ hreq[h] = hreq[g] => h = g
  /\ \A r \in replied : origin[r] # NoConn

\* As long as its connection is in the list a reply is not thrown away, ...
KeptInv ==
  \A r \in replied, c \in Conns : origin[r] = c /\ Listed(c) => In(Line(c), r) \/ InSent(r)

\* ... and an order to close is carried out when nothing is left in the buffer.
OrderInv == netPc = "del" /\ ordered => unsent[netConn] = << >>

Base == Typed /\ SlotsInv

ReplyInv == OutInv /\ OriginPast /\ PendInv /\ KeptInv /\ OrderInv

-----------------------------------------------------------------------------
(* Connections and the list. *)

\* A connection in the list has been added.
LEMMA ListedPast ==
  ASSUME Base, NEW c \in Conns, Listed(c)
  PROVE  Past(c)
<1>1. PICK s \in Slots : slot[s] = c
  BY DEF Listed
<1>2. uid[c] = s
  BY <1>1, ServerAssumption DEF Base, Typed, ListInv
<1>3. s # 0
  BY DEF Slots
<1>4. AccInv /\ OneUseOfSlot
  BY DEF Base, Typed, SlotsInv
<1>5. ~ (accConn = c /\ accPc = "add")
  BY <1>1, <1>2, <1>4, ServerAssumption DEF OneUseOfSlot, InHand
<1> QED
  BY <1>2, <1>3, <1>4, <1>5 DEF Past, AccInv

\* A connection is put into the list once.
LEMMA PastStays ==
  ASSUME Base, [Next]_vars, NEW c \in Conns, Past(c)
  PROVE  Past(c)' /\ (Listed(c)' => Listed(c))
<1> USE ServerAssumption DEF Past
<1>0. /\ life \in [Conns -> {"out", "open", "closed"}] /\ AccInv
      /\ slot \in [Slots -> Conns \cup {NoConn}] /\ NetInv
  BY DEF Base, Typed, TypeOK
<1>1. ASSUME NEW d \in Conns, Accept(d)
      PROVE  Past(c)' /\ (Listed(c)' => Listed(c))
  BY <1>0, <1>1 DEF Accept, acc, list, Listed
<1>2. CASE AddToList
  BY <1>0, <1>2 DEF AddToList, conns, Listed, AccInv
<1>3. CASE GetUniqId \/ AddToEpoll \/ AfterAdd
  BY <1>3 DEF GetUniqId, AddToEpoll, AfterAdd, acc, list, conns, Listed
<1>4. CASE Deleted
  BY <1>0, <1>4 DEF Deleted, Clear, acc, Listed, NetInv
<1>5. CASE CheckTimeout \/ PipeEvent \/ ResetSignal \/ Pipe \/ PipeDone
  BY <1>5 DEF CheckTimeout, PipeEvent, ResetSignal, Pipe, PipeDone, acc, list, conns, Listed
<1>6. ASSUME NEW d \in Conns, Event(d)
      PROVE  Past(c)' /\ (Listed(c)' => Listed(c))
  BY <1>6 DEF Event, ReadRequest, PeerCloses, Writable, acc, conns, Listed
<1>7. ASSUME NEW h \in Handles, Handle(h)
      PROVE  Past(c)' /\ (Listed(c)' => Listed(c))
  BY <1>7 DEF Handle, Take, Reply, NoReply, Close, CheckSignal, SetSignal, Notify,
              acc, list, conns, Listed
<1>8. CASE UNCHANGED vars
  BY <1>8 DEF vars, acc, list, conns, Listed
<1> QED
  BY <1>1, <1>2, <1>3, <1>4, <1>5, <1>6, <1>7, <1>8 DEF Next, Main, Loop

\* What delConnection() has begun ends with the connection out of the list.
LEMMA DeletionEnds ==
  ASSUME Base, [Next]_vars, NEW c \in Conns, netPc = "del", netConn = c
  PROVE  (netPc' = "del" /\ netConn' = c) \/ ~ Listed(c)'
<1> USE ServerAssumption
<1>0. /\ slot \in [Slots -> Conns \cup {NoConn}] /\ NetInv /\ ListInv /\ DeletedInSlot
  BY DEF Base, Typed, TypeOK, SlotsInv
<1>1. CASE Deleted
  <2>1. netConn \in Conns /\ uid[netConn] \in Slots /\ slot[uid[netConn]] = netConn
    BY <1>0 DEF NetInv, DeletedInSlot
  <2>2. slot' = [slot EXCEPT ![uid[netConn]] = NoConn] /\ netConn' = netConn
    BY <1>1 DEF Deleted, Clear
  <2>3. \A s \in Slots : slot[s] = netConn => s = uid[netConn]
    BY <1>0, <2>1 DEF ListInv
  <2> QED
    BY <1>0, <2>1, <2>2, <2>3 DEF Listed
<1>2. CASE Main
  BY <1>2 DEF Main, Accept, GetUniqId, AddToList, AddToEpoll, AfterAdd, net
<1>3. CASE CheckTimeout \/ PipeEvent \/ ResetSignal \/ Pipe \/ PipeDone
  BY <1>3 DEF CheckTimeout, PipeEvent, ResetSignal, Pipe, PipeDone
<1>4. ASSUME NEW d \in Conns, Event(d)
      PROVE  netPc' = "del" /\ netConn' = c
  BY <1>4 DEF Event, ReadRequest, PeerCloses, Writable, Reported
<1>5. ASSUME NEW h \in Handles, Handle(h)
      PROVE  netPc' = "del" /\ netConn' = c
  BY <1>5 DEF Handle, Take, Reply, NoReply, Close, CheckSignal, SetSignal, Notify, net
<1>6. CASE UNCHANGED vars
  BY <1>6 DEF vars, net
<1> QED
  BY <1>1, <1>2, <1>3, <1>4, <1>5, <1>6 DEF Next, Loop

-----------------------------------------------------------------------------
(* The queue of the handlers: what a step may do to it. *)

Same    == UNCHANGED <<recvQ, origin>>
Popped  == recvQ # << >> /\ recvQ' = Tail(recvQ) /\ UNCHANGED origin
Told(c) == /\ Listed(c) /\ netPc # "del" /\ netPc' = "del" /\ netConn' = c
           /\ recvQ' = Append(recvQ, <<"close", c>>) /\ UNCHANGED origin

Read(c, r) ==
  /\ Listed(c) /\ netPc = "wait"
  /\ origin[r] = NoConn /\ origin' = [origin EXCEPT ![r] = c]
  /\ \/ UNCHANGED recvQ
     \/ \E k \in {"req", "over"} : recvQ' = Append(recvQ, <<k, r>>)

\* delConnection() notifies about the connection once.
LEMMA DeleteTells ==
  ASSUME Base, NEW c \in Conns, Listed(c), netPc # "del", UNCHANGED origin,
         NEW back, NEW order, Delete(c, back, order)
  PROVE  Told(c)
BY DEF Told, Delete

\* A connection that cannot be sent to is deleted, or nothing is added to the queue.
LEMMA SendTells ==
  ASSUME Base, NEW c \in Conns, Listed(c), netPc # "del", UNCHANGED origin,
         NEW buf, NEW back, SendBuffer(c, buf, back)
  PROVE  Same \/ Told(c)
BY DeleteTells DEF SendBuffer, Stays, Same

\* What a step may do to the queue of requests and notices.
LEMMA QueueStep ==
  ASSUME Base, [Next]_vars
  PROVE  \/ Same \/ Popped
         \/ \E c \in Conns : Told(c) \/ \E r \in Requests : Read(c, r)
<1>0. slot \in [Slots -> Conns \cup {NoConn}]
  BY DEF Base, Typed, TypeOK
<1>1. CASE Main
  BY <1>1 DEF Main, Accept, GetUniqId, AddToList, AddToEpoll, AfterAdd, queues, Same
<1>2. CASE Deleted \/ PipeEvent \/ ResetSignal \/ PipeDone
  BY <1>2 DEF Deleted, PipeEvent, ResetSignal, PipeDone, queues, Same
<1>3. CASE CheckTimeout
  <2>1. ASSUME NEW s \in Slots, slot[s] \notin {NoConn, accConn}, Delete(slot[s], "scan", FALSE)
        PROVE  Told(slot[s]) /\ slot[s] \in Conns
    <3>1. slot[s] \in Conns /\ Listed(slot[s]) /\ netPc # "del" /\ UNCHANGED origin
      BY <1>0, <1>3, <2>1 DEF Listed, CheckTimeout
    <3> QED
      BY <2>1, <3>1, DeleteTells
  <2>2. Stays("wait") => Same
    BY <1>3 DEF CheckTimeout, Stays, Same
  <2> QED
    BY <1>3, <2>1, <2>2 DEF CheckTimeout
<1>4. CASE Pipe
  <2> DEFINE r == Head(sbuffer)[2]
             c == slot[uid[origin[r]]]
  <2>1. uid[origin[r]] \in Slots
    <3>1. sbuffer \in Seq({"s", "c"} \X Requests) /\ sbuffer # << >> /\ SentKnown
      BY <1>4 DEF Pipe, Base, Typed, TypeOK, KnownInv
    <3>2. Head(sbuffer) = sbuffer[1] /\ 1 \in 1 .. Len(sbuffer)
      BY <3>1
    <3> QED
      BY <3>1, <3>2 DEF SentKnown, Known
  <2>2. c # NoConn => c \in Conns /\ Listed(c)
    BY <1>0, <2>1 DEF Listed
  <2>3. netPc # "del" /\ UNCHANGED origin
    BY <1>4 DEF Pipe
  <2> HIDE DEF c
  <2>4. CASE c = NoConn /\ Stays("pipe")
    BY <2>3, <2>4 DEF Stays, Same
  <2>5. CASE c # NoConn /\ IF SetClose(c) THEN Delete(c, "pipe", TRUE) ELSE Stays("pipe")
    BY <2>2, <2>3, <2>5, DeleteTells DEF Stays, Same
  <2>6. CASE c # NoConn /\ SendBuffer(c, Append(unsent[c], r), "pipe")
    BY <2>2, <2>3, <2>6, SendTells
  <2> QED
    BY <1>4, <2>4, <2>5, <2>6 DEF Pipe, c
<1>5. ASSUME NEW c \in Conns, ReadRequest(c)
      PROVE  \E r \in Requests : Read(c, r)
  BY <1>5 DEF ReadRequest, Reported, Listed, Insert, Read
<1>6. ASSUME NEW c \in Conns, PeerCloses(c)
      PROVE  Told(c)
  BY <1>6, DeleteTells DEF PeerCloses, Reported, Listed
<1>7. ASSUME NEW c \in Conns, Writable(c)
      PROVE  Same \/ Told(c)
  BY <1>7, SendTells DEF Writable, Reported, Listed
<1>8. ASSUME NEW h \in Handles, Handle(h)
      PROVE  Same \/ Popped
  BY <1>8 DEF Handle, Take, Reply, NoReply, Close, CheckSignal, SetSignal, Notify, queues,
              Same, Popped
<1>9. CASE UNCHANGED vars
  BY <1>9 DEF vars, queues, Same
<1> QED
  BY <1>1, <1>2, <1>3, <1>4, <1>5, <1>6, <1>7, <1>8, <1>9 DEF Next, Loop, Event

\* A connection whose end has begun is not put into the list again.
LEMMA EndingStays ==
  ASSUME Base, [Next]_vars
  PROVE  Ending \subseteq Ending'
<1> SUFFICES ASSUME NEW c \in Ending
             PROVE  c \in Ending'
  OBVIOUS
<1>1. c \in Conns /\ Past(c) /\ (Listed(c) => netPc = "del" /\ netConn = c)
  BY DEF Ending
<1>2. Past(c)' /\ (Listed(c)' => Listed(c))
  BY <1>1, PastStays
<1>3. ASSUME Listed(c)'
      PROVE  netPc' = "del" /\ netConn' = c
  <2>1. netPc = "del" /\ netConn = c
    BY <1>1, <1>2, <1>3
  <2> QED
    BY <1>1, <1>3, <2>1, DeletionEnds
<1> QED
  BY <1>1, <1>2, <1>3 DEF Ending

\* A connection that is being deleted has no notice yet, and sends no request any more.
LEMMA NoticeStep ==
  ASSUME Base, [Next]_vars, NoticeInv, CloseNoticeLast
  PROVE  NoticeInv' /\ CloseNoticeLast'
<1>0. recvQ \in Seq(Items) /\ RecvKnown
  BY DEF Base, Typed, TypeOK, Items, KnownInv
<1>1. \A i \in 1 .. Len(recvQ) :
        /\ recvQ[i][1] = "close" => recvQ[i][2] \in Conns
        /\ recvQ[i][1] # "close" => recvQ[i][2] \in Requests /\ origin[recvQ[i][2]] \in Conns
  BY <1>0 DEF Items, RecvKnown, Known
<1>2. \A i \in 1 .. Len(recvQ) : recvQ[i][1] = "close" => recvQ[i][2] \in Ending'
  BY EndingStays DEF NoticeInv
<1>3. CASE Same
  BY <1>2, <1>3 DEF Same, NoticeInv, CloseNoticeLast
<1>4. CASE Popped
  <2>1. /\ Len(recvQ') = Len(recvQ) - 1
        /\ \A i \in 1 .. Len(recvQ') : recvQ'[i] = recvQ[i + 1]
    BY <1>0, <1>4, HeadTailProperties DEF Popped
  <2>2. \A i \in 1 .. Len(recvQ') : i + 1 \in 1 .. Len(recvQ)
    BY <1>0, <1>4, <2>1
  <2>3. NoticeInv'
    BY <1>2, <2>1, <2>2 DEF NoticeInv
  <2>4. CloseNoticeLast'
    <3>1. \A i, j \in 1 .. Len(recvQ') : i < j => i + 1 < j + 1
      BY <1>0, <1>4, <2>1
    <3>2. UNCHANGED origin
      BY <1>4 DEF Popped
    <3> SUFFICES ASSUME NEW i \in 1 .. Len(recvQ'), NEW j \in 1 .. Len(recvQ'),
                        i < j, recvQ'[i][1] = "close"
                 PROVE  IF recvQ'[j][1] = "close" THEN recvQ'[j][2] # recvQ'[i][2]
                                                  ELSE origin'[recvQ'[j][2]] # recvQ'[i][2]
      BY DEF CloseNoticeLast
    <3>3. /\ i + 1 \in 1 .. Len(recvQ) /\ j + 1 \in 1 .. Len(recvQ) /\ i + 1 < j + 1
          /\ recvQ'[i] = recvQ[i + 1] /\ recvQ'[j] = recvQ[j + 1]
      BY <2>1, <2>2, <3>1
    <3> QED
      BY <3>2, <3>3 DEF CloseNoticeLast
  <2> QED
    BY <2>3, <2>4
<1>5. ASSUME NEW x, recvQ' = Append(recvQ, x), x \in Items
      PROVE  /\ Len(recvQ') = Len(recvQ) + 1 /\ recvQ'[Len(recvQ) + 1] = x
             /\ \A i \in 1 .. Len(recvQ) : recvQ'[i] = recvQ[i]
             /\ \A i : i \in 1 .. Len(recvQ') <=> i \in 1 .. Len(recvQ) \/ i = Len(recvQ) + 1
             /\ \A i, j \in 1 .. Len(recvQ') : i < j => i \in 1 .. Len(recvQ)
  BY <1>0, <1>5, AppendProperties
<1>6. ASSUME NEW c \in Conns, Told(c)
      PROVE  NoticeInv' /\ CloseNoticeLast'
  <2> DEFINE x == <<"close", c>>
  <2>1. /\ recvQ' = Append(recvQ, x) /\ x \in Items /\ UNCHANGED origin
        /\ netPc' = "del" /\ netConn' = c
    BY <1>6 DEF Told, Items
  <2>2. c \in Ending'
    BY <1>6, <2>1, ListedPast, PastStays DEF Told, Ending
  <2>3. NoticeInv'
    BY <1>2, <1>5, <2>1, <2>2 DEF NoticeInv
  <2>4. \A i \in 1 .. Len(recvQ) : recvQ[i][1] = "close" => recvQ[i][2] # c
    BY <1>6 DEF NoticeInv, Ending, Told
  <2>5. CloseNoticeLast'
    BY <1>5, <2>1, <2>4 DEF CloseNoticeLast
  <2> QED
    BY <2>3, <2>5
<1>7. ASSUME NEW c \in Conns, NEW r \in Requests, Read(c, r)
      PROVE  NoticeInv' /\ CloseNoticeLast'
  <2>1. \A i \in 1 .. Len(recvQ) :
          recvQ[i][1] # "close" => origin'[recvQ[i][2]] = origin[recvQ[i][2]]
    BY <1>1, <1>7, ServerAssumption DEF Read
  <2>2. origin'[r] = c
    BY <1>7 DEF Read, Base, Typed, TypeOK
  <2>3. \A i \in 1 .. Len(recvQ) : recvQ[i][1] = "close" => recvQ[i][2] # c
    BY <1>7 DEF NoticeInv, Ending, Read
  <2>4. CASE UNCHANGED recvQ
    BY <1>2, <2>1, <2>4 DEF NoticeInv, CloseNoticeLast
  <2>5. ASSUME NEW k \in {"req", "over"}, recvQ' = Append(recvQ, <<k, r>>)
        PROVE  NoticeInv' /\ CloseNoticeLast'
    <3> DEFINE x == <<k, r>>
    <3>1. x \in Items /\ x[1] # "close" /\ x[2] = r
      BY DEF Items
    <3>2. recvQ' = Append(recvQ, x)
      BY <2>5
    <3> HIDE DEF x
    <3>3. NoticeInv'
      BY <1>2, <1>5, <3>1, <3>2 DEF NoticeInv
    <3>4. CloseNoticeLast'
      BY <1>5, <2>1, <2>2, <2>3, <3>1, <3>2 DEF CloseNoticeLast
    <3> QED
      BY <3>3, <3>4
  <2> QED
    BY <1>7, <2>4, <2>5 DEF Read
<1> QED
  BY <1>3, <1>4, <1>6, <1>7, QueueStep

\* A step of the specification keeps the types and the slots.
LEMMA StepBase == Base /\ [Next]_vars => Base'
BY StepTyped, StepSlots DEF Base

\* No connection yet.
LEMMA InitBase == Init => Base
<1>1. ASSUME Init
      PROVE  SlotsInv
  <2>1. /\ free = [i \in Slots |-> i] /\ accPc = "idle" /\ netPc = "wait"
        /\ slot = [s \in Slots |-> NoConn]
    BY <1>1 DEF Init
  <2>2. free \in Seq(Slots) /\ Len(free) = NumSlots /\ \A i \in Slots : free[i] = i
    BY <2>1, ServerAssumption DEF Slots
  <2>3. \A s \in Slots : IsFree(s) /\ ~ InHand(s)
    BY <2>1, <2>2 DEF IsFree, InHand, Slots
  <2> QED
    BY <2>1, <2>2, <2>3 DEF SlotsInv, OneUseOfSlot, DeletedInSlot, Slots
<1> QED
  BY <1>1, InitTyped DEF Base

\* The handlers are told once that a connection is closed, and after they have been
\* given all its requests, whoever closes it and whatever connections have had its slot.
THEOREM NoticeComesLast == Spec => []CloseNoticeLast
<1>1. Init => NoticeInv /\ CloseNoticeLast
  BY DEF Init, NoticeInv, CloseNoticeLast
<1>2. Base /\ NoticeInv /\ CloseNoticeLast /\ [Next]_vars => (NoticeInv /\ CloseNoticeLast)'
  BY NoticeStep
<1> QED
  BY <1>1, <1>2, InitBase, StepBase, PTL DEF Spec

-----------------------------------------------------------------------------
(* Sequences whose elements differ. *)

\* An element more ...
LEMMA AppendOnce ==
  ASSUME NEW S, NEW q \in Seq(S), NEW x \in S
  PROVE  /\ \A y : In(Append(q, x), y) <=> In(q, y) \/ y = x
         /\ Once(q) /\ ~ In(q, x) => Once(Append(q, x))
<1> DEFINE p == Append(q, x)
<1>1. /\ Len(p) = Len(q) + 1 /\ p[Len(q) + 1] = x
      /\ \A i \in 1 .. Len(q) : p[i] = q[i]
  BY AppendProperties
<1>2. \A i : i \in 1 .. Len(p) <=> i \in 1 .. Len(q) \/ i = Len(q) + 1
  BY <1>1
<1> HIDE DEF p
<1>3. \A y : In(p, y) <=> In(q, y) \/ y = x
  BY <1>1, <1>2 DEF In
<1>4. Once(q) /\ ~ In(q, x) => Once(p)
  BY <1>1, <1>2 DEF In, Once
<1> QED
  BY <1>3, <1>4 DEF p

\* One more order at the end.
LEMMA OrderAdded ==
  ASSUME NEW s \in Seq({"s", "c"} \X Requests), NEW k \in {"s", "c"}, NEW q \in Requests
  PROVE  \A y : In(Append(s, <<k, q>>), y) <=> In(s, y) \/ y = <<k, q>>
<1> DEFINE T == {"s", "c"} \X Requests
<1>1. PICK x : x = <<k, q>>
  OBVIOUS
<1>2. x \in T /\ s \in Seq(T)
  BY <1>1
<1> HIDE DEF T
<1>3. \A y : In(Append(s, x), y) <=> In(s, y) \/ y = x
  BY <1>2, AppendOnce
<1> QED
  BY <1>1, <1>3

\* ... and one less at the head or some at the end.
LEMMA TailOnce ==
  ASSUME NEW S, NEW q \in Seq(S), q # << >>
  PROVE  /\ Head(q) \in S /\ In(q, Head(q))
         /\ \A y : In(q, y) <=> y = Head(q) \/ In(Tail(q), y)
         /\ \A i \in 1 .. Len(Tail(q)) : i + 1 \in 1 .. Len(q) /\ Tail(q)[i] = q[i + 1]
         /\ \A i, j \in 1 .. Len(Tail(q)) : i + 1 = j + 1 => i = j
<1>1. /\ Len(Tail(q)) = Len(q) - 1 /\ Head(q) = q[1] /\ 1 \in 1 .. Len(q)
      /\ \A i \in 1 .. Len(Tail(q)) : Tail(q)[i] = q[i + 1]
  BY HeadTailProperties
<1>2. /\ \A i \in 1 .. Len(Tail(q)) : i + 1 \in 1 .. Len(q)
      /\ \A i \in 1 .. Len(q) : i = 1 \/ (i - 1 \in 1 .. Len(Tail(q)) /\ (i - 1) + 1 = i)
      /\ \A i, j \in 1 .. Len(Tail(q)) : i + 1 = j + 1 => i = j
  BY <1>1
<1>3. \A i \in 1 .. Len(q) : q[i] = Head(q) \/ \E j \in 1 .. Len(Tail(q)) : Tail(q)[j] = q[i]
  BY <1>1, <1>2
<1>4. \A y : In(q, y) <=> y = Head(q) \/ In(Tail(q), y)
  BY <1>1, <1>2, <1>3 DEF In
<1> QED
  BY <1>1, <1>2, <1>4 DEF In

\* What is in the front part is there, and no more often than in the whole.
LEMMA FrontOnce ==
  ASSUME NEW S, NEW p \in Seq(S), NEW t \in Seq(S)
  PROVE  /\ \A y : In(p, y) => In(p \o t, y)
         /\ Once(p \o t) => Once(p)
<1>1. /\ Len(p \o t) = Len(p) + Len(t)
      /\ \A i \in 1 .. Len(p) : i \in 1 .. Len(p \o t) /\ (p \o t)[i] = p[i]
  BY ConcatProperties
<1> DEFINE w == p \o t
<1> HIDE DEF w
<1>2. \A i \in 1 .. Len(p) : i \in 1 .. Len(w) /\ w[i] = p[i]
  BY <1>1 DEF w
<1>3. (\A y : In(p, y) => In(w, y)) /\ (Once(w) => Once(p))
  BY <1>2 DEF In, Once
<1> QED
  BY <1>3 DEF w

\* The same of the orders to send in _sbuffer.
LEMMA AppendApart ==
  ASSUME NEW S, NEW q \in Seq(S), NEW x \in S, Apart(q), x[1] = "s" => ~ In(q, x)
  PROVE  Apart(Append(q, x))
<1> DEFINE p == Append(q, x)
<1>1. /\ Len(p) = Len(q) + 1 /\ p[Len(q) + 1] = x
      /\ \A i \in 1 .. Len(q) : p[i] = q[i]
  BY AppendProperties
<1>2. \A i : i \in 1 .. Len(p) <=> i \in 1 .. Len(q) \/ i = Len(q) + 1
  BY <1>1
<1> HIDE DEF p
<1>3. Apart(p)
  BY <1>1, <1>2 DEF In, Apart
<1> QED
  BY <1>3 DEF p

\* The order that is taken was the only one for its reply.
LEMMA TailApart ==
  ASSUME NEW S, NEW q \in Seq(S), q # << >>, Apart(q)
  PROVE  /\ Apart(Tail(q))
         /\ Head(q)[1] = "s" => ~ In(Tail(q), Head(q))
<1>1. /\ Len(Tail(q)) = Len(q) - 1 /\ Head(q) = q[1] /\ 1 \in 1 .. Len(q)
      /\ \A i \in 1 .. Len(Tail(q)) : Tail(q)[i] = q[i + 1]
  BY HeadTailProperties
<1>2. /\ \A i \in 1 .. Len(Tail(q)) : i + 1 \in 1 .. Len(q) /\ i + 1 # 1
      /\ \A i, j \in 1 .. Len(Tail(q)) : i + 1 = j + 1 => i = j
  BY <1>1
<1> DEFINE t == Tail(q)
<1>3. Apart(t)
  BY <1>1, <1>2 DEF Apart
<1>4. Head(q)[1] = "s" => ~ In(t, Head(q))
  BY <1>1, <1>2 DEF Apart, In
<1> QED
  BY <1>3, <1>4

\* The same of the requests that wait.
LEMMA AppendWait ==
  ASSUME NEW S, NEW q \in Seq(S), NEW x \in S, WaitOnce(q), x[1] # "close" => ~ Waits(q, x[2])
  PROVE  /\ WaitOnce(Append(q, x))
         /\ \A r : Waits(Append(q, x), r) <=> Waits(q, r) \/ (x[1] # "close" /\ r = x[2])
<1> DEFINE p == Append(q, x)
<1>1. /\ Len(p) = Len(q) + 1 /\ p[Len(q) + 1] = x
      /\ \A i \in 1 .. Len(q) : p[i] = q[i]
  BY AppendProperties
<1>2. \A i : i \in 1 .. Len(p) <=> i \in 1 .. Len(q) \/ i = Len(q) + 1
  BY <1>1
<1> HIDE DEF p
<1>3. WaitOnce(p)
  BY <1>1, <1>2 DEF Waits, WaitOnce
<1>4. ASSUME NEW r
      PROVE  Waits(p, r) <=> Waits(q, r) \/ (x[1] # "close" /\ r = x[2])
  <2>1. ASSUME Waits(p, r)
        PROVE  Waits(q, r) \/ (x[1] # "close" /\ r = x[2])
    <3>1. PICK i \in 1 .. Len(p) : p[i][1] # "close" /\ p[i][2] = r
      BY <2>1 DEF Waits
    <3>2. CASE i \in 1 .. Len(q)
      BY <1>1, <3>1, <3>2 DEF Waits
    <3> QED
      BY <1>1, <1>2, <3>1, <3>2
  <2>2. Waits(q, r) => Waits(p, r)
    BY <1>1, <1>2 DEF Waits
  <2>3. x[1] # "close" /\ r = x[2] => Waits(p, r)
    BY <1>1, <1>2 DEF Waits
  <2> QED
    BY <2>1, <2>2, <2>3
<1> QED
  BY <1>3, <1>4 DEF p

\* The request that is taken waited only once.
LEMMA TailWait ==
  ASSUME NEW S, NEW q \in Seq(S), q # << >>, WaitOnce(q)
  PROVE  /\ WaitOnce(Tail(q))
         /\ \A r : Waits(Tail(q), r) => Waits(q, r)
         /\ Head(q)[1] # "close" => Waits(q, Head(q)[2]) /\ ~ Waits(Tail(q), Head(q)[2])
<1>1. /\ Len(Tail(q)) = Len(q) - 1 /\ Head(q) = q[1] /\ 1 \in 1 .. Len(q)
      /\ \A i \in 1 .. Len(Tail(q)) : Tail(q)[i] = q[i + 1]
  BY HeadTailProperties
<1>2. /\ \A i \in 1 .. Len(Tail(q)) : i + 1 \in 1 .. Len(q) /\ i + 1 # 1
      /\ \A i, j \in 1 .. Len(Tail(q)) : i + 1 = j + 1 => i = j
  BY <1>1
<1> DEFINE t == Tail(q)
<1>3. WaitOnce(t) /\ \A r : Waits(t, r) => Waits(q, r)
  BY <1>1, <1>2 DEF Waits, WaitOnce
<1>4. Head(q)[1] # "close" => Waits(q, Head(q)[2]) /\ ~ Waits(t, Head(q)[2])
  BY <1>1, <1>2 DEF Waits, WaitOnce
<1> QED
  BY <1>3, <1>4

\* The number of copies.
LEMMA CountCopies ==
  ASSUME NEW S, NEW q \in Seq(S), NEW r,
         \A i, j \in 1 .. Len(q) : q[i] = r /\ q[j] = r => i = j
  PROVE  Copies(q, r) = IF In(q, r) THEN 1 ELSE 0
<1> DEFINE at == {i \in 1 .. Len(q) : q[i] = r}
<1>1. Copies(q, r) = Cardinality(at)
  BY DEF Copies
<1>2. CASE In(q, r)
  <2>1. PICK i \in 1 .. Len(q) : q[i] = r
    BY <1>2 DEF In
  <2>2. at = {i}
    BY <2>1
  <2> QED
    BY <1>1, <1>2, <2>2, FS_Singleton
<1>3. CASE ~ In(q, r)
  <2>1. at = {}
    BY <1>3 DEF In
  <2> QED
    BY <1>1, <1>3, <2>1, FS_EmptySet
<1> QED
  BY <1>2, <1>3

-----------------------------------------------------------------------------
(* The replies: what a step may do to them. *)

LineSame == \A c \in Conns : Line(c)' = Line(c)

OutSame    == LineSame /\ UNCHANGED <<sbuffer, replied>>
Replies(h) == /\ LineSame /\ Owes(h)
              /\ sbuffer' = Append(sbuffer, <<"s", hreq[h]>>) /\ replied' = replied \cup {hreq[h]}
Orders     == LineSame /\ UNCHANGED replied
              /\ \E r \in Requests : sbuffer' = Append(sbuffer, <<"c", r>>)

\* A reply is thrown away only when its connection is no more in the list, ...
Drops == /\ LineSame /\ UNCHANGED replied
         /\ sbuffer # << >> /\ sbuffer' = Tail(sbuffer)
         /\ Head(sbuffer)[1] = "s" =>
              \A c \in Conns : origin[Head(sbuffer)[2]] = c => ~ Listed(c)

\* ... put behind those of its own connection if it is, ...
Moves(c) == /\ sbuffer # << >> /\ sbuffer' = Tail(sbuffer) /\ UNCHANGED replied
            /\ Head(sbuffer)[1] = "s"
            /\ Line(c)' = Append(Line(c), Head(sbuffer)[2])
            /\ \A d \in Conns \ {c} : Line(d)' = Line(d)
            /\ \A d \in Conns : origin[Head(sbuffer)[2]] = d /\ Listed(d) => d = c

\* ... and lost with what is left in the buffer when its connection goes.
Cuts(c) == /\ UNCHANGED <<sbuffer, replied>>
           /\ Line(c)' = got[c] /\ ~ Listed(c)'
           /\ \A d \in Conns \ {c} : Line(d)' = Line(d)

\* In which order three parts are joined makes no difference.
LEMMA Regroup ==
  \A p, q, t \in Seq(Requests) : (p \o q) \o t = p \o (q \o t)
BY ConcatAssociative

\* One more behind both is one more behind the second.
LEMMA OneBehind ==
  ASSUME NEW p \in Seq(Requests), NEW q \in Seq(Requests), NEW r \in Requests
  PROVE  p \o Append(q, r) = Append(p \o q, r)
<1>1. Append(q, r) = q \o <<r>> /\ <<r>> \in Seq(Requests)
  BY AppendIsConcat
<1>2. Append(p \o q, r) = (p \o q) \o <<r>>
  <2>1. p \o q \in Seq(Requests)
    BY ConcatProperties
  <2> QED
    BY <2>1, AppendIsConcat
<1>3. (p \o q) \o <<r>> = p \o (q \o <<r>>)
  BY <1>1, Regroup
<1> QED
  BY <1>1, <1>2, <1>3, Zenon

\* The part that is sent and the part that is left are the whole.
LEMMA Halves ==
  ASSUME NEW S, NEW q \in Seq(S), NEW n \in 0 .. Len(q)
  PROVE  SubSeq(q, 1, n) \o SubSeq(q, n + 1, Len(q)) = q
<1>1. 1 \in 1 .. Len(q) + 1 /\ n \in 1 - 1 .. Len(q) /\ Len(q) \in n .. Len(q)
  OBVIOUS
<1>2. \A m \in 1 .. Len(q) + 1 : \A k \in m - 1 .. Len(q) : \A l \in k .. Len(q) :
        SubSeq(q, m, k) \o SubSeq(q, k + 1, l) = SubSeq(q, m, l)
  BY ConcatAdjacentSubSeq
<1>3. SubSeq(q, 1, n) \o SubSeq(q, n + 1, Len(q)) = SubSeq(q, 1, Len(q))
  BY <1>1, <1>2, Zenon
<1> QED
  BY <1>3, SubSeqFull

\* What a peer has got and what is in its buffer, one after the other.
LEMMA LineTyped ==
  ASSUME Base, NEW c \in Conns
  PROVE  /\ Line(c) \in Seq(Requests)
         /\ got[c] \in Seq(Requests) /\ unsent[c] \in Seq(Requests)
BY ConcatProperties DEF Line, Base, Typed, TypeOK

\* sendBuffer() loses nothing and sends nothing twice.
LEMMA SendKeepsLine ==
  ASSUME Base, NEW c \in Conns, NEW buf \in Seq(Requests), NEW back, SendBuffer(c, buf, back)
  PROVE  Line(c)' = got[c] \o buf /\ \A d \in Conns \ {c} : Line(d)' = Line(d)
<1>0. /\ got \in [Conns -> Seq(Requests)] /\ unsent \in [Conns -> Seq(Requests)]
      /\ got[c] \in Seq(Requests)
  BY DEF Base, Typed, TypeOK
<1>1. ASSUME NEW n \in 0 .. Len(buf),
             got' = [got EXCEPT ![c] = @ \o SubSeq(buf, 1, n)],
             unsent' = [unsent EXCEPT ![c] = Left(buf, n)]
      PROVE  Line(c)' = got[c] \o buf /\ \A d \in Conns \ {c} : Line(d)' = Line(d)
  <2>1. Left(buf, n) = SubSeq(buf, n + 1, Len(buf))
    BY DEF Left
  <2>2. /\ SubSeq(buf, 1, n) \in Seq(Requests) /\ SubSeq(buf, n + 1, Len(buf)) \in Seq(Requests)
        /\ SubSeq(buf, 1, n) \o SubSeq(buf, n + 1, Len(buf)) = buf
    <3>1. /\ Len(buf) \in Nat /\ n \in Nat /\ 1 <= n + 1 /\ n <= Len(buf)
      OBVIOUS
    <3>2. SubSeq(buf, 1, n) \in Seq(Requests)
      <4>1. \A i \in 1 .. n : buf[i] \in Requests
        BY <3>1
      <4> QED
        BY <3>1, <4>1, SubSeqProperties
    <3>4. SubSeq(buf, n + 1, Len(buf)) \in Seq(Requests)
      <4>1. n + 1 \in Int /\ Len(buf) \in Int /\ \A i \in n + 1 .. Len(buf) : buf[i] \in Requests
        BY <3>1
      <4>2. ASSUME NEW m \in Int, \A i \in m .. Len(buf) : buf[i] \in Requests
            PROVE  SubSeq(buf, m, Len(buf)) \in Seq(Requests)
        BY <4>1, <4>2, SubSeqProperties
      <4> QED
        BY <4>1, <4>2, Zenon
    <3> QED
      BY <3>2, <3>4, Halves
  <2>3. /\ Line(c)' = (got[c] \o SubSeq(buf, 1, n)) \o SubSeq(buf, n + 1, Len(buf))
        /\ \A d \in Conns \ {c} : Line(d)' = Line(d)
    <3>1. /\ got'[c] = got[c] \o SubSeq(buf, 1, n) /\ unsent'[c] = Left(buf, n)
          /\ \A d \in Conns \ {c} : got'[d] = got[d] /\ unsent'[d] = unsent[d]
      BY <1>0, <1>1
    <3> QED
      BY <2>1, <3>1, Zenon DEF Line
  <2>4. (got[c] \o SubSeq(buf, 1, n)) \o SubSeq(buf, n + 1, Len(buf)) = got[c] \o buf
    <3>1. \A p, t \in Seq(Requests) : (got[c] \o p) \o t = got[c] \o (p \o t)
      BY <1>0, Regroup, Zenon
    <3>2. (got[c] \o SubSeq(buf, 1, n)) \o SubSeq(buf, n + 1, Len(buf))
          = got[c] \o (SubSeq(buf, 1, n) \o SubSeq(buf, n + 1, Len(buf)))
      BY <2>2, <3>1, Zenon
    <3> QED
      BY <2>2, <3>2, Zenon
  <2> QED
    BY <2>3, <2>4
<1> QED
  BY <1>1 DEF SendBuffer

\* An order to send moves the reply to the buffer of its connection, or drops it.
LEMMA PipeOut ==
  ASSUME Base, Pipe
  PROVE  Drops \/ \E c \in Conns : Moves(c)
<1>0. /\ slot \in [Slots -> Conns \cup {NoConn}] /\ ListInv /\ SentKnown
      /\ sbuffer \in Seq({"s", "c"} \X Requests) /\ sbuffer # << >>
  BY DEF Base, Typed, TypeOK, KnownInv, Pipe
<1> DEFINE cmd == Head(sbuffer)[1]
           r == Head(sbuffer)[2]
           c == slot[uid[origin[r]]]
<1>1. r \in Requests /\ Known(r)
  <2>1. Head(sbuffer) = sbuffer[1] /\ 1 \in 1 .. Len(sbuffer)
    BY <1>0
  <2> QED
    BY <1>0, <2>1 DEF SentKnown, Known
<1>2. c \in Conns \cup {NoConn}
  BY <1>0, <1>1 DEF Known
<1>3. \A d \in Conns : origin[r] = d /\ Listed(d) => d = c
  BY <1>0, ServerAssumption DEF Listed, ListInv
<1>4. sbuffer' = Tail(sbuffer) /\ UNCHANGED replied
  BY DEF Pipe
<1>5. \/ c = NoConn /\ UNCHANGED <<unsent, got>>
      \/ c # NoConn /\ cmd = "c" /\ UNCHANGED <<unsent, got>>
      \/ c # NoConn /\ cmd = "s" /\ SendBuffer(c, Append(unsent[c], r), "pipe")
  BY DEF Pipe
<1> HIDE DEF c, r, cmd
<1>6. CASE c = NoConn /\ UNCHANGED <<unsent, got>>
  BY <1>0, <1>3, <1>4, <1>6, ServerAssumption DEF Drops, LineSame, Line, r
<1>7. CASE c # NoConn /\ cmd = "c" /\ UNCHANGED <<unsent, got>>
  BY <1>0, <1>4, <1>7 DEF Drops, LineSame, Line, cmd
<1>8. ASSUME NEW d \in Conns, d = c, cmd = "s", SendBuffer(d, Append(unsent[d], r), "pipe")
      PROVE  Moves(d)
  <2>1. got[d] \in Seq(Requests) /\ unsent[d] \in Seq(Requests) /\ Line(d) \in Seq(Requests)
    BY LineTyped
  <2>2. Append(unsent[d], r) \in Seq(Requests)
    BY <1>1, <2>1, AppendProperties
  <2>3. Line(d)' = got[d] \o Append(unsent[d], r) /\ \A e \in Conns \ {d} : Line(e)' = Line(e)
    BY <1>8, <2>2, SendKeepsLine
  <2>4. got[d] \o Append(unsent[d], r) = Append(Line(d), r)
    <3>1. got[d] \o Append(unsent[d], r) = Append(got[d] \o unsent[d], r)
      BY <1>1, <2>1, OneBehind
    <3> QED
      BY <3>1 DEF Line
  <2> QED
    BY <1>0, <1>3, <1>4, <1>8, <2>3, <2>4 DEF Moves, r, cmd
<1> QED
  BY <1>2, <1>5, <1>6, <1>7, <1>8

\* What a step may do to the replies on their way.
LEMMA OutStep ==
  ASSUME Base, [Next]_vars
  PROVE  \/ OutSame \/ Orders \/ Drops
         \/ \E h \in Handles : Replies(h)
         \/ \E c \in Conns : Moves(c) \/ Cuts(c)
<1>1. CASE Main
  BY <1>1 DEF Main, Accept, GetUniqId, AddToList, AddToEpoll, AfterAdd, queues, conns,
              OutSame, LineSame, Line
<1>2. CASE Deleted
  <2>1. netConn \in Conns /\ unsent \in [Conns -> Seq(Requests)] /\ got \in [Conns -> Seq(Requests)]
    BY <1>2 DEF Deleted, Base, Typed, NetInv, TypeOK
  <2> SUFFICES ASSUME NEW c \in Conns, c = netConn
               PROVE  Cuts(c)
    BY <2>1
  <2>2. unsent' = [unsent EXCEPT ![c] = << >>] /\ UNCHANGED <<got, sbuffer, replied>>
        /\ netPc = "del" /\ netPc' # "del"
    BY <1>2 DEF Deleted, queues, Base, Typed, TypeOK
  <2>3. ~ Listed(c)'
    BY <2>2, DeletionEnds
  <2>4. got[c] \o << >> = got[c]
    BY <2>1, ConcatEmptySeq
  <2> QED
    BY <2>1, <2>2, <2>3, <2>4 DEF Cuts, Line
<1>3. CASE CheckTimeout \/ PipeEvent \/ ResetSignal \/ PipeDone
  BY <1>3 DEF CheckTimeout, PipeEvent, ResetSignal, PipeDone, queues, conns, OutSame, LineSame, Line
<1>4. CASE Pipe
  BY <1>4, PipeOut
<1>5. ASSUME NEW c \in Conns, ReadRequest(c) \/ PeerCloses(c)
      PROVE  OutSame
  BY <1>5 DEF ReadRequest, PeerCloses, conns, OutSame, LineSame, Line
<1>6. ASSUME NEW c \in Conns, Writable(c)
      PROVE  OutSame
  <2>1. Line(c)' = got[c] \o unsent[c] /\ \A d \in Conns \ {c} : Line(d)' = Line(d)
    BY <1>6, LineTyped, SendKeepsLine DEF Writable
  <2> QED
    BY <1>6, <2>1 DEF Writable, OutSame, LineSame, Line
<1>7. ASSUME NEW h \in Handles, Handle(h)
      PROVE  OutSame \/ Orders \/ Replies(h)
  <2>1. CASE Take(h) \/ NoReply(h) \/ CheckSignal(h) \/ SetSignal(h) \/ Notify(h)
    BY <2>1 DEF Take, NoReply, CheckSignal, SetSignal, Notify, queues, conns, OutSame, LineSame, Line
  <2>2. CASE Reply(h)
    BY <2>2 DEF Reply, conns, Replies, LineSame, Line, Owes
  <2>3. CASE Close(h)
    <3>1. hreq[h] \in Requests
      BY <2>3 DEF Close, Base, Typed, KnownInv, HeldKnown, Known
    <3> QED
      BY <2>3, <3>1 DEF Close, conns, Orders, LineSame, Line
  <2> QED
    BY <1>7, <2>1, <2>2, <2>3 DEF Handle
<1>8. CASE UNCHANGED vars
  BY <1>8 DEF vars, queues, conns, OutSame, LineSame, Line
<1> QED
  BY <1>1, <1>2, <1>3, <1>4, <1>5, <1>6, <1>7, <1>8 DEF Next, Loop, Event

\* A reply goes to the network thread once, and from there to one connection, once.
LEMMA OutInvStep ==
  ASSUME Base, [Next]_vars, OutInv, PendInv
  PROVE  OutInv'
<1>0. /\ sbuffer \in Seq({"s", "c"} \X Requests) /\ replied \subseteq Requests
      /\ \A c \in Conns : Line(c) \in Seq(Requests)
  BY LineTyped DEF Base, Typed, TypeOK
<1>1. /\ \A c \in Conns : Once(Line(c))
      /\ \A c, d \in Conns, r \in Requests : In(Line(c), r) /\ In(Line(d), r) => c = d
      /\ Apart(sbuffer)
      /\ \A c \in Conns, r \in Requests :
           In(Line(c), r) => ~ In(sbuffer, <<"s", r>>) /\ r \in replied
      /\ \A r \in Requests : In(sbuffer, <<"s", r>>) => r \in replied
  BY DEF OutInv, InSent
<1> SUFFICES
      /\ \A c \in Conns : Once(Line(c)')
      /\ \A c, d \in Conns, r \in Requests : In(Line(c)', r) /\ In(Line(d)', r) => c = d
      /\ Apart(sbuffer')
      /\ \A c \in Conns, r \in Requests :
           In(Line(c)', r) => ~ In(sbuffer', <<"s", r>>) /\ r \in replied'
      /\ \A r \in Requests : In(sbuffer', <<"s", r>>) => r \in replied'
  BY DEF OutInv, InSent, Once, In, Apart
<1>3. CASE OutSame
  BY <1>1, <1>3 DEF OutSame, LineSame
<1>4. CASE Orders
  <2>1. PICK q \in Requests : sbuffer' = Append(sbuffer, <<"c", q>>)
    BY <1>4 DEF Orders
  <2>2. \A r \in Requests : In(sbuffer', <<"s", r>>) <=> In(sbuffer, <<"s", r>>)
    BY <1>0, <2>1, OrderAdded
  <2>3. Apart(sbuffer')
    BY <1>0, <1>1, <2>1, AppendApart
  <2> QED
    BY <1>1, <1>4, <2>2, <2>3 DEF Orders, LineSame
<1>5. CASE \E h \in Handles : Replies(h)
  <2>0. PICK h \in Handles : Replies(h)
    BY <1>5
  <2>1. hreq[h] \in Requests /\ hreq[h] \notin replied
    BY <2>0 DEF Replies, PendInv, Base, Typed, KnownInv, HeldKnown, Known
  <2>2. PICK q \in Requests : q = hreq[h]
    BY <2>1
  <2>3. sbuffer' = Append(sbuffer, <<"s", q>>) /\ replied' = replied \cup {q} /\ LineSame
    BY <2>0, <2>2 DEF Replies
  <2>4. \A r \in Requests : In(sbuffer', <<"s", r>>) <=> In(sbuffer, <<"s", r>>) \/ r = q
    BY <1>0, <2>3, OrderAdded
  <2>5. Apart(sbuffer')
    BY <1>0, <1>1, <2>1, <2>2, <2>3, AppendApart
  <2> QED
    BY <1>1, <2>1, <2>2, <2>3, <2>4, <2>5 DEF LineSame
<1>6. ASSUME sbuffer # << >>, sbuffer' = Tail(sbuffer)
      PROVE  /\ Apart(sbuffer')
             /\ \A r \in Requests : In(sbuffer', <<"s", r>>) => In(sbuffer, <<"s", r>>)
             /\ Head(sbuffer)[1] = "s" =>
                  /\ Head(sbuffer)[2] \in Requests
                  /\ In(sbuffer, <<"s", Head(sbuffer)[2]>>)
                  /\ ~ In(sbuffer', <<"s", Head(sbuffer)[2]>>)
  <2>1. Apart(sbuffer') /\ (Head(sbuffer)[1] = "s" => ~ In(sbuffer', Head(sbuffer)))
    BY <1>0, <1>1, <1>6, TailApart
  <2>2. /\ Head(sbuffer) \in {"s", "c"} \X Requests /\ In(sbuffer, Head(sbuffer))
        /\ \A y : In(sbuffer, y) <=> y = Head(sbuffer) \/ In(sbuffer', y)
    BY <1>0, <1>6, TailOnce
  <2>3. Head(sbuffer)[1] = "s" => Head(sbuffer) = <<"s", Head(sbuffer)[2]>>
    BY <2>2
  <2> QED
    BY <2>1, <2>2, <2>3
<1>7. CASE Drops
  BY <1>1, <1>6, <1>7 DEF Drops, LineSame
<1>8. CASE \E c \in Conns : Moves(c)
  <2>0. PICK c \in Conns : Moves(c)
    BY <1>8
  <2>1. PICK q \in Requests : q = Head(sbuffer)[2]
    BY <1>6, <2>0 DEF Moves
  <2>2. In(sbuffer, <<"s", q>>) /\ ~ In(sbuffer', <<"s", q>>)
    BY <1>6, <2>0, <2>1 DEF Moves
  <2>3. /\ Line(c)' = Append(Line(c), q) /\ \A d \in Conns \ {c} : Line(d)' = Line(d)
        /\ UNCHANGED replied
    BY <2>0, <2>1 DEF Moves
  <2>4. \A d \in Conns : ~ In(Line(d), q)
    BY <1>1, <2>2
  <2>5. /\ \A y : In(Line(c)', y) <=> In(Line(c), y) \/ y = q
        /\ Once(Line(c)')
    BY <1>0, <1>1, <2>3, <2>4, AppendOnce
  <2>6. \A d \in Conns, y \in Requests : In(Line(d)', y) => In(Line(d), y) \/ (d = c /\ y = q)
    BY <2>3, <2>5
  <2>7. Apart(sbuffer') /\ \A r \in Requests : In(sbuffer', <<"s", r>>) => In(sbuffer, <<"s", r>>)
    BY <1>6, <2>0 DEF Moves
  <2>8. \A d \in Conns : Once(Line(d)')
    BY <1>1, <2>3, <2>5
  <2>9. \A d, e \in Conns, r \in Requests : In(Line(d)', r) /\ In(Line(e)', r) => d = e
    BY <1>1, <2>4, <2>6
  <2>10. \A r \in Requests : In(sbuffer', <<"s", r>>) => r \in replied'
    BY <1>1, <2>3, <2>7
  <2>11. ASSUME NEW d \in Conns, NEW r \in Requests, In(Line(d)', r)
         PROVE  ~ In(sbuffer', <<"s", r>>) /\ r \in replied'
    <3>1. CASE In(Line(d), r)
      BY <1>1, <2>3, <2>7, <3>1
    <3>2. CASE r = q
      BY <1>1, <2>2, <2>3, <3>2
    <3> QED
      BY <2>6, <2>11, <3>1, <3>2
  <2> QED
    BY <2>7, <2>8, <2>9, <2>10, <2>11
<1>9. CASE \E c \in Conns : Cuts(c)
  <2>0. PICK c \in Conns : Cuts(c)
    BY <1>9
  <2>1. (\A y : In(got[c], y) => In(Line(c), y)) /\ Once(got[c])
    BY <1>1, LineTyped, FrontOnce DEF Line
  <2> QED
    BY <1>1, <2>0, <2>1 DEF Cuts
<1> QED
  BY <1>3, <1>4, <1>5, <1>7, <1>8, <1>9, OutStep

-----------------------------------------------------------------------------
(* The requests that may still be replied to. *)

\* What a step may do to the handlers: one has less to do, ...
LessToDo ==
  /\ Same /\ UNCHANGED replied
  /\ \A g \in Handles :
       Owes(g)' => /\ Owes(g) /\ hreq'[g] = hreq[g]
                   /\ hpc'[g] = hpc[g] \/ hpc'[g] \notin {"idle", "absent"}

\* ... replies, or takes a request.
NowReplied(h) ==
  /\ Same /\ Owes(h) /\ ~ Owes(h)' /\ replied' = replied \cup {hreq[h]}
  /\ \A g \in Handles \ {h} : (Owes(g)' <=> Owes(g)) /\ hreq'[g] = hreq[g] /\ hpc'[g] = hpc[g]

Taken(h) ==
  /\ Popped /\ UNCHANGED replied
  /\ Head(recvQ)[1] # "close" /\ hreq'[h] = Head(recvQ)[2]
  /\ hpc'[h] = "taken"
  /\ \A g \in Handles \ {h} : (Owes(g)' <=> Owes(g)) /\ hreq'[g] = hreq[g] /\ hpc'[g] = hpc[g]

\* A handler goes on, or is through with its request.
LEMMA LessFor ==
  ASSUME Base, NEW h \in Handles, NEW l \in {"idle", "check", "set", "notify", "act"},
         Same, UNCHANGED replied, Go(h, l),
         todo \in [Handles -> SUBSET {"reply", "close"}],
         todo' \in [Handles -> SUBSET {"reply", "close"}],
         todo'[h] \subseteq todo[h], \A g \in Handles \ {h} : todo'[g] = todo[g],
         \/ l # "idle" /\ UNCHANGED hreq
         \/ todo'[h] = {} /\ hreq' = [hreq EXCEPT ![h] = NoReq]
  PROVE  LessToDo
<1>0. /\ hpc \in [Handles -> {"idle", "taken", "check", "set", "notify", "act", "absent"}]
      /\ hreq \in [Handles -> Requests \cup {NoReq}]
  BY DEF Base, Typed, TypeOK
<1>1. hpc'[h] = l /\ \A g \in Handles \ {h} : hpc'[g] = hpc[g] /\ hreq'[g] = hreq[g]
  BY <1>0 DEF Go
<1>2. ASSUME Owes(h)'
      PROVE  Owes(h) /\ hreq'[h] = hreq[h] /\ hpc'[h] \notin {"idle", "absent"}
  <2>1. "reply" \in todo'[h]
    BY <1>1, <1>2 DEF Owes
  <2> QED
    BY <1>0, <1>1, <2>1 DEF Owes
<1>3. ASSUME NEW g \in Handles \ {h}, Owes(g)'
      PROVE  Owes(g) /\ hreq'[g] = hreq[g]
  BY <1>1, <1>3 DEF Owes
<1> QED
  BY <1>1, <1>2, <1>3 DEF LessToDo

\* What a step may do to the handlers.
LEMMA HandlersStep ==
  ASSUME Base, [Next]_vars
  PROVE  \/ UNCHANGED <<handles, replied>>
         \/ LessToDo
         \/ \E h \in Handles : NowReplied(h) \/ Taken(h)
<1>0. /\ hpc \in [Handles -> {"idle", "taken", "check", "set", "notify", "act", "absent"}]
      /\ hreq \in [Handles -> Requests \cup {NoReq}]
      /\ todo \in [Handles -> SUBSET {"reply", "close"}]
  BY DEF Base, Typed, TypeOK
<1>1. CASE Main
  BY <1>1 DEF Main, Accept, GetUniqId, AddToList, AddToEpoll, AfterAdd, handles
<1>2. CASE Loop
  BY <1>2 DEF Loop, Deleted, CheckTimeout, PipeEvent, ResetSignal, Pipe, PipeDone, handles
<1>3. ASSUME NEW c \in Conns, Event(c)
      PROVE  UNCHANGED <<handles, replied>>
  BY <1>3 DEF Event, ReadRequest, PeerCloses, Writable, handles
<1>4. ASSUME NEW h \in Handles, Handle(h)
      PROVE  UNCHANGED <<handles, replied>> \/ LessToDo \/ NowReplied(h) \/ Taken(h)
  <2>1. CASE Take(h)
    <3>1. CASE Head(recvQ)[1] = "close"
      BY <2>1, <3>1 DEF Take
    <3>2. CASE Head(recvQ)[1] # "close"
      BY <1>0, <2>1, <3>2 DEF Take, Go, Taken, Popped, Owes
    <3> QED
      BY <3>1, <3>2
  <2>2. CASE Reply(h)
    BY <1>0, <2>2 DEF Reply, Go, queues, Same, NowReplied, Owes
  <2>3. CASE NoReply(h)
    BY <1>0, <2>3, LessFor DEF NoReply, Leave, queues, Same
  <2>4. CASE Close(h)
    <3>1. /\ todo' = [todo EXCEPT ![h] = @ \ {"close"}] /\ Go(h, "notify")
          /\ UNCHANGED <<recvQ, origin, hreq, replied>>
      BY <2>4 DEF Close
    <3>2. /\ todo'[h] \subseteq todo[h] /\ \A g \in Handles \ {h} : todo'[g] = todo[g]
          /\ todo' \in [Handles -> SUBSET {"reply", "close"}]
      BY <1>0, <3>1
    <3> QED
      BY <1>0, <3>1, <3>2, LessFor DEF Same
  <2>5. ASSUME Done(h), UNCHANGED <<recvQ, origin, replied, todo>>
        PROVE  LessToDo
    BY <1>0, <2>5, LessFor DEF Done, Leave, Same
  <2>6. CASE CheckSignal(h)
    <3>1. CASE signal
      BY <2>5, <2>6, <3>1 DEF CheckSignal, queues
    <3>2. CASE ~ signal
      BY <1>0, <2>6, <3>2, LessFor DEF CheckSignal, queues, Same
    <3> QED
      BY <3>1, <3>2
  <2>7. CASE SetSignal(h)
    BY <1>0, <2>7, LessFor DEF SetSignal, Same
  <2>8. CASE Notify(h)
    BY <2>5, <2>8 DEF Notify
  <2> QED
    BY <1>4, <2>1, <2>2, <2>3, <2>4, <2>6, <2>7, <2>8 DEF Handle
<1>5. CASE UNCHANGED vars
  BY <1>5 DEF vars
<1> QED
  BY <1>1, <1>2, <1>3, <1>4, <1>5 DEF Next

\* Where a request comes from does not change.
LEMMA OriginStep ==
  ASSUME Base, [Next]_vars, OriginPast
  PROVE  /\ OriginPast'
         /\ \A r \in Requests : origin[r] # NoConn => origin'[r] = origin[r]
<1>0. origin \in [Requests -> Conns \cup {NoConn}]
  BY DEF Base, Typed, TypeOK
<1>1. \A r \in Requests, c \in Conns : origin[r] = c => Past(c)'
  BY PastStays DEF OriginPast
<1>2. CASE UNCHANGED origin
  BY <1>1, <1>2 DEF OriginPast
<1>3. ASSUME NEW c \in Conns, NEW r \in Requests, Read(c, r)
      PROVE  /\ OriginPast'
             /\ \A q \in Requests : origin[q] # NoConn => origin'[q] = origin[q]
  <2>1. Past(c)'
    BY <1>3, ListedPast, PastStays DEF Read
  <2>2. /\ origin'[r] = c /\ origin[r] = NoConn
        /\ \A q \in Requests \ {r} : origin'[q] = origin[q]
    BY <1>0, <1>3 DEF Read
  <2> QED
    BY <1>1, <2>1, <2>2 DEF OriginPast
<1> QED
  BY <1>2, <1>3, QueueStep DEF Same, Popped, Told

\* A request may be replied to by one handler, which has it, or will be by the one
\* that takes it from the queue.
LEMMA PendInvStep ==
  ASSUME Base, [Next]_vars, OriginPast, PendInv
  PROVE  PendInv'
<1>0. /\ recvQ \in Seq(Items) /\ RecvKnown /\ HeldKnown
      /\ origin \in [Requests -> Conns \cup {NoConn}] /\ replied \subseteq Requests
  BY DEF Base, Typed, TypeOK, Items, KnownInv
<1>1. /\ WaitOnce(recvQ)
      /\ \A r \in Requests : Waits(recvQ, r) => r \notin replied /\ origin[r] # NoConn
      /\ \A h \in Handles : Owes(h) => /\ hpc[h] \notin {"idle", "absent"}
                                      /\ hreq[h] \in Requests /\ origin[hreq[h]] # NoConn
                                      /\ hreq[h] \notin replied /\ ~ Waits(recvQ, hreq[h])
      /\ \A h, g \in Handles : Owes(h) /\ Owes(g) /\ hreq[h] = hreq[g] => h = g
      /\ \A r \in replied : origin[r] # NoConn
  <2>1. \A r \in Requests : Waits(recvQ, r) => origin[r] # NoConn
    BY <1>0, ServerAssumption DEF Waits, RecvKnown, Known
  <2>2. \A h \in Handles : Owes(h) => hreq[h] \in Requests /\ origin[hreq[h]] # NoConn
    BY <1>0, ServerAssumption DEF PendInv, HeldKnown, Known
  <2> QED
    BY <2>1, <2>2 DEF PendInv
<1>2. /\ \A r \in Requests : origin[r] # NoConn => origin'[r] # NoConn
      /\ \A r \in replied : origin'[r] # NoConn
  BY <1>0, <1>1, OriginStep
<1> SUFFICES
      /\ WaitOnce(recvQ')
      /\ \A r \in Requests : Waits(recvQ', r) => r \notin replied'
      /\ \A h \in Handles : Owes(h)' => /\ hpc'[h] \notin {"idle", "absent"}
                                       /\ hreq'[h] \notin replied' /\ ~ Waits(recvQ', hreq'[h])
      /\ \A h, g \in Handles : Owes(h)' /\ Owes(g)' /\ hreq'[h] = hreq'[g] => h = g
      /\ \A r \in replied' : origin'[r] # NoConn
  BY DEF PendInv, Waits, WaitOnce
<1>3. CASE UNCHANGED <<handles, replied>>
  <2>1. \A h \in Handles : (Owes(h)' <=> Owes(h)) /\ hreq'[h] = hreq[h] /\ hpc'[h] = hpc[h]
    BY <1>3 DEF handles, Owes
  <2>2. /\ WaitOnce(recvQ')
        /\ \A r \in Requests : Waits(recvQ', r) => Waits(recvQ, r) \/ origin[r] = NoConn
    <3>1. CASE Same
      BY <1>1, <3>1 DEF Same
    <3>2. CASE Popped
      BY <1>0, <1>1, <3>2, TailWait DEF Popped
    <3>3. CASE \E c \in Conns : Told(c)
      <4>1. PICK c \in Conns : Told(c)
        BY <3>3
      <4>2. /\ recvQ' = Append(recvQ, <<"close", c>>) /\ <<"close", c>> \in Items
            /\ <<"close", c>>[1] = "close"
        BY <4>1 DEF Told, Items
      <4> QED
        BY <1>0, <1>1, <4>2, AppendWait
    <3>4. CASE \E c \in Conns, r \in Requests : Read(c, r)
      <4>1. PICK c \in Conns, r \in Requests : Read(c, r)
        BY <3>4
      <4>2. CASE UNCHANGED recvQ
        BY <1>1, <4>2
      <4>3. ASSUME NEW k \in {"req", "over"}, recvQ' = Append(recvQ, <<k, r>>)
            PROVE  /\ WaitOnce(recvQ')
                   /\ \A q \in Requests : Waits(recvQ', q) => Waits(recvQ, q) \/ q = r
        <5>1. <<k, r>> \in Items /\ <<k, r>>[1] # "close" /\ <<k, r>>[2] = r
          BY DEF Items
        <5>2. ~ Waits(recvQ, r)
          BY <1>1, <4>1 DEF Read
        <5> QED
          BY <1>0, <1>1, <4>3, <5>1, <5>2, AppendWait
      <4> QED
        BY <4>1, <4>2, <4>3 DEF Read
    <3> QED
      BY <3>1, <3>2, <3>3, <3>4, QueueStep
  <2>3. replied' = replied
    BY <1>3
  <2>4. \A h \in Handles : Owes(h) => ~ Waits(recvQ', hreq[h])
    BY <1>1, <2>2
  <2> QED
    BY <1>1, <1>2, <2>1, <2>2, <2>3, <2>4
<1>4. CASE LessToDo
  BY <1>1, <1>2, <1>4 DEF LessToDo, Same
<1>5. CASE \E h \in Handles : NowReplied(h)
  BY <1>1, <1>2, <1>5 DEF NowReplied, Same
<1>6. CASE \E h \in Handles : Taken(h)
  <2>0. PICK h \in Handles : Taken(h)
    BY <1>6
  <2>1. /\ WaitOnce(recvQ') /\ \A r : Waits(recvQ', r) => Waits(recvQ, r)
        /\ Waits(recvQ, hreq'[h]) /\ ~ Waits(recvQ', hreq'[h])
    BY <1>0, <1>1, <2>0, TailWait DEF Taken, Popped
  <2>2. hreq'[h] \in Requests
    BY <1>0, <2>1 DEF Waits, RecvKnown, Known
  <2>3. /\ hpc'[h] = "taken" /\ hreq'[h] \notin replied
        /\ \A g \in Handles \ {h} :
             Owes(g)' => /\ Owes(g) /\ hpc'[g] \notin {"idle", "absent"}
                         /\ hreq'[g] = hreq[g] /\ hreq[g] # hreq'[h]
    BY <1>1, <2>0, <2>1, <2>2 DEF Taken
  <2>4. replied' = replied
    BY <2>0 DEF Taken
  <2>5. ASSUME NEW g \in Handles, Owes(g)'
        PROVE  /\ hpc'[g] \notin {"idle", "absent"}
               /\ hreq'[g] \notin replied' /\ ~ Waits(recvQ', hreq'[g])
    BY <1>1, <2>1, <2>3, <2>4, <2>5
  <2>6. ASSUME NEW f \in Handles, NEW g \in Handles, Owes(f)', Owes(g)', hreq'[f] = hreq'[g]
        PROVE  f = g
    BY <1>1, <2>3, <2>6
  <2> QED
    BY <1>1, <1>2, <2>1, <2>4, <2>5, <2>6
<1> QED
  BY <1>3, <1>4, <1>5, <1>6, HandlersStep

-----------------------------------------------------------------------------
(* What was replied is there until it is sent, or its connection is closed. *)

\* Only the buffer of a connection that is deleted is thrown away.
LEMMA KeptStep ==
  ASSUME Base, [Next]_vars, OutInv, OriginPast, PendInv, KeptInv
  PROVE  KeptInv'
<1>0. /\ sbuffer \in Seq({"s", "c"} \X Requests) /\ replied \subseteq Requests
      /\ \A c \in Conns : Line(c) \in Seq(Requests)
  BY LineTyped DEF Base, Typed, TypeOK
<1> SUFFICES ASSUME NEW r \in replied', NEW c \in Conns, origin'[r] = c, Listed(c)'
             PROVE  In(Line(c)', r) \/ In(sbuffer', <<"s", r>>)
  BY DEF KeptInv, InSent, In
<1>1. ASSUME r \in replied
      PROVE  /\ r \in Requests /\ origin[r] = c /\ Listed(c)
             /\ In(Line(c), r) \/ In(sbuffer, <<"s", r>>)
  <2>1. r \in Requests /\ origin[r] = c
    BY <1>0, <1>1, OriginStep DEF PendInv
  <2>2. Listed(c)
    BY <2>1, PastStays DEF OriginPast
  <2> QED
    BY <1>1, <2>1, <2>2 DEF KeptInv, InSent
<1>2. ASSUME NEW h \in Handles, Replies(h)
      PROVE  In(Line(c)', r) \/ In(sbuffer', <<"s", r>>)
  <2>1. hreq[h] \in Requests
    BY <1>2 DEF Replies, PendInv, Base, Typed, KnownInv, HeldKnown, Known
  <2>2. PICK q \in Requests : q = hreq[h]
    BY <2>1
  <2>3. /\ sbuffer' = Append(sbuffer, <<"s", q>>) /\ replied' = replied \cup {q}
        /\ LineSame
    BY <1>2, <2>2 DEF Replies
  <2>4. \A y : In(sbuffer', y) <=> In(sbuffer, y) \/ y = <<"s", q>>
    BY <1>0, <2>3, OrderAdded
  <2> QED
    BY <1>1, <2>3, <2>4 DEF LineSame
<1>3. CASE r \notin replied
  BY <1>2, <1>3, OutStep DEF OutSame, Orders, Drops, Moves, Cuts
<1>4. CASE r \in replied /\ OutSame
  BY <1>1, <1>4 DEF OutSame, LineSame
<1>5. CASE r \in replied /\ Orders
  <2>1. PICK q \in Requests : sbuffer' = Append(sbuffer, <<"c", q>>)
    BY <1>5 DEF Orders
  <2>2. \A y : In(sbuffer, y) => In(sbuffer', y)
    BY <1>0, <2>1, OrderAdded
  <2> QED
    BY <1>1, <1>5, <2>2 DEF Orders, LineSame
<1>6. ASSUME sbuffer # << >>, sbuffer' = Tail(sbuffer), In(sbuffer, <<"s", r>>)
      PROVE  \/ Head(sbuffer)[1] = "s" /\ Head(sbuffer)[2] = r
             \/ In(sbuffer', <<"s", r>>)
  BY <1>0, <1>6, TailOnce
<1>7. CASE r \in replied /\ Drops
  BY <1>1, <1>6, <1>7 DEF Drops, LineSame
<1>8. CASE r \in replied /\ \E d \in Conns : Moves(d)
  <2>1. PICK d \in Conns : Moves(d)
    BY <1>8
  <2>2. Head(sbuffer)[2] \in Requests
    BY <1>0, <2>1, TailOnce DEF Moves
  <2>3. \A y : In(Line(d)', y) <=> In(Line(d), y) \/ y = Head(sbuffer)[2]
    BY <1>0, <2>1, <2>2, AppendOnce DEF Moves
  <2>4. CASE In(Line(c), r)
    BY <2>1, <2>3, <2>4 DEF Moves
  <2>5. CASE In(sbuffer, <<"s", r>>)
    BY <1>1, <1>6, <1>8, <2>1, <2>3, <2>5 DEF Moves
  <2> QED
    BY <1>1, <1>8, <2>4, <2>5
<1>9. CASE r \in replied /\ \E d \in Conns : Cuts(d)
  BY <1>1, <1>9 DEF Cuts
<1> QED
  BY <1>2, <1>3, <1>4, <1>5, <1>7, <1>8, <1>9, OutStep

\* All of it sent.
LEMMA NothingLeft ==
  ASSUME NEW S, NEW q \in Seq(S)
  PROVE  Left(q, Len(q)) = << >>
<1>1. Len(q) + 1 \in Int /\ Len(q) \in Int /\ Len(q) < Len(q) + 1
  OBVIOUS
<1> QED
  BY <1>1, SubSeqEmpty DEF Left

\* An order to close is carried out at once, or when the buffer has been sent.
LEMMA OrderSend ==
  ASSUME Base, NEW c \in Conns, NEW buf \in Seq(Requests), NEW back \in {"wait", "pipe"},
         SendBuffer(c, buf, back)
  PROVE  netPc' = "del" /\ ordered' => unsent'[netConn'] = << >>
<1>0. unsent \in [Conns -> Seq(Requests)]
  BY DEF Base, Typed, TypeOK
<1>1. ASSUME NEW n \in 0 .. Len(buf), n = Len(buf),
             unsent' = [unsent EXCEPT ![c] = Left(buf, n)], netConn' = c
      PROVE  unsent'[netConn'] = << >>
  BY <1>0, <1>1, NothingLeft
<1> QED
  BY <1>1 DEF SendBuffer, Delete, Stays

\* doClose() of an order waits until the buffer is empty.
LEMMA OrderStep ==
  ASSUME Base, [Next]_vars, OrderInv
  PROVE  OrderInv'
<1>0. /\ unsent \in [Conns -> Seq(Requests)] /\ netRet # "del"
  BY DEF Base, Typed, TypeOK
<1>1. CASE Main
  BY <1>1 DEF Main, Accept, GetUniqId, AddToList, AddToEpoll, AfterAdd, net, conns, OrderInv
<1>2. CASE Deleted \/ CheckTimeout \/ PipeEvent \/ ResetSignal \/ PipeDone
  BY <1>0, <1>2 DEF Deleted, CheckTimeout, PipeEvent, ResetSignal, PipeDone, Delete, Stays, OrderInv
<1>3. CASE Pipe
  <2> DEFINE r == Head(sbuffer)[2]
  <2>1. PICK c \in Conns \cup {NoConn} : c = slot[uid[origin[r]]]
    <3>1. sbuffer \in Seq({"s", "c"} \X Requests) /\ sbuffer # << >> /\ SentKnown
      BY <1>3 DEF Pipe, Base, Typed, TypeOK, KnownInv
    <3>2. Head(sbuffer) = sbuffer[1] /\ 1 \in 1 .. Len(sbuffer)
      BY <3>1
    <3>3. uid[origin[r]] \in Slots
      BY <3>1, <3>2 DEF SentKnown, Known
    <3> QED
      BY <3>3 DEF Base, Typed, TypeOK
  <2>2. r \in Requests
    <3>1. sbuffer \in Seq({"s", "c"} \X Requests) /\ sbuffer # << >>
      BY <1>3 DEF Pipe, Base, Typed, TypeOK
    <3>2. Head(sbuffer) \in {"s", "c"} \X Requests
      BY <3>1
    <3> QED
      BY <3>2
  <2>3. \/ Stays("pipe")
        \/ c # NoConn /\ SetClose(c) /\ Delete(c, "pipe", TRUE) /\ UNCHANGED unsent
        \/ c # NoConn /\ SendBuffer(c, Append(unsent[c], r), "pipe")
    <3>1. CASE c = NoConn
      BY <1>3, <2>1, <3>1 DEF Pipe
    <3>2. CASE c # NoConn /\ Head(sbuffer)[1] = "c"
      <4>1. IF SetClose(c) THEN Delete(c, "pipe", TRUE) ELSE Stays("pipe")
        BY <1>3, <2>1, <3>2 DEF Pipe
      <4>2. UNCHANGED unsent
        BY <1>3, <2>1, <3>2 DEF Pipe
      <4> QED
        BY <3>2, <4>1, <4>2
    <3>3. CASE c # NoConn /\ Head(sbuffer)[1] # "c"
      BY <1>3, <2>1, <3>3 DEF Pipe
    <3> QED
      BY <3>1, <3>2, <3>3
  <2> HIDE DEF r
  <2>4. CASE Stays("pipe")
    BY <2>4 DEF Stays, OrderInv
  <2>5. CASE c # NoConn /\ SetClose(c) /\ Delete(c, "pipe", TRUE) /\ UNCHANGED unsent
    BY <2>5 DEF SetClose, Delete, OrderInv
  <2>6. CASE c # NoConn /\ SendBuffer(c, Append(unsent[c], r), "pipe")
    <3>1. c \in Conns /\ Append(unsent[c], r) \in Seq(Requests) /\ netPc # "del"
      BY <1>0, <1>3, <2>2, <2>6, AppendProperties DEF Pipe
    <3> QED
      BY <2>6, <3>1, OrderSend DEF OrderInv
  <2> QED
    BY <2>3, <2>4, <2>5, <2>6
<1>4. ASSUME NEW c \in Conns, ReadRequest(c)
      PROVE  OrderInv'
  BY <1>4 DEF ReadRequest, Reported, net, conns, OrderInv
<1>5. ASSUME NEW c \in Conns, PeerCloses(c)
      PROVE  OrderInv'
  BY <1>5 DEF PeerCloses, Delete, OrderInv
<1>6. ASSUME NEW c \in Conns, Writable(c)
      PROVE  OrderInv'
  BY <1>0, <1>6, OrderSend DEF Writable, Reported, OrderInv
<1>7. ASSUME NEW h \in Handles, Handle(h)
      PROVE  OrderInv'
  BY <1>7 DEF Handle, Take, Reply, NoReply, Close, CheckSignal, SetSignal, Notify, net, conns,
              OrderInv
<1>8. CASE UNCHANGED vars
  BY <1>8 DEF vars, net, conns, OrderInv
<1> QED
  BY <1>1, <1>2, <1>3, <1>4, <1>5, <1>6, <1>7, <1>8 DEF Next, Loop, Event

-----------------------------------------------------------------------------

\* No reply yet.
LEMMA InitReply == Init => ReplyInv
<1> SUFFICES ASSUME Init
             PROVE  ReplyInv
  OBVIOUS
<1>1. /\ sbuffer = << >> /\ recvQ = << >> /\ replied = {} /\ netPc # "del"
      /\ \A c \in Conns : got[c] = << >> /\ unsent[c] = << >>
      /\ \A r \in Requests : origin[r] = NoConn
      /\ \A h \in Handles : ~ Owes(h)
  BY DEF Init, Owes
<1>2. \A c \in Conns : Line(c) = << >>
  BY <1>1 DEF Line
<1>3. \A x : ~ In(<< >>, x)
  BY DEF In
<1>4. Once(<< >>) /\ Apart(<< >>)
  BY DEF Once, Apart
<1>5. OutInv
  BY <1>1, <1>2, <1>3, <1>4 DEF OutInv, InSent
<1>6. PendInv
  BY <1>1 DEF PendInv, WaitOnce, Waits
<1>7. OriginPast
  BY <1>1, ServerAssumption DEF OriginPast
<1>8. KeptInv /\ OrderInv
  BY <1>1 DEF KeptInv, OrderInv
<1> QED
  BY <1>5, <1>6, <1>7, <1>8 DEF ReplyInv

\* The invariants about replies are inductive together.
LEMMA StepReply == Base /\ ReplyInv /\ [Next]_vars => ReplyInv'
BY OutInvStep, OriginStep, PendInvStep, KeptStep, OrderStep DEF ReplyInv

\* They hold always.
LEMMA AlwaysReply == Spec => [](Base /\ ReplyInv)
BY InitBase, StepBase, InitReply, StepReply, PTL DEF Spec

\* How often a reply is on its way.
LEMMA CopiesOut ==
  ASSUME Base, OutInv, NEW r \in Requests
  PROVE  /\ Copies(sbuffer, <<"s", r>>) = IF In(sbuffer, <<"s", r>>) THEN 1 ELSE 0
         /\ \A c \in Conns : Copies(Line(c), r) = IF In(Line(c), r) THEN 1 ELSE 0
<1>1. Copies(sbuffer, <<"s", r>>) = IF In(sbuffer, <<"s", r>>) THEN 1 ELSE 0
  <2>1. sbuffer \in Seq({"s", "c"} \X Requests)
    BY DEF Base, Typed, TypeOK
  <2>2. \A i, j \in 1 .. Len(sbuffer) : sbuffer[i] = <<"s", r>> /\ sbuffer[j] = <<"s", r>> => i = j
    BY DEF OutInv, Apart
  <2> QED
    BY <2>1, <2>2, CountCopies
<1>2. ASSUME NEW c \in Conns
      PROVE  Copies(Line(c), r) = IF In(Line(c), r) THEN 1 ELSE 0
  <2>1. Line(c) \in Seq(Requests)
    BY LineTyped
  <2>2. \A i, j \in 1 .. Len(Line(c)) : Line(c)[i] = r /\ Line(c)[j] = r => i = j
    BY DEF OutInv, Once
  <2> QED
    BY <2>1, <2>2, CountCopies
<1> QED
  BY <1>1, <1>2

\* A peer is given a reply once: no request is handled twice, and no part of a buffer is
\* sent twice, whatever connections are lost and whatever the handlers do.
THEOREM RepliesGoOnce == Spec => []RepliedOnce
<1>1. ASSUME Base, ReplyInv
      PROVE  RepliedOnce
  <2>1. OutInv
    BY <1>1 DEF ReplyInv
  <2> SUFFICES ASSUME NEW r \in Requests, NEW c \in Conns, NEW d \in Conns
               PROVE  /\ Copies(Line(c), r) + Copies(sbuffer, <<"s", r>>) <= 1
                      /\ c # d => Copies(Line(c), r) + Copies(Line(d), r) <= 1
    BY DEF RepliedOnce, Line
  <2>2. /\ ~ (In(Line(c), r) /\ In(sbuffer, <<"s", r>>))
        /\ c # d => ~ (In(Line(c), r) /\ In(Line(d), r))
    BY <2>1 DEF OutInv, InSent
  <2>3. /\ Copies(sbuffer, <<"s", r>>) = IF In(sbuffer, <<"s", r>>) THEN 1 ELSE 0
        /\ Copies(Line(c), r) = IF In(Line(c), r) THEN 1 ELSE 0
        /\ Copies(Line(d), r) = IF In(Line(d), r) THEN 1 ELSE 0
    BY <1>1, <2>1, CopiesOut
  <2> QED
    BY <2>2, <2>3
<1> QED
  BY <1>1, AlwaysReply, PTL

\* An order to close a connection is carried out when all that was replied before on it
\* is with the peer, or still to come behind the order.
THEOREM CloseAfterReplies == Spec => ClosedAfterReplies
<1> DEFINE A == Deleted /\ ordered =>
                  /\ unsent[netConn] = << >>
                  /\ \A r \in replied :
                       \/ origin[r] # netConn
                       \/ Copies(got[netConn], r) + Copies(sbuffer, <<"s", r>>) = 1
<1>1. ASSUME Base, ReplyInv, Deleted, ordered
      PROVE  A
  <2>1. netPc = "del" /\ netConn \in Conns /\ uid[netConn] \in Slots /\ slot[uid[netConn]] = netConn
    BY <1>1 DEF Deleted, Base, Typed, NetInv, SlotsInv, DeletedInSlot
  <2>2. unsent[netConn] = << >>
    BY <1>1, <2>1 DEF ReplyInv, OrderInv
  <2>3. Line(netConn) = got[netConn] /\ Listed(netConn)
    BY <1>1, <2>1, <2>2, LineTyped, ConcatEmptySeq DEF Line, Listed
  <2>4. ASSUME NEW r \in replied, origin[r] = netConn
        PROVE  Copies(got[netConn], r) + Copies(sbuffer, <<"s", r>>) = 1
    <3>1. r \in Requests
      BY <1>1 DEF Base, Typed, TypeOK
    <3>2. /\ In(Line(netConn), r) \/ In(sbuffer, <<"s", r>>)
          /\ ~ (In(Line(netConn), r) /\ In(sbuffer, <<"s", r>>))
      BY <1>1, <2>1, <2>3, <2>4, <3>1 DEF ReplyInv, KeptInv, OutInv, InSent
    <3>3. /\ Copies(sbuffer, <<"s", r>>) = IF In(sbuffer, <<"s", r>>) THEN 1 ELSE 0
          /\ Copies(Line(netConn), r) = IF In(Line(netConn), r) THEN 1 ELSE 0
      BY <1>1, <2>1, <3>1, CopiesOut DEF ReplyInv
    <3> QED
      BY <2>3, <3>2, <3>3
  <2> QED
    BY <2>2, <2>4
<1>2. ASSUME Base /\ ReplyInv
      PROVE  [A]_vars
  BY <1>1, <1>2
<1> QED
  BY <1>2, AlwaysReply, PTL DEF ClosedAfterReplies
===============================================================================
