-------------------------- MODULE ClientProxyProofs --------------------------
(* Proofs about ClientProxy, for any requests, servers, address lists and     *)
(* limits: a request is in one place until it ends, once, in a way its kind   *)
(* allows, waits for no connection that is up, and gets no other's response.  *)
EXTENDS ClientProxy, SequenceTheorems, FiniteSetTheorems, TLAPS

-----------------------------------------------------------------------------
(* The inductive invariants. *)

\* The frames of the call stack: about a request, about a connection, and the scan.
MsgFrames  == [op : {"call", "deliver", "abort"}, a : Adapters, m : Msgs]
ConnFrames == [op : {"prep", "tail", "flush", "in", "out", "err", "recv", "req"},
               a : Adapters, m : {NoMsg}]
ScanFrames == [op : {"scan", "scanObj"}, a : {NoAdapter}, m : {NoMsg}]
Others     == ConnFrames \cup ScanFrames
Stacks     == Seq(MsgFrames \cup Others)

QueueOK(q) == /\ Ids(q) \subseteq IdSet
              /\ q.data \in [Ids(q) -> Entry]
              /\ q.send \in Seq(IdSet)

NetTyped ==
  /\ conn \in [Adapters -> {"unconnected", "connecting", "connected"}]
  /\ buffered \in [Adapters -> Msgs \cup {NoMsg}]
  /\ wire \in [Adapters -> SUBSET Msgs]

ReqsTyped ==
  /\ adapter \in [Msgs -> Adapters \cup {NoAdapter}]
  /\ id \in [Msgs -> IdSet]
  /\ status \in [Msgs -> Statuses]
  /\ answer \in [Msgs -> Msgs \cup {NoMsg}]
  /\ outcome \in [Msgs -> Outcomes]
  /\ expired \subseteq Msgs

QueuesTyped ==
  /\ DOMAIN tq = Adapters /\ \A a \in Adapters : QueueOK(tq[a])
  /\ uniqId \in [Adapters -> IdSet]
  /\ reqMsg \in [Adapters -> Msgs \cup {NoMsg}]

Typed ==
  /\ mode \in Modes /\ eps \in mode.lists
  /\ objQ \in Seq(Msgs) /\ stk \in Stacks
  /\ QueuesTyped /\ NetTyped /\ ReqsTyped

\* Where a request may be: at the object, with a handler, in the queue of a connection.
Has(q, m)   == \E k \in 1 .. Len(q) : q[k] = m
On(s, m)    == \E k \in 1 .. Len(s) : s[k].m = m
Holds(q, m) == \E i \in Ids(q) : q.data[i].ptr = m

Once(q)  == \A k, l \in 1 .. Len(q) : q[k] = q[l] => k = l
Apart(s) == \A k, l \in 1 .. Len(s) : s[k].m = s[l].m /\ s[k].m # NoMsg => k = l

\* Every request is in a queue under its id, ...
KeyInv == \A a \in Adapters : /\ Consistent(tq[a])
                              /\ \A i \in Ids(tq[a]) : id[tq[a].data[i].ptr] = i

\* ... and on a serial connection one that waits for an answer is still there, and
\* none that expects no answer is.
SerialInv ==
  Serial => \A a \in Adapters :
    /\ reqMsg[a] # NoMsg => Holds(tq[a], reqMsg[a])
    /\ \A m \in Msgs : Holds(tq[a], m) => Kind[m] # "ONE_WAY"

\* A request the network thread has is in one place.
PlaceInv ==
  /\ Once(objQ) /\ Apart(stk)
  /\ \A m \in Msgs : ~ (Has(objQ, m) /\ On(stk, m))
  /\ \A m \in Msgs, a \in Adapters : Holds(tq[a], m) => ~ Has(objQ, m) /\ ~ On(stk, m)
  /\ \A m \in Msgs, a, b \in Adapters : Holds(tq[a], m) /\ Holds(tq[b], m) => a = b
  /\ \A m \in Msgs : outcome[m] = "live" <=>
       Has(objQ, m) \/ On(stk, m) \/ \E a \in Adapters : Holds(tq[a], m)

\* A request that waits for a connection that is up is about to be taken.
Preparing == \E k \in 1 .. Len(stk) : stk[k].op = "prep"

WaitInv ==
  /\ \A m \in Msgs : outcome[m] = "new" => adapter[m] = NoAdapter
  /\ \A m \in Msgs : Has(objQ, m) => (Valid <=> adapter[m] # NoAdapter)
  /\ {} \notin mode.lists => \A m \in Msgs :
       Has(objQ, m) /\ adapter[m] # NoAdapter /\ conn[adapter[m]] = "connected" => Preparing

\* What a request that is handed back has become.
EndInv ==
  \A k \in 1 .. Len(stk) : stk[k].op = "deliver" =>
    /\ Kind[stk[k].m] # "ONE_WAY"
    /\ status[stk[k].m] # "REQ" \/ Serial

-----------------------------------------------------------------------------
(* The timeout queue of a connection. *)

\* push(): one id more, which was not there.
LEMMA PushKeeps ==
  ASSUME NEW q, QueueOK(q), Consistent(q), NEW p \in Msgs, NEW n \in IdSet, n \notin Ids(q),
         NEW sent \in BOOLEAN
  PROVE  LET r == PushQueue(q, p, n, sent)
         IN  /\ QueueOK(r) /\ Consistent(r) /\ Ids(r) = Ids(q) \cup {n}
             /\ r.data[n].ptr = p /\ \A i \in Ids(q) : r.data[i].ptr = q.data[i].ptr
<1> DEFINE r == PushQueue(q, p, n, sent)
<1>1. /\ r.data = [i \in Ids(q) \cup {n} |-> IF i = n THEN [ptr |-> p, hasSend |-> sent] ELSE q.data[i]]
      /\ r.send = IF sent THEN q.send ELSE Append(q.send, n)
  BY DEF PushQueue
<1> HIDE DEF r
<1>2. /\ Ids(r) = Ids(q) \cup {n} /\ r.data[n] = [ptr |-> p, hasSend |-> sent]
      /\ \A i \in Ids(q) : r.data[i] = q.data[i]
  BY <1>1 DEF Ids
<1>3. [ptr |-> p, hasSend |-> sent] \in Entry /\ \A i \in Ids(q) : q.data[i] \in Entry
  BY DEF Entry, QueueOK
<1>4. r.data \in [Ids(r) -> Entry]
  BY <1>1, <1>2, <1>3 DEF Ids
<1>5. /\ q.send \in Seq(IdSet) /\ r.send \in Seq(IdSet)
      /\ \A k, l \in DOMAIN q.send : q.send[k] = q.send[l] => k = l
      /\ ToSet(q.send) = {i \in Ids(q) : ~ q.data[i].hasSend}
  BY <1>1 DEF QueueOK, Consistent
<1>6. Consistent(r)
  <2>1. CASE sent
    <3>1. {i \in Ids(r) : ~ r.data[i].hasSend} = {i \in Ids(q) : ~ q.data[i].hasSend}
      BY <1>2, <2>1
    <3> QED
      BY <1>1, <1>5, <2>1, <3>1 DEF Consistent
  <2>2. CASE ~ sent
    <3>1. {i \in Ids(r) : ~ r.data[i].hasSend} = {i \in Ids(q) : ~ q.data[i].hasSend} \cup {n}
      BY <1>2, <2>2
    <3>2. r.send = Append(q.send, n)
      BY <1>1, <2>2
    <3>3. /\ DOMAIN q.send = 1 .. Len(q.send) /\ DOMAIN r.send = 1 .. Len(q.send) + 1
          /\ r.send[Len(q.send) + 1] = n /\ \A k \in 1 .. Len(q.send) : r.send[k] = q.send[k]
      BY <1>5, <3>2
    <3>4. ToSet(r.send) = ToSet(q.send) \cup {n}
      BY <1>5, <3>3 DEF ToSet
    <3>5. \A k \in DOMAIN q.send : q.send[k] # n
      BY <1>5 DEF ToSet
    <3>6. \A k, l \in DOMAIN r.send : r.send[k] = r.send[l] => k = l
      <4> SUFFICES ASSUME NEW k \in DOMAIN r.send, NEW l \in DOMAIN r.send, r.send[k] = r.send[l]
                   PROVE  k = l
        OBVIOUS
      <4>1. /\ \/ k \in DOMAIN q.send /\ r.send[k] = q.send[k]
               \/ k = Len(q.send) + 1 /\ r.send[k] = n
            /\ \/ l \in DOMAIN q.send /\ r.send[l] = q.send[l]
               \/ l = Len(q.send) + 1 /\ r.send[l] = n
        BY <1>5, <3>3
      <4> QED
        BY <1>5, <3>5, <4>1
    <3> QED
      BY <1>5, <3>1, <3>4, <3>6 DEF Consistent
  <2> QED
    BY <2>1, <2>2
<1> QED
  BY <1>2, <1>4, <1>5, <1>6 DEF r, QueueOK

\* The head of the send list.
LEMMA SendHead ==
  ASSUME NEW q, QueueOK(q), Consistent(q), q.send # << >>
  PROVE  /\ Head(q.send) \in Ids(q) /\ ~ q.data[Head(q.send)].hasSend
         /\ GetSend(q) = q.data[Head(q.send)].ptr /\ GetSend(q) \in Msgs
<1>1. Head(q.send) = q.send[1] /\ 1 \in DOMAIN q.send
  BY DEF QueueOK
<1>2. Head(q.send) \in {i \in Ids(q) : ~ q.data[i].hasSend}
  BY <1>1 DEF Consistent, ToSet
<1> QED
  BY <1>2 DEF GetSend, QueueOK, Entry

\* popSend() takes the oldest unsent request from the send list; only a one-way one leaves the queue.
LEMMA PopKeeps ==
  ASSUME NEW q, QueueOK(q), Consistent(q), q.send # << >>, NEW del \in BOOLEAN
  PROVE  LET r == PopSend(q, del)
         IN  /\ QueueOK(r) /\ Consistent(r)
             /\ Ids(r) = IF del THEN Ids(q) \ {Head(q.send)} ELSE Ids(q)
             /\ \A i \in Ids(r) : r.data[i].ptr = q.data[i].ptr
<1> DEFINE r == PopSend(q, del)
           n == Head(q.send)
<1>0. /\ n \in Ids(q) /\ q.send \in Seq(IdSet)
      /\ \A i \in Ids(q) : q.data[i] \in Entry
      /\ \A k, l \in DOMAIN q.send : q.send[k] = q.send[l] => k = l
      /\ ToSet(q.send) = {i \in Ids(q) : ~ q.data[i].hasSend}
  BY SendHead DEF QueueOK, Consistent
<1>1. /\ r.data = IF del THEN [i \in Ids(q) \ {n} |-> q.data[i]] ELSE [q.data EXCEPT ![n].hasSend = TRUE]
      /\ r.send = Tail(q.send)
  BY DEF PopSend
<1>2. /\ DOMAIN q.send = 1 .. Len(q.send) /\ DOMAIN r.send = 1 .. Len(q.send) - 1
      /\ q.send[1] = n /\ \A k \in DOMAIN r.send : r.send[k] = q.send[k + 1]
      /\ r.send \in Seq(IdSet)
  BY <1>0, <1>1
<1> HIDE DEF r, n
<1>3. /\ ToSet(r.send) = ToSet(q.send) \ {n}
      /\ \A k, l \in DOMAIN r.send : r.send[k] = r.send[l] => k = l
  <2>1. \A k \in DOMAIN r.send : k + 1 \in DOMAIN q.send /\ k + 1 # 1 /\ 1 \in DOMAIN q.send
    BY <1>2
  <2>2. \A k \in DOMAIN q.send : k = 1 \/ (k - 1 \in DOMAIN r.send /\ (k - 1) + 1 = k)
    BY <1>2
  <2>3. \A k \in DOMAIN r.send : r.send[k] \in ToSet(q.send) /\ r.send[k] # n
    <3> SUFFICES ASSUME NEW k \in DOMAIN r.send PROVE r.send[k] \in ToSet(q.send) /\ r.send[k] # n
      OBVIOUS
    <3>1. k + 1 \in DOMAIN q.send /\ k + 1 # 1 /\ 1 \in DOMAIN q.send
      BY <2>1
    <3>2. r.send[k] = q.send[k + 1] /\ q.send[1] = n
      BY <1>2
    <3>3. q.send[k + 1] # q.send[1]
      BY <1>0, <3>1
    <3> QED
      BY <3>1, <3>2, <3>3 DEF ToSet
  <2>4. \A k \in DOMAIN q.send : q.send[k] = n \/ \E l \in DOMAIN r.send : r.send[l] = q.send[k]
    BY <1>2, <2>2
  <2>5. \A k, l \in DOMAIN r.send : r.send[k] = r.send[l] => k + 1 = l + 1
    BY <1>0, <1>2, <2>1
  <2>6. \A k, l \in DOMAIN r.send : k + 1 = l + 1 => k = l
    BY <1>2
  <2> QED
    BY <2>3, <2>4, <2>5, <2>6 DEF ToSet
<1>4. CASE del
  <2>1. Ids(r) = Ids(q) \ {n} /\ \A i \in Ids(r) : r.data[i] = q.data[i]
    BY <1>1, <1>4 DEF Ids
  <2>2. r.data \in [Ids(r) -> Entry]
    BY <1>0, <1>1, <1>4, <2>1
  <2>3. {i \in Ids(r) : ~ r.data[i].hasSend} = {i \in Ids(q) : ~ q.data[i].hasSend} \ {n}
    BY <2>1
  <2> QED
    BY <1>0, <1>2, <1>3, <1>4, <2>1, <2>2, <2>3 DEF QueueOK, Consistent, r, n
<1>5. CASE ~ del
  <2>1. /\ Ids(r) = Ids(q) /\ r.data[n] = [q.data[n] EXCEPT !.hasSend = TRUE]
        /\ \A i \in Ids(r) \ {n} : r.data[i] = q.data[i]
    BY <1>0, <1>1, <1>5 DEF Ids
  <2>2. r.data[n] \in Entry /\ r.data[n].ptr = q.data[n].ptr /\ r.data[n].hasSend
    BY <1>0, <2>1 DEF Entry
  <2>3. r.data \in [Ids(r) -> Entry]
    <3>1. r.data = [i \in Ids(r) |-> r.data[i]]
      BY <1>0, <1>1, <1>5, <2>1 DEF Ids, QueueOK
    <3> QED
      BY <1>0, <2>1, <2>2, <3>1
  <2>4. {i \in Ids(r) : ~ r.data[i].hasSend} = {i \in Ids(q) : ~ q.data[i].hasSend} \ {n}
    BY <2>1, <2>2
  <2>5. \A i \in Ids(r) : r.data[i].ptr = q.data[i].ptr
    BY <2>1, <2>2
  <2> QED
    BY <1>0, <1>2, <1>3, <1>5, <2>1, <2>3, <2>4, <2>5 DEF QueueOK, Consistent, r, n
<1> QED
  BY <1>4, <1>5

\* One element of a sequence less.
LEMMA RemoveOne ==
  ASSUME NEW S, NEW q \in Seq(S), NEW k \in 1 .. Len(q), Once(q)
  PROVE  LET r == RemoveAt(q, k)
         IN  /\ r \in Seq(S) /\ Once(r) /\ \A x : Has(r, x) <=> Has(q, x) /\ x # q[k]
<1> DEFINE l == SubSeq(q, 1, k - 1)
           t == SubSeq(q, k + 1, Len(q))
           r == l \o t
<1>1. /\ l \in Seq(S) /\ Len(l) = k - 1 /\ \A i \in 1 .. k - 1 : l[i] = q[i]
      /\ t \in Seq(S) /\ Len(t) = Len(q) - k /\ \A i \in 1 .. Len(q) - k : t[i] = q[k + 1 + i - 1]
  OBVIOUS
<1> HIDE DEF l, t
<1>2. /\ r \in Seq(S) /\ Len(r) = Len(l) + Len(t)
      /\ \A i \in 1 .. Len(l) + Len(t) : r[i] = IF i <= Len(l) THEN l[i] ELSE t[i - Len(l)]
  BY <1>1, ConcatProperties
<1> HIDE DEF r
<1> DEFINE at(i) == IF i < k THEN i ELSE i + 1
<1>3. Len(r) = Len(q) - 1
  BY <1>1, <1>2
<1>4. ASSUME NEW i \in 1 .. Len(r)
      PROVE  at(i) \in 1 .. Len(q) /\ at(i) # k /\ r[i] = q[at(i)]
  <2>1. CASE i < k
    BY <1>1, <1>2, <2>1
  <2>2. CASE ~ i < k
    <3> DEFINE j == i - (k - 1)
    <3>1. /\ i \in 1 .. Len(l) + Len(t) /\ ~ (i <= Len(l)) /\ i - Len(l) = j
          /\ j \in 1 .. Len(q) - k /\ k + 1 + j - 1 = i + 1
      BY <1>1, <1>2, <2>2
    <3>2. r[i] = t[j] /\ t[j] = q[k + 1 + j - 1]
      BY <1>1, <1>2, <3>1
    <3> QED
      BY <1>3, <2>2, <3>1, <3>2
  <2> QED
    BY <2>1, <2>2
<1>5. \A i \in 1 .. Len(q) : i # k => \E j \in 1 .. Len(r) : at(j) = i
  <2> SUFFICES ASSUME NEW i \in 1 .. Len(q), i # k
               PROVE  \E j \in 1 .. Len(r) : at(j) = i
    OBVIOUS
  <2>1. CASE i < k
    BY <1>3, <2>1
  <2>2. CASE i > k
    <3>1. i - 1 \in 1 .. Len(r) /\ at(i - 1) = i
      BY <1>3, <2>2
    <3> QED
      BY <3>1
  <2> QED
    BY <2>1, <2>2
<1>6. \A i, j \in 1 .. Len(r) : at(i) = at(j) => i = j
  OBVIOUS
<1> HIDE DEF at
<1>7. Once(r)
  BY <1>4, <1>6 DEF Once
<1>8. ASSUME NEW x PROVE Has(r, x) <=> Has(q, x) /\ x # q[k]
  <2>1. ASSUME NEW i \in 1 .. Len(r), r[i] = x
        PROVE  Has(q, x) /\ x # q[k]
    BY <1>4, <2>1 DEF Has, Once
  <2>2. ASSUME NEW i \in 1 .. Len(q), q[i] = x, x # q[k]
        PROVE  Has(r, x)
    <3>1. PICK j \in 1 .. Len(r) : at(j) = i
      BY <1>5, <2>2
    <3>2. r[j] = x
      BY <1>4, <2>2, <3>1
    <3> QED
      BY <3>2 DEF Has
  <2> QED
    BY <2>1, <2>2 DEF Has
<1>9. RemoveAt(q, k) = r
  BY DEF RemoveAt, r, l, t
<1> QED
  BY <1>2, <1>7, <1>8, <1>9

\* erase() takes one request from both lists.
LEMMA EraseKeeps ==
  ASSUME NEW q, QueueOK(q), Consistent(q), NEW n \in Ids(q)
  PROVE  LET r == EraseQueue(q, n)
         IN  /\ QueueOK(r) /\ Consistent(r) /\ Ids(r) = Ids(q) \ {n}
             /\ \A i \in Ids(r) : r.data[i].ptr = q.data[i].ptr
<1> DEFINE r == EraseQueue(q, n)
<1>0. /\ q.send \in Seq(IdSet) /\ Once(q.send)
      /\ \A i \in Ids(q) : q.data[i] \in Entry
      /\ \A i : Has(q.send, i) <=> i \in Ids(q) /\ ~ q.data[i].hasSend
  BY DEF QueueOK, Consistent, Once, Has, ToSet
<1>1. /\ r.data = [i \in Ids(q) \ {n} |-> q.data[i]]
      /\ q.data[n].hasSend => r.send = q.send
      /\ ~ q.data[n].hasSend =>
           r.send = RemoveAt(q.send, CHOOSE k \in DOMAIN q.send : q.send[k] = n)
  BY DEF EraseQueue
<1> HIDE DEF r
<1>2. Ids(r) = Ids(q) \ {n} /\ \A i \in Ids(r) : r.data[i] = q.data[i]
  BY <1>1 DEF Ids
<1>3. r.data \in [Ids(r) -> Entry]
  BY <1>0, <1>1, <1>2
<1>4. r.send \in Seq(IdSet) /\ Once(r.send) /\ \A i : Has(r.send, i) <=> Has(q.send, i) /\ i # n
  <2>1. CASE q.data[n].hasSend
    BY <1>0, <1>1, <2>1
  <2>2. CASE ~ q.data[n].hasSend
    <3>1. \E k \in DOMAIN q.send : q.send[k] = n
      BY <1>0, <2>2 DEF Has
    <3>2. PICK k \in DOMAIN q.send : k = CHOOSE j \in DOMAIN q.send : q.send[j] = n
      BY <3>1
    <3>3. q.send[k] = n /\ k \in 1 .. Len(q.send)
      BY <1>0, <3>1, <3>2
    <3>4. r.send = RemoveAt(q.send, k)
      BY <1>1, <2>2, <3>2
    <3> QED
      BY <1>0, <3>3, <3>4, RemoveOne
  <2> QED
    BY <2>1, <2>2
<1>5. Consistent(r)
  <2>1. \A i : Has(r.send, i) <=> i \in Ids(r) /\ ~ r.data[i].hasSend
    BY <1>0, <1>2, <1>4
  <2>2. DOMAIN r.send = 1 .. Len(r.send)
    BY <1>4
  <2>3. ToSet(r.send) = {i \in Ids(r) : ~ r.data[i].hasSend}
    BY <2>1, <2>2 DEF Has, ToSet
  <2> QED
    BY <1>4, <2>2, <2>3 DEF Consistent, Once
<1> QED
  BY <1>2, <1>3, <1>4, <1>5 DEF QueueOK, r
-----------------------------------------------------------------------------
(* The requests that wait at the object, and the call stack. *)

\* One more at the end.
LEMMA AppendOne ==
  ASSUME NEW S, NEW q \in Seq(S), NEW e \in S
  PROVE  LET r == Append(q, e)
         IN  /\ r \in Seq(S) /\ \A x : Has(r, x) <=> Has(q, x) \/ x = e
             /\ Once(q) /\ ~ Has(q, e) => Once(r)
<1> DEFINE r == Append(q, e)
<1>1. /\ r \in Seq(S) /\ Len(r) = Len(q) + 1 /\ r[Len(q) + 1] = e
      /\ \A k \in 1 .. Len(q) : r[k] = q[k]
  OBVIOUS
<1> HIDE DEF r
<1>2. \A k \in 1 .. Len(r) : k \in 1 .. Len(q) \/ k = Len(q) + 1
  BY <1>1
<1>3. \A k \in 1 .. Len(q) : k \in 1 .. Len(r)
  BY <1>1
<1>4. Len(q) + 1 \in 1 .. Len(r)
  BY <1>1
<1>5. \A x : Has(r, x) <=> Has(q, x) \/ x = e
  BY <1>1, <1>2, <1>3, <1>4 DEF Has
<1>6. Once(q) /\ ~ Has(q, e) => Once(r)
  BY <1>1, <1>2 DEF Once, Has
<1> QED
  BY <1>1, <1>5, <1>6 DEF r

\* Tail takes one element of a sequence away, its first.
LEMMA TailOne ==
  ASSUME NEW S, NEW q \in Seq(S), q # << >>
  PROVE  /\ Tail(q) \in Seq(S) /\ Head(q) \in S
         /\ \A x : Has(q, x) <=> Has(Tail(q), x) \/ x = Head(q)
         /\ Once(q) => Once(Tail(q)) /\ ~ Has(Tail(q), Head(q))
<1> DEFINE r == Tail(q)
<1>1. /\ r \in Seq(S) /\ Len(r) = Len(q) - 1 /\ Head(q) = q[1] /\ 1 \in 1 .. Len(q)
      /\ \A k \in 1 .. Len(r) : r[k] = q[k + 1] /\ k + 1 \in 1 .. Len(q) /\ k + 1 # 1
  OBVIOUS
<1>2. \A k \in 1 .. Len(q) : k = 1 \/ (k - 1 \in 1 .. Len(r) /\ (k - 1) + 1 = k)
  BY <1>1
<1>3. \A k, l \in 1 .. Len(r) : k + 1 = l + 1 => k = l
  BY <1>1
<1> HIDE DEF r
<1>4. \A x : Has(q, x) <=> Has(r, x) \/ x = Head(q)
  <2>1. ASSUME NEW k \in 1 .. Len(q)
        PROVE  Has(r, q[k]) \/ q[k] = Head(q)
    BY <1>1, <1>2 DEF Has
  <2>2. ASSUME NEW k \in 1 .. Len(r)
        PROVE  Has(q, r[k])
    BY <1>1 DEF Has
  <2>3. Has(q, Head(q))
    BY <1>1 DEF Has
  <2> QED
    BY <2>1, <2>2, <2>3 DEF Has
<1>5. Once(q) => Once(r) /\ ~ Has(r, Head(q))
  BY <1>1, <1>3 DEF Once, Has
<1> QED
  BY <1>1, <1>4, <1>5 DEF r

\* A frame on the stack is about a request, a connection or the scan.
LEMMA Operands ==
  ASSUME NEW f \in MsgFrames \cup Others
  PROVE  /\ f.op \in {"call", "deliver", "abort"} => f \in MsgFrames /\ f.a \in Adapters /\ f.m \in Msgs
         /\ f.op \in {"prep", "tail", "flush", "in", "out", "err", "recv", "req"} =>
              f \in ConnFrames /\ f.a \in Adapters /\ f.m = NoMsg
         /\ f.op \in {"scan", "scanObj"} => f \in ScanFrames /\ f.m = NoMsg
         /\ f \in Others => f.m = NoMsg /\ f.op # "deliver"
BY DEF MsgFrames, ConnFrames, ScanFrames, Others

\* Frames that are about no request.
LEMMA Plain ==
  ASSUME NEW fs \in Seq(Others)
  PROVE  fs \in Stacks /\ Apart(fs) /\ \A x \in Msgs : ~ On(fs, x)
<1>1. \A k \in 1 .. Len(fs) : fs[k] \in Others /\ fs[k].m = NoMsg
  BY Operands
<1>2. fs \in Stacks
  BY DEF Stacks
<1> QED
  BY <1>1, <1>2, ClientProxyAssumption DEF Apart, On

\* Some frames instead of the one that runs.
LEMMA CallsKeep ==
  ASSUME NEW s \in Stacks, s # << >>, Apart(s), NEW gs \in Stacks, Apart(gs),
         \A x \in Msgs : On(gs, x) => ~ On(s, x) \/ x = Head(s).m
  PROVE  LET t == gs \o Tail(s)
         IN  /\ t \in Stacks /\ Apart(t)
             /\ \A f : Has(t, f) <=> Has(gs, f) \/ Has(Tail(s), f)
             /\ \A x \in Msgs : On(t, x) <=> On(gs, x) \/ (On(s, x) /\ x # Head(s).m)
<1> DEFINE r == Tail(s)
           t == gs \o r
<1>1. /\ r \in Stacks /\ Len(r) = Len(s) - 1 /\ Head(s) = s[1] /\ 1 \in 1 .. Len(s)
      /\ \A k \in 1 .. Len(r) : r[k] = s[k + 1] /\ k + 1 \in 1 .. Len(s) /\ k + 1 # 1
  BY DEF Stacks
<1>2. \A k \in 1 .. Len(s) : k = 1 \/ (k - 1 \in 1 .. Len(r) /\ (k - 1) + 1 = k)
  BY <1>1
<1>3. \A k, l \in 1 .. Len(r) : k + 1 = l + 1 => k = l
  BY <1>1
<1> HIDE DEF r
<1>4. Apart(r) /\ \A x \in Msgs : On(r, x) <=> On(s, x) /\ x # Head(s).m
  <2>1. Apart(r)
    BY <1>1, <1>3 DEF Apart
  <2>2. ASSUME NEW k \in 1 .. Len(r), r[k].m \in Msgs
        PROVE  On(s, r[k].m) /\ r[k].m # Head(s).m
    BY <1>1, <2>2, ClientProxyAssumption DEF Apart, On
  <2>3. ASSUME NEW k \in 1 .. Len(s), s[k].m # Head(s).m
        PROVE  On(r, s[k].m)
    <3>1. k # 1 /\ k - 1 \in 1 .. Len(r) /\ (k - 1) + 1 = k
      BY <1>1, <1>2, <2>3
    <3>2. r[k - 1] = s[k]
      BY <1>1, <3>1
    <3> QED
      BY <3>1, <3>2 DEF On
  <2> QED
    BY <2>1, <2>2, <2>3 DEF On
<1>5. /\ t \in Stacks /\ Len(t) = Len(gs) + Len(r)
      /\ \A k \in 1 .. Len(gs) + Len(r) : t[k] = IF k <= Len(gs) THEN gs[k] ELSE r[k - Len(gs)]
  BY <1>1, ConcatProperties DEF Stacks
<1>6. Len(gs) \in Nat /\ Len(r) \in Nat
  BY <1>1 DEF Stacks
<1> HIDE DEF t
<1>7. \A k \in 1 .. Len(gs) : k \in 1 .. Len(t) /\ t[k] = gs[k]
  BY <1>5, <1>6
<1>8. \A k \in 1 .. Len(r) : Len(gs) + k \in 1 .. Len(t) /\ t[Len(gs) + k] = r[k]
  <2> SUFFICES ASSUME NEW k \in 1 .. Len(r)
               PROVE  Len(gs) + k \in 1 .. Len(t) /\ t[Len(gs) + k] = r[k]
    OBVIOUS
  <2>1. /\ Len(gs) + k \in 1 .. Len(gs) + Len(r) /\ ~ (Len(gs) + k <= Len(gs))
        /\ (Len(gs) + k) - Len(gs) = k
    BY <1>6
  <2> QED
    BY <1>5, <2>1
<1>9. \A k \in 1 .. Len(t) : k \in 1 .. Len(gs) \/ \E j \in 1 .. Len(r) : k = Len(gs) + j
  <2> SUFFICES ASSUME NEW k \in 1 .. Len(t), ~ k \in 1 .. Len(gs)
               PROVE  \E j \in 1 .. Len(r) : k = Len(gs) + j
    OBVIOUS
  <2>1. k - Len(gs) \in 1 .. Len(r) /\ k = Len(gs) + (k - Len(gs))
    BY <1>5, <1>6
  <2> QED
    BY <2>1
<1>10. \A f : Has(t, f) <=> Has(gs, f) \/ Has(r, f)
  <2>1. ASSUME NEW f, Has(t, f) PROVE Has(gs, f) \/ Has(r, f)
    <3>1. PICK k \in 1 .. Len(t) : t[k] = f
      BY <2>1 DEF Has
    <3>2. CASE k \in 1 .. Len(gs)
      BY <1>7, <3>1, <3>2 DEF Has
    <3>3. CASE \E j \in 1 .. Len(r) : k = Len(gs) + j
      BY <1>8, <3>1, <3>3 DEF Has
    <3> QED
      BY <1>9, <3>2, <3>3
  <2>2. ASSUME NEW f, Has(gs, f) \/ Has(r, f) PROVE Has(t, f)
    BY <1>7, <1>8, <2>2 DEF Has
  <2> QED
    BY <2>1, <2>2
<1>11. \A x : On(t, x) <=> On(gs, x) \/ On(r, x)
  <2>1. \A q, x : On(q, x) <=> \E f : Has(q, f) /\ f.m = x
    BY DEF On, Has
  <2> QED
    BY <1>10, <2>1, Zenon
<1>12. Apart(t)
  <2>1. \A k \in 1 .. Len(t) : t[k].m \in Msgs \cup {NoMsg}
    <3>1. \A f \in MsgFrames \cup Others : f.m \in Msgs \cup {NoMsg}
      BY DEF MsgFrames, ConnFrames, ScanFrames, Others
    <3>2. \A k \in 1 .. Len(t) : t[k] \in MsgFrames \cup Others
      BY <1>5 DEF Stacks
    <3> QED
      BY <3>1, <3>2
  <2>2. \A k \in 1 .. Len(gs), j \in 1 .. Len(r) : gs[k].m \in Msgs => gs[k].m # r[j].m
    BY <1>4 DEF On
  <2> SUFFICES ASSUME NEW k \in 1 .. Len(t), NEW l \in 1 .. Len(t), t[k].m = t[l].m, t[k].m \in Msgs
               PROVE  k = l
    BY <2>1 DEF Apart
  <2>3. CASE k \in 1 .. Len(gs) /\ l \in 1 .. Len(gs)
    BY <1>7, <2>3, ClientProxyAssumption DEF Apart
  <2>4. CASE k \in 1 .. Len(gs) /\ ~ l \in 1 .. Len(gs)
    <3>1. PICK j \in 1 .. Len(r) : l = Len(gs) + j
      BY <1>9, <2>4
    <3>2. t[l] = r[j] /\ t[k] = gs[k]
      BY <1>7, <1>8, <2>4, <3>1
    <3> QED
      BY <2>2, <2>4, <3>2
  <2>5. CASE ~ k \in 1 .. Len(gs) /\ l \in 1 .. Len(gs)
    <3>1. PICK j \in 1 .. Len(r) : k = Len(gs) + j
      BY <1>9, <2>5
    <3>2. t[k] = r[j] /\ t[l] = gs[l]
      BY <1>7, <1>8, <2>5, <3>1
    <3> QED
      BY <2>2, <2>5, <3>2
  <2>6. CASE ~ k \in 1 .. Len(gs) /\ ~ l \in 1 .. Len(gs)
    <3>1. PICK i \in 1 .. Len(r), j \in 1 .. Len(r) : k = Len(gs) + i /\ l = Len(gs) + j
      BY <1>9, <2>6
    <3>2. r[i].m = r[j].m /\ r[i].m # NoMsg
      BY <1>8, <3>1, ClientProxyAssumption
    <3> QED
      BY <1>4, <3>1, <3>2 DEF Apart
  <2> QED
    BY <2>3, <2>4, <2>5, <2>6
<1> QED
  BY <1>4, <1>5, <1>10, <1>11, <1>12 DEF r, t
-----------------------------------------------------------------------------
(* The parts of the handlers. *)

Inv == Typed /\ KeyInv /\ SerialInv /\ PlaceInv /\ WaitInv /\ EndInv

\* Preparing, On and EndInv in terms of the frames that are on the stack.
LEMMA ByFrames ==
  /\ Preparing <=> \E f : Has(stk, f) /\ f.op = "prep"
  /\ EndInv <=> \A f : Has(stk, f) /\ f.op = "deliver" =>
       Kind[f.m] # "ONE_WAY" /\ (status[f.m] # "REQ" \/ Serial)
BY DEF Preparing, EndInv, Has

\* A handler that returns goes on with nothing else.
LEMMA ReturnCalls ==
  ASSUME stk \in Stacks, stk # << >>, Return
  PROVE  Calls(<< >>)
<1>1. Tail(stk) \in Stacks
  BY DEF Stacks
<1>2. << >> \o Tail(stk) = Tail(stk)
  BY <1>1 DEF Stacks
<1> QED
  BY <1>2 DEF Return, Calls

\* A handler calls others that are about connections.
LEMMA PlainCalls ==
  ASSUME stk \in Stacks, stk # << >>, Apart(stk), EndInv, NEW fs \in Seq(Others), Calls(fs),
         mode' = mode, \A x \in Msgs : On(stk, x) => status'[x] = status[x]
  PROVE  /\ stk' \in Stacks /\ Apart(stk)' /\ EndInv'
         /\ \A x \in Msgs : On(stk, x)' <=> On(stk, x) /\ x # Head(stk).m
         /\ Preparing /\ Head(stk).op # "prep" => Preparing'
         /\ (\E f : Has(fs, f) /\ f.op = "prep") => Preparing'
<1>1. fs \in Stacks /\ Apart(fs) /\ \A x \in Msgs : ~ On(fs, x)
  BY Plain
<1>2. /\ stk' \in Stacks /\ Apart(stk')
      /\ \A f : Has(stk', f) <=> Has(fs, f) \/ Has(Tail(stk), f)
      /\ \A x \in Msgs : On(stk', x) <=> On(fs, x) \/ (On(stk, x) /\ x # Head(stk).m)
  BY <1>1, CallsKeep DEF Calls
<1>3. \A f : Has(stk, f) <=> Has(Tail(stk), f) \/ f = Head(stk)
  BY TailOne DEF Stacks
<1>4. \A f : Has(fs, f) => f.op # "deliver"
  <2>1. \A k \in 1 .. Len(fs) : fs[k] \in Others
    OBVIOUS
  <2> QED
    BY <2>1, Operands DEF Has
<1>5. EndInv'
  <2>1. \A f : Has(stk', f) /\ f.op = "deliver" => Has(stk, f)
    BY <1>2, <1>3, <1>4
  <2>2. \A f : Has(stk, f) /\ f.op = "deliver" => status'[f.m] = status[f.m]
    <3>1. \A k \in 1 .. Len(stk) : stk[k] \in MsgFrames \cup Others
      BY DEF Stacks
    <3>2. \A k \in 1 .. Len(stk) : On(stk, stk[k].m)
      BY DEF On
    <3> QED
      BY <3>1, <3>2, Operands DEF Has
  <2>3. \A f : Has(stk', f) /\ f.op = "deliver" =>
          Kind[f.m] # "ONE_WAY" /\ (status'[f.m] # "REQ" \/ Serial)
    BY <2>1, <2>2, ByFrames
  <2> QED
    BY <2>3 DEF EndInv, Has, Serial
<1>6. Preparing' <=> \E f : Has(stk', f) /\ f.op = "prep"
  BY DEF Preparing, Has
<1> QED
  BY <1>1, <1>2, <1>3, <1>5, <1>6, ByFrames

\* finishInvoke() of a request the running handler has taken from its place.
LEMMA Finishes ==
  ASSUME Typed, stk # << >>, Apart(stk), EndInv, NEW a \in Adapters, NEW m \in Msgs,
         NEW s \in Statuses, s # "REQ" \/ Serial, NEW fs \in Seq(Others),
         ~ On(stk, m) \/ m = Head(stk).m, FinishInvoke(a, m, s, fs), mode' = mode
  PROVE  /\ stk' \in Stacks /\ Apart(stk)' /\ EndInv'
         /\ status' \in [Msgs -> Statuses] /\ outcome' \in [Msgs -> Outcomes] /\ expired' \subseteq Msgs
         /\ \A x \in Msgs \ {m} : /\ On(stk, x)' <=> On(stk, x) /\ x # Head(stk).m
                                  /\ outcome'[x] = outcome[x]
         /\ On(stk, m)' <=> Kind[m] # "ONE_WAY"
         /\ outcome'[m] = IF Kind[m] = "ONE_WAY" THEN "gone" ELSE outcome[m]
         /\ Preparing /\ Head(stk).op # "prep" => Preparing'
<1>1. PICK gs : gs = (IF Kind[m] = "ONE_WAY" THEN << >> ELSE FinishFrames(a, m))
  OBVIOUS
<1> DEFINE hs == gs \o fs
<1>2. /\ gs \in Stacks /\ Apart(gs)
      /\ \A f : Has(gs, f) => f \in Others \/ (f = DoMsg("deliver", a, m) /\ Kind[m] # "ONE_WAY")
      /\ \A x \in Msgs : On(gs, x) <=> x = m /\ Kind[m] # "ONE_WAY"
  <2>1. /\ Do("prep", a) \in Others /\ Do("tail", a) \in Others
        /\ DoMsg("deliver", a, m) \in MsgFrames /\ DoMsg("deliver", a, m).m = m
        /\ Do("prep", a).m = NoMsg /\ Do("tail", a).m = NoMsg
    BY DEF Do, DoMsg, Others, ConnFrames, MsgFrames
  <2>2. CASE Kind[m] = "ONE_WAY"
    <3>1. gs = << >> /\ Len(gs) = 0
      BY <1>1, <2>2
    <3> QED
      BY <2>2, <3>1 DEF Stacks, Apart, Has, On
  <2>3. CASE Kind[m] # "ONE_WAY" /\ Serial
    <3>1. PICK p, t, d : p = Do("prep", a) /\ t = Do("tail", a) /\ d = DoMsg("deliver", a, m)
      OBVIOUS
    <3>2. gs = <<p, t, d>>
      BY <1>1, <2>3, <3>1 DEF FinishFrames
    <3>3. /\ gs \in Stacks /\ Len(gs) = 3 /\ gs[1] = p /\ gs[2] = t /\ gs[3] = d
          /\ p.m = NoMsg /\ t.m = NoMsg /\ d.m = m /\ p \in Others /\ t \in Others
      BY <2>1, <3>1, <3>2 DEF Stacks
    <3>4. \A k \in 1 .. Len(gs) : k = 1 \/ k = 2 \/ k = 3
      BY <3>3
    <3>5. 3 \in 1 .. Len(gs)
      BY <3>3
    <3>6. Apart(gs)
      BY <3>3, <3>4 DEF Apart
    <3>7. \A f : Has(gs, f) => f \in Others \/ f = d
      BY <3>3, <3>4 DEF Has
    <3>8. \A x \in Msgs : On(gs, x) <=> x = m
      BY <3>3, <3>4, <3>5, ClientProxyAssumption DEF On
    <3> QED
      BY <2>3, <3>1, <3>3, <3>6, <3>7, <3>8
  <2>4. CASE Kind[m] # "ONE_WAY" /\ ~ Serial
    <3>1. PICK d : d = DoMsg("deliver", a, m)
      OBVIOUS
    <3>2. gs = <<d>>
      BY <1>1, <2>4, <3>1 DEF FinishFrames
    <3>3. gs \in Stacks /\ Len(gs) = 1 /\ gs[1] = d /\ d.m = m
      BY <2>1, <3>1, <3>2 DEF Stacks
    <3>4. (\A k \in 1 .. Len(gs) : k = 1) /\ 1 \in 1 .. Len(gs)
      BY <3>3
    <3>5. Apart(gs) /\ (\A f : Has(gs, f) => f = d) /\ \A x \in Msgs : On(gs, x) <=> x = m
      BY <3>3, <3>4 DEF Apart, Has, On
    <3> QED
      BY <2>4, <3>1, <3>3, <3>5
  <2> QED
    BY <2>2, <2>3, <2>4
<1>3. /\ hs \in Stacks /\ Apart(hs)
      /\ \A f : Has(hs, f) => f \in Others \/ (f = DoMsg("deliver", a, m) /\ Kind[m] # "ONE_WAY")
      /\ \A x \in Msgs : On(hs, x) <=> x = m /\ Kind[m] # "ONE_WAY"
  <2>1. fs \in Stacks /\ Apart(fs) /\ \A x \in Msgs : ~ On(fs, x)
    BY Plain
  <2>2. PICK f : f = Do("scan", NoAdapter)
    OBVIOUS
  <2>3. f \in Others /\ f.m = NoMsg
    BY <2>2 DEF Do, Others, ScanFrames
  <2> DEFINE ts == <<f>> \o fs
  <2>4. ts \in Seq(Others) /\ Head(ts) = f /\ Tail(ts) = fs /\ ts # << >>
    BY <2>3
  <2> HIDE DEF ts
  <2>5. ts \in Stacks /\ Apart(ts) /\ \A x \in Msgs : ~ On(ts, x)
    BY <2>4, Plain
  <2>6. /\ hs \in Stacks /\ Apart(hs)
        /\ \A g : Has(hs, g) <=> Has(gs, g) \/ Has(fs, g)
        /\ \A x \in Msgs : On(hs, x) <=> On(gs, x)
    BY <1>2, <2>4, <2>5, CallsKeep
  <2>7. \A g : Has(fs, g) => g \in Others
    BY DEF Has
  <2> QED
    BY <1>2, <2>6, <2>7
<1> HIDE DEF hs
<1>4. stk' = hs \o Tail(stk)
  <2>1. CASE Kind[m] = "ONE_WAY"
    <3>1. hs = fs
      BY <1>1, <2>1 DEF hs
    <3> QED
      BY <2>1, <3>1 DEF FinishInvoke, Calls
  <2>2. CASE Kind[m] # "ONE_WAY"
    BY <1>1, <2>2 DEF FinishInvoke, Calls, hs
  <2> QED
    BY <2>1, <2>2
<1>5. /\ stk' \in Stacks /\ Apart(stk')
      /\ \A f : Has(stk', f) <=> Has(hs, f) \/ Has(Tail(stk), f)
      /\ \A x \in Msgs : On(stk', x) <=> On(hs, x) \/ (On(stk, x) /\ x # Head(stk).m)
  BY <1>3, <1>4, CallsKeep DEF Typed
<1>6. \A f : Has(stk, f) <=> Has(Tail(stk), f) \/ f = Head(stk)
  BY TailOne DEF Stacks, Typed
<1>7. /\ status' = [status EXCEPT ![m] = s] /\ status \in [Msgs -> Statuses]
      /\ status' \in [Msgs -> Statuses]
  BY DEF FinishInvoke, Typed, ReqsTyped
<1>8. /\ outcome' \in [Msgs -> Outcomes] /\ expired' \subseteq Msgs
      /\ \A x \in Msgs \ {m} : outcome'[x] = outcome[x]
      /\ outcome'[m] = IF Kind[m] = "ONE_WAY" THEN "gone" ELSE outcome[m]
  BY DEF FinishInvoke, Settle, Typed, ReqsTyped, Outcomes
<1>9. EndInv'
  <2>1. \A f : Has(stk', f) /\ f.op = "deliver" =>
          Has(stk, f) \/ (f.m = m /\ Kind[m] # "ONE_WAY")
    BY <1>3, <1>5, <1>6, Operands DEF DoMsg
  <2>2. status'[m] # "REQ" \/ Serial
    BY <1>7
  <2>3. \A f : Has(stk, f) /\ f.op = "deliver" /\ f.m # m => status'[f.m] = status[f.m]
    <3>1. \A k \in 1 .. Len(stk) : stk[k] \in MsgFrames \cup Others
      BY DEF Typed, Stacks
    <3> QED
      BY <1>7, <3>1, Operands DEF Has
  <2>4. \A f : Has(stk', f) /\ f.op = "deliver" =>
          Kind[f.m] # "ONE_WAY" /\ (status'[f.m] # "REQ" \/ Serial)
    BY <2>1, <2>2, <2>3, ByFrames
  <2> QED
    BY <2>4 DEF EndInv, Has, Serial
<1>10. Preparing /\ Head(stk).op # "prep" => Preparing'
  <2>1. Preparing' <=> \E f : Has(stk', f) /\ f.op = "prep"
    BY DEF Preparing, Has
  <2> QED
    BY <1>5, <1>6, <2>1, ByFrames
<1> QED
  BY <1>3, <1>5, <1>7, <1>8, <1>9, <1>10
-----------------------------------------------------------------------------
(* What a step does to the places of the requests. *)

\* A request is moved, or its life begins or ends; the others stay.
LEMMA MoveKeeps ==
  ASSUME PlaceInv, NEW m \in Msgs, Once(objQ)', Apart(stk)',
         \A x \in Msgs \ {m} : /\ Has(objQ, x)' <=> Has(objQ, x)
                               /\ On(stk, x)' <=> On(stk, x)
                               /\ \A b \in Adapters : Holds(tq[b], x)' <=> Holds(tq[b], x)
                               /\ outcome'[x] = outcome[x],
         \/ /\ outcome'[m] = "live" /\ Has(objQ, m)' /\ ~ On(stk, m)'
            /\ \A b \in Adapters : ~ Holds(tq[b], m)'
         \/ /\ outcome'[m] = "live" /\ ~ Has(objQ, m)' /\ On(stk, m)'
            /\ \A b \in Adapters : ~ Holds(tq[b], m)'
         \/ /\ outcome'[m] = "live" /\ ~ Has(objQ, m)' /\ ~ On(stk, m)'
            /\ \E a \in Adapters : \A b \in Adapters : Holds(tq[b], m)' <=> b = a
         \/ /\ outcome'[m] # "live" /\ ~ Has(objQ, m)' /\ ~ On(stk, m)'
            /\ \A b \in Adapters : ~ Holds(tq[b], m)'
  PROVE  PlaceInv'
<1> USE DEF PlaceInv
<1>1. \A x \in Msgs : ~ (Has(objQ, x)' /\ On(stk, x)')
  OBVIOUS
<1>2. \A x \in Msgs, b \in Adapters : Holds(tq[b], x)' => ~ Has(objQ, x)' /\ ~ On(stk, x)'
  OBVIOUS
<1>3. \A x \in Msgs, b, c \in Adapters : Holds(tq[b], x)' /\ Holds(tq[c], x)' => b = c
  OBVIOUS
<1>4. \A x \in Msgs : outcome'[x] = "live" <=>
        Has(objQ, x)' \/ On(stk, x)' \/ \E b \in Adapters : Holds(tq[b], x)'
  OBVIOUS
<1> QED
  BY <1>1, <1>2, <1>3, <1>4

\* All requests stay where they are.
LEMMA StayKeeps ==
  ASSUME PlaceInv, Apart(stk)', \A x \in Msgs : On(stk, x)' <=> On(stk, x),
         UNCHANGED <<objQ, tq, outcome>>
  PROVE  PlaceInv'
BY DEF PlaceInv, Has, Holds, Once

\* No connection comes up that somebody waits for, unless what waits is about to be taken.
LEMMA WaitKeeps ==
  ASSUME Typed, WaitInv, UNCHANGED <<mode, adapter>>,
         \A x \in Msgs : Has(objQ, x)' => Has(objQ, x),
         \A x \in Msgs : outcome'[x] = "new" => outcome[x] = "new",
         \A b \in Adapters : conn'[b] = "connected" => conn[b] = "connected" \/ Preparing',
         Preparing => Preparing' \/ {} \in mode.lists \/ \A x \in Msgs : ~ Has(objQ, x)'
  PROVE  WaitInv'
<1>1. \A x \in Msgs : adapter[x] # NoAdapter => adapter[x] \in Adapters
  BY DEF Typed, ReqsTyped
<1>2. Valid' = Valid
  BY DEF Valid
<1> QED
  BY <1>1, <1>2 DEF WaitInv

\* A step that changes connections and the stack only.
LEMMA QuietKeeps ==
  ASSUME Inv, UNCHANGED <<objQ, mode, tq, uniqId, reqMsg, adapter, id, status, answer, outcome>>,
         eps' \in mode.lists, expired' \subseteq Msgs, NetTyped',
         stk' \in Stacks, Apart(stk)', EndInv', \A x \in Msgs : On(stk, x)' <=> On(stk, x),
         \A b \in Adapters : conn'[b] = "connected" => conn[b] = "connected" \/ Preparing',
         Preparing => Preparing' \/ {} \in mode.lists \/ objQ = << >>
  PROVE  Inv'
<1>1. Typed'
  BY DEF Inv, Typed, ReqsTyped, QueuesTyped
<1>2. KeyInv' /\ SerialInv'
  BY DEF Inv, KeyInv, SerialInv, Serial
<1>3. PlaceInv'
  BY StayKeeps DEF Inv
<1>4. objQ = << >> => \A x \in Msgs : ~ Has(objQ, x)'
  BY DEF Has
<1>5. \A x \in Msgs : Has(objQ, x)' => Has(objQ, x)
  BY DEF Has
<1>6. WaitInv'
  BY <1>4, <1>5, WaitKeeps DEF Inv
<1> QED
  BY <1>1, <1>2, <1>3, <1>6 DEF Inv

\* A request more in a queue, or one less.
LEMMA PushHolds ==
  ASSUME NEW q, NEW r, NEW p, NEW n, Ids(r) = Ids(q) \cup {n}, r.data[n].ptr = p, n \notin Ids(q),
         \A i \in Ids(q) : r.data[i].ptr = q.data[i].ptr
  PROVE  \A x : Holds(r, x) <=> Holds(q, x) \/ x = p
BY DEF Holds

\* A queue that has lost an id no longer holds the request that had it, and holds the others.
LEMMA LessHolds ==
  ASSUME NEW q, NEW r, NEW n \in Ids(q), Ids(r) = Ids(q) \ {n},
         \A i \in Ids(r) : r.data[i].ptr = q.data[i].ptr,
         \A i \in Ids(q) : id[q.data[i].ptr] = i
  PROVE  \A x : Holds(r, x) <=> Holds(q, x) /\ x # q.data[n].ptr
BY DEF Holds

\* One queue becomes r.
LEMMA QueueBecomes ==
  ASSUME QueuesTyped, KeyInv, NEW a \in Adapters, NEW r, tq' = [tq EXCEPT ![a] = r],
         QueueOK(r), Consistent(r), \A i \in Ids(r) : id'[r.data[i].ptr] = i,
         \A b \in Adapters \ {a} : \A i \in Ids(tq[b]) : id'[tq[b].data[i].ptr] = id[tq[b].data[i].ptr]
  PROVE  /\ DOMAIN tq' = Adapters /\ (\A b \in Adapters : QueueOK(tq[b])') /\ KeyInv'
         /\ \A x : Holds(tq[a], x)' <=> Holds(r, x)
         /\ \A b \in Adapters \ {a} : \A x : Holds(tq[b], x)' <=> Holds(tq[b], x)
<1>1. DOMAIN tq' = Adapters /\ tq'[a] = r /\ \A b \in Adapters \ {a} : tq'[b] = tq[b]
  BY DEF QueuesTyped
<1>2. \A b \in Adapters : QueueOK(tq'[b])
  BY <1>1 DEF QueuesTyped
<1>3. \A b \in Adapters : /\ Consistent(tq'[b])
                          /\ \A i \in Ids(tq'[b]) : id'[tq'[b].data[i].ptr] = i
  BY <1>1 DEF KeyInv
<1>4. KeyInv'
  BY <1>3 DEF KeyInv
<1>5. \A b \in Adapters : QueueOK(tq[b])'
  BY <1>2 DEF QueueOK
<1> QED
  BY <1>1, <1>4, <1>5 DEF Holds

\* The ids of requests that are in no queue change.
LEMMA IdsChange ==
  ASSUME QueuesTyped, KeyInv, UNCHANGED tq,
         \A b \in Adapters : \A i \in Ids(tq[b]) : id'[tq[b].data[i].ptr] = id[tq[b].data[i].ptr]
  PROVE  KeyInv'
BY DEF KeyInv

\* The ids a request is given.
LEMMA IdTypes ==
  ASSUME Typed, NEW a \in Adapters, NEW m \in Msgs
  PROVE  LastId(a, m) \in IdSet /\ NewId(a, m) \in IdSet
<1>1. MaxId \in Nat \ {0} /\ uniqId[a] \in IdSet
  BY ClientProxyAssumption DEF Typed, QueuesTyped
<1>2. \A u \in IdSet : GenerateId(u, MaxId) \in IdSet
  BY <1>1 DEF GenerateId, IdSet
<1>3. LastId(a, m) \in IdSet
  BY <1>1, <1>2 DEF LastId
<1>4. RpcId[m] \in IdSet
  BY ClientProxyAssumption, <1>1 DEF RpcId, IdSet, Operations
<1> QED
  BY <1>3, <1>4 DEF NewId
-----------------------------------------------------------------------------
(* Steps that change connections and the stack only. *)

\* No connection comes up.
NetKept == /\ NetTyped'
           /\ \A b \in Adapters : conn'[b] = "connected" => conn[b] = "connected"

\* Closing, sending and choosing a server keep the types of the connections and bring none up.
LEMMA NetSteps ==
  ASSUME NetTyped, NEW a \in Adapters
  PROVE  /\ Close(a) => NetKept
         /\ UNCHANGED net => NetKept
         /\ \A m \in Msgs : Reaches(a, m) /\ UNCHANGED <<conn, buffered>> => NetKept
         /\ \A m \in Msgs, r \in {"Ok", "Full", "Error", "NotSend"} : SendRequest(a, m, r) => NetKept
         /\ \A c : SelectAdapter(a, c) => NetKept
<1>1. Close(a) => NetKept
  BY DEF Close, NetKept, NetTyped
<1>2. UNCHANGED net => NetKept
  BY DEF net, NetKept, NetTyped
<1>3. ASSUME NEW m \in Msgs, Reaches(a, m), UNCHANGED <<conn, buffered>>
      PROVE  NetKept
  <2>1. (IF Kind[m] = "ONE_WAY" THEN wire[a] ELSE wire[a] \cup {m}) \in SUBSET Msgs
    BY DEF NetTyped
  <2>2. wire' \in [Adapters -> SUBSET Msgs]
    BY <1>3, <2>1 DEF Reaches, NetTyped
  <2> QED
    BY <1>3, <2>2 DEF NetKept, NetTyped
<1>4. ASSUME NEW m \in Msgs, NEW r \in {"Ok", "Full", "Error", "NotSend"}, SendRequest(a, m, r)
      PROVE  NetKept
  <2>1. CASE buffered' = [buffered EXCEPT ![a] = m] /\ UNCHANGED <<conn, wire>>
    BY <2>1 DEF NetKept, NetTyped
  <2> QED
    BY <1>1, <1>2, <1>3, <1>4, <2>1 DEF SendRequest
<1>5. ASSUME NEW c, SelectAdapter(a, c)
      PROVE  NetKept
  BY <1>5 DEF SelectAdapter, NetKept, NetTyped
<1> QED
  BY <1>1, <1>2, <1>3, <1>4, <1>5

\* A handler about a connection ends or calls others.
LEMMA PlainStep ==
  ASSUME Inv, stk # << >>, Head(stk).op \notin {"call", "deliver", "abort"},
         NEW fs \in Seq(Others), Calls(fs),
         UNCHANGED <<objQ, env, tq, uniqId, reqMsg, reqs>>, NetTyped',
         \A b \in Adapters : conn'[b] = "connected" =>
           conn[b] = "connected" \/ \E f : Has(fs, f) /\ f.op = "prep",
         Head(stk).op # "prep" \/ objQ = << >>
  PROVE  Inv'
<1>1. stk \in Stacks /\ Apart(stk) /\ EndInv
  BY DEF Inv, Typed, PlaceInv
<1>2. Head(stk) \in MsgFrames \cup Others
  BY <1>1, TailOne DEF Stacks
<1>3. Head(stk).m = NoMsg
  BY <1>2, Operands DEF MsgFrames, Others, ConnFrames, ScanFrames
<1>4. UNCHANGED <<mode, eps, adapter, id, status, answer, outcome, expired>>
  BY DEF env, reqs
<1>5. /\ stk' \in Stacks /\ Apart(stk)' /\ EndInv'
      /\ \A x \in Msgs : On(stk, x)' <=> On(stk, x) /\ x # Head(stk).m
      /\ Preparing /\ Head(stk).op # "prep" => Preparing'
      /\ (\E f : Has(fs, f) /\ f.op = "prep") => Preparing'
  BY <1>1, <1>4, PlainCalls
<1>6. \A x \in Msgs : On(stk, x)' <=> On(stk, x)
  BY <1>3, <1>5, ClientProxyAssumption
<1>7. eps' \in mode.lists /\ expired' \subseteq Msgs
  BY <1>4 DEF Inv, Typed, ReqsTyped
<1> QED
  BY <1>4, <1>5, <1>6, <1>7, QuietKeeps

\* ... in particular without a connection coming up.
LEMMA PlainNet ==
  ASSUME Inv, stk # << >>, Head(stk).op \notin {"call", "deliver", "abort", "prep"}, NetKept,
         UNCHANGED <<objQ, env, tq, uniqId, reqMsg, reqs>>,
         Return \/ \E f \in Others : Calls(<<f>>)
  PROVE  Inv'
<1>1. PICK fs \in Seq(Others) : Calls(fs)
  <2>1. CASE Return
    <3>1. Calls(<< >>) /\ << >> \in Seq(Others)
      BY <2>1, ReturnCalls DEF Inv, Typed
    <3> QED
      BY <3>1
  <2>2. ASSUME NEW f \in Others, Calls(<<f>>)
        PROVE  \E fs \in Seq(Others) : Calls(fs)
    <3>1. <<f>> \in Seq(Others)
      OBVIOUS
    <3> QED
      BY <2>2, <3>1
  <2> QED
    BY <2>1, <2>2
<1> QED
  BY <1>1, PlainStep DEF NetKept

\* The frames of connections.
LEMMA DoTypes ==
  ASSUME NEW a \in Adapters,
         NEW op \in {"prep", "tail", "flush", "in", "out", "err", "recv", "req"}
  PROVE  Do(op, a) \in Others /\ Do(op, a).op = op
BY DEF Do, Others, ConnFrames

\* The code that runs has the operands of its kind.
LEMMA HeadTypes ==
  ASSUME Typed, stk # << >>
  PROVE  /\ Head(stk) \in MsgFrames \cup Others
         /\ Head(stk).op \in {"call", "deliver", "abort"} => Head(stk).a \in Adapters /\ Head(stk).m \in Msgs
         /\ Head(stk).op \in {"prep", "tail", "flush", "in", "out", "err", "recv", "req"} =>
              Head(stk).a \in Adapters /\ Head(stk).m = NoMsg /\ Head(stk) \in Others
         /\ Head(stk).op \in {"scan", "scanObj"} => Head(stk).m = NoMsg /\ Head(stk) \in Others
<1>1. Head(stk) \in MsgFrames \cup Others
  BY TailOne DEF Stacks, Typed
<1> QED
  BY <1>1, Operands DEF Others

\* Handlers that only change connections or go on with other code keep the invariant, ...
LEMMA QuietSteps ==
  ASSUME Inv,
         \/ PrepareDone \/ FinishTail \/ FlushDone \/ FlushStops \/ EventStale \/ EventConnecting
         \/ EventConnected \/ EventError \/ Request \/ ReceiveDone \/ ReceiveClosed
         \/ ScanAdaptersDone \/ ScanDone
  PROVE  Inv'
<1>n. NetTyped /\ Typed
  BY DEF Inv, Typed
<1>1. CASE PrepareDone
  <2>1. Calls(<< >>) /\ << >> \in Seq(Others)
    BY <1>1, <1>n, ReturnCalls DEF PrepareDone, Running, Typed
  <2>2. NetTyped'
    BY <1>1, <1>n DEF PrepareDone, net, NetTyped
  <2> QED
    BY <1>1, <2>1, <2>2, PlainStep DEF PrepareDone, Running, net
<1>2. CASE FlushDone \/ EventStale \/ ReceiveDone \/ ScanAdaptersDone \/ ScanDone
  <2>1. /\ stk # << >> /\ Head(stk).op \notin {"call", "deliver", "abort", "prep"} /\ Return
        /\ UNCHANGED net /\ UNCHANGED <<objQ, env, tq, uniqId, reqMsg, reqs>>
    BY <1>2 DEF FlushDone, EventStale, ReceiveDone, ScanAdaptersDone, ScanDone, Running
  <2>2. NetKept
    BY <1>n, <2>1 DEF NetKept, NetTyped, net
  <2> QED
    BY <2>1, <2>2, PlainNet
<1>3. CASE FinishTail
  <2>1. /\ stk # << >> /\ Head(stk).op = "tail" /\ Head(stk).a \in Adapters
        /\ UNCHANGED <<objQ, env, tq, uniqId, reqMsg, reqs>>
    BY <1>3, <1>n, HeadTypes DEF FinishTail, Running
  <2>2. Return \/ \E f \in Others : Calls(<<f>>)
    BY <1>3, <2>1, DoTypes DEF FinishTail
  <2>3. NetKept
    <3>1. CASE UNCHANGED net
      BY <1>n, <2>1, <3>1, NetSteps
    <3>2. ASSUME NEW s \in {"connecting", "unconnected"}, conn' = [conn EXCEPT ![Head(stk).a] = s],
                 UNCHANGED <<buffered, wire>>
          PROVE  NetKept
      BY <1>n, <2>1, <3>2 DEF NetTyped, NetKept
    <3> QED
      BY <1>3, <3>1, <3>2 DEF FinishTail
  <2> QED
    BY <2>1, <2>2, <2>3, PlainNet
<1>4. CASE FlushStops
  <2>1. /\ stk # << >> /\ Head(stk).op = "flush" /\ Head(stk).a \in Adapters
        /\ UNCHANGED <<objQ, env, tq, uniqId, reqMsg, reqs>> /\ Return
    BY <1>4, <1>n, HeadTypes DEF FlushStops, Running
  <2>2. PICK r \in {"NotSend", "Error"} : SendRequest(Head(stk).a, GetSend(tq[Head(stk).a]), r)
    BY <1>4 DEF FlushStops
  <2>3. GetSend(tq[Head(stk).a]) \in Msgs
    BY <1>4, <1>n, <2>1, SendHead DEF FlushStops, MaySendNext, Inv, KeyInv, Typed, QueuesTyped
  <2>4. NetKept
    BY <1>n, <2>1, <2>2, <2>3, NetSteps
  <2> QED
    BY <2>1, <2>4, PlainNet
<1>5. CASE EventConnecting
  <2>1. /\ stk # << >> /\ Head(stk).op \in {"in", "out"} /\ Head(stk).a \in Adapters
        /\ UNCHANGED <<objQ, env, tq, uniqId, reqMsg, reqs>>
    BY <1>5, <1>n, HeadTypes DEF EventConnecting, Running
  <2>2. PICK a \in Adapters : a = Head(stk).a
    BY <2>1
  <2>3. CASE Close(a) /\ Return
    BY <1>n, <2>1, <2>3, NetSteps, PlainNet
  <2>4. CASE ~ (Close(a) /\ Return)
    <3>1. PICK p, f : p = Do("prep", a) /\ f = Do(IF Running("in") THEN "recv" ELSE "req", a)
      OBVIOUS
    <3>2. p \in Others /\ f \in Others /\ p.op = "prep"
      BY <3>1, DoTypes
    <3>3. Calls(<<p, f>>) /\ conn' = [conn EXCEPT ![a] = "connected"] /\ UNCHANGED <<buffered, wire>>
      BY <1>5, <2>2, <2>4, <3>1 DEF EventConnecting
    <3>4. <<p, f>> \in Seq(Others) /\ Has(<<p, f>>, p)
      <4>1. <<p, f>> \in Seq(Others) /\ 1 \in 1 .. Len(<<p, f>>) /\ <<p, f>>[1] = p
        BY <3>2
      <4> QED
        BY <4>1 DEF Has
    <3>5. NetTyped'
      BY <1>n, <3>3 DEF NetTyped
    <3> QED
      BY <2>1, <3>2, <3>3, <3>4, <3>5, PlainStep
  <2> QED
    BY <2>3, <2>4
<1>6. CASE EventConnected
  <2>1. /\ stk # << >> /\ Head(stk).op \in {"in", "out"} /\ Head(stk).a \in Adapters
        /\ UNCHANGED net /\ UNCHANGED <<objQ, env, tq, uniqId, reqMsg, reqs>>
    BY <1>6, <1>n, HeadTypes DEF EventConnected, Running
  <2>2. \E f \in Others : Calls(<<f>>)
    BY <1>6, <2>1, DoTypes DEF EventConnected
  <2> QED
    BY <1>n, <2>1, <2>2, NetSteps, PlainNet
<1>7. CASE EventError \/ ReceiveClosed
  <2>1. /\ stk # << >> /\ Head(stk).op \in {"err", "recv"} /\ Head(stk).a \in Adapters
        /\ Close(Head(stk).a) /\ Return /\ UNCHANGED <<objQ, env, tq, uniqId, reqMsg, reqs>>
    BY <1>7, <1>n, HeadTypes DEF EventError, ReceiveClosed, Running
  <2> QED
    BY <1>n, <2>1, NetSteps, PlainNet
<1>8. CASE Request
  <2>1. /\ stk # << >> /\ Head(stk).op = "req" /\ Head(stk).a \in Adapters
        /\ UNCHANGED <<objQ, env, tq, uniqId, reqMsg, reqs>>
    BY <1>8, <1>n, HeadTypes DEF Request, Running
  <2>2. PICK a \in Adapters : a = Head(stk).a
    BY <2>1
  <2>3. Return \/ \E f \in Others : Calls(<<f>>)
    BY <1>8, <2>2, DoTypes DEF Request
  <2>4. NetKept
    <3>1. CASE UNCHANGED net \/ Close(a)
      BY <1>n, <3>1, NetSteps
    <3>2. CASE /\ buffered[a] # NoMsg /\ Reaches(a, buffered[a]) /\ UNCHANGED conn
               /\ buffered' = [buffered EXCEPT ![a] = NoMsg]
      <4>1. wire' \in [Adapters -> SUBSET Msgs]
        <5>1. buffered[a] \in Msgs /\ wire[a] \in SUBSET Msgs
          BY <1>n, <3>2 DEF NetTyped
        <5>2. (IF Kind[buffered[a]] = "ONE_WAY" THEN wire[a] ELSE wire[a] \cup {buffered[a]})
                \in SUBSET Msgs
          BY <5>1
        <5> QED
          BY <1>n, <3>2, <5>2 DEF Reaches, NetTyped
      <4> QED
        BY <1>n, <3>2, <4>1 DEF NetTyped, NetKept
    <3> QED
      BY <1>8, <2>2, <3>1, <3>2 DEF Request
  <2> QED
    BY <2>1, <2>3, <2>4, PlainNet
<1> QED
  BY <1>1, <1>2, <1>3, <1>4, <1>5, <1>6, <1>7, <1>8

\* An event or the scan begins.
LEMMA BeginningFrames ==
  ASSUME \/ \E a \in Adapters, in, out, err \in BOOLEAN : Event(a, in, out, err)
         \/ Scan
  PROVE  stk' \in Seq(Others)
<1>1. ASSUME NEW a \in Adapters, NEW in \in BOOLEAN, NEW out \in BOOLEAN, NEW err \in BOOLEAN,
             Event(a, in, out, err)
      PROVE  stk' \in Seq(Others)
  <2>1. PICK p, q, r : /\ p = (IF in THEN <<Do("in", a)>> ELSE << >>)
                       /\ q = (IF out THEN <<Do("out", a)>> ELSE << >>)
                       /\ r = (IF err THEN <<Do("err", a)>> ELSE << >>)
    OBVIOUS
  <2>2. p \in Seq(Others) /\ q \in Seq(Others) /\ r \in Seq(Others)
    BY <2>1, DoTypes
  <2>3. stk' = p \o q \o r
    BY <1>1, <2>1 DEF Event
  <2> QED
    BY <2>2, <2>3
<1>2. CASE Scan
  <2>1. PICK p, q : p = Do("scan", NoAdapter) /\ q = Do("scanObj", NoAdapter)
    OBVIOUS
  <2>2. p \in Others /\ q \in Others
    BY <2>1 DEF Do, Others, ScanFrames
  <2>3. stk' = <<p, q>>
    BY <1>2, <2>1 DEF Scan
  <2> QED
    BY <2>2, <2>3
<1> QED
  BY <1>1, <1>2

\* ... so do an epoll event and a scan when they begin.
LEMMA Beginnings ==
  ASSUME Inv,
         \/ \E a \in Adapters, in, out, err \in BOOLEAN : Event(a, in, out, err)
         \/ Scan
  PROVE  Inv'
<1>1. stk = << >> /\ UNCHANGED <<objQ, env, tq, uniqId, reqMsg, net, reqs>>
  BY DEF Event, Scan
<1>2. stk' \in Seq(Others)
  BY BeginningFrames
<1>3. PICK t : t = stk'
  OBVIOUS
<1>4. t \in Stacks /\ Apart(t) /\ \A x \in Msgs : ~ On(t, x)
  BY <1>2, <1>3, Plain
<1>5. EndInv' /\ ~ Preparing /\ \A x \in Msgs : ~ On(stk, x)
  <2>1. \A k \in 1 .. Len(stk') : stk'[k].op # "deliver"
    BY <1>2, Operands
  <2>2. Len(stk) = 0
    BY <1>1
  <2> QED
    BY <2>1, <2>2 DEF EndInv, Preparing, On
<1>6. UNCHANGED <<mode, eps, adapter, id, status, answer, outcome, expired>>
  BY <1>1 DEF env, reqs
<1>7. NetTyped' /\ eps' \in mode.lists /\ expired' \subseteq Msgs /\ conn' = conn
  BY <1>1, <1>6 DEF Inv, Typed, ReqsTyped, NetTyped, net
<1>8. Apart(stk)' /\ \A x \in Msgs : On(stk, x)' <=> On(stk, x)
  BY <1>3, <1>4, <1>5 DEF On, Apart
<1> QED
  BY <1>1, <1>3, <1>4, <1>5, <1>6, <1>7, <1>8, QuietKeeps

\* The clock and the list of addresses.
LEMMA Outside ==
  ASSUME Inv, (\E m \in Msgs : DeadlinePasses(m)) \/ (\E s \in mode.lists : UpdateEndpoints(s))
  PROVE  Inv'
<1>1. UNCHANGED <<objQ, mode, tq, uniqId, reqMsg, net, adapter, id, status, answer, outcome, stk>>
  BY DEF DeadlinePasses, UpdateEndpoints, reqs, env
<1>2. eps' \in mode.lists /\ expired' \subseteq Msgs
  BY DEF DeadlinePasses, UpdateEndpoints, reqs, env, Inv, Typed, ReqsTyped
<1>3. /\ NetTyped' /\ EndInv' /\ Apart(stk)' /\ stk' \in Stacks /\ (Preparing <=> Preparing')
      /\ \A x \in Msgs : On(stk, x)' <=> On(stk, x)
  BY <1>1 DEF net, Inv, Typed, NetTyped, EndInv, Serial, PlaceInv, Apart, Preparing, On
<1> QED
  BY <1>1, <1>2, <1>3, QuietKeeps DEF net
-----------------------------------------------------------------------------
(* Steps of a handler that runs for a request. *)

\* A call stack with one frame has this one's request on it and no other.
LEMMA Single ==
  ASSUME NEW f \in MsgFrames
  PROVE  /\ <<f>> \in Stacks /\ Apart(<<f>>) /\ f.m \in Msgs
         /\ \A g : Has(<<f>>, g) <=> g = f
         /\ \A x : On(<<f>>, x) <=> x = f.m
<1>1. PICK q : q = <<f>>
  OBVIOUS
<1>2. q \in Stacks /\ Len(q) = 1 /\ q[1] = f
  BY <1>1 DEF Stacks
<1>3. (\A k \in 1 .. Len(q) : k = 1) /\ 1 \in 1 .. Len(q)
  BY <1>2
<1>4. Apart(q) /\ (\A g : Has(q, g) <=> g = f) /\ \A x : On(q, x) <=> x = f.m
  BY <1>2, <1>3 DEF Apart, Has, On
<1> QED
  BY <1>1, <1>2, <1>4 DEF MsgFrames

\* A request with a handler is live and nowhere else, ...
LEMMA HeadLive ==
  ASSUME Inv, stk # << >>, Head(stk).op \in {"call", "deliver", "abort"}
  PROVE  LET m == Head(stk).m
         IN  /\ m \in Msgs /\ Head(stk).a \in Adapters /\ On(stk, m) /\ outcome[m] = "live"
             /\ ~ Has(objQ, m) /\ \A b \in Adapters : ~ Holds(tq[b], m)
<1>1. Typed /\ Head(stk).m \in Msgs /\ Head(stk).a \in Adapters
  BY HeadTypes DEF Inv
<1>2. Head(stk) = stk[1] /\ 1 \in 1 .. Len(stk)
  BY DEF Inv, Typed, Stacks
<1>3. On(stk, Head(stk).m)
  BY <1>2 DEF On
<1> QED
  BY <1>1, <1>3 DEF Inv, PlaceInv

\* ... so is one in a queue, and one at the object.
LEMMA QueuedLive ==
  ASSUME Inv, NEW a \in Adapters, NEW m \in Msgs, Holds(tq[a], m)
  PROVE  /\ ~ On(stk, m) /\ outcome[m] = "live" /\ ~ Has(objQ, m)
         /\ \A b \in Adapters : Holds(tq[b], m) <=> b = a
BY DEF Inv, PlaceInv

\* A request that waits at the object is live and nowhere else.
LEMMA WaitingLive ==
  ASSUME Inv, NEW m \in Msgs, Has(objQ, m)
  PROVE  /\ ~ On(stk, m) /\ outcome[m] = "live" /\ \A b \in Adapters : ~ Holds(tq[b], m)
         /\ Valid <=> adapter[m] # NoAdapter
BY DEF Inv, PlaceInv, WaitInv

\* The handler hands m to finishInvoke(), which it has taken from its place.
LEMMA EndKeeps ==
  ASSUME Inv, stk # << >>, Head(stk).op # "prep", NEW a \in Adapters, NEW m \in Msgs,
         Head(stk).m \in {m, NoMsg}, ~ On(stk, m) \/ m = Head(stk).m, outcome[m] = "live",
         ~ Has(objQ, m),
         NEW s \in Statuses, s # "REQ" \/ Serial, NEW fs \in Seq(Others), FinishInvoke(a, m, s, fs),
         UNCHANGED <<mode, eps, objQ, adapter>>, NetKept, QueuesTyped', KeyInv', SerialInv',
         id' \in [Msgs -> IdSet], answer' \in [Msgs -> Msgs \cup {NoMsg}],
         \A x \in Msgs \ {m}, b \in Adapters : Holds(tq[b], x)' <=> Holds(tq[b], x),
         \A b \in Adapters : ~ Holds(tq[b], m)'
  PROVE  Inv'
<1>1. Typed /\ Apart(stk) /\ EndInv /\ Once(objQ)
  BY DEF Inv, PlaceInv
<1>2. /\ stk' \in Stacks /\ Apart(stk)' /\ EndInv'
      /\ status' \in [Msgs -> Statuses] /\ outcome' \in [Msgs -> Outcomes] /\ expired' \subseteq Msgs
      /\ \A x \in Msgs \ {m} : /\ On(stk, x)' <=> On(stk, x) /\ x # Head(stk).m
                               /\ outcome'[x] = outcome[x]
      /\ On(stk, m)' <=> Kind[m] # "ONE_WAY"
      /\ outcome'[m] = IF Kind[m] = "ONE_WAY" THEN "gone" ELSE outcome[m]
      /\ Preparing => Preparing'
  BY <1>1, Finishes
<1>3. Typed'
  BY <1>1, <1>2 DEF Typed, ReqsTyped, NetKept
<1>4. \A x \in Msgs \ {m} : On(stk, x)' <=> On(stk, x)
  BY <1>2, ClientProxyAssumption
<1>5. Once(objQ)' /\ \A x : Has(objQ, x)' <=> Has(objQ, x)
  BY <1>1 DEF Once, Has
<1>6. PlaceInv'
  BY <1>2, <1>4, <1>5, MoveKeeps DEF Inv
<1>7. \A x \in Msgs : outcome'[x] = "new" => outcome[x] = "new"
  BY <1>2
<1>8. WaitInv'
  BY <1>1, <1>2, <1>5, <1>7, WaitKeeps DEF Inv, NetKept
<1> QED
  BY <1>2, <1>3, <1>6, <1>8 DEF Inv

\* The handler returns; its request has ended or is now in the queue of a.
LEMMA ReturnKeeps ==
  ASSUME Inv, stk # << >>, Head(stk).op # "prep", NEW m \in Msgs, Head(stk).m = m, ~ Has(objQ, m),
         Return, UNCHANGED <<mode, eps, objQ, adapter, status>>, NetKept,
         QueuesTyped', KeyInv', SerialInv', id' \in [Msgs -> IdSet],
         answer' \in [Msgs -> Msgs \cup {NoMsg}], outcome' \in [Msgs -> Outcomes],
         expired' \subseteq Msgs,
         \A x \in Msgs \ {m} : /\ \A b \in Adapters : Holds(tq[b], x)' <=> Holds(tq[b], x)
                               /\ outcome'[x] = outcome[x],
         \/ outcome'[m] = "live" /\ \E a \in Adapters : \A b \in Adapters : Holds(tq[b], m)' <=> b = a
         \/ outcome'[m] \notin {"live", "new"} /\ \A b \in Adapters : ~ Holds(tq[b], m)'
  PROVE  Inv'
<1>1. Typed /\ Apart(stk) /\ EndInv /\ Once(objQ)
  BY DEF Inv, PlaceInv
<1>2. Calls(<< >>) /\ << >> \in Seq(Others)
  BY <1>1, ReturnCalls DEF Typed
<1>3. /\ stk' \in Stacks /\ Apart(stk)' /\ EndInv'
      /\ \A x \in Msgs : On(stk, x)' <=> On(stk, x) /\ x # m
      /\ Preparing => Preparing'
  BY <1>1, <1>2, PlainCalls DEF Typed
<1>4. Typed'
  BY <1>1, <1>3 DEF Typed, ReqsTyped, NetKept
<1>5. Once(objQ)' /\ \A x : Has(objQ, x)' <=> Has(objQ, x)
  BY <1>1 DEF Once, Has
<1>6. PlaceInv'
  BY <1>3, <1>5, MoveKeeps DEF Inv
<1>7. \A x \in Msgs : outcome'[x] = "new" => outcome[x] = "new"
  OBVIOUS
<1>8. WaitInv'
  BY <1>1, <1>3, <1>5, <1>7, WaitKeeps DEF Inv, NetKept
<1> QED
  BY <1>3, <1>4, <1>6, <1>8 DEF Inv
-----------------------------------------------------------------------------
(* AdapterProxy::invoke(): the request is with the handler only. *)

\* The id of a request with the handler changes.
LEMMA NewIds ==
  ASSUME Inv, NEW m \in Msgs, \A b \in Adapters : ~ Holds(tq[b], m), NEW n \in IdSet,
         id' = [id EXCEPT ![m] = n]
  PROVE  /\ id' \in [Msgs -> IdSet]
         /\ \A b \in Adapters : \A i \in Ids(tq[b]) :
              tq[b].data[i].ptr # m /\ id'[tq[b].data[i].ptr] = id[tq[b].data[i].ptr]
<1>1. id \in [Msgs -> IdSet] /\ \A b \in Adapters : \A i \in Ids(tq[b]) : tq[b].data[i].ptr \in Msgs
  BY DEF Inv, Typed, ReqsTyped, QueuesTyped, QueueOK, Entry
<1>2. \A b \in Adapters : \A i \in Ids(tq[b]) : tq[b].data[i].ptr # m
  BY DEF Holds
<1> QED
  BY <1>1, <1>2

\* The request ends with an exception, having been in no queue.
LEMMA CallEnds ==
  ASSUME Inv, Running("call"), FinishInvoke(Head(stk).a, Head(stk).m, "EXC", << >>), NetKept,
         UNCHANGED <<objQ, env, tq, reqMsg, adapter, answer>>, uniqId' \in [Adapters -> IdSet],
         id' = id \/ \E n \in IdSet : id' = [id EXCEPT ![Head(stk).m] = n]
  PROVE  Inv'
<1>1. PICK a, m : a = Head(stk).a /\ m = Head(stk).m
  OBVIOUS
<1>2. /\ stk # << >> /\ Head(stk).op = "call" /\ a \in Adapters /\ m \in Msgs /\ outcome[m] = "live"
      /\ ~ Has(objQ, m) /\ \A b \in Adapters : ~ Holds(tq[b], m)
  BY <1>1, HeadLive DEF Running
<1>3. UNCHANGED <<mode, eps>> /\ Typed /\ KeyInv /\ SerialInv
  BY DEF env, Inv
<1>4. /\ id' \in [Msgs -> IdSet]
      /\ \A b \in Adapters : \A i \in Ids(tq[b]) : id'[tq[b].data[i].ptr] = id[tq[b].data[i].ptr]
  BY <1>1, <1>2, <1>3, NewIds DEF Typed, ReqsTyped
<1>5. KeyInv'
  BY <1>3, <1>4, IdsChange DEF Typed
<1>6. SerialInv'
  BY <1>3 DEF SerialInv, Serial
<1>7. QueuesTyped' /\ answer' \in [Msgs -> Msgs \cup {NoMsg}]
  BY <1>3 DEF Typed, QueuesTyped, ReqsTyped
<1>8. \A x, b : Holds(tq[b], x)' <=> Holds(tq[b], x)
  BY DEF Holds
<1>9. << >> \in Seq(Others) /\ FinishInvoke(a, m, "EXC", << >>) /\ "EXC" \in Statuses
  BY <1>1 DEF Statuses
<1> QED
  BY <1>1, <1>2, <1>3, <1>4, <1>5, <1>6, <1>7, <1>8, <1>9, EndKeeps

\* A request that is pushed into its queue, or refused because its id is in use, keeps the invariant.
LEMMA InsertKeeps ==
  ASSUME Inv, Running("call"), NEW a, NEW m, NEW n, a = Head(stk).a, m = Head(stk).m,
         n = NewId(a, m), Allowed(m), NEW sent \in BOOLEAN, Insert(a, m, n, sent),
         uniqId' = [uniqId EXCEPT ![a] = LastId(a, m)], id' = [id EXCEPT ![m] = n],
         UNCHANGED <<objQ, env, adapter, answer>>, NetKept
  PROVE  Inv'
<1>1. /\ stk # << >> /\ Head(stk).op = "call" /\ a \in Adapters /\ m \in Msgs /\ outcome[m] = "live"
      /\ ~ Has(objQ, m) /\ \A b \in Adapters : ~ Holds(tq[b], m)
  BY HeadLive DEF Running
<1>2. UNCHANGED <<mode, eps>> /\ Typed /\ KeyInv /\ SerialInv /\ QueuesTyped
  BY DEF env, Inv, Typed
<1>3. n \in IdSet /\ uniqId' \in [Adapters -> IdSet]
  BY <1>1, <1>2, IdTypes DEF QueuesTyped
<1>4. /\ id' \in [Msgs -> IdSet]
      /\ \A b \in Adapters : \A i \in Ids(tq[b]) :
           tq[b].data[i].ptr # m /\ id'[tq[b].data[i].ptr] = id[tq[b].data[i].ptr]
  BY <1>1, <1>3, NewIds
<1>5. CASE n \in Ids(tq[a])
  BY <1>3, <1>5, CallEnds DEF Insert
<1>6. CASE n \notin Ids(tq[a])
  <2>1. /\ tq' = [tq EXCEPT ![a] = PushQueue(tq[a], m, n, sent)] /\ Return
        /\ reqMsg' = IF Serial /\ sent THEN [reqMsg EXCEPT ![a] = m] ELSE reqMsg
        /\ UNCHANGED <<status, outcome, expired>>
    BY <1>6 DEF Insert
  <2>2. PICK r : r = PushQueue(tq[a], m, n, sent)
    OBVIOUS
  <2>3. /\ QueueOK(r) /\ Consistent(r) /\ Ids(r) = Ids(tq[a]) \cup {n} /\ r.data[n].ptr = m
        /\ \A i \in Ids(tq[a]) : r.data[i].ptr = tq[a].data[i].ptr
    <3>1. PICK q, x, k : q = tq[a] /\ x = m /\ k = n
      OBVIOUS
    <3>2. QueueOK(q) /\ Consistent(q) /\ k \notin Ids(q) /\ r = PushQueue(q, x, k, sent)
      BY <1>1, <1>2, <1>6, <2>2, <3>1 DEF QueuesTyped, KeyInv
    <3>3. x \in Msgs /\ k \in IdSet
      BY <1>1, <1>3, <3>1
    <3>4. /\ QueueOK(r) /\ Consistent(r) /\ Ids(r) = Ids(q) \cup {k} /\ r.data[k].ptr = x
          /\ \A i \in Ids(q) : r.data[i].ptr = q.data[i].ptr
      BY <3>2, <3>3, PushKeeps
    <3> QED
      BY <3>1, <3>4
  <2>4. ASSUME NEW i \in Ids(r)
        PROVE  id'[r.data[i].ptr] = i
    <3>1. id[tq[a].data[i].ptr] = i \/ i \notin Ids(tq[a])
      BY <1>1, <1>2 DEF KeyInv
    <3>2. CASE i \in Ids(tq[a])
      <4>1. id'[tq[a].data[i].ptr] = id[tq[a].data[i].ptr]
        <5>1. a \in Adapters
          BY <1>1
        <5> QED
          BY <1>4, <3>2, <5>1, Zenon
      <4>2. r.data[i].ptr = tq[a].data[i].ptr
        BY <2>3, <3>2, Zenon
      <4> QED
        BY <3>1, <3>2, <4>1, <4>2, Zenon
    <3>3. CASE i = n
      <4>1. id \in [Msgs -> IdSet]
        BY <1>2 DEF Typed, ReqsTyped
      <4>2. id'[m] = n
        BY <1>1, <4>1
      <4> QED
        BY <2>3, <3>3, <4>2
    <3> QED
      BY <2>3, <3>2, <3>3
  <2>5. /\ DOMAIN tq' = Adapters /\ (\A b \in Adapters : QueueOK(tq[b])') /\ KeyInv'
        /\ \A x : Holds(tq[a], x)' <=> Holds(r, x)
        /\ \A b \in Adapters \ {a} : \A x : Holds(tq[b], x)' <=> Holds(tq[b], x)
    <3>1. \A b \in Adapters \ {a} : \A i \in Ids(tq[b]) : id'[tq[b].data[i].ptr] = id[tq[b].data[i].ptr]
      BY <1>4
    <3>2. tq' = [tq EXCEPT ![a] = r]
      BY <2>1, <2>2
    <3> QED
      BY <1>1, <1>2, <2>3, <2>4, <3>1, <3>2, QueueBecomes
  <2>6. \A x : Holds(r, x) <=> Holds(tq[a], x) \/ x = m
    BY <2>3 DEF Holds
  <2>7. QueuesTyped'
    BY <1>1, <1>2, <1>3, <2>1, <2>5 DEF QueuesTyped
  <2>8. \A x \in Msgs, b \in Adapters : Holds(tq[b], x)' <=> Holds(tq[b], x) \/ (x = m /\ b = a)
    BY <2>5, <2>6
  <2>9. SerialInv'
    <3>1. Serial => Kind[m] # "ONE_WAY"
      BY DEF Allowed
    <3>2. \A b \in Adapters : reqMsg'[b] = reqMsg[b] \/ (b = a /\ reqMsg'[b] = m)
      BY <1>1, <1>2, <2>1 DEF QueuesTyped
    <3>3. \A b \in Adapters : reqMsg[b] \in Msgs \cup {NoMsg}
      BY <1>2 DEF QueuesTyped
    <3>4. Serial' = Serial
      BY <1>2 DEF Serial
    <3>5. ASSUME Serial, NEW b \in Adapters
          PROVE  /\ reqMsg'[b] # NoMsg => Holds(tq[b], reqMsg[b])'
                 /\ \A x \in Msgs : Holds(tq[b], x)' => Kind[x] # "ONE_WAY"
      <4>1. \A x \in Msgs : Holds(tq[b], x)' => Kind[x] # "ONE_WAY"
        BY <1>2, <2>8, <3>1, <3>5 DEF SerialInv
      <4>2. CASE b = a /\ reqMsg'[b] = m
        <5>1. Holds(tq'[b], m)
          BY <1>1, <2>8, <4>2 DEF Holds
        <5> QED
          BY <4>1, <4>2, <5>1 DEF Holds
      <4>3. CASE reqMsg'[b] = reqMsg[b]
        <5>1. reqMsg'[b] # NoMsg => Holds(tq'[b], reqMsg[b])
          BY <1>2, <2>8, <3>3, <3>5, <4>3 DEF SerialInv, Holds
        <5> QED
          BY <4>1, <4>3, <5>1 DEF Holds
      <4> QED
        BY <3>2, <4>2, <4>3
    <3> QED
      BY <3>4, <3>5 DEF SerialInv
  <2>10. outcome' \in [Msgs -> Outcomes] /\ expired' \subseteq Msgs /\ answer' \in [Msgs -> Msgs \cup {NoMsg}]
    BY <1>2, <2>1 DEF Typed, ReqsTyped
  <2> QED
    BY <1>1, <1>2, <1>4, <2>1, <2>5, <2>7, <2>8, <2>9, <2>10, ReturnKeeps
<1> QED
  BY <1>5, <1>6

\* AdapterProxy::invoke() in all its ways, and the handing back of a request, keep the invariant.
LEMMA CallSteps ==
  ASSUME Inv, CallRefused \/ CallAborts \/ CallSent \/ CallFailed \/ CallQueued \/ Deliver
  PROVE  Inv'
<1>1. PICK a, m : a = Head(stk).a /\ m = Head(stk).m
  OBVIOUS
<1>2. /\ stk # << >> /\ Head(stk).op \in {"call", "deliver"} /\ a \in Adapters /\ m \in Msgs
      /\ outcome[m] = "live" /\ On(stk, m) /\ ~ Has(objQ, m)
      /\ \A b \in Adapters : ~ Holds(tq[b], m)
  <2>1. stk # << >> /\ Head(stk).op \in {"call", "deliver"}
    BY DEF CallRefused, CallAborts, CallSent, CallFailed, CallQueued, Deliver, Running
  <2> QED
    BY <1>1, <2>1, HeadLive
<1>3. Typed /\ KeyInv /\ SerialInv /\ QueuesTyped /\ NetTyped /\ ReqsTyped
  BY DEF Inv, Typed
<1>4. /\ LastId(a, m) \in IdSet /\ NewId(a, m) \in IdSet
      /\ uniqId' = [uniqId EXCEPT ![a] = LastId(a, m)] => uniqId' \in [Adapters -> IdSet]
  BY <1>2, <1>3, IdTypes DEF QueuesTyped
<1>5. CASE CallRefused
  <2>1. NetKept
    BY <1>2, <1>3, <1>5, NetSteps DEF CallRefused
  <2>2. uniqId' \in [Adapters -> IdSet]
    BY <1>3, <1>5 DEF CallRefused, QueuesTyped
  <2> QED
    BY <1>5, <2>1, <2>2, CallEnds DEF CallRefused
<1>6. CASE CallFailed
  <2>1. NetKept
    BY <1>1, <1>2, <1>3, <1>6, NetSteps DEF CallFailed
  <2> QED
    BY <1>1, <1>4, <1>6, <2>1, CallEnds DEF CallFailed
<1>7. CASE CallQueued
  <2>1. NetKept
    BY <1>2, <1>3, <1>7, NetSteps DEF CallQueued
  <2> QED
    BY <1>1, <1>7, <2>1, InsertKeeps DEF CallQueued
<1>8. CASE CallSent
  <2>1. NetKept
    <3>1. PICK r \in {"Ok", "Full"} : SendRequest(a, m, r)
      BY <1>1, <1>8 DEF CallSent
    <3> QED
      BY <1>2, <1>3, <3>1, NetSteps
  <2>2. CASE Kind[m] # "ONE_WAY"
    BY <1>1, <1>8, <2>1, <2>2, InsertKeeps DEF CallSent
  <2>3. CASE Kind[m] = "ONE_WAY"
    <3>1. /\ Settle(m, "gone") /\ Return /\ UNCHANGED <<tq, reqMsg, status, objQ, mode, eps, adapter, answer>>
          /\ uniqId' = [uniqId EXCEPT ![a] = LastId(a, m)] /\ id' = [id EXCEPT ![m] = NewId(a, m)]
      BY <1>1, <1>8, <2>3 DEF CallSent, env
    <3>2. PICK n \in IdSet : n = NewId(a, m)
      BY <1>4
    <3>3. /\ id' \in [Msgs -> IdSet]
          /\ \A b \in Adapters : \A i \in Ids(tq[b]) : id'[tq[b].data[i].ptr] = id[tq[b].data[i].ptr]
      BY <1>2, <3>1, <3>2, NewIds
    <3>4. KeyInv'
      BY <1>3, <3>1, <3>3, IdsChange
    <3>5. SerialInv' /\ QueuesTyped' /\ \A x, b : Holds(tq[b], x)' <=> Holds(tq[b], x)
      BY <1>3, <1>4, <3>1 DEF SerialInv, Serial, QueuesTyped, Holds
    <3>6. /\ outcome' \in [Msgs -> Outcomes] /\ expired' \subseteq Msgs /\ outcome'[m] = "gone"
          /\ answer' \in [Msgs -> Msgs \cup {NoMsg}] /\ \A x \in Msgs \ {m} : outcome'[x] = outcome[x]
      BY <1>2, <1>3, <3>1 DEF Settle, Outcomes, ReqsTyped
    <3> QED
      BY <1>1, <1>2, <2>1, <3>1, <3>3, <3>4, <3>5, <3>6, ReturnKeeps
  <2> QED
    BY <2>2, <2>3
<1>9. CASE Deliver
  <2>1. /\ Settle(m, status[m]) /\ Return /\ (UNCHANGED net \/ Close(a))
        /\ UNCHANGED <<objQ, mode, eps, tq, uniqId, reqMsg, adapter, id, status, answer>>
    BY <1>1, <1>9 DEF Deliver, env
  <2>2. NetKept
    BY <1>2, <1>3, <2>1, NetSteps
  <2>3. KeyInv' /\ SerialInv' /\ QueuesTyped' /\ \A x, b : Holds(tq[b], x)' <=> Holds(tq[b], x)
    BY <1>3, <2>1 DEF KeyInv, SerialInv, Serial, QueuesTyped, Holds
  <2>4. PICK o \in Statuses : o = status[m]
    BY <1>2, <1>3 DEF ReqsTyped
  <2>5. o \in Outcomes /\ o # "live" /\ o # "new"
    BY <2>4 DEF Statuses, Outcomes
  <2>6. outcome' = [outcome EXCEPT ![m] = o] /\ expired' \subseteq Msgs
    BY <1>3, <2>1, <2>4 DEF Settle, ReqsTyped
  <2>7. /\ outcome' \in [Msgs -> Outcomes] /\ outcome'[m] = o
        /\ \A x \in Msgs \ {m} : outcome'[x] = outcome[x]
    BY <1>2, <1>3, <2>5, <2>6 DEF ReqsTyped
  <2>8. answer' \in [Msgs -> Msgs \cup {NoMsg}] /\ id' \in [Msgs -> IdSet]
    BY <1>3, <2>1 DEF ReqsTyped
  <2>9. outcome'[m] \notin {"live", "new"} /\ \A b \in Adapters : ~ Holds(tq[b], m)'
    BY <1>2, <2>3, <2>5, <2>7
  <2>10. \A x \in Msgs \ {m} : /\ \A b \in Adapters : Holds(tq[b], x)' <=> Holds(tq[b], x)
                               /\ outcome'[x] = outcome[x]
    BY <2>3, <2>7
  <2> QED
    BY <1>1, <1>2, <2>1, <2>2, <2>3, <2>6, <2>7, <2>8, <2>9, <2>10, ReturnKeeps
<1>10. CASE CallAborts
  <2>1. PICK f : f = [Head(stk) EXCEPT !.op = "abort"]
    OBVIOUS
  <2>2. Head(stk) \in MsgFrames /\ Head(stk).op = "call"
    BY <1>2, <1>3, <1>10, HeadTypes, Operands DEF CallAborts, Running
  <2>3. f \in MsgFrames /\ f.m = m /\ f.op = "abort"
    BY <1>1, <2>1, <2>2 DEF MsgFrames
  <2>4. PICK gs : gs = <<f>>
    OBVIOUS
  <2>5. /\ gs \in Stacks /\ Apart(gs) /\ (\A g : Has(gs, g) <=> g = f)
        /\ \A x : On(gs, x) <=> x = m
    BY <2>3, <2>4, Single
  <2>6. /\ stk' = gs \o Tail(stk)
        /\ UNCHANGED <<objQ, mode, eps, tq, uniqId, reqMsg, net, adapter, id, status, answer, outcome, expired>>
    BY <1>10, <2>1, <2>4 DEF CallAborts, env, reqs
  <2>7. stk \in Stacks /\ Apart(stk) /\ EndInv
    BY DEF Inv, Typed, PlaceInv
  <2>8. /\ stk' \in Stacks /\ Apart(stk')
        /\ \A g : Has(stk', g) <=> Has(gs, g) \/ Has(Tail(stk), g)
        /\ \A x \in Msgs : On(stk', x) <=> On(gs, x) \/ (On(stk, x) /\ x # Head(stk).m)
    BY <1>1, <1>2, <2>5, <2>6, <2>7, CallsKeep
  <2>9. \A g : Has(stk, g) <=> Has(Tail(stk), g) \/ g = Head(stk)
    BY <1>2, <2>7, TailOne DEF Stacks
  <2>10. EndInv'
    <3>1. \A g : Has(stk', g) /\ g.op = "deliver" => Has(stk, g)
      BY <2>3, <2>5, <2>8, <2>9
    <3> QED
      BY <2>6, <2>7, <3>1, ByFrames DEF EndInv, Has, Serial
  <2>11. Preparing => Preparing'
    <3>1. Preparing' <=> \E g : Has(stk', g) /\ g.op = "prep"
      BY DEF Preparing, Has
    <3> QED
      BY <2>2, <2>8, <2>9, <3>1, ByFrames
  <2>12. Apart(stk)' /\ \A x \in Msgs : On(stk, x)' <=> On(stk, x)
    <3>1. Apart(stk') /\ \A x \in Msgs : On(stk', x) <=> On(stk, x)
      BY <1>1, <1>2, <2>5, <2>8
    <3> QED
      BY <3>1 DEF On, Apart
  <2>13. NetTyped' /\ conn' = conn /\ eps' \in mode.lists /\ expired' \subseteq Msgs
    BY <1>3, <2>6 DEF net, NetTyped, ReqsTyped, Typed
  <2> QED
    BY <2>6, <2>8, <2>10, <2>11, <2>12, <2>13, QuietKeeps
<1> QED
  BY <1>5, <1>6, <1>7, <1>8, <1>9, <1>10
-----------------------------------------------------------------------------
(* The requests of a connection: sent, answered, or out of time. *)

\* r is q without the request that has id i.
Without(r, q, i) ==
  /\ QueueOK(r) /\ Consistent(r) /\ Ids(r) = Ids(q) \ {i}
  /\ \A j \in Ids(r) : r.data[j].ptr = q.data[j].ptr

\* The queue of a becomes r, a serial connection waits for no answer any more.
Becomes(a, r) == tq' = [tq EXCEPT ![a] = r]
Frees(a)      == reqMsg' \in {reqMsg, [reqMsg EXCEPT ![a] = NoMsg]}

\* A request leaves the queue of its connection, and no answer to it is waited for.
LEMMA TakenFrom ==
  ASSUME Inv, NEW a \in Adapters, NEW i, NEW m, NEW r, i \in Ids(tq[a]), m = tq[a].data[i].ptr,
         Without(r, tq[a], i), Becomes(a, r), Frees(a), Serial => reqMsg'[a] # m, UNCHANGED <<mode, uniqId, id>>
  PROVE  /\ m \in Msgs /\ Holds(tq[a], m) /\ QueuesTyped' /\ KeyInv' /\ SerialInv'
         /\ ~ On(stk, m) /\ outcome[m] = "live" /\ ~ Has(objQ, m)
         /\ \A x \in Msgs \ {m}, b \in Adapters : Holds(tq[b], x)' <=> Holds(tq[b], x)
         /\ \A b \in Adapters : ~ Holds(tq[b], m)'
<1>1. Typed /\ KeyInv /\ SerialInv /\ QueuesTyped
  BY DEF Inv, Typed
<1>2. m \in Msgs /\ Holds(tq[a], m)
  BY <1>1 DEF QueuesTyped, QueueOK, Entry, Holds
<1>3. ~ On(stk, m) /\ outcome[m] = "live" /\ ~ Has(objQ, m) /\ \A b \in Adapters : Holds(tq[b], m) <=> b = a
  BY <1>2, QueuedLive
<1>4. /\ DOMAIN tq' = Adapters /\ (\A b \in Adapters : QueueOK(tq[b])') /\ KeyInv'
      /\ \A x : Holds(tq[a], x)' <=> Holds(r, x)
      /\ \A b \in Adapters \ {a} : \A x : Holds(tq[b], x)' <=> Holds(tq[b], x)
  <2>1. \A j \in Ids(r) : id'[r.data[j].ptr] = j
    BY <1>1 DEF KeyInv, Without
  <2>2. \A b \in Adapters \ {a} : \A j \in Ids(tq[b]) : id'[tq[b].data[j].ptr] = id[tq[b].data[j].ptr]
    OBVIOUS
  <2>3. tq' = [tq EXCEPT ![a] = r]
    BY DEF Becomes
  <2> QED
    BY <1>1, <2>1, <2>2, <2>3, QueueBecomes DEF Without
<1>5. \A x : Holds(r, x) <=> Holds(tq[a], x) /\ x # m
  BY <1>1, LessHolds DEF KeyInv, Without
<1>6. /\ \A x \in Msgs \ {m}, b \in Adapters : Holds(tq[b], x)' <=> Holds(tq[b], x)
      /\ \A b \in Adapters : ~ Holds(tq[b], m)'
  BY <1>3, <1>4, <1>5
<1>7. QueuesTyped'
  BY <1>1, <1>4 DEF QueuesTyped, Frees
<1>8. SerialInv'
  <2>1. Serial' = Serial
    BY DEF Serial
  <2>2. ASSUME Serial, NEW b \in Adapters
        PROVE  /\ reqMsg'[b] # NoMsg => Holds(tq[b], reqMsg[b])'
               /\ \A x \in Msgs : Holds(tq[b], x)' => Kind[x] # "ONE_WAY"
    <3>1. reqMsg'[b] \in {NoMsg, reqMsg[b]} /\ reqMsg[b] \in Msgs \cup {NoMsg}
      BY <1>1 DEF QueuesTyped, Frees
    <3>2. reqMsg'[b] # NoMsg => Holds(tq[b], reqMsg'[b])
      BY <1>1, <2>2, <3>1 DEF SerialInv
    <3>3. reqMsg'[b] # NoMsg => reqMsg'[b] # m
      <4>1. CASE b = a
        BY <2>2, <4>1
      <4>2. CASE b # a
        BY <1>3, <3>2, <4>2
      <4> QED
        BY <4>1, <4>2
    <3>4. \A x \in Msgs \ {m} : Holds(tq'[b], x) <=> Holds(tq[b], x)
      BY <1>6 DEF Holds
    <3>5. reqMsg'[b] # NoMsg => Holds(tq'[b], reqMsg'[b])
      BY <3>1, <3>2, <3>3, <3>4
    <3>6. \A x \in Msgs : Holds(tq[b], x)' => Kind[x] # "ONE_WAY"
      BY <1>1, <1>6, <2>2 DEF SerialInv
    <3> QED
      BY <3>5, <3>6 DEF Holds
  <2> QED
    BY <2>1, <2>2 DEF SerialInv
<1> QED
  BY <1>2, <1>3, <1>4, <1>6, <1>7, <1>8

\* A request of a connection that times out keeps the invariant.
LEMMA ScanAdapterKeeps ==
  ASSUME Inv, ScanAdapter PROVE Inv'
<1>1. /\ stk # << >> /\ Head(stk).op = "scan" /\ Head(stk).m = NoMsg /\ Head(stk) \in Others
      /\ UNCHANGED <<objQ, mode, eps, uniqId, adapter, id, answer>>
  BY HeadTypes DEF ScanAdapter, Running, Inv, env
<1>a. PICK a \in Adapters : \E i \in ExpiredIds(a) :
        /\ tq' = [tq EXCEPT ![a] = EraseQueue(@, i)]
        /\ LeaveConnection(a, tq[a].data[i].ptr)
        /\ FinishInvoke(a, tq[a].data[i].ptr, "TIME", <<Head(stk)>>)
  BY DEF ScanAdapter
<1>2. PICK i \in ExpiredIds(a) :
        /\ tq' = [tq EXCEPT ![a] = EraseQueue(@, i)]
        /\ LeaveConnection(a, tq[a].data[i].ptr)
        /\ FinishInvoke(a, tq[a].data[i].ptr, "TIME", <<Head(stk)>>)
  BY <1>a
<1>3. PICK m, r, f : m = tq[a].data[i].ptr /\ r = EraseQueue(tq[a], i) /\ f = Head(stk)
  OBVIOUS
<1>4. Typed /\ QueuesTyped /\ KeyInv /\ NetTyped /\ ReqsTyped /\ i \in Ids(tq[a])
  BY DEF Inv, Typed, ExpiredIds
<1>5. Without(r, tq[a], i)
  BY <1>3, <1>4, EraseKeeps DEF QueuesTyped, KeyInv, Without
<1>6. Frees(a) /\ (m \in Msgs => reqMsg'[a] # m) /\ NetKept
  <2>1. CASE m = reqMsg[a]
    BY <1>2, <1>3, <1>4, <2>1, NetSteps, ClientProxyAssumption DEF LeaveConnection, QueuesTyped, Frees
  <2>2. CASE m # reqMsg[a]
    BY <1>2, <1>3, <1>4, <2>2, NetSteps DEF LeaveConnection, Frees
  <2> QED
    BY <2>1, <2>2
<1>7. m \in Msgs
  BY <1>3, <1>4 DEF QueuesTyped, QueueOK, Entry
<1>8. /\ QueuesTyped' /\ KeyInv' /\ SerialInv' /\ ~ On(stk, m) /\ outcome[m] = "live" /\ ~ Has(objQ, m)
      /\ \A x \in Msgs \ {m}, b \in Adapters : Holds(tq[b], x)' <=> Holds(tq[b], x)
      /\ \A b \in Adapters : ~ Holds(tq[b], m)'
  <2>1. Becomes(a, r)
    BY <1>2, <1>3 DEF Becomes
  <2> QED
    BY <1>1, <1>3, <1>4, <1>5, <1>6, <1>7, <2>1, TakenFrom
<1>9. /\ FinishInvoke(a, m, "TIME", <<f>>) /\ <<f>> \in Seq(Others)
      /\ "TIME" \in Statuses /\ "TIME" # "REQ"
  BY <1>1, <1>2, <1>3 DEF Statuses
<1>10. id' \in [Msgs -> IdSet] /\ answer' \in [Msgs -> Msgs \cup {NoMsg}]
  BY <1>1, <1>4 DEF ReqsTyped
<1> QED
  BY <1>1, <1>6, <1>7, <1>8, <1>9, <1>10, EndKeeps

\* A serial request whose bytes cannot be sent keeps the invariant.
LEMMA FlushFailsKeeps ==
  ASSUME Inv, FlushFails PROVE Inv'
<1>1. PICK a, m, i, r : /\ a = Head(stk).a /\ m = GetSend(tq[a]) /\ i = Head(tq[a].send)
                        /\ r = PopSend(tq[a], TRUE)
  OBVIOUS
<1>2. /\ stk # << >> /\ Head(stk).op = "flush" /\ Head(stk).m = NoMsg /\ a \in Adapters /\ Serial
      /\ UNCHANGED <<objQ, mode, eps, uniqId, reqMsg, adapter, id, answer>>
      /\ tq[a].send # << >> /\ reqMsg[a] = NoMsg
  BY <1>1, HeadTypes DEF FlushFails, MaySendNext, Running, Inv, env
<1>3. Typed /\ QueuesTyped /\ KeyInv /\ NetTyped /\ ReqsTyped
  BY DEF Inv, Typed
<1>4. i \in Ids(tq[a]) /\ m = tq[a].data[i].ptr /\ m \in Msgs
  BY <1>1, <1>2, <1>3, SendHead DEF QueuesTyped, KeyInv
<1>5. Without(r, tq[a], i)
  BY <1>1, <1>2, <1>3, PopKeeps DEF QueuesTyped, KeyInv, Without
<1>6. SendRequest(a, m, "Error") /\ FinishInvoke(a, m, status[m], << >>) /\ Becomes(a, r)
  BY <1>1 DEF FlushFails, Becomes
<1>7. NetKept
  BY <1>2, <1>3, <1>4, <1>6, NetSteps
<1>8. Frees(a) /\ reqMsg'[a] # m
  BY <1>2, <1>4, ClientProxyAssumption DEF Frees
<1>9. /\ QueuesTyped' /\ KeyInv' /\ SerialInv' /\ ~ On(stk, m) /\ outcome[m] = "live" /\ ~ Has(objQ, m)
      /\ \A x \in Msgs \ {m}, b \in Adapters : Holds(tq[b], x)' <=> Holds(tq[b], x)
      /\ \A b \in Adapters : ~ Holds(tq[b], m)'
  BY <1>2, <1>4, <1>5, <1>6, <1>8, TakenFrom
<1>10. status[m] \in Statuses /\ << >> \in Seq(Others)
  BY <1>3, <1>4 DEF ReqsTyped
<1>11. id' \in [Msgs -> IdSet] /\ answer' \in [Msgs -> Msgs \cup {NoMsg}]
  BY <1>2, <1>3 DEF ReqsTyped
<1> QED
  BY <1>2, <1>4, <1>6, <1>7, <1>9, <1>10, <1>11, EndKeeps

\* A response keeps the invariant, whomever it is given to.
LEMMA ReceiveKeeps ==
  ASSUME Inv, NEW q \in Msgs, NEW last \in BOOLEAN, Receive(q, last) PROVE Inv'
<1>1. PICK a, m, f : a = Head(stk).a /\ m = Answered(a, q) /\ f = Head(stk)
  OBVIOUS
<1>2. PICK fs : fs = (IF last THEN << >> ELSE <<f>>)
  OBVIOUS
<1>3. /\ stk # << >> /\ f.op = "recv" /\ f.m = NoMsg /\ a \in Adapters /\ f \in Others
      /\ UNCHANGED <<objQ, mode, eps, uniqId, adapter, id>>
  BY <1>1, HeadTypes DEF Receive, Running, Inv, env
<1>4. Typed /\ QueuesTyped /\ KeyInv /\ SerialInv /\ NetTyped /\ ReqsTyped
  BY DEF Inv, Typed
<1>5. NetKept
  <2>1. Close(a) \/ (wire' = [wire EXCEPT ![a] = @ \ {q}] /\ UNCHANGED <<conn, buffered>>)
    BY <1>1 DEF Receive
  <2>2. ASSUME wire' = [wire EXCEPT ![a] = @ \ {q}], UNCHANGED <<conn, buffered>>
        PROVE  NetKept
    BY <1>3, <1>4, <2>2 DEF NetTyped, NetKept
  <2> QED
    BY <1>3, <1>4, <2>1, <2>2, NetSteps
<1>6. fs \in Seq(Others)
  BY <1>2, <1>3
<1>7. CASE m = NoMsg
  <2>1. Calls(fs) /\ UNCHANGED <<tq, reqMsg, answer, status, outcome, expired>>
    BY <1>1, <1>2, <1>7 DEF Receive
  <2>2. UNCHANGED <<objQ, env, tq, uniqId, reqMsg, reqs>>
    BY <1>3, <2>1 DEF env, reqs
  <2> QED
    BY <1>1, <1>3, <1>5, <1>6, <2>1, <2>2, PlainStep DEF NetKept
<1>8. CASE m # NoMsg
  <2>1. PICK i, r : i = AnsweredId(a, q) /\ r = EraseQueue(tq[a], i)
    OBVIOUS
  <2>2. /\ Becomes(a, r) /\ answer' = [answer EXCEPT ![m] = q] /\ FinishInvoke(a, m, "RSP", fs)
        /\ reqMsg' = IF Serial THEN [reqMsg EXCEPT ![a] = NoMsg] ELSE reqMsg
    BY <1>1, <1>2, <1>8, <2>1 DEF Receive, Becomes
  <2>3. i \in Ids(tq[a]) /\ m = tq[a].data[i].ptr
    <3>1. CASE Serial
      <4>1. m = reqMsg[a] /\ i = id[m]
        BY <1>1, <2>1, <3>1 DEF Answered, AnsweredId
      <4>2. Holds(tq[a], m)
        BY <1>3, <1>4, <1>8, <3>1, <4>1 DEF SerialInv
      <4>3. PICK j \in Ids(tq[a]) : tq[a].data[j].ptr = m
        BY <4>2 DEF Holds
      <4> QED
        BY <1>3, <1>4, <4>1, <4>3 DEF KeyInv
    <3>2. CASE ~ Serial
      BY <1>1, <1>8, <2>1, <3>2 DEF Answered, AnsweredId
    <3> QED
      BY <3>1, <3>2
  <2>4. m \in Msgs
    BY <1>3, <1>4, <2>3 DEF QueuesTyped, QueueOK, Entry
  <2>5. Without(r, tq[a], i)
    BY <1>3, <1>4, <2>1, <2>3, EraseKeeps DEF QueuesTyped, KeyInv, Without
  <2>6. Frees(a) /\ (Serial => reqMsg'[a] # m)
    BY <1>3, <1>4, <2>2, <2>4, ClientProxyAssumption DEF Frees, QueuesTyped
  <2>7. /\ QueuesTyped' /\ KeyInv' /\ SerialInv' /\ ~ On(stk, m) /\ outcome[m] = "live" /\ ~ Has(objQ, m)
        /\ \A x \in Msgs \ {m}, b \in Adapters : Holds(tq[b], x)' <=> Holds(tq[b], x)
        /\ \A b \in Adapters : ~ Holds(tq[b], m)'
    BY <1>3, <2>2, <2>3, <2>5, <2>6, TakenFrom
  <2>8. id' \in [Msgs -> IdSet] /\ answer' \in [Msgs -> Msgs \cup {NoMsg}]
    BY <1>3, <1>4, <2>2 DEF ReqsTyped
  <2>9. "RSP" \in Statuses /\ "RSP" # "REQ"
    BY DEF Statuses
  <2> QED
    BY <1>1, <1>3, <1>5, <1>6, <2>2, <2>4, <2>7, <2>8, <2>9, EndKeeps
<1> QED
  BY <1>7, <1>8

\* A handler about no request that returns or goes on leaves the requests where they are.
LEMMA StackStays ==
  ASSUME Inv, stk # << >>, Head(stk).op # "prep", Head(stk).m = NoMsg, Return \/ UNCHANGED stk,
         UNCHANGED <<mode, status>>
  PROVE  /\ stk' \in Stacks /\ Apart(stk)' /\ EndInv' /\ (Preparing => Preparing')
         /\ \A x \in Msgs : On(stk, x)' <=> On(stk, x)
<1>1. stk \in Stacks /\ Apart(stk) /\ EndInv
  BY DEF Inv, Typed, PlaceInv
<1>2. CASE Return
  <2>1. Calls(<< >>) /\ << >> \in Seq(Others)
    BY <1>1, <1>2, ReturnCalls
  <2> QED
    BY <1>1, <2>1, PlainCalls, ClientProxyAssumption
<1>3. CASE UNCHANGED stk
  BY <1>1, <1>3 DEF Apart, EndInv, Preparing, On, Serial
<1> QED
  BY <1>2, <1>3

\* A request that is sent from the send list keeps the invariant.
LEMMA FlushSendsKeeps ==
  ASSUME Inv, FlushSends PROVE Inv'
<1>1. PICK a, m, i : a = Head(stk).a /\ m = GetSend(tq[a]) /\ i = Head(tq[a].send)
  OBVIOUS
<1>d. PICK del \in BOOLEAN : del <=> Kind[m] = "ONE_WAY"
  OBVIOUS
<1>2. PICK r : r = PopSend(tq[a], Kind[m] = "ONE_WAY")
  OBVIOUS
<1>3. /\ stk # << >> /\ Head(stk).op = "flush" /\ Head(stk).m = NoMsg /\ a \in Adapters
      /\ UNCHANGED <<objQ, mode, eps, uniqId, adapter, id, status, answer>>
      /\ tq[a].send # << >> /\ (Serial => reqMsg[a] = NoMsg) /\ Becomes(a, r)
      /\ Return \/ UNCHANGED stk
      /\ reqMsg' = IF Serial THEN [reqMsg EXCEPT ![a] = m] ELSE reqMsg
      /\ IF Kind[m] = "ONE_WAY" THEN Settle(m, "gone") ELSE UNCHANGED <<outcome, expired>>
  <2>1. stk # << >> /\ Head(stk).op = "flush" /\ Head(stk).m = NoMsg /\ a \in Adapters
    BY <1>1, HeadTypes DEF FlushSends, Running, Inv
  <2>2. Return \/ UNCHANGED stk
    BY DEF FlushSends
  <2>3. Becomes(a, r)
    BY <1>1, <1>2 DEF FlushSends, Becomes
  <2> QED
    BY <1>1, <2>1, <2>2, <2>3 DEF FlushSends, MaySendNext, env
<1>4. Typed /\ QueuesTyped /\ KeyInv /\ SerialInv /\ NetTyped /\ ReqsTyped /\ PlaceInv /\ WaitInv
  BY DEF Inv, Typed
<1>5. i \in Ids(tq[a]) /\ m = tq[a].data[i].ptr /\ m \in Msgs /\ Holds(tq[a], m)
  BY <1>1, <1>3, <1>4, SendHead DEF QueuesTyped, KeyInv, Holds
<1>6. /\ ~ On(stk, m) /\ outcome[m] = "live" /\ ~ Has(objQ, m)
      /\ \A b \in Adapters : Holds(tq[b], m) <=> b = a
  BY <1>3, <1>5, QueuedLive
<1>7. NetKept
  <2>1. PICK s \in {"Ok", "Full"} : SendRequest(a, m, s)
    BY <1>1 DEF FlushSends
  <2> QED
    BY <1>3, <1>4, <1>5, <2>1, NetSteps
<1>8. /\ stk' \in Stacks /\ Apart(stk)' /\ EndInv' /\ (Preparing => Preparing')
      /\ \A x \in Msgs : On(stk, x)' <=> On(stk, x)
  BY <1>3, StackStays
<1>9. /\ QueueOK(r) /\ Consistent(r) /\ \A j \in Ids(r) : r.data[j].ptr = tq[a].data[j].ptr
      /\ Ids(r) = IF del THEN Ids(tq[a]) \ {i} ELSE Ids(tq[a])
  <2>1. r = PopSend(tq[a], del)
    BY <1>2, <1>d DEF PopSend
  <2>2. PICK q : q = tq[a]
    OBVIOUS
  <2>3. QueueOK(q) /\ Consistent(q) /\ q.send # << >>
    BY <1>3, <1>4, <2>2 DEF QueuesTyped, KeyInv
  <2>4. r = PopSend(q, del) /\ i = Head(q.send)
    BY <1>1, <2>1, <2>2
  <2>5. /\ QueueOK(r) /\ Consistent(r) /\ \A j \in Ids(r) : r.data[j].ptr = q.data[j].ptr
        /\ Ids(r) = IF del THEN Ids(q) \ {i} ELSE Ids(q)
    BY <2>3, <2>4, PopKeeps
  <2> QED
    BY <2>2, <2>5
<1>10. /\ QueuesTyped' /\ KeyInv' /\ SerialInv'
       /\ \A x \in Msgs \ {m}, b \in Adapters : Holds(tq[b], x)' <=> Holds(tq[b], x)
       /\ \A b \in Adapters : Holds(tq[b], m)' <=> b = a /\ Kind[m] # "ONE_WAY"
  <2>1. CASE Kind[m] = "ONE_WAY"
    <3>1. ~ Serial
      BY <1>3, <1>4, <1>5, <2>1 DEF SerialInv
    <3>2. Frees(a) /\ Without(r, tq[a], i)
      BY <1>d, <1>3, <1>9, <2>1, <3>1 DEF Frees, Without
    <3> QED
      <4>1. Becomes(a, r) /\ UNCHANGED <<mode, uniqId, id>> /\ a \in Adapters
        BY <1>3
      <4>2. /\ QueuesTyped' /\ KeyInv' /\ SerialInv'
            /\ \A x \in Msgs \ {m}, b \in Adapters : Holds(tq[b], x)' <=> Holds(tq[b], x)
            /\ \A b \in Adapters : ~ Holds(tq[b], m)'
        BY <1>5, <3>1, <3>2, <4>1, TakenFrom
      <4> QED
        BY <2>1, <4>2
  <2>2. CASE Kind[m] # "ONE_WAY"
    <3>1. Ids(r) = Ids(tq[a])
      BY <1>d, <1>9, <2>2
    <3>2. /\ \A j \in Ids(r) : id'[r.data[j].ptr] = j
          /\ \A b \in Adapters \ {a} : \A j \in Ids(tq[b]) : id'[tq[b].data[j].ptr] = id[tq[b].data[j].ptr]
      BY <1>3, <1>4, <1>9, <3>1 DEF KeyInv
    <3>3. tq' = [tq EXCEPT ![a] = r]
      BY <1>3 DEF Becomes
    <3>4. /\ DOMAIN tq' = Adapters /\ (\A b \in Adapters : QueueOK(tq[b])') /\ KeyInv'
          /\ \A x : Holds(tq[a], x)' <=> Holds(r, x)
          /\ \A b \in Adapters \ {a} : \A x : Holds(tq[b], x)' <=> Holds(tq[b], x)
      BY <1>3, <1>4, <1>9, <3>2, <3>3, QueueBecomes
    <3>5. \A x : Holds(r, x) <=> Holds(tq[a], x)
      BY <1>9, <3>1 DEF Holds
    <3>6. \A x, b : b \in Adapters => (Holds(tq[b], x)' <=> Holds(tq[b], x))
      BY <3>4, <3>5
    <3>7. QueuesTyped'
      BY <1>3, <1>4, <1>5, <3>4 DEF QueuesTyped
    <3>8. SerialInv'
      <4>1. Serial' = Serial
        BY <1>3 DEF Serial
      <4>2. ASSUME Serial, NEW b \in Adapters
            PROVE  /\ reqMsg'[b] # NoMsg => Holds(tq[b], reqMsg[b])'
                   /\ \A x \in Msgs : Holds(tq[b], x)' => Kind[x] # "ONE_WAY"
        <5>1. reqMsg'[b] = IF b = a THEN m ELSE reqMsg[b]
          BY <1>3, <1>4, <4>2 DEF QueuesTyped
        <5>2. reqMsg'[b] # NoMsg => Holds(tq[b], reqMsg'[b])
          BY <1>4, <1>5, <4>2, <5>1 DEF SerialInv
        <5>3. reqMsg'[b] # NoMsg => Holds(tq'[b], reqMsg'[b])
          BY <3>6, <5>2 DEF Holds
        <5>4. \A x \in Msgs : Holds(tq[b], x)' => Kind[x] # "ONE_WAY"
          BY <1>4, <3>6, <4>2 DEF SerialInv
        <5> QED
          BY <5>3, <5>4 DEF Holds
      <4> QED
        BY <4>1, <4>2 DEF SerialInv
    <3> QED
      BY <1>6, <2>2, <3>4, <3>6, <3>7, <3>8
  <2> QED
    BY <2>1, <2>2
<1>11. /\ outcome' \in [Msgs -> Outcomes] /\ expired' \subseteq Msgs
       /\ \A x \in Msgs \ {m} : outcome'[x] = outcome[x]
       /\ outcome'[m] = IF Kind[m] = "ONE_WAY" THEN "gone" ELSE "live"
  BY <1>3, <1>4, <1>5, <1>6 DEF ReqsTyped, Settle, Outcomes
<1>12. Once(objQ)' /\ \A x : Has(objQ, x)' <=> Has(objQ, x)
  BY <1>3, <1>4 DEF PlaceInv, Once, Has
<1>13. PlaceInv'
  <2>1. CASE Kind[m] = "ONE_WAY"
    BY <1>4, <1>5, <1>6, <1>8, <1>10, <1>11, <1>12, <2>1, MoveKeeps
  <2>2. CASE Kind[m] # "ONE_WAY"
    BY <1>3, <1>4, <1>5, <1>6, <1>8, <1>10, <1>11, <1>12, <2>2, MoveKeeps
  <2> QED
    BY <2>1, <2>2
<1>14. WaitInv'
  <2>1. \A x \in Msgs : outcome'[x] = "new" => outcome[x] = "new"
    BY <1>11
  <2> QED
    BY <1>3, <1>4, <1>7, <1>8, <1>12, <2>1, WaitKeeps DEF NetKept
<1>15. Typed'
  BY <1>3, <1>4, <1>7, <1>8, <1>10, <1>11 DEF Typed, ReqsTyped, NetKept
<1> QED
  BY <1>8, <1>10, <1>13, <1>14, <1>15 DEF Inv
-----------------------------------------------------------------------------
(* A request that waits at the object, or that is new, ends or is placed. *)

\* doInvokeException() of a request that has been taken from its place.
LEMMA ExceptionKeeps ==
  ASSUME Inv, NEW m \in Msgs, ~ On(stk, m), \A b \in Adapters : ~ Holds(tq[b], m),
         InvokeException(m), objQ' \in Seq(Msgs), Once(objQ)',
         \A x \in Msgs : Has(objQ, x)' <=> Has(objQ, x) /\ x # m,
         UNCHANGED <<mode, eps, tq, uniqId, reqMsg, net, adapter, id, answer>>,
         stk' \in Stacks, Apart(stk)', EndInv', \A x \in Msgs : On(stk, x)' <=> On(stk, x),
         Preparing => Preparing' \/ {} \in mode.lists
  PROVE  Inv'
<1>1. Typed /\ QueuesTyped /\ NetTyped /\ ReqsTyped /\ WaitInv
  BY DEF Inv, Typed
<1>2. /\ status' \in [Msgs -> Statuses] /\ outcome' \in [Msgs -> Outcomes] /\ expired' \subseteq Msgs
      /\ outcome'[m] \notin {"live", "new"} /\ \A x \in Msgs \ {m} : outcome'[x] = outcome[x]
  <2>1. PICK o \in {"gone", "lost", "EXC"} : Settle(m, o)
    BY DEF InvokeException
  <2>2. /\ outcome' \in [Msgs -> Outcomes] /\ expired' \subseteq Msgs
        /\ outcome'[m] = o /\ \A x \in Msgs \ {m} : outcome'[x] = outcome[x]
    BY <1>1, <2>1 DEF Settle, ReqsTyped, Outcomes, Statuses
  <2>3. status' \in [Msgs -> Statuses]
    BY <1>1 DEF InvokeException, ReqsTyped, Statuses
  <2> QED
    BY <2>2, <2>3
<1>3. Typed'
  BY <1>1, <1>2 DEF Typed, ReqsTyped, QueuesTyped, NetTyped, net
<1>4. KeyInv' /\ SerialInv' /\ \A x, b : Holds(tq[b], x)' <=> Holds(tq[b], x)
  BY DEF Inv, KeyInv, SerialInv, Serial, Holds
<1>5. PlaceInv'
  BY <1>2, <1>4, MoveKeeps DEF Inv
<1>6. WaitInv'
  <2>1. \A x \in Msgs : outcome'[x] = "new" => outcome[x] = "new"
    BY <1>2
  <2> QED
    BY <1>1, <2>1, WaitKeeps DEF net
<1> QED
  BY <1>3, <1>4, <1>5, <1>6 DEF Inv

\* The head of the object's queue.
LEMMA ObjectHead ==
  ASSUME Inv, objQ # << >>, PopWaiting
  PROVE  LET m == Head(objQ)
         IN  /\ m \in Msgs /\ Has(objQ, m) /\ objQ' \in Seq(Msgs) /\ Once(objQ)'
             /\ \A x : Has(objQ, x)' <=> Has(objQ, x) /\ x # m
<1>1. objQ \in Seq(Msgs) /\ Once(objQ)
  BY DEF Inv, Typed, PlaceInv
<1>2. PICK q : q = Tail(objQ)
  OBVIOUS
<1>3. /\ q \in Seq(Msgs) /\ Head(objQ) \in Msgs /\ Once(q)
      /\ \A x : Has(q, x) <=> Has(objQ, x) /\ x # Head(objQ)
      /\ Has(objQ, Head(objQ))
  BY <1>1, <1>2, TailOne
<1>4. objQ' = q
  BY <1>2 DEF PopWaiting
<1> QED
  BY <1>3, <1>4 DEF Has, Once

\* Requests for which there is no server, or that time out at the object, keep the invariant.
LEMMA ExceptionSteps ==
  ASSUME Inv, ScanObject \/ PrepareNoAdapter \/ \E m \in Msgs : InvokeNoAdapter(m)
  PROVE  Inv'
<1>1. Typed /\ stk \in Stacks /\ Apart(stk) /\ EndInv /\ objQ \in Seq(Msgs) /\ Once(objQ) /\ PlaceInv
  BY DEF Inv, Typed, PlaceInv
<1>2. ASSUME NEW m \in Msgs, ~ On(stk, m), InvokeException(m), UNCHANGED <<mode, stk>>
      PROVE  /\ stk' \in Stacks /\ Apart(stk)' /\ EndInv' /\ (Preparing => Preparing')
             /\ \A x \in Msgs : On(stk, x)' <=> On(stk, x)
  <2>1. \A k \in 1 .. Len(stk) : stk[k].op = "deliver" => stk[k].m \in Msgs /\ stk[k].m # m
    <3>1. \A k \in 1 .. Len(stk) : stk[k] \in MsgFrames \cup Others
      BY <1>1 DEF Stacks
    <3> QED
      BY <1>2, <3>1, Operands DEF On
  <2>2. \A x \in Msgs : x # m => status'[x] = status[x]
    BY <1>1, <1>2 DEF InvokeException, Typed, ReqsTyped
  <2>3. EndInv'
    BY <1>1, <1>2, <2>1, <2>2 DEF EndInv, Serial
  <2> QED
    BY <1>1, <1>2, <2>3 DEF Apart, Preparing, On
<1>3. CASE ScanObject
  <2>1. PICK k \in 1 .. Len(objQ) : DropWaiting(k) /\ InvokeException(objQ[k])
    BY <1>1, <1>3 DEF ScanObject
  <2>2. PICK m, q : m = objQ[k] /\ q = RemoveAt(objQ, k)
    OBVIOUS
  <2>3. m \in Msgs /\ Has(objQ, m)
    BY <1>1, <2>2 DEF Has
  <2>4. q \in Seq(Msgs) /\ Once(q) /\ \A x : Has(q, x) <=> Has(objQ, x) /\ x # m
    BY <1>1, <2>2, RemoveOne
  <2>5. objQ' \in Seq(Msgs) /\ Once(objQ)' /\ \A x : Has(objQ, x)' <=> Has(objQ, x) /\ x # m
    <3>1. objQ' = q
      BY <2>1, <2>2 DEF DropWaiting
    <3> QED
      BY <2>4, <3>1 DEF Has, Once
  <2>6. ~ On(stk, m) /\ \A b \in Adapters : ~ Holds(tq[b], m)
    BY <2>3, WaitingLive
  <2>7. UNCHANGED <<mode, eps, tq, uniqId, reqMsg, net, adapter, id, answer, stk>>
    BY <1>3 DEF ScanObject, env
  <2>8. InvokeException(m)
    BY <2>1, <2>2
  <2>9. /\ stk' \in Stacks /\ Apart(stk)' /\ EndInv' /\ (Preparing => Preparing')
        /\ \A x \in Msgs : On(stk, x)' <=> On(stk, x)
    BY <1>2, <2>3, <2>6, <2>7, <2>8
  <2> QED
    BY <2>3, <2>5, <2>6, <2>7, <2>8, <2>9, ExceptionKeeps
<1>4. ASSUME NEW m \in Msgs, InvokeNoAdapter(m)
      PROVE  Inv'
  <2>1. /\ outcome[m] = "new" /\ InvokeException(m)
        /\ UNCHANGED <<objQ, mode, eps, tq, uniqId, reqMsg, net, adapter, id, answer, stk>>
    BY <1>4 DEF InvokeNoAdapter, env
  <2>2. ~ Has(objQ, m) /\ ~ On(stk, m) /\ \A b \in Adapters : ~ Holds(tq[b], m)
    BY <1>1, <2>1 DEF PlaceInv
  <2>3. objQ' \in Seq(Msgs) /\ Once(objQ)' /\ \A x \in Msgs : Has(objQ, x)' <=> Has(objQ, x) /\ x # m
    BY <1>1, <2>1, <2>2 DEF Has, Once
  <2>4. /\ stk' \in Stacks /\ Apart(stk)' /\ EndInv' /\ (Preparing => Preparing')
        /\ \A x \in Msgs : On(stk, x)' <=> On(stk, x)
    BY <1>2, <2>1, <2>2
  <2> QED
    BY <2>1, <2>2, <2>3, <2>4, ExceptionKeeps
<1>5. CASE PrepareNoAdapter
  <2>1. PICK m : m = Head(objQ)
    OBVIOUS
  <2>2. /\ stk # << >> /\ Head(stk).op = "prep" /\ Head(stk).m = NoMsg /\ objQ # << >> /\ PopWaiting
        /\ InvokeException(m) /\ Return /\ adapter[m] # NoAdapter /\ (~ Valid \/ eps = {})
        /\ UNCHANGED <<mode, eps, tq, uniqId, reqMsg, net, adapter, id, answer>>
    BY <1>1, <1>5, <2>1, HeadTypes DEF PrepareNoAdapter, Running, env
  <2>3. /\ m \in Msgs /\ Has(objQ, m) /\ objQ' \in Seq(Msgs) /\ Once(objQ)'
        /\ \A x : Has(objQ, x)' <=> Has(objQ, x) /\ x # m
    BY <2>1, <2>2, ObjectHead
  <2>4. ~ On(stk, m) /\ Valid /\ \A b \in Adapters : ~ Holds(tq[b], m)
    BY <2>2, <2>3, WaitingLive
  <2>5. {} \in mode.lists
    BY <1>1, <2>2, <2>4 DEF Typed
  <2>6. \A x \in Msgs : On(stk, x) => status'[x] = status[x]
    BY <1>1, <2>2, <2>4 DEF InvokeException, Typed, ReqsTyped
  <2>7. Calls(<< >>) /\ << >> \in Seq(Others)
    BY <1>1, <2>2, ReturnCalls
  <2>8. /\ stk' \in Stacks /\ Apart(stk)' /\ EndInv'
        /\ \A x \in Msgs : On(stk, x)' <=> On(stk, x)
    BY <1>1, <2>2, <2>6, <2>7, PlainCalls, ClientProxyAssumption
  <2> QED
    BY <2>2, <2>3, <2>4, <2>5, <2>8, ExceptionKeeps
<1> QED
  BY <1>3, <1>4, <1>5

\* A request gets a place at the object or with a handler.
LEMMA PlacedKeeps ==
  ASSUME Inv, NEW m \in Msgs, NetKept,
         UNCHANGED <<mode, eps, tq, uniqId, reqMsg, id, status, answer, expired>>,
         adapter' \in [Msgs -> Adapters \cup {NoAdapter}],
         outcome' \in [Msgs -> Outcomes], outcome'[m] = "live",
         \A x \in Msgs \ {m} : /\ adapter'[x] = adapter[x] /\ outcome'[x] = outcome[x]
                               /\ Has(objQ, x)' <=> Has(objQ, x)
                               /\ On(stk, x)' <=> On(stk, x),
         \A b \in Adapters : ~ Holds(tq[b], m),
         Has(objQ, m)' <=> ~ On(stk, m)',
         Has(objQ, m)' => /\ Valid <=> adapter'[m] # NoAdapter
                          /\ adapter'[m] # NoAdapter => conn'[adapter'[m]] # "connected",
         objQ' \in Seq(Msgs), Once(objQ)', stk' \in Stacks, Apart(stk)', EndInv',
         Preparing => Preparing'
  PROVE  Inv'
<1>1. Typed /\ QueuesTyped /\ ReqsTyped /\ WaitInv
  BY DEF Inv, Typed
<1>2. Typed'
  BY <1>1 DEF Typed, ReqsTyped, QueuesTyped, NetKept
<1>3. KeyInv' /\ SerialInv' /\ \A x, b : Holds(tq[b], x)' <=> Holds(tq[b], x)
  BY DEF Inv, KeyInv, SerialInv, Serial, Holds
<1>4. PlaceInv'
  BY <1>3, MoveKeeps DEF Inv
<1>5. WaitInv'
  <2>1. Valid' = Valid
    BY DEF Valid
  <2>2. ASSUME NEW x \in Msgs
        PROVE  /\ outcome'[x] = "new" => adapter'[x] = NoAdapter
               /\ Has(objQ, x)' => (Valid <=> adapter'[x] # NoAdapter)
               /\ {} \notin mode.lists => (Has(objQ, x)' /\ adapter'[x] # NoAdapter
                    /\ conn'[adapter'[x]] = "connected" => Preparing')
    <3>1. CASE x = m
      BY <3>1
    <3>2. CASE x # m
      <4>1. adapter[x] # NoAdapter => adapter[x] \in Adapters
        BY <1>1 DEF ReqsTyped
      <4> QED
        BY <1>1, <3>2, <4>1 DEF WaitInv, NetKept
    <3> QED
      BY <3>1, <3>2
  <2> QED
    BY <2>1, <2>2 DEF WaitInv
<1> QED
  BY <1>2, <1>3, <1>4, <1>5 DEF Inv

\* A request that waited and now gets its connection keeps the invariant.
LEMMA PrepareKeeps ==
  ASSUME Inv, Prepare PROVE Inv'
<1>1. PICK m : m = Head(objQ)
  OBVIOUS
<1>2. /\ stk # << >> /\ Head(stk).op = "prep" /\ Head(stk).m = NoMsg /\ Head(stk).a \in Adapters
      /\ objQ # << >> /\ PopWaiting
      /\ UNCHANGED <<mode, eps, tq, uniqId, reqMsg, id, status, answer, outcome, expired>>
  BY HeadTypes DEF Prepare, Running, env, Inv
<1>3. /\ m \in Msgs /\ Has(objQ, m) /\ objQ' \in Seq(Msgs) /\ Once(objQ)'
      /\ \A x : Has(objQ, x)' <=> Has(objQ, x) /\ x # m
  BY <1>1, <1>2, ObjectHead
<1>4. Typed /\ ReqsTyped /\ NetTyped /\ stk \in Stacks /\ Apart(stk) /\ EndInv
  BY DEF Inv, Typed, PlaceInv
<1>5. ~ On(stk, m) /\ outcome[m] = "live" /\ \A b \in Adapters : ~ Holds(tq[b], m)
  BY <1>3, WaitingLive
<1>6. PICK b \in Adapters : /\ adapter' = [adapter EXCEPT ![m] = b] /\ NetKept
                            /\ Calls(<<DoMsg("call", b, m), Do("prep", b)>>)
  <2>1. CASE /\ adapter' = [adapter EXCEPT ![m] = Head(stk).a] /\ UNCHANGED net
             /\ Calls(<<DoMsg("call", Head(stk).a, m), Do("prep", Head(stk).a)>>)
    BY <1>2, <1>4, <2>1, NetSteps
  <2>2. ASSUME NEW b \in eps, NEW c, SelectAdapter(b, c), adapter' = [adapter EXCEPT ![m] = b],
               Calls(<<DoMsg("call", b, m), Do("prep", b)>>)
        PROVE  \E d \in Adapters : /\ adapter' = [adapter EXCEPT ![m] = d] /\ NetKept
                                   /\ Calls(<<DoMsg("call", d, m), Do("prep", d)>>)
    <3>1. b \in Adapters
      BY <1>4, ClientProxyAssumption DEF Typed
    <3> QED
      BY <1>4, <2>2, <3>1, NetSteps
  <2> QED
    BY <1>1, <2>1, <2>2 DEF Prepare
<1>7. PICK f, p : f = DoMsg("call", b, m) /\ p = Do("prep", b)
  OBVIOUS
<1>g. PICK gs : gs = <<f, p>>
  OBVIOUS
<1>8. /\ f \in MsgFrames /\ f.m = m /\ f.op = "call" /\ p \in Others /\ p.m = NoMsg /\ p.op = "prep"
  BY <1>3, <1>7 DEF DoMsg, Do, MsgFrames, Others, ConnFrames
<1>9. Len(gs) = 2 /\ gs[1] = f /\ gs[2] = p /\ gs \in Stacks
  BY <1>g, <1>8 DEF Stacks
<1>10. (\A k \in 1 .. Len(gs) : k = 1 \/ k = 2) /\ 1 \in 1 .. Len(gs) /\ 2 \in 1 .. Len(gs)
  BY <1>9
<1>11. /\ Apart(gs) /\ (\A x \in Msgs : On(gs, x) <=> x = m)
       /\ \A g : Has(gs, g) <=> g = f \/ g = p
  BY <1>3, <1>8, <1>9, <1>10, ClientProxyAssumption DEF Apart, On, Has
<1>12. stk' = gs \o Tail(stk)
  BY <1>6, <1>7, <1>g DEF Calls
<1>13. /\ stk' \in Stacks /\ Apart(stk')
       /\ \A g : Has(stk', g) <=> Has(gs, g) \/ Has(Tail(stk), g)
       /\ \A x \in Msgs : On(stk', x) <=> On(gs, x) \/ (On(stk, x) /\ x # Head(stk).m)
  BY <1>2, <1>4, <1>5, <1>9, <1>11, <1>12, CallsKeep
<1>14. EndInv'
  <2>1. \A g : Has(stk, g) <=> Has(Tail(stk), g) \/ g = Head(stk)
    BY <1>2, <1>4, TailOne DEF Stacks
  <2>2. \A g : Has(stk', g) /\ g.op = "deliver" => Has(stk, g)
    BY <1>8, <1>11, <1>13, <2>1
  <2> QED
    BY <1>2, <1>4, <2>2, ByFrames DEF EndInv, Has, Serial
<1>15. Preparing'
  <2>1. Has(stk', p)
    BY <1>11, <1>13
  <2> QED
    BY <1>8, <2>1 DEF Preparing, Has
<1>16. Apart(stk)' /\ (\A x \in Msgs \ {m} : On(stk, x)' <=> On(stk, x)) /\ On(stk, m)'
  <2>1. \A x \in Msgs : On(stk', x) <=> x = m \/ On(stk, x)
    BY <1>2, <1>11, <1>13, ClientProxyAssumption
  <2> QED
    BY <1>3, <1>13, <2>1 DEF Apart, On
<1>17. /\ adapter' \in [Msgs -> Adapters \cup {NoAdapter}] /\ outcome' \in [Msgs -> Outcomes]
       /\ \A x \in Msgs \ {m} : adapter'[x] = adapter[x]
  BY <1>2, <1>3, <1>4, <1>6 DEF ReqsTyped
<1> QED
  BY <1>2, <1>3, <1>5, <1>6, <1>13, <1>14, <1>15, <1>16, <1>17, PlacedKeeps

\* A new request keeps the invariant, whether it waits or is called at once.
LEMMA InvokeSteps ==
  ASSUME Inv, \E m \in Msgs : InvokeUnknown(m) \/ Invoke(m)
  PROVE  Inv'
<1>1. PICK m \in Msgs : InvokeUnknown(m) \/ Invoke(m)
  OBVIOUS
<1>2. /\ stk = << >> /\ outcome[m] = "new" /\ outcome' = [outcome EXCEPT ![m] = "live"]
      /\ UNCHANGED <<mode, eps, tq, uniqId, reqMsg, id, status, answer, expired>>
  BY <1>1 DEF InvokeUnknown, Invoke, env
<1>3. Typed /\ ReqsTyped /\ NetTyped /\ stk \in Stacks /\ Apart(stk) /\ EndInv /\ PlaceInv /\ WaitInv
      /\ objQ \in Seq(Msgs) /\ Once(objQ)
  BY DEF Inv, Typed, PlaceInv
<1>4. /\ ~ Has(objQ, m) /\ ~ On(stk, m) /\ (\A b \in Adapters : ~ Holds(tq[b], m))
      /\ adapter[m] = NoAdapter
  BY <1>2, <1>3 DEF PlaceInv, WaitInv
<1>5. ~ Preparing /\ \A x : ~ On(stk, x)
  BY <1>2 DEF Preparing, On
<1>6. /\ outcome' \in [Msgs -> Outcomes] /\ outcome'[m] = "live"
      /\ \A x \in Msgs \ {m} : outcome'[x] = outcome[x]
  BY <1>2, <1>3 DEF ReqsTyped, Outcomes
<1>7. PICK q : q = Append(objQ, m)
  OBVIOUS
<1>8. q \in Seq(Msgs) /\ Once(q) /\ \A x : Has(q, x) <=> Has(objQ, x) \/ x = m
  BY <1>3, <1>4, <1>7, AppendOne
<1>9. ASSUME PushWaiting(m)
      PROVE  /\ objQ' \in Seq(Msgs) /\ Once(objQ)'
             /\ \A x : Has(objQ, x)' <=> Has(objQ, x) \/ x = m
  <2>1. objQ' = q
    BY <1>7, <1>9 DEF PushWaiting
  <2> QED
    BY <1>8, <2>1 DEF Has, Once
<1>10. ASSUME UNCHANGED stk
       PROVE  stk' \in Stacks /\ Apart(stk)' /\ EndInv' /\ \A x : ~ On(stk, x)'
  BY <1>2, <1>3, <1>5, <1>10 DEF Apart, EndInv, Serial, On
<1>11. CASE InvokeUnknown(m)
  <2>1. UNCHANGED <<net, adapter, stk>> /\ PushWaiting(m) /\ ~ Valid
    BY <1>11 DEF InvokeUnknown
  <2>2. NetKept
    BY <1>3, <2>1 DEF NetKept, NetTyped, net
  <2>3. adapter' \in [Msgs -> Adapters \cup {NoAdapter}] /\ adapter' = adapter
    BY <1>3, <2>1 DEF ReqsTyped
  <2> QED
    BY <1>2, <1>4, <1>5, <1>6, <1>9, <1>10, <2>1, <2>2, <2>3, PlacedKeeps
<1>12. CASE Invoke(m)
  <2>1. PICK a \in eps : \E c \in [Adapters -> {"unconnected", "connecting", "connected"}] :
          /\ SelectAdapter(a, c)
          /\ adapter' = [adapter EXCEPT ![m] = a]
          /\ IF c[a] = "connected"
             THEN stk' = <<DoMsg("call", a, m)>> /\ UNCHANGED objQ
             ELSE PushWaiting(m) /\ UNCHANGED stk
    BY <1>12 DEF Invoke
  <2>2. PICK c \in [Adapters -> {"unconnected", "connecting", "connected"}] :
          /\ SelectAdapter(a, c)
          /\ adapter' = [adapter EXCEPT ![m] = a]
          /\ IF c[a] = "connected"
             THEN stk' = <<DoMsg("call", a, m)>> /\ UNCHANGED objQ
             ELSE PushWaiting(m) /\ UNCHANGED stk
    BY <2>1
  <2>3. a \in Adapters /\ Valid /\ conn' = c
    BY <1>3, <1>12, <2>2, ClientProxyAssumption DEF Typed, Invoke, SelectAdapter
  <2>4. NetKept
    BY <1>3, <2>2, <2>3, NetSteps
  <2>5. /\ adapter' \in [Msgs -> Adapters \cup {NoAdapter}] /\ adapter'[m] = a
        /\ \A x \in Msgs \ {m} : adapter'[x] = adapter[x]
    BY <1>3, <2>2, <2>3 DEF ReqsTyped
  <2>6. CASE c[a] = "connected"
    <3>1. PICK f : f = DoMsg("call", a, m)
      OBVIOUS
    <3>2. f \in MsgFrames /\ f.m = m /\ f.op = "call"
      BY <2>3, <3>1 DEF DoMsg, MsgFrames
    <3>3. PICK s : s = <<f>>
      OBVIOUS
    <3>4. /\ s \in Stacks /\ Apart(s) /\ (\A g : Has(s, g) <=> g = f) /\ \A x : On(s, x) <=> x = m
      BY <3>2, <3>3, Single
    <3>5. stk' = s /\ UNCHANGED objQ
      BY <2>2, <2>6, <3>1, <3>3
    <3>6. EndInv'
      BY <3>2, <3>4, <3>5 DEF EndInv, Has
    <3>7. stk' \in Stacks /\ Apart(stk)' /\ \A x : On(stk, x)' <=> x = m
      BY <3>4, <3>5 DEF Apart, On
    <3>8. objQ' \in Seq(Msgs) /\ Once(objQ)' /\ \A x : Has(objQ, x)' <=> Has(objQ, x)
      BY <1>3, <3>5 DEF Has, Once
    <3> QED
      BY <1>2, <1>4, <1>5, <1>6, <2>4, <2>5, <3>6, <3>7, <3>8, PlacedKeeps
  <2>7. CASE c[a] # "connected"
    <3>1. PushWaiting(m) /\ UNCHANGED stk
      BY <2>2, <2>7
    <3>2. adapter'[m] # NoAdapter /\ conn'[adapter'[m]] # "connected"
      BY <2>3, <2>5, <2>7, ClientProxyAssumption
    <3> QED
      BY <1>2, <1>4, <1>5, <1>6, <1>9, <1>10, <2>3, <2>4, <2>5, <3>1, <3>2, PlacedKeeps
  <2> QED
    BY <2>6, <2>7
<1> QED
  BY <1>1, <1>11, <1>12
-----------------------------------------------------------------------------
(* The theorems. *)

\* Nothing has been sent.
LEMMA InitInv == Init => Inv
<1> SUFFICES ASSUME Init PROVE Inv
  OBVIOUS
<1> USE ClientProxyAssumption DEF Init
<1>1. PICK q : q = EmptyQueue
  OBVIOUS
<1>2. Ids(q) = {} /\ q.send = << >> /\ q.data = << >>
  BY <1>1 DEF EmptyQueue, Ids
<1>3. QueueOK(q)
  <2>1. q.data \in [{} -> Entry]
    BY <1>2
  <2>2. << >> \in Seq(IdSet)
    OBVIOUS
  <2> QED
    BY <1>2, <2>1, <2>2 DEF QueueOK
<1>4. Consistent(q) /\ \A x : ~ Holds(q, x)
  BY <1>2 DEF Consistent, ToSet, Holds
<1>5. DOMAIN tq = Adapters /\ \A a \in Adapters : tq[a] = q
  BY <1>1
<1>6. FirstId \in IdSet /\ RpcId \in [Msgs -> IdSet]
  <2>1. \A m \in Msgs : Operation[m].id \in IdSet
    BY DEF Operations, IdSet
  <2>2. 0 \in IdSet /\ FirstId \in IdSet
    BY DEF IdSet
  <2> QED
    BY <2>1, <2>2 DEF RpcId
<1>7. QueuesTyped /\ NetTyped /\ ReqsTyped
  BY <1>3, <1>5, <1>6 DEF QueuesTyped, NetTyped, ReqsTyped, Statuses, Outcomes
<1>8. stk \in Stacks /\ objQ \in Seq(Msgs) /\ Len(stk) = 0 /\ Len(objQ) = 0
  BY DEF Stacks
<1>9. Typed
  BY <1>7, <1>8 DEF Typed
<1>10. KeyInv
  BY <1>2, <1>4, <1>5 DEF KeyInv
<1>11. SerialInv
  BY <1>4, <1>5 DEF SerialInv
<1>12. PlaceInv
  BY <1>4, <1>5, <1>8 DEF PlaceInv, Once, Apart, Has, On
<1>13. WaitInv /\ EndInv
  BY <1>8 DEF WaitInv, EndInv, Has
<1> QED
  BY <1>9, <1>10, <1>11, <1>12, <1>13 DEF Inv

\* Every step keeps the invariant, ...
LEMMA NextInv == Inv /\ [Next]_vars => Inv'
<1> SUFFICES ASSUME Inv, [Next]_vars PROVE Inv'
  OBVIOUS
<1>1. CASE UNCHANGED vars
  <2>1. /\ UNCHANGED <<objQ, mode, eps, tq, uniqId, reqMsg, net, adapter, id, status, answer, outcome>>
        /\ UNCHANGED <<expired, stk>>
    BY <1>1 DEF vars, env, reqs
  <2>2. /\ NetTyped' /\ conn' = conn /\ EndInv' /\ Apart(stk)' /\ stk' \in Stacks
        /\ (Preparing => Preparing') /\ \A x \in Msgs : On(stk, x)' <=> On(stk, x)
    BY <2>1 DEF net, Inv, Typed, NetTyped, EndInv, Serial, PlaceInv, Apart, Preparing, On
  <2>3. eps' \in mode.lists /\ expired' \subseteq Msgs
    BY <2>1 DEF Inv, Typed, ReqsTyped
  <2> QED
    BY <2>1, <2>2, <2>3, QuietKeeps
<1>2. CASE Handler
  <2>1. CASE CallRefused \/ CallAborts \/ CallSent \/ CallFailed \/ CallQueued \/ Deliver
    BY <2>1, CallSteps
  <2>2. CASE \/ PrepareDone \/ FinishTail \/ FlushDone \/ FlushStops \/ EventStale \/ EventConnecting
             \/ EventConnected \/ EventError \/ Request \/ ReceiveDone \/ ReceiveClosed
             \/ ScanAdaptersDone \/ ScanDone
    BY <2>2, QuietSteps
  <2>3. CASE Prepare
    BY <2>3, PrepareKeeps
  <2>4. CASE PrepareNoAdapter \/ ScanObject
    BY <2>4, ExceptionSteps
  <2>5. CASE FlushFails
    BY <2>5, FlushFailsKeeps
  <2>6. CASE FlushSends
    BY <2>6, FlushSendsKeeps
  <2>7. CASE \E r \in Msgs, last \in BOOLEAN : Receive(r, last)
    BY <2>7, ReceiveKeeps
  <2>8. CASE ScanAdapter
    BY <2>8, ScanAdapterKeeps
  <2> QED
    BY <1>2, <2>1, <2>2, <2>3, <2>4, <2>5, <2>6, <2>7, <2>8 DEF Handler
<1>3. CASE Environment
  <2>1. CASE \E m \in Msgs : InvokeUnknown(m) \/ Invoke(m)
    BY <2>1, InvokeSteps
  <2>2. CASE \E m \in Msgs : InvokeNoAdapter(m)
    BY <2>2, ExceptionSteps
  <2>3. CASE (\E m \in Msgs : DeadlinePasses(m)) \/ \E s \in mode.lists : UpdateEndpoints(s)
    BY <2>3, Outside
  <2>4. CASE (\E a \in Adapters, in, out, err \in BOOLEAN : Event(a, in, out, err)) \/ Scan
    BY <2>4, Beginnings
  <2> QED
    BY <1>3, <2>1, <2>2, <2>3, <2>4 DEF Environment
<1> QED
  BY <1>1, <1>2, <1>3 DEF Next

\* ... so it holds for ever.
LEMMA Invariant == Spec => []Inv
BY InitInv, NextInv, PTL DEF Spec

\* Every variable has its type, the call stack of the network thread included.
THEOREM TypeCorrect == Spec => []TypeOK
<1>1. ASSUME Inv PROVE TypeOK
  <2>1. Typed /\ QueuesTyped /\ NetTyped /\ ReqsTyped
    BY <1>1 DEF Inv, Typed
  <2>2. stk \in Seq(Frames)
    <3>1. \A f \in MsgFrames \cup Others : f \in Frames
      BY DEF MsgFrames, Others, ConnFrames, ScanFrames, Frames, Ops
    <3> QED
      BY <2>1, <3>1 DEF Typed, Stacks
  <2>3. eps \in SUBSET Adapters
    BY <2>1, ClientProxyAssumption DEF Typed
  <2> QED
    BY <2>1, <2>2, <2>3 DEF TypeOK, Typed, QueuesTyped, QueueOK, NetTyped, ReqsTyped, IdSet
<1> QED
  BY <1>1, Invariant, PTL

\* A request the network thread has taken is in exactly one of the object's
\* queue, the queue of one connection and the running handler until it is handed
\* back or deleted, and in none afterwards; the two lists of a timeout queue agree.
THEOREM InOnePlace == Spec => []OnePlace
<1>1. ASSUME Inv PROVE OnePlace
  <2>1. Typed /\ KeyInv /\ PlaceInv /\ QueuesTyped /\ objQ \in Seq(Msgs) /\ stk \in Stacks
    BY <1>1 DEF Inv, Typed
  <2>2. /\ Cardinality({}) = 0
        /\ \A x : Cardinality({x}) = 1
    BY FS_EmptySet, FS_Singleton
  <2>3. ASSUME NEW m \in Msgs
        PROVE  /\ Cardinality(InObject(m)) = IF Has(objQ, m) THEN 1 ELSE 0
               /\ Cardinality(InHandler(m)) = IF On(stk, m) THEN 1 ELSE 0
               /\ Cardinality(InAdapter(m)) = IF \E a \in Adapters : Holds(tq[a], m) THEN 1 ELSE 0
    <3>d. DOMAIN objQ = 1 .. Len(objQ) /\ DOMAIN stk = 1 .. Len(stk)
      BY <2>1 DEF Stacks
    <3>1. (\E k : InObject(m) = {k}) \/ (InObject(m) = {} /\ ~ Has(objQ, m))
      <4>1. ASSUME NEW k \in 1 .. Len(objQ), objQ[k] = m
            PROVE  InObject(m) = {k}
        BY <2>1, <3>d, <4>1 DEF InObject, PlaceInv, Once
      <4> QED
        BY <3>d, <4>1 DEF InObject, Has
    <3>2. InObject(m) # {} => Has(objQ, m)
      BY <2>1 DEF InObject, Has
    <3>3. (\E k : InHandler(m) = {k}) \/ (InHandler(m) = {} /\ ~ On(stk, m))
      <4>1. ASSUME NEW k \in 1 .. Len(stk), stk[k].m = m
            PROVE  InHandler(m) = {k}
        BY <2>1, <3>d, <4>1, ClientProxyAssumption DEF InHandler, PlaceInv, Apart
      <4> QED
        BY <3>d, <4>1 DEF InHandler, On
    <3>4. InHandler(m) # {} => On(stk, m)
      BY <2>1 DEF InHandler, On, Stacks
    <3>5. ASSUME NEW a \in Adapters, Holds(tq[a], m)
          PROVE  InAdapter(m) = {<<a, id[m]>>}
      <4>1. PICK i \in Ids(tq[a]) : tq[a].data[i].ptr = m
        BY <3>5 DEF Holds
      <4>2. id[m] = i /\ i \in IdSet
        BY <2>1, <4>1 DEF KeyInv, QueuesTyped, QueueOK
      <4>3. \A b \in Adapters, j \in IdSet : j \in Ids(tq[b]) /\ tq[b].data[j].ptr = m => b = a /\ j = i
        BY <2>1, <3>5, <4>2 DEF PlaceInv, Holds, KeyInv
      <4> QED
        BY <4>1, <4>2, <4>3 DEF InAdapter
    <3>6. InAdapter(m) # {} => \E a \in Adapters : Holds(tq[a], m)
      BY DEF InAdapter, Holds
    <3> QED
      BY <2>2, <3>1, <3>2, <3>3, <3>4, <3>5, <3>6
  <2>4. ASSUME NEW m \in Msgs
        PROVE  Cardinality(InObject(m)) + Cardinality(InAdapter(m)) + Cardinality(InHandler(m))
                 = IF outcome[m] = "live" THEN 1 ELSE 0
    BY <2>1, <2>3 DEF PlaceInv
  <2>5. \A a \in Adapters : Consistent(tq[a])
    BY <2>1 DEF KeyInv
  <2> QED
    BY <2>4, <2>5 DEF OnePlace
<1> QED
  BY <1>1, Invariant, PTL

\* When no handler runs, no request waits at the object for the connection of its
\* adapter to come up while that connection is up, as long as the list of
\* addresses is never emptied.
THEOREM OpenConnectionsTaken == Spec => []NoneWaitsForOpenConnection
<1>1. ASSUME Inv PROVE NoneWaitsForOpenConnection
  <2> SUFFICES ASSUME stk = << >>, {} \notin mode.lists, NEW k \in DOMAIN objQ,
                      adapter[objQ[k]] # NoAdapter, conn[adapter[objQ[k]]] = "connected"
               PROVE  FALSE
    BY DEF NoneWaitsForOpenConnection
  <2>1. k \in 1 .. Len(objQ) /\ objQ[k] \in Msgs
    BY <1>1 DEF Inv, Typed
  <2>2. Has(objQ, objQ[k])
    BY <2>1 DEF Has
  <2>3. Preparing
    BY <1>1, <2>1, <2>2 DEF Inv, WaitInv
  <2> QED
    BY <2>3 DEF Preparing
<1> QED
  BY <1>1, Invariant, PTL
-----------------------------------------------------------------------------
(* How a request ends: the safety of RequestLife. *)

\* The life of m begins or ends.
Lives(m) ==
  \/ outcome[m] = "new" /\ outcome' = [outcome EXCEPT ![m] = "live"]
  \/ outcome[m] \in {"new", "live"} /\ \E o \in EndsOf(m) : outcome' = [outcome EXCEPT ![m] = o]

\* A one-way request may go without a trace, ...
LEMMA GoneLives ==
  ASSUME NEW m \in Msgs, outcome[m] = "live", Kind[m] = "ONE_WAY", Settle(m, "gone")
  PROVE  Lives(m)
BY DEF Settle, Lives, EndsOf

\* ... finishInvoke() ends no request in another way, ...
LEMMA FinishLives ==
  ASSUME NEW a, NEW m \in Msgs, NEW s, NEW fs, outcome[m] = "live", FinishInvoke(a, m, s, fs)
  PROVE  UNCHANGED outcome \/ Lives(m)
BY GoneLives DEF FinishInvoke

\* ... nor does doInvokeException(), ...
LEMMA ExceptionLives ==
  ASSUME NEW m \in Msgs, outcome[m] \in {"new", "live"}, InvokeException(m),
         adapter[m] = NoAdapter => ~ Valid \/ {} \in mode.lists
  PROVE  Lives(m)
<1>1. PICK o : /\ o = CASE Kind[m] = "ONE_WAY" -> "gone"
                        [] Kind[m] = "ASYNC" /\ adapter[m] = NoAdapter -> "lost"
                        [] OTHER -> "EXC"
               /\ outcome' = [outcome EXCEPT ![m] = o]
  BY DEF InvokeException, Settle
<1>2. o \in EndsOf(m)
  <2>1. CASE Kind[m] = "ONE_WAY"
    BY <1>1, <2>1 DEF EndsOf
  <2>2. CASE Kind[m] = "ASYNC" /\ adapter[m] = NoAdapter
    BY <1>1, <2>2 DEF EndsOf
  <2>3. CASE Kind[m] # "ONE_WAY" /\ ~ (Kind[m] = "ASYNC" /\ adapter[m] = NoAdapter)
    <3>1. o = "EXC"
      BY <1>1, <2>3
    <3> QED
      BY <2>3, <3>1 DEF EndsOf
  <2> QED
    BY <2>1, <2>2, <2>3
<1> QED
  BY <1>1, <1>2 DEF Lives

\* ... and no step changes what the callers see but for one request that ends so or begins.
LEMMA StepLives ==
  ASSUME Inv, [Next]_vars
  PROVE  mode' = mode /\ (UNCHANGED outcome \/ \E m \in Msgs : Lives(m))
<1> USE DEF env, reqs
<1>0. Typed /\ QueuesTyped /\ KeyInv /\ SerialInv /\ PlaceInv /\ ReqsTyped /\ EndInv
  BY DEF Inv, Typed
<1>1. CASE UNCHANGED vars
  BY <1>1 DEF vars
<1>2. CASE \/ PrepareDone \/ FinishTail \/ FlushDone \/ FlushStops \/ EventStale \/ EventConnecting
           \/ EventConnected \/ EventError \/ Request \/ ReceiveDone \/ ReceiveClosed
           \/ ScanAdaptersDone \/ ScanDone \/ Prepare \/ CallAborts
  BY <1>2 DEF PrepareDone, FinishTail, FlushDone, FlushStops, EventStale, EventConnecting,
              EventConnected, EventError, Request, ReceiveDone, ReceiveClosed,
              ScanAdaptersDone, ScanDone, Prepare, CallAborts
<1>3. CASE Environment
  <2>1. ASSUME NEW m \in Msgs, InvokeUnknown(m) \/ Invoke(m)
        PROVE  mode' = mode /\ Lives(m)
    BY <2>1 DEF InvokeUnknown, Invoke, Lives
  <2>2. ASSUME NEW m \in Msgs, InvokeNoAdapter(m)
        PROVE  mode' = mode /\ Lives(m)
    <3>1. {} \in mode.lists
      BY <1>0, <2>2 DEF InvokeNoAdapter, Typed
    <3> QED
      BY <2>2, <3>1, ExceptionLives DEF InvokeNoAdapter
  <2>3. CASE \/ \E m \in Msgs : DeadlinePasses(m)
             \/ \E a \in Adapters, in, out, err \in BOOLEAN : Event(a, in, out, err)
             \/ Scan \/ \E s \in mode.lists : UpdateEndpoints(s)
    BY <2>3 DEF DeadlinePasses, Event, Scan, UpdateEndpoints
  <2> QED
    BY <1>3, <2>1, <2>2, <2>3 DEF Environment
<1>4. CASE CallRefused \/ CallSent \/ CallFailed \/ CallQueued \/ Deliver
  <2>1. PICK a, m : a = Head(stk).a /\ m = Head(stk).m
    OBVIOUS
  <2>2. m \in Msgs /\ outcome[m] = "live"
    BY <1>4, <2>1, HeadLive DEF CallRefused, CallSent, CallFailed, CallQueued, Deliver, Running
  <2>3. CASE CallRefused \/ CallFailed
    <3>1. mode' = mode /\ FinishInvoke(a, m, "EXC", << >>)
      BY <2>1, <2>3 DEF CallRefused, CallFailed
    <3> QED
      BY <2>2, <3>1, FinishLives
  <2>4. CASE CallSent \/ CallQueued
    <3>1. /\ mode' = mode
          /\ \/ Kind[m] = "ONE_WAY" /\ Settle(m, "gone")
             \/ \E n, sent : Insert(a, m, n, sent)
      BY <2>1, <2>4 DEF CallSent, CallQueued
    <3>2. ASSUME NEW n, NEW sent, Insert(a, m, n, sent)
          PROVE  UNCHANGED outcome \/ FinishInvoke(a, m, "EXC", << >>)
      BY <3>2 DEF Insert
    <3> QED
      BY <2>2, <3>1, <3>2, FinishLives, GoneLives
  <2>5. CASE Deliver
    <3>1. mode' = mode /\ outcome' = [outcome EXCEPT ![m] = status[m]] /\ Head(stk).op = "deliver"
          /\ stk # << >>
      BY <2>1, <2>5 DEF Deliver, Settle, Running
    <3>2. Head(stk) = stk[1] /\ 1 \in 1 .. Len(stk)
      BY <1>0, <3>1 DEF Typed, Stacks
    <3>3. Kind[m] # "ONE_WAY" /\ (status[m] # "REQ" \/ Serial)
      BY <1>0, <2>1, <3>1, <3>2 DEF EndInv
    <3>4. status[m] \in Statuses
      BY <1>0, <2>2 DEF ReqsTyped
    <3>5. status[m] \in EndsOf(m)
      BY <3>3, <3>4 DEF EndsOf, Statuses
    <3> QED
      BY <2>2, <3>1, <3>5 DEF Lives
  <2> QED
    BY <1>4, <2>3, <2>4, <2>5
<1>5. ASSUME PrepareNoAdapter \/ ScanObject
      PROVE  mode' = mode /\ \E m \in Msgs : Lives(m)
  <2>1. PICK m \in Msgs : Has(objQ, m) /\ InvokeException(m) /\ mode' = mode
    <3>1. CASE PrepareNoAdapter
      <4>1. objQ # << >> /\ PopWaiting /\ InvokeException(Head(objQ)) /\ mode' = mode
        BY <3>1 DEF PrepareNoAdapter
      <4> QED
        BY <4>1, ObjectHead
    <3>2. CASE ScanObject
      <4>1. PICK k \in DOMAIN objQ : InvokeException(objQ[k]) /\ mode' = mode
        BY <3>2 DEF ScanObject
      <4>2. k \in 1 .. Len(objQ) /\ objQ[k] \in Msgs
        BY <1>0, <4>1 DEF Typed
      <4> QED
        BY <4>1, <4>2 DEF Has
    <3> QED
      BY <1>5, <3>1, <3>2
  <2>2. outcome[m] = "live" /\ (Valid <=> adapter[m] # NoAdapter)
    BY <2>1, WaitingLive
  <2> QED
    BY <2>1, <2>2, ExceptionLives
<1>6. ASSUME FlushFails \/ FlushSends
      PROVE  mode' = mode /\ (UNCHANGED outcome \/ \E m \in Msgs : Lives(m))
  <2>1. PICK a, m : a = Head(stk).a /\ m = GetSend(tq[a])
    OBVIOUS
  <2>2. stk # << >> /\ Head(stk).op = "flush" /\ tq[a].send # << >> /\ mode' = mode
    BY <1>6, <2>1 DEF FlushFails, FlushSends, Running, MaySendNext
  <2>3. a \in Adapters
    BY <1>0, <2>1, <2>2, HeadTypes
  <2>4. Holds(tq[a], m) /\ m \in Msgs
    BY <1>0, <2>1, <2>2, <2>3, SendHead DEF QueuesTyped, KeyInv, Holds
  <2>5. outcome[m] = "live"
    BY <2>3, <2>4, QueuedLive
  <2>6. CASE FlushFails
    BY <2>1, <2>2, <2>4, <2>5, <2>6, FinishLives DEF FlushFails
  <2>7. CASE FlushSends
    BY <2>1, <2>2, <2>4, <2>5, <2>7, GoneLives DEF FlushSends
  <2> QED
    BY <1>6, <2>6, <2>7
<1>7. ASSUME NEW r \in Msgs, NEW last \in BOOLEAN, Receive(r, last)
      PROVE  mode' = mode /\ (UNCHANGED outcome \/ \E m \in Msgs : Lives(m))
  <2>1. PICK a, m : a = Head(stk).a /\ m = Answered(a, r)
    OBVIOUS
  <2>2. stk # << >> /\ Head(stk).op = "recv" /\ mode' = mode
    BY <1>7 DEF Receive, Running
  <2>3. a \in Adapters
    BY <1>0, <2>1, <2>2, HeadTypes
  <2>4. CASE m = NoMsg
    BY <1>7, <2>1, <2>2, <2>4 DEF Receive
  <2>5. CASE m # NoMsg
    <3>1. m \in Msgs /\ Holds(tq[a], m)
      BY <1>0, <2>1, <2>3, <2>5 DEF Answered, SerialInv, QueuesTyped, QueueOK, Entry, Holds
    <3>2. outcome[m] = "live"
      BY <2>3, <3>1, QueuedLive
    <3>3. \E fs : FinishInvoke(a, m, "RSP", fs)
      BY <1>7, <2>1, <2>5 DEF Receive
    <3> QED
      BY <2>2, <3>1, <3>2, <3>3, FinishLives
  <2> QED
    BY <2>4, <2>5
<1>8. ASSUME ScanAdapter
      PROVE  mode' = mode /\ (UNCHANGED outcome \/ \E m \in Msgs : Lives(m))
  <2>1. PICK a \in Adapters : \E i \in ExpiredIds(a) :
          FinishInvoke(a, tq[a].data[i].ptr, "TIME", <<Head(stk)>>)
    BY <1>8 DEF ScanAdapter
  <2>2. PICK i \in ExpiredIds(a) : FinishInvoke(a, tq[a].data[i].ptr, "TIME", <<Head(stk)>>)
    BY <2>1
  <2>3. PICK m : m = tq[a].data[i].ptr
    OBVIOUS
  <2>4. m \in Msgs /\ Holds(tq[a], m)
    BY <1>0, <2>3 DEF ExpiredIds, QueuesTyped, QueueOK, Entry, Holds
  <2>5. outcome[m] = "live"
    BY <2>4, QueuedLive
  <2>6. mode' = mode
    BY <1>8 DEF ScanAdapter
  <2> QED
    BY <2>2, <2>3, <2>4, <2>5, <2>6, FinishLives
<1> QED
  BY <1>1, <1>2, <1>3, <1>4, <1>5, <1>6, <1>7, <1>8 DEF Next, Handler

\* A request ends once, after the thread has taken it (or at once, when no server
\* is known), and in a way its kind and the settings allow: every step is a step
\* of RequestLife or leaves the caller's view of the requests alone.
THEOREM LifeSafety ==
  Spec => Life!Init /\ [][Life!Next]_<<outcome, [m \in Msgs |-> EndsOf(m)]>>
<1> DEFINE ends == [m \in Msgs |-> EndsOf(m)]
           A == [Life!Next]_<<outcome, [m \in Msgs |-> EndsOf(m)]>>
<1>1. Init => Life!Init
  BY DEF Init, Life!Init
<1>2. ASSUME Inv, [Next]_vars PROVE A
  <2>1. mode' = mode /\ (UNCHANGED outcome \/ \E m \in Msgs : Lives(m))
    BY <1>2, StepLives
  <2>2. UNCHANGED ends
    BY <2>1 DEF EndsOf, Serial, Valid
  <2>3. ASSUME NEW m \in Msgs, Lives(m) PROVE Life!Next
    BY <2>2, <2>3 DEF Lives, Life!Next, Life!Begin, Life!Finish
  <2> QED
    BY <2>1, <2>2, <2>3
<1> QED
  BY <1>1, <1>2, Invariant, PTL DEF Spec

\* On a connection that is not serial the assertion of ServantProxy::invoke()
\* holds: a synchronous call that returns has another status than REQ.
THEOREM ParallelStatusSet == Spec => [](Serial \/ SyncStatusSet)
<1> DEFINE J == \A m \in Msgs : outcome[m] \in {"new", "live"} \cup EndsOf(m)
<1>1. Init => J
  BY DEF Init
<1>2. ASSUME Inv, J, [Next]_vars PROVE J'
  <2>1. mode' = mode /\ (UNCHANGED outcome \/ \E m \in Msgs : Lives(m))
    BY <1>2, StepLives
  <2>2. \A m \in Msgs : EndsOf(m)' = EndsOf(m)
    BY <2>1 DEF EndsOf, Serial, Valid
  <2>3. outcome \in [Msgs -> Outcomes]
    BY <1>2 DEF Inv, Typed, ReqsTyped
  <2>4. ASSUME NEW m \in Msgs, Lives(m) PROVE J'
    BY <1>2, <2>2, <2>3, <2>4 DEF Lives
  <2> QED
    BY <1>2, <2>1, <2>2, <2>4
<1>3. J => Serial \/ SyncStatusSet
  BY DEF SyncStatusSet, EndsOf
<1> HIDE DEF J
<1> QED
  BY <1>1, <1>2, <1>3, Invariant, PTL DEF Spec
-----------------------------------------------------------------------------
(* Whose response it is on a serial connection. *)

\* What is on a connection on which the answer to req is waited for: at the server
\* or in the socket there is no other request, and in the queue none else was sent.
OrderOK(q, w, buf, req) ==
  /\ w \subseteq {req} /\ buf \in {NoMsg, req} /\ (w # {} => buf = NoMsg)
  /\ \A i \in Ids(q) : q.data[i].hasSend => q.data[i].ptr = req

OwnAnswer == \A m \in Msgs : answer[m] \in {NoMsg, m}

OrderInv ==
  Serial => /\ \A a \in Adapters : OrderOK(tq[a], wire[a], buffered[a], reqMsg[a])
            /\ OwnAnswer

\* Nothing is added to a connection but what waited in its socket.
SameBytes(b) == wire'[b] = wire[b] /\ buffered'[b] = buffered[b]
NoBytes(b)   == wire'[b] = {} /\ buffered'[b] = NoMsg
LastBytes(b) == buffered[b] # NoMsg /\ wire'[b] \subseteq wire[b] \cup {buffered[b]} /\ buffered'[b] = NoMsg
BytesKept    == \A b \in Adapters : SameBytes(b) \/ NoBytes(b) \/ LastBytes(b)

\* Closing and choosing a server bring nothing new to a socket or to a server.
LEMMA ConnBytes ==
  ASSUME NetTyped, NEW a \in Adapters
  PROVE  /\ UNCHANGED <<buffered, wire>> => BytesKept
         /\ Close(a) => NoBytes(a) /\ \A b \in Adapters \ {a} : SameBytes(b)
         /\ Close(a) => BytesKept
         /\ SelectAdapter(a, conn') => BytesKept
         /\ \A m : SendRequest(a, m, "Error") => Close(a)
         /\ \A m : SendRequest(a, m, "NotSend") => UNCHANGED <<buffered, wire>>
<1>1. UNCHANGED <<buffered, wire>> => BytesKept
  BY DEF BytesKept, SameBytes
<1>2. Close(a) => NoBytes(a) /\ \A b \in Adapters \ {a} : SameBytes(b)
  BY DEF NetTyped, Close, SameBytes, NoBytes
<1>3. Close(a) => BytesKept
  BY <1>2 DEF BytesKept
<1>4. \A m : SendRequest(a, m, "Error") => Close(a)
  BY DEF SendRequest
<1>5. \A m : SendRequest(a, m, "NotSend") => UNCHANGED <<buffered, wire>>
  BY DEF SendRequest, net
<1> QED
  BY <1>1, <1>2, <1>3, <1>4, <1>5 DEF SelectAdapter

\* The queues, and the answers waited for, stay.
LEMMA OrderStays ==
  ASSUME OrderInv, BytesKept, UNCHANGED <<mode, tq, reqMsg, answer>>
  PROVE  OrderInv'
<1> SUFFICES ASSUME Serial, NEW a \in Adapters
             PROVE  OrderOK(tq[a], wire'[a], buffered'[a], reqMsg[a])
  BY DEF OrderInv, Serial, OwnAnswer
<1>1. OrderOK(tq[a], wire[a], buffered[a], reqMsg[a])
  BY DEF OrderInv
<1>2. SameBytes(a) \/ NoBytes(a) \/ LastBytes(a)
  BY DEF BytesKept
<1> QED
  BY <1>1, <1>2 DEF OrderOK, SameBytes, NoBytes, LastBytes

\* One connection changes.
LEMMA OrderAt ==
  ASSUME OrderInv, NEW a \in Adapters, mode' = mode,
         \A b \in Adapters \ {a} : SameBytes(b) /\ tq'[b] = tq[b] /\ reqMsg'[b] = reqMsg[b],
         Serial => OrderOK(tq'[a], wire'[a], buffered'[a], reqMsg'[a]),
         Serial => OwnAnswer'
  PROVE  OrderInv'
<1> SUFFICES ASSUME Serial, NEW b \in Adapters
             PROVE  OrderOK(tq'[b], wire'[b], buffered'[b], reqMsg'[b])
  BY DEF OrderInv, Serial
<1>1. CASE b = a
  BY <1>1
<1>2. CASE b # a
  BY <1>2 DEF OrderInv, SameBytes
<1> QED
  BY <1>1, <1>2

\* Most steps add nothing to the queues, and to a connection only what waited in its socket.
LEMMA QuietBytes ==
  ASSUME Inv,
         \/ CallRefused \/ CallAborts \/ CallFailed \/ Prepare \/ PrepareNoAdapter \/ FinishTail
         \/ Deliver \/ PrepareDone \/ FlushDone \/ FlushStops \/ EventStale \/ EventConnecting
         \/ EventConnected \/ EventError \/ Request \/ ReceiveDone \/ ReceiveClosed
         \/ ScanAdaptersDone \/ ScanObject \/ ScanDone \/ Environment \/ UNCHANGED vars
  PROVE  BytesKept /\ UNCHANGED <<mode, tq, reqMsg, answer>>
<1>n. NetTyped /\ Typed
  BY DEF Inv, Typed
<1>1. CASE \/ CallRefused \/ CallAborts \/ PrepareNoAdapter \/ PrepareDone \/ FinishTail
           \/ FlushDone \/ EventStale \/ EventConnected \/ ReceiveDone \/ ScanAdaptersDone
           \/ ScanObject \/ ScanDone \/ UNCHANGED vars
  <2>1. UNCHANGED <<mode, tq, reqMsg, answer, buffered, wire>>
    BY <1>1 DEF CallRefused, CallAborts, PrepareNoAdapter, PrepareDone, FinishTail, FlushDone,
                EventStale, EventConnected, ReceiveDone, ScanAdaptersDone, ScanObject, ScanDone,
                vars, env, net, reqs
  <2> QED
    BY <2>1 DEF BytesKept, SameBytes
<1>2. CASE Prepare \/ Environment
  <2>1. UNCHANGED <<mode, tq, reqMsg, answer, buffered, wire>>
    <3>1. CASE Prepare
      BY <3>1 DEF Prepare, SelectAdapter, env, net
    <3>2. CASE Environment
      BY <3>2 DEF Environment, InvokeUnknown, InvokeNoAdapter, Invoke, DeadlinePasses, Event, Scan,
                  UpdateEndpoints, SelectAdapter, env, net, reqs
    <3> QED
      BY <1>2, <3>1, <3>2
  <2> QED
    BY <2>1 DEF BytesKept, SameBytes
<1>3. CASE \/ CallFailed \/ Deliver \/ FlushStops \/ EventConnecting \/ EventError \/ ReceiveClosed
           \/ Request
  <2>1. PICK a : a = Head(stk).a
    OBVIOUS
  <2>2. a \in Adapters
    BY <1>3, <1>n, <2>1, HeadTypes DEF CallFailed, Deliver, FlushStops, EventConnecting, EventError,
                                       ReceiveClosed, Request, Running
  <2>3. UNCHANGED <<mode, tq, reqMsg, answer>>
    BY <1>3 DEF CallFailed, Deliver, FlushStops, EventConnecting, EventError, ReceiveClosed, Request,
                env, reqs
  <2>4. CASE CallFailed
    BY <1>n, <2>1, <2>2, <2>3, <2>4, ConnBytes DEF CallFailed
  <2>5. CASE FlushStops
    <3>1. PICK m, r : r \in {"NotSend", "Error"} /\ SendRequest(a, m, r)
      BY <2>1, <2>5 DEF FlushStops
    <3> QED
      BY <1>n, <2>2, <2>3, <3>1, ConnBytes
  <2>6. CASE Deliver \/ EventConnecting \/ EventError \/ ReceiveClosed
    <3>1. Close(a) \/ UNCHANGED <<buffered, wire>>
      BY <2>1, <2>6 DEF Deliver, EventConnecting, EventError, ReceiveClosed, net
    <3> QED
      BY <1>n, <2>2, <2>3, <3>1, ConnBytes
  <2>7. CASE Request
    <3>1. CASE Close(a) \/ UNCHANGED net
      BY <1>n, <2>2, <2>3, <3>1, ConnBytes DEF net
    <3>2. CASE /\ buffered[a] # NoMsg /\ Reaches(a, buffered[a])
               /\ buffered' = [buffered EXCEPT ![a] = NoMsg]
      <4>1. LastBytes(a) /\ \A b \in Adapters \ {a} : SameBytes(b)
        BY <1>n, <2>2, <3>2 DEF Reaches, NetTyped, LastBytes, SameBytes
      <4> QED
        BY <2>3, <4>1 DEF BytesKept
    <3> QED
      BY <2>1, <2>7, <3>1, <3>2 DEF Request
  <2> QED
    BY <1>3, <2>4, <2>5, <2>6, <2>7
<1> QED
  BY <1>1, <1>2, <1>3

\* Steps that give no request to a serial connection and take none from it, ...
LEMMA OrderQuiet ==
  ASSUME Inv, OrderInv,
         \/ CallRefused \/ CallAborts \/ CallFailed \/ Prepare \/ PrepareNoAdapter \/ FinishTail
         \/ Deliver \/ PrepareDone \/ FlushDone \/ FlushStops \/ EventStale \/ EventConnecting
         \/ EventConnected \/ EventError \/ Request \/ ReceiveDone \/ ReceiveClosed
         \/ ScanAdaptersDone \/ ScanObject \/ ScanDone \/ Environment \/ UNCHANGED vars
  PROVE  OrderInv'
BY QuietBytes, OrderStays

\* The bytes of m go out, or a part of them, on a connection that was idle.
LEMMA OrderSends ==
  ASSUME NetTyped, NEW a \in Adapters, NEW m \in Msgs, NEW r \in {"Ok", "Full"},
         SendRequest(a, m, r), wire[a] = {}, buffered[a] = NoMsg
  PROVE  /\ wire'[a] \subseteq {m} /\ buffered'[a] \in {NoMsg, m}
         /\ wire'[a] # {} => buffered'[a] = NoMsg
         /\ \A b \in Adapters \ {a} : SameBytes(b)
BY DEF NetTyped, SendRequest, Reaches, SameBytes

\* Nothing is under way: neither in the queue nor on the connection.
LEMMA OrderIdle ==
  ASSUME Inv, OrderInv, Serial, NEW a \in Adapters, reqMsg[a] = NoMsg
  PROVE  /\ wire[a] = {} /\ buffered[a] = NoMsg
         /\ \A i \in Ids(tq[a]) : ~ tq[a].data[i].hasSend
<1>1. OrderOK(tq[a], wire[a], buffered[a], NoMsg)
  BY DEF OrderInv
<1>2. NetTyped /\ QueueOK(tq[a])
  BY DEF Inv, Typed, QueuesTyped
<1>3. wire[a] \subseteq Msgs /\ \A i \in Ids(tq[a]) : tq[a].data[i].ptr \in Msgs
  BY <1>2 DEF NetTyped, QueueOK, Entry
<1> QED
  BY <1>1, <1>3, ClientProxyAssumption DEF OrderOK

\* ... a call, which finds a serial connection idle or waits, ...
LEMMA OrderCalls ==
  ASSUME Inv, OrderInv, CallSent \/ CallQueued PROVE OrderInv'
<1> SUFFICES ASSUME Serial PROVE OrderInv'
  BY DEF OrderInv, Serial, CallSent, CallQueued, env
<1>1. PICK a, m, n : a = Head(stk).a /\ m = Head(stk).m /\ n = NewId(a, m)
  OBVIOUS
<1>2. a \in Adapters /\ m \in Msgs /\ mode' = mode /\ answer' = answer /\ Kind[m] # "ONE_WAY"
  BY <1>1, HeadLive DEF CallSent, CallQueued, Running, env, Allowed
<1>3. /\ NetTyped /\ QueuesTyped /\ Consistent(tq[a]) /\ OwnAnswer'
      /\ OrderOK(tq[a], wire[a], buffered[a], reqMsg[a])
  BY <1>2 DEF Inv, Typed, KeyInv, OrderInv, OwnAnswer
<1>4. ASSUME NEW sent \in BOOLEAN, n \notin Ids(tq[a]), Insert(a, m, n, sent)
      PROVE  /\ \A b \in Adapters \ {a} : tq'[b] = tq[b] /\ reqMsg'[b] = reqMsg[b]
             /\ reqMsg'[a] = IF sent THEN m ELSE reqMsg[a]
             /\ Ids(tq'[a]) = Ids(tq[a]) \cup {n}
             /\ tq'[a].data[n].ptr = m /\ (tq'[a].data[n].hasSend <=> sent)
             /\ \A i \in Ids(tq[a]) : tq'[a].data[i] = tq[a].data[i]
  <2>1. /\ tq' = [tq EXCEPT ![a] = PushQueue(tq[a], m, n, sent)]
        /\ reqMsg' = IF sent THEN [reqMsg EXCEPT ![a] = m] ELSE reqMsg
    BY <1>4 DEF Insert
  <2>2. PICK r : r = PushQueue(tq[a], m, n, sent)
    OBVIOUS
  <2>3. r.data = [i \in Ids(tq[a]) \cup {n} |->
                    IF i = n THEN [ptr |-> m, hasSend |-> sent] ELSE tq[a].data[i]]
    BY <2>2 DEF PushQueue
  <2>4. tq'[a] = r /\ \A b \in Adapters \ {a} : tq'[b] = tq[b]
    BY <1>2, <1>3, <2>1, <2>2 DEF QueuesTyped
  <2> QED
    BY <1>2, <1>3, <1>4, <2>1, <2>3, <2>4 DEF QueuesTyped, Ids
<1>5. CASE CallQueued
  <2>1. Insert(a, m, n, FALSE) /\ UNCHANGED <<buffered, wire>>
    BY <1>1, <1>5 DEF CallQueued, net
  <2>2. CASE n \in Ids(tq[a])
    <3>1. UNCHANGED <<tq, reqMsg>>
      BY <2>1, <2>2 DEF Insert
    <3> QED
      BY <1>2, <2>1, <3>1, OrderStays DEF BytesKept, SameBytes
  <2>3. CASE n \notin Ids(tq[a])
    <3>1. /\ \A b \in Adapters \ {a} : tq'[b] = tq[b] /\ reqMsg'[b] = reqMsg[b]
          /\ reqMsg'[a] = reqMsg[a] /\ Ids(tq'[a]) = Ids(tq[a]) \cup {n} /\ ~ tq'[a].data[n].hasSend
          /\ \A i \in Ids(tq[a]) : tq'[a].data[i] = tq[a].data[i]
      BY <1>4, <2>1, <2>3
    <3>2. OrderOK(tq'[a], wire'[a], buffered'[a], reqMsg'[a])
      BY <1>3, <2>1, <3>1 DEF OrderOK
    <3> QED
      BY <1>2, <1>3, <2>1, <3>1, <3>2, OrderAt DEF SameBytes
  <2> QED
    BY <2>2, <2>3
<1>6. CASE CallSent
  <2>1. Insert(a, m, n, TRUE) /\ tq[a].send = << >> /\ reqMsg[a] = NoMsg
    BY <1>1, <1>2, <1>6 DEF CallSent, MaySend
  <2>2. PICK r \in {"Ok", "Full"} : SendRequest(a, m, r)
    BY <1>1, <1>6 DEF CallSent
  <2>3. wire[a] = {} /\ buffered[a] = NoMsg /\ \A i \in Ids(tq[a]) : ~ tq[a].data[i].hasSend
    BY <1>2, <2>1, OrderIdle
  <2>4. Ids(tq[a]) = {}
    <3>1. DOMAIN << >> = {}
      OBVIOUS
    <3>2. {i \in Ids(tq[a]) : ~ tq[a].data[i].hasSend} = {}
      BY <1>3, <2>1, <3>1 DEF Consistent, ToSet
    <3> QED
      BY <2>3, <3>2
  <2>5. /\ \A b \in Adapters \ {a} : tq'[b] = tq[b] /\ reqMsg'[b] = reqMsg[b]
        /\ reqMsg'[a] = m /\ Ids(tq'[a]) = {n} /\ tq'[a].data[n].ptr = m
    BY <1>4, <2>1, <2>4
  <2>6. /\ wire'[a] \subseteq {m} /\ buffered'[a] \in {NoMsg, m}
        /\ wire'[a] # {} => buffered'[a] = NoMsg
        /\ \A b \in Adapters \ {a} : SameBytes(b)
    BY <1>2, <1>3, <2>2, <2>3, OrderSends
  <2>7. OrderOK(tq'[a], wire'[a], buffered'[a], reqMsg'[a])
    BY <2>5, <2>6 DEF OrderOK
  <2> QED
    BY <1>2, <1>3, <2>5, <2>6, <2>7, OrderAt
<1> QED
  BY <1>5, <1>6

\* What is left in a queue when the request with id i is taken from it.
LEMMA OrderLess ==
  ASSUME Inv, OrderInv, Serial, NEW a \in Adapters, NEW i, NEW r, i \in Ids(tq[a]),
         r.data = [j \in Ids(tq[a]) \ {i} |-> tq[a].data[j]], Becomes(a, r)
  PROVE  /\ \A b \in Adapters \ {a} : tq'[b] = tq[b]
         /\ \A j \in Ids(tq'[a]) : tq'[a].data[j].hasSend =>
              tq'[a].data[j].ptr = reqMsg[a] /\ tq'[a].data[j].ptr # tq[a].data[i].ptr
<1>1. QueuesTyped /\ KeyInv /\ OrderOK(tq[a], wire[a], buffered[a], reqMsg[a])
  BY DEF Inv, Typed, OrderInv
<1>2. tq'[a] = r /\ \A b \in Adapters \ {a} : tq'[b] = tq[b]
  BY <1>1 DEF QueuesTyped, Becomes
<1>3. Ids(r) = Ids(tq[a]) \ {i} /\ \A j \in Ids(r) : r.data[j] = tq[a].data[j]
  BY DEF Ids
<1> QED
  BY <1>1, <1>2, <1>3 DEF KeyInv, OrderOK

\* ... a request sent from the send list, ...
LEMMA OrderFlushes ==
  ASSUME Inv, OrderInv, FlushFails \/ FlushSends PROVE OrderInv'
<1> SUFFICES ASSUME Serial PROVE OrderInv'
  BY DEF OrderInv, Serial, FlushSends, FlushFails, env
<1>1. PICK a, m, i : a = Head(stk).a /\ m = GetSend(tq[a]) /\ i = Head(tq[a].send)
  OBVIOUS
<1>2. /\ stk # << >> /\ Head(stk).op = "flush" /\ mode' = mode /\ answer' = answer
      /\ tq[a].send # << >> /\ reqMsg[a] = NoMsg
  BY <1>1 DEF FlushFails, FlushSends, MaySendNext, Running, env
<1>3. /\ a \in Adapters /\ NetTyped /\ QueuesTyped /\ KeyInv /\ SerialInv /\ OwnAnswer'
  BY <1>1, <1>2, HeadTypes DEF Inv, Typed, OrderInv, OwnAnswer
<1>4. i \in Ids(tq[a]) /\ m = tq[a].data[i].ptr /\ m \in Msgs
  BY <1>1, <1>2, <1>3, SendHead DEF QueuesTyped, KeyInv
<1>5. wire[a] = {} /\ buffered[a] = NoMsg /\ \A j \in Ids(tq[a]) : ~ tq[a].data[j].hasSend
  BY <1>2, <1>3, OrderIdle
<1>6. CASE FlushFails
  <2>1. PICK r : r = PopSend(tq[a], TRUE)
    OBVIOUS
  <2>2. Becomes(a, r) /\ SendRequest(a, m, "Error") /\ UNCHANGED reqMsg
    BY <1>1, <1>6, <2>1 DEF FlushFails, Becomes
  <2>3. r.data = [j \in Ids(tq[a]) \ {i} |-> tq[a].data[j]]
    BY <1>1, <2>1 DEF PopSend
  <2>4. /\ \A b \in Adapters \ {a} : tq'[b] = tq[b]
        /\ \A j \in Ids(tq'[a]) : tq'[a].data[j].hasSend => tq'[a].data[j].ptr = reqMsg[a]
    BY <1>3, <1>4, <2>2, <2>3, OrderLess
  <2>5. NoBytes(a) /\ \A b \in Adapters \ {a} : SameBytes(b)
    BY <1>3, <2>2, ConnBytes
  <2>6. OrderOK(tq'[a], wire'[a], buffered'[a], reqMsg'[a])
    BY <2>2, <2>4, <2>5 DEF OrderOK, NoBytes
  <2> QED
    BY <1>2, <1>3, <2>2, <2>4, <2>5, <2>6, OrderAt
<1>7. CASE FlushSends
  <2>1. Kind[m] # "ONE_WAY"
    BY <1>3, <1>4 DEF SerialInv, Holds
  <2>2. PICK r : r = PopSend(tq[a], FALSE)
    OBVIOUS
  <2>3. Becomes(a, r) /\ reqMsg' = [reqMsg EXCEPT ![a] = m]
    <3>1. r = PopSend(tq[a], Kind[m] = "ONE_WAY")
      BY <2>1, <2>2 DEF PopSend
    <3> QED
      BY <1>1, <1>7, <3>1 DEF FlushSends, Becomes
  <2>4. PICK s \in {"Ok", "Full"} : SendRequest(a, m, s)
    BY <1>1, <1>7 DEF FlushSends
  <2>5. /\ wire'[a] \subseteq {m} /\ buffered'[a] \in {NoMsg, m}
        /\ wire'[a] # {} => buffered'[a] = NoMsg
        /\ \A b \in Adapters \ {a} : SameBytes(b)
    BY <1>3, <1>4, <1>5, <2>4, OrderSends
  <2>6. r.data = [tq[a].data EXCEPT ![i].hasSend = TRUE]
    BY <1>1, <2>2 DEF PopSend
  <2>7. \A j \in Ids(r) : r.data[j].hasSend => r.data[j].ptr = m
    <3>1. tq[a].data[i] \in Entry
      BY <1>3, <1>4 DEF QueuesTyped, QueueOK
    <3>2. r.data[i].ptr = m
      BY <1>4, <2>6, <3>1 DEF Ids, Entry
    <3>3. \A j \in Ids(r) : j # i => j \in Ids(tq[a]) /\ r.data[j] = tq[a].data[j]
      BY <2>6 DEF Ids
    <3> QED
      BY <1>5, <3>2, <3>3
  <2>8. tq'[a] = r /\ \A b \in Adapters \ {a} : tq'[b] = tq[b]
    BY <1>3, <2>3 DEF QueuesTyped, Becomes
  <2>9. reqMsg'[a] = m /\ \A b \in Adapters \ {a} : reqMsg'[b] = reqMsg[b]
    BY <1>3, <2>3 DEF QueuesTyped
  <2>10. OrderOK(tq'[a], wire'[a], buffered'[a], reqMsg'[a])
    BY <2>5, <2>7, <2>8, <2>9 DEF OrderOK
  <2> QED
    BY <1>2, <1>3, <2>5, <2>8, <2>9, <2>10, OrderAt
<1> QED
  BY <1>6, <1>7

\* ... a response, which ends the request it answers, ...
LEMMA OrderReceives ==
  ASSUME Inv, OrderInv, NEW q \in Msgs, NEW last \in BOOLEAN, Receive(q, last)
  PROVE  OrderInv'
<1> SUFFICES ASSUME Serial PROVE OrderInv'
  BY DEF OrderInv, Serial, Receive, env
<1>1. PICK a, m, i : a = Head(stk).a /\ m = reqMsg[a] /\ i = id[m]
  OBVIOUS
<1>2. a \in Adapters /\ mode' = mode
  BY <1>1, HeadTypes DEF Receive, Running, env, Inv
<1>3. /\ NetTyped /\ QueuesTyped /\ KeyInv /\ SerialInv /\ ReqsTyped /\ OwnAnswer
      /\ OrderOK(tq[a], wire[a], buffered[a], reqMsg[a])
  BY <1>2 DEF Inv, Typed, OrderInv
<1>4. q \in wire[a] /\ (NoBytes(a) \/ (wire'[a] = wire[a] \ {q} /\ buffered'[a] = buffered[a]))
      /\ \A b \in Adapters \ {a} : SameBytes(b)
  <2>1. q \in wire[a]
    BY <1>1 DEF Receive
  <2>2. Close(a) \/ (wire' = [wire EXCEPT ![a] = @ \ {q}] /\ UNCHANGED buffered)
    BY <1>1 DEF Receive
  <2>3. CASE Close(a)
    BY <1>2, <1>3, <2>1, <2>3, ConnBytes
  <2>4. CASE wire' = [wire EXCEPT ![a] = @ \ {q}] /\ UNCHANGED buffered
    BY <1>2, <1>3, <2>1, <2>4 DEF NetTyped, SameBytes
  <2> QED
    BY <2>2, <2>3, <2>4
<1>5. q = m /\ m \in Msgs
  BY <1>1, <1>3, <1>4 DEF OrderOK
<1>6. wire'[a] = {} /\ buffered'[a] = NoMsg
  BY <1>1, <1>3, <1>4, <1>5 DEF OrderOK, NoBytes
<1>7. PICK r : r = EraseQueue(tq[a], i)
  OBVIOUS
<1>8. /\ Becomes(a, r) /\ answer' = [answer EXCEPT ![m] = q]
      /\ reqMsg' = [reqMsg EXCEPT ![a] = NoMsg]
  BY <1>1, <1>5, <1>7, ClientProxyAssumption DEF Receive, Answered, AnsweredId, Becomes
<1>9. i \in Ids(tq[a]) /\ tq[a].data[i].ptr = m
  <2>1. Holds(tq[a], m)
    BY <1>1, <1>2, <1>3, <1>5, ClientProxyAssumption DEF SerialInv
  <2>2. PICK j \in Ids(tq[a]) : tq[a].data[j].ptr = m
    BY <2>1 DEF Holds
  <2> QED
    BY <1>1, <1>2, <1>3, <2>2 DEF KeyInv
<1>10. r.data = [j \in Ids(tq[a]) \ {i} |-> tq[a].data[j]]
  BY <1>7 DEF EraseQueue
<1>11. /\ \A b \in Adapters \ {a} : tq'[b] = tq[b]
       /\ \A j \in Ids(tq'[a]) : ~ tq'[a].data[j].hasSend
  <2>1. /\ \A b \in Adapters \ {a} : tq'[b] = tq[b]
        /\ \A j \in Ids(tq'[a]) : tq'[a].data[j].hasSend =>
             tq'[a].data[j].ptr = reqMsg[a] /\ tq'[a].data[j].ptr # tq[a].data[i].ptr
    <3>1. i \in Ids(tq[a]) /\ Becomes(a, r)
      BY <1>8, <1>9
    <3> QED
      BY <1>2, <1>10, <3>1, OrderLess
  <2>2. tq[a].data[i].ptr = reqMsg[a]
    BY <1>1, <1>9
  <2> QED
    BY <2>1, <2>2
<1>12. reqMsg'[a] = NoMsg /\ \A b \in Adapters \ {a} : reqMsg'[b] = reqMsg[b]
  BY <1>2, <1>3, <1>8 DEF QueuesTyped
<1>13. OrderOK(tq'[a], wire'[a], buffered'[a], reqMsg'[a])
  BY <1>6, <1>11, <1>12 DEF OrderOK
<1>14. OwnAnswer'
  BY <1>3, <1>5, <1>8 DEF OwnAnswer, ReqsTyped
<1> QED
  BY <1>2, <1>4, <1>11, <1>12, <1>13, <1>14, OrderAt

\* ... and a timeout, which closes the connection, keep the order.
LEMMA OrderScans ==
  ASSUME Inv, OrderInv, ScanAdapter PROVE OrderInv'
<1> SUFFICES ASSUME Serial PROVE OrderInv'
  BY DEF OrderInv, Serial, ScanAdapter, env
<1>1. PICK a \in Adapters : \E i \in ExpiredIds(a) :
        /\ tq' = [tq EXCEPT ![a] = EraseQueue(@, i)] /\ LeaveConnection(a, tq[a].data[i].ptr)
  BY DEF ScanAdapter
<1>2. PICK i \in ExpiredIds(a) :
        /\ tq' = [tq EXCEPT ![a] = EraseQueue(@, i)] /\ LeaveConnection(a, tq[a].data[i].ptr)
  BY <1>1
<1>3. PICK m, r : m = tq[a].data[i].ptr /\ r = EraseQueue(tq[a], i)
  OBVIOUS
<1>4. /\ NetTyped /\ QueuesTyped /\ OwnAnswer' /\ mode' = mode /\ i \in Ids(tq[a])
      /\ OrderOK(tq[a], wire[a], buffered[a], reqMsg[a])
  BY DEF Inv, Typed, OrderInv, OwnAnswer, ScanAdapter, env, ExpiredIds
<1>5. Becomes(a, r) /\ r.data = [j \in Ids(tq[a]) \ {i} |-> tq[a].data[j]]
  BY <1>2, <1>3 DEF Becomes, EraseQueue
<1>6. /\ \A b \in Adapters \ {a} : tq'[b] = tq[b]
      /\ \A j \in Ids(tq'[a]) : tq'[a].data[j].hasSend =>
           tq'[a].data[j].ptr = reqMsg[a] /\ tq'[a].data[j].ptr # m
  BY <1>3, <1>4, <1>5, OrderLess
<1>7. CASE m = reqMsg[a]
  <2>1. reqMsg' = [reqMsg EXCEPT ![a] = NoMsg] /\ Close(a)
    BY <1>2, <1>3, <1>7 DEF LeaveConnection
  <2>2. NoBytes(a) /\ \A b \in Adapters \ {a} : SameBytes(b)
    BY <1>4, <2>1, ConnBytes
  <2>3. reqMsg'[a] = NoMsg /\ \A b \in Adapters \ {a} : reqMsg'[b] = reqMsg[b]
    BY <1>4, <2>1 DEF QueuesTyped
  <2>4. OrderOK(tq'[a], wire'[a], buffered'[a], reqMsg'[a])
    BY <1>6, <1>7, <2>2, <2>3 DEF OrderOK, NoBytes
  <2> QED
    BY <1>4, <1>6, <2>2, <2>3, <2>4, OrderAt
<1>8. CASE m # reqMsg[a]
  <2>1. UNCHANGED <<reqMsg, buffered, wire>>
    BY <1>2, <1>3, <1>8 DEF LeaveConnection, net
  <2>2. OrderOK(tq'[a], wire'[a], buffered'[a], reqMsg'[a])
    BY <1>4, <1>6, <2>1 DEF OrderOK
  <2> QED
    BY <1>4, <1>6, <2>1, <2>2, OrderAt DEF SameBytes
<1> QED
  BY <1>7, <1>8

\* On a serial connection, where nothing but the order says whose a response is,
\* every response is given to the request it answers: a request that ends before
\* its answer has come takes the connection, and with it the answer, away.
THEOREM SerialOwnResponse == Spec => [](Serial => OwnAnswer)
<1>1. Init => OrderInv
  <2> SUFFICES ASSUME Init PROVE OrderInv
    OBVIOUS
  <2>1. ASSUME NEW a \in Adapters
        PROVE  OrderOK(tq[a], wire[a], buffered[a], reqMsg[a])
    <3>1. tq[a] = EmptyQueue /\ wire[a] = {} /\ buffered[a] = NoMsg /\ reqMsg[a] = NoMsg
      BY DEF Init
    <3>2. Ids(tq[a]) = {}
      BY <3>1 DEF EmptyQueue, Ids
    <3> QED
      BY <3>1, <3>2 DEF OrderOK
  <2>2. OwnAnswer
    BY DEF Init, OwnAnswer
  <2> QED
    BY <2>1, <2>2 DEF OrderInv
<1>2. Inv /\ OrderInv /\ [Next]_vars => OrderInv'
  <2> SUFFICES ASSUME Inv, OrderInv, [Next]_vars PROVE OrderInv'
    OBVIOUS
  <2>1. CASE \/ CallRefused \/ CallAborts \/ CallFailed \/ Prepare \/ PrepareNoAdapter \/ FinishTail
             \/ Deliver \/ PrepareDone \/ FlushDone \/ FlushStops \/ EventStale \/ EventConnecting
             \/ EventConnected \/ EventError \/ Request \/ ReceiveDone \/ ReceiveClosed
             \/ ScanAdaptersDone \/ ScanObject \/ ScanDone \/ Environment \/ UNCHANGED vars
    BY <2>1, OrderQuiet
  <2>2. CASE CallSent \/ CallQueued
    BY <2>2, OrderCalls
  <2>3. CASE FlushFails \/ FlushSends
    BY <2>3, OrderFlushes
  <2>4. CASE \E r \in Msgs, last \in BOOLEAN : Receive(r, last)
    BY <2>4, OrderReceives
  <2>5. CASE ScanAdapter
    BY <2>5, OrderScans
  <2> QED
    BY <2>1, <2>2, <2>3, <2>4, <2>5 DEF Next, Handler
<1>3. OrderInv => (Serial => OwnAnswer)
  BY DEF OrderInv
<1> QED
  BY <1>1, <1>2, <1>3, Invariant, PTL DEF Spec
-----------------------------------------------------------------------------
(* Whose response it is on a multiplexed connection. *)

\* The requests that have an id from the generator of a, ...
Given(a) == {m \in Msgs : RpcId[m] = 0 /\ id[m] # 0 /\ adapter[m] = a}

\* ... and those whose ids mean something on the connection of a.
Marked(a, m) == RpcId[m] # 0 \/ m \in Given(a)

\* How many ids a generator that stands at u has made since it made n.
Age(n, u) == IF n <= u THEN u - n ELSE (u + MaxId) - n

\* The ids j of the requests in S differ: the generator has not come round yet.
Numbered(j, S, u) ==
  /\ \A m \in S : Age(j[m], u) < Cardinality(S)
  /\ \A m, n \in S : j[m] = j[n] => m = n
  /\ S # {} => u # 0

\* A request has the id its caller gave it, or none, until it is called; ...
IdsInv ==
  /\ \A m \in Msgs : RpcId[m] # 0 \/ outcome[m] = "new" \/ Has(objQ, m) => id[m] = RpcId[m]
  /\ \A f : Has(stk, f) /\ f.op = "call" => adapter[f.m] = f.a /\ id[f.m] = RpcId[f.m]

\* ... then it has one by which its connection knows it, ...
At(a, m) == Holds(tq[a], m) \/ m \in wire[a] \/ m = buffered[a]
MarkedInv == \A a \in Adapters, m \in Msgs : At(a, m) => Marked(a, m)

\* ... and no other request of that connection has.
NumberInv == \A a \in Adapters : Numbered(id, Given(a), uniqId[a])

ParInv == ~ Serial => IdsInv /\ MarkedInv /\ NumberInv /\ OwnResponse

\* There are enough ids for all requests that are ever made.
FewMsgs == IsFiniteSet(Msgs) /\ Cardinality(Msgs) <= MaxId

\* The generator makes an id that is none of the last MaxId - 1.
LEMMA NextAge ==
  ASSUME NEW u \in IdSet, NEW n \in IdSet, u # 0, n # 0, Age(n, u) < MaxId - 1
  PROVE  LET v == GenerateId(u, MaxId)
         IN  v \in IdSet /\ v # 0 /\ v # n /\ Age(n, v) = Age(n, u) + 1
<1>1. MaxId \in Nat \ {0} /\ u \in 1 .. MaxId /\ n \in 1 .. MaxId
  BY ClientProxyAssumption DEF IdSet
<1>2. CASE u < MaxId
  <2>1. GenerateId(u, MaxId) = u + 1
    BY <1>1, <1>2 DEF GenerateId
  <2> QED
    BY <1>1, <1>2, <2>1 DEF Age, IdSet
<1>3. CASE u = MaxId
  <2>1. GenerateId(u, MaxId) = 1
    BY <1>1, <1>3 DEF GenerateId
  <2> QED
    BY <1>1, <1>3, <2>1 DEF Age, IdSet
<1> QED
  BY <1>1, <1>2, <1>3

With(i, x, v) == [i EXCEPT ![x] = v]
Plus(S, x)    == S \cup {x}

\* The next request of a connection gets an id of its own.
LEMMA NextNumber ==
  ASSUME FewMsgs, NEW S \in SUBSET Msgs, NEW x \in Msgs, x \notin S, NEW u \in IdSet,
         NEW i \in [Msgs -> IdSet], Numbered(i, S, u), \A m \in S : i[m] # 0
  PROVE  LET v == GenerateId(u, MaxId)
         IN  v \in IdSet /\ v # 0 /\ Numbered(With(i, x, v), Plus(S, x), v)
<1> DEFINE v == GenerateId(u, MaxId)
           j == With(i, x, v)
<1>1. /\ MaxId \in Nat \ {0} /\ v \in IdSet /\ v # 0
  BY ClientProxyAssumption DEF GenerateId, IdSet
<1>2. /\ IsFiniteSet(S) /\ Cardinality(S) \in Nat
      /\ Cardinality(S \cup {x}) = Cardinality(S) + 1 /\ Cardinality(S) + 1 <= MaxId
  <2>1. IsFiniteSet(S) /\ IsFiniteSet(S \cup {x}) /\ Cardinality(S \cup {x}) = Cardinality(S) + 1
    BY FS_Subset, FS_AddElement DEF FewMsgs
  <2>2. Cardinality(S \cup {x}) <= Cardinality(Msgs) /\ Cardinality(Msgs) \in Nat
    BY FS_Subset, FS_CardinalityType DEF FewMsgs
  <2> QED
    BY <1>1, <2>1, <2>2, FS_CardinalityType DEF FewMsgs
<1>3. j[x] = v /\ \A m \in S : j[m] = i[m]
  BY DEF With
<1> HIDE DEF v, j
<1>4. ASSUME NEW m \in S
      PROVE  v # i[m] /\ Age(i[m], v) < Cardinality(S) + 1
  <2>1. i[m] \in IdSet /\ i[m] # 0 /\ u # 0 /\ Age(i[m], u) < Cardinality(S)
    BY <1>4 DEF Numbered
  <2>2. Age(i[m], u) \in Int
    BY <1>1, <2>1 DEF Age, IdSet
  <2>3. Age(i[m], u) < MaxId - 1
    BY <1>1, <1>2, <2>1, <2>2
  <2> QED
    BY <1>2, <2>1, <2>2, <2>3, NextAge DEF v
<1>5. Age(v, v) = 0
  BY <1>1 DEF Age, IdSet
<1>6. \A m \in S \cup {x} : Age(j[m], v) < Cardinality(S \cup {x})
  BY <1>2, <1>3, <1>4, <1>5
<1>7. \A m, n \in S \cup {x} : j[m] = j[n] => m = n
  <2>1. \A m, n \in S : i[m] = i[n] => m = n
    BY DEF Numbered
  <2> QED
    BY <1>3, <1>4, <2>1
<1> QED
  BY <1>1, <1>6, <1>7 DEF Numbered, Plus, v, j

\* No request becomes new, comes to wait at the object (but a new one), is about
\* to be called, or comes to a connection.
NewLess    == \A m \in Msgs : outcome'[m] = "new" => outcome[m] = "new"
WaitLess   == \A m \in Msgs : Has(objQ', m) => Has(objQ, m) \/ outcome[m] = "new"
CallsLess  == \A f : Has(stk', f) /\ f.op = "call" => Has(stk, f)
PlacesLess == \A a \in Adapters, m \in Msgs : At(a, m)' => At(a, m)

\* ... and the running handler, if it was about to call one, has gone.
CallsTail  == \A f : Has(stk', f) /\ f.op = "call" => Has(Tail(stk), f)

\* What is on the stack was put there by the handler that ran or stood below it.
LEMMA StackParts ==
  ASSUME stk \in Stacks, stk # << >>, NEW fs \in Stacks, stk' = fs \o Tail(stk),
         NEW f, Has(stk', f)
  PROVE  Has(fs, f) \/ Has(Tail(stk), f)
<1>1. /\ Tail(stk) \in Stacks /\ Len(stk') = Len(fs) + Len(Tail(stk))
      /\ \A k \in 1 .. Len(fs) : stk'[k] = fs[k]
      /\ \A k \in (Len(fs) + 1) .. Len(stk') : stk'[k] = Tail(stk)[k - Len(fs)]
  BY DEF Stacks
<1>2. Len(fs) \in Nat /\ Len(Tail(stk)) \in Nat
  BY <1>1 DEF Stacks
<1>3. PICK k \in 1 .. Len(stk') : stk'[k] = f
  BY DEF Has
<1>4. CASE k \in 1 .. Len(fs)
  BY <1>1, <1>3, <1>4 DEF Has
<1>5. CASE k \notin 1 .. Len(fs)
  <2>1. k \in (Len(fs) + 1) .. Len(stk') /\ k - Len(fs) \in 1 .. Len(Tail(stk))
    BY <1>1, <1>2, <1>3, <1>5
  <2> QED
    BY <1>1, <1>3, <2>1 DEF Has
<1> QED
  BY <1>4, <1>5

\* A handler that goes on with other code than a call leaves no call on the stack but those below it.
LEMMA StackTail ==
  ASSUME stk \in Stacks, stk # << >>, NEW fs \in Stacks, stk' = fs \o Tail(stk),
         \A f : Has(fs, f) => f.op # "call"
  PROVE  CallsTail /\ CallsLess
<1>1. \A f : Has(stk', f) => Has(fs, f) \/ Has(Tail(stk), f)
  BY StackParts
<1>2. \A f : Has(Tail(stk), f) => Has(stk, f)
  BY TailOne DEF Stacks
<1> QED
  BY <1>1, <1>2 DEF CallsTail, CallsLess

\* A handler goes on with code that is about connections.
PlainStack == \E fs \in Seq(Others) : Calls(fs)

\* ... so does one that goes on with code about connections.
LEMMA PlainTail ==
  ASSUME stk \in Stacks, stk # << >>, PlainStack PROVE CallsTail /\ CallsLess
<1>1. PICK fs \in Seq(Others) : Calls(fs)
  BY DEF PlainStack
<1>2. fs \in Stacks
  BY DEF Stacks
<1>3. \A f : Has(fs, f) => f.op # "call"
  <2>1. \A f \in Others : f.op # "call"
    BY DEF Others, ConnFrames, ScanFrames
  <2> QED
    BY <2>1 DEF Has
<1> QED
  BY <1>1, <1>2, <1>3, StackTail DEF Calls

\* A request of a multiplexed connection is finished.
LEMMA FinishTails ==
  ASSUME Typed, ~ Serial, stk # << >>, NEW a \in Adapters, NEW m \in Msgs, NEW s,
         NEW fs \in Seq(Others), FinishInvoke(a, m, s, fs)
  PROVE  CallsTail /\ CallsLess /\ NewLess
<1>1. stk \in Stacks /\ outcome \in [Msgs -> Outcomes]
  BY DEF Typed, ReqsTyped
<1>2. CASE Kind[m] = "ONE_WAY"
  <2>1. PlainStack /\ outcome' = [outcome EXCEPT ![m] = "gone"]
    BY <1>2 DEF FinishInvoke, Settle, PlainStack
  <2> QED
    BY <1>1, <2>1, PlainTail DEF NewLess
<1>3. CASE Kind[m] # "ONE_WAY"
  <2>1. PICK d, gs : d = DoMsg("deliver", a, m) /\ gs = <<d>> \o fs
    OBVIOUS
  <2>2. stk' = gs \o Tail(stk) /\ UNCHANGED outcome
    BY <1>3, <2>1 DEF FinishInvoke, FinishFrames, Calls
  <2>3. d \in MsgFrames /\ d.op = "deliver"
    BY <2>1 DEF DoMsg, MsgFrames
  <2>4. \A f \in Others : f.op # "call"
    BY DEF Others, ConnFrames, ScanFrames
  <2>5. gs \in Stacks /\ \A k \in 1 .. Len(gs) : gs[k] = d \/ gs[k] \in Others
    BY <2>1, <2>3 DEF Stacks
  <2>6. \A f : Has(gs, f) => f.op # "call"
    BY <2>3, <2>4, <2>5 DEF Has
  <2> QED
    BY <1>1, <2>2, <2>5, <2>6, StackTail DEF NewLess
<1> QED
  BY <1>2, <1>3

\* A step that makes no id: the request it gives to a connection, if it does, has
\* not been on another.
LEMMA ParKeeps ==
  ASSUME IdsInv, MarkedInv, NumberInv, UNCHANGED <<id, uniqId>>,
         \A m \in Msgs : adapter'[m] = adapter[m] \/ id[m] = RpcId[m],
         NewLess, WaitLess,
         \A f : Has(stk', f) /\ f.op = "call" => adapter'[f.m] = f.a /\ id[f.m] = RpcId[f.m],
         \A a \in Adapters, m \in Msgs : At(a, m)' => Marked(a, m)
  PROVE  IdsInv' /\ MarkedInv' /\ NumberInv'
<1>1. \A a \in Adapters : Given(a)' = Given(a)
  BY DEF Given
<1>2. NumberInv'
  BY <1>1 DEF NumberInv, Numbered
<1>3. MarkedInv'
  BY <1>1 DEF MarkedInv, Marked
<1>4. IdsInv'
  <2>1. \A m \in Msgs : Has(objQ, m)' => Has(objQ', m)
    BY DEF Has
  <2>2. \A f : Has(stk, f)' => Has(stk', f)
    BY DEF Has
  <2> QED
    BY <2>1, <2>2 DEF IdsInv, NewLess, WaitLess
<1> QED
  BY <1>2, <1>3, <1>4

\* A step that gives nothing to a connection and calls no request keeps the ids apart.
LEMMA ParStays ==
  ASSUME ParInv, UNCHANGED <<id, uniqId, adapter, answer, mode>>,
         NewLess, WaitLess, CallsLess, PlacesLess
  PROVE  ParInv'
<1> SUFFICES ASSUME ~ Serial PROVE ParInv'
  BY DEF ParInv, Serial
<1>1. IdsInv /\ MarkedInv /\ NumberInv /\ OwnResponse
  BY DEF ParInv
<1>2. OwnResponse'
  BY <1>1 DEF OwnResponse
<1>3. \A f : Has(stk', f) /\ f.op = "call" => adapter'[f.m] = f.a /\ id[f.m] = RpcId[f.m]
  BY <1>1 DEF IdsInv, CallsLess
<1>4. \A a \in Adapters, m \in Msgs : At(a, m)' => Marked(a, m)
  BY <1>1 DEF MarkedInv, PlacesLess
<1>5. IdsInv' /\ MarkedInv' /\ NumberInv'
  BY <1>1, <1>3, <1>4, ParKeeps
<1> QED
  BY <1>2, <1>5 DEF ParInv

\* The connections and their queues lose what they had, or keep it.
BytesLess == \A a \in Adapters, m \in Msgs :
               m \in wire'[a] \/ m = buffered'[a] => m \in wire[a] \/ m = buffered[a]

\* Where nothing but the leftover bytes moves, no request comes to a connection, ...
LEMMA BytesFewer ==
  ASSUME BytesKept PROVE BytesLess
<1> SUFFICES ASSUME NEW a \in Adapters, NEW m \in Msgs, m \in wire'[a] \/ m = buffered'[a]
             PROVE  m \in wire[a] \/ m = buffered[a]
  BY DEF BytesLess
<1>1. SameBytes(a) \/ NoBytes(a) \/ LastBytes(a)
  BY DEF BytesKept
<1>2. m # NoMsg
  BY ClientProxyAssumption
<1> QED
  BY <1>1, <1>2 DEF SameBytes, NoBytes, LastBytes

\* ... and to none of its places if the queues lose requests at most.
LEMMA PlacesKept ==
  ASSUME BytesLess, \A a \in Adapters, m \in Msgs : Holds(tq[a], m)' => Holds(tq[a], m)
  PROVE  PlacesLess
<1> SUFFICES ASSUME NEW a \in Adapters, NEW m \in Msgs, At(a, m)' PROVE At(a, m)
  BY DEF PlacesLess
<1>1. Holds(tq[a], m)' \/ m \in wire'[a] \/ m = buffered'[a]
  BY DEF At
<1> QED
  BY <1>1 DEF At, BytesLess

\* Steps that leave the queues alone keep the ids apart.
LEMMA ParSame ==
  ASSUME ParInv, BytesKept, UNCHANGED <<mode, tq, answer, id, uniqId, adapter>>,
         NewLess, WaitLess, CallsLess
  PROVE  ParInv'
<1>1. \A a \in Adapters, m \in Msgs : Holds(tq[a], m)' => Holds(tq[a], m)
  BY DEF Holds
<1> QED
  BY <1>1, BytesFewer, PlacesKept, ParStays

\* Handlers that do nothing to the requests but go on with other code.
LEMMA ParPlain ==
  ASSUME Inv, ParInv,
         \/ PrepareDone \/ FinishTail \/ FlushDone \/ FlushStops \/ EventStale \/ EventConnecting
         \/ EventConnected \/ EventError \/ Request \/ ReceiveDone \/ ReceiveClosed
         \/ ScanAdaptersDone \/ ScanDone
  PROVE  ParInv'
<1>1. BytesKept /\ UNCHANGED <<mode, tq, answer>>
  BY QuietBytes
<1>2. UNCHANGED <<objQ, uniqId, adapter, id, outcome>> /\ stk # << >>
  BY DEF PrepareDone, FinishTail, FlushDone, FlushStops, EventStale, EventConnecting, EventConnected,
         EventError, Request, ReceiveDone, ReceiveClosed, ScanAdaptersDone, ScanDone, Running, reqs
<1>3. stk \in Stacks /\ << >> \in Seq(Others)
  BY DEF Inv, Typed
<1>4. PlainStack
  <2>1. ASSUME Return PROVE PlainStack
    <3>1. Calls(<< >>)
      BY <1>2, <1>3, <2>1, ReturnCalls
    <3> QED
      BY <1>3, <3>1 DEF PlainStack
  <2>2. ASSUME NEW f \in Others, Calls(<<f>>) PROVE PlainStack
    <3>1. PICK fs : fs = <<f>>
      OBVIOUS
    <3>2. fs \in Seq(Others) /\ Calls(fs)
      BY <2>2, <3>1
    <3> QED
      BY <3>2 DEF PlainStack
  <2>3. CASE \/ PrepareDone \/ FlushDone \/ FlushStops \/ EventStale \/ EventError \/ ReceiveDone
             \/ ReceiveClosed \/ ScanAdaptersDone \/ ScanDone
    BY <2>1, <2>3 DEF PrepareDone, FlushDone, FlushStops, EventStale, EventError, ReceiveDone,
                      ReceiveClosed, ScanAdaptersDone, ScanDone
  <2>4. CASE FinishTail \/ EventConnected \/ Request \/ EventConnecting
    <3>1. PICK a \in Adapters : a = Head(stk).a
      BY <1>2, <2>4, HeadTypes DEF FinishTail, EventConnected, Request, EventConnecting, Running, Inv
    <3>2. CASE FinishTail \/ EventConnected \/ Request
      <4>1. Return \/ \E f \in Others : Calls(<<f>>)
        BY <3>1, <3>2, DoTypes DEF FinishTail, EventConnected, Request
      <4> QED
        BY <2>1, <2>2, <4>1
    <3>3. CASE EventConnecting
      <4>1. PICK p, f : p = Do("prep", a) /\ f = Do(IF Running("in") THEN "recv" ELSE "req", a)
        OBVIOUS
      <4>2. p \in Others /\ f \in Others
        BY <4>1, DoTypes
      <4>3. Return \/ Calls(<<p, f>>)
        BY <3>1, <3>3, <4>1 DEF EventConnecting
      <4>4. <<p, f>> \in Seq(Others)
        BY <4>2
      <4> QED
        BY <2>1, <4>3, <4>4 DEF PlainStack
    <3> QED
      BY <2>4, <3>2, <3>3
  <2> QED
    BY <2>3, <2>4
<1>5. CallsLess
  BY <1>2, <1>3, <1>4, PlainTail
<1>6. NewLess /\ WaitLess
  BY <1>2 DEF NewLess, WaitLess, Has
<1> QED
  BY <1>1, <1>2, <1>5, <1>6, ParSame

\* What begins when no handler runs, but for the choice of a server.
LEMMA ParBegins ==
  ASSUME Inv, ParInv,
         \/ \E a \in Adapters, in, out, err \in BOOLEAN : Event(a, in, out, err)
         \/ Scan
         \/ \E m \in Msgs : InvokeUnknown(m) \/ InvokeNoAdapter(m) \/ DeadlinePasses(m)
         \/ \E s \in mode.lists : UpdateEndpoints(s)
         \/ UNCHANGED vars
  PROVE  ParInv'
<1>1. BytesKept /\ UNCHANGED <<mode, tq, answer>>
  BY QuietBytes DEF Environment
<1>2. UNCHANGED <<uniqId, adapter, id>>
  BY DEF Event, Scan, InvokeUnknown, InvokeNoAdapter, DeadlinePasses, UpdateEndpoints, reqs, vars
<1>3. outcome \in [Msgs -> Outcomes] /\ objQ \in Seq(Msgs)
  BY DEF Inv, Typed, ReqsTyped
<1>4. CASE (\E a \in Adapters, in, out, err \in BOOLEAN : Event(a, in, out, err)) \/ Scan
  <2>1. stk' \in Seq(Others) /\ UNCHANGED <<objQ, outcome>>
    BY <1>4, BeginningFrames DEF Event, Scan, reqs
  <2>2. \A f \in Others : f.op # "call"
    BY DEF Others, ConnFrames, ScanFrames
  <2>3. CallsLess
    BY <2>1, <2>2 DEF CallsLess, Has
  <2> QED
    BY <1>1, <1>2, <2>1, <2>3, ParSame DEF NewLess, WaitLess, Has
<1>5. CASE (\E m \in Msgs : DeadlinePasses(m)) \/ (\E s \in mode.lists : UpdateEndpoints(s)) \/ UNCHANGED vars
  <2>1. UNCHANGED <<objQ, outcome, stk>>
    BY <1>5 DEF DeadlinePasses, UpdateEndpoints, reqs, vars
  <2> QED
    BY <1>1, <1>2, <2>1, ParSame DEF NewLess, WaitLess, CallsLess, Has
<1>6. ASSUME NEW m \in Msgs, InvokeUnknown(m) PROVE ParInv'
  <2>1. /\ outcome' = [outcome EXCEPT ![m] = "live"] /\ outcome[m] = "new" /\ UNCHANGED stk
        /\ objQ' = Append(objQ, m)
    BY <1>6 DEF InvokeUnknown, PushWaiting
  <2>2. NewLess /\ CallsLess
    BY <1>3, <2>1 DEF NewLess, CallsLess
  <2>3. WaitLess
    BY <1>3, <2>1, AppendOne DEF WaitLess
  <2> QED
    BY <1>1, <1>2, <2>2, <2>3, ParSame
<1>7. ASSUME NEW m \in Msgs, InvokeNoAdapter(m) PROVE ParInv'
  <2>1. UNCHANGED <<objQ, stk>> /\ \E o : o # "new" /\ Settle(m, o)
    BY <1>7 DEF InvokeNoAdapter, InvokeException
  <2>2. NewLess
    BY <1>3, <2>1 DEF NewLess, Settle
  <2> QED
    BY <1>1, <1>2, <2>1, <2>2, ParSame DEF WaitLess, CallsLess, Has
<1> QED
  BY <1>4, <1>5, <1>6, <1>7

\* Handlers that end a request which is on no connection.
LEMMA ParEnds ==
  ASSUME Inv, ParInv, CallRefused \/ CallAborts \/ PrepareNoAdapter \/ Deliver \/ ScanObject
  PROVE  ParInv'
<1> SUFFICES ASSUME ~ Serial PROVE ParInv'
  BY DEF ParInv, Serial, CallRefused, CallAborts, PrepareNoAdapter, Deliver, ScanObject, env
<1>1. BytesKept /\ UNCHANGED <<mode, tq, answer>>
  BY QuietBytes
<1>2. UNCHANGED <<uniqId, adapter, id>> /\ stk # << >>
  BY DEF CallRefused, CallAborts, PrepareNoAdapter, Deliver, ScanObject, reqs, Running
<1>3. /\ Typed /\ outcome \in [Msgs -> Outcomes] /\ status \in [Msgs -> Statuses]
      /\ objQ \in Seq(Msgs) /\ stk \in Stacks /\ << >> \in Seq(Others)
  BY DEF Inv, Typed, ReqsTyped
<1>4. ASSUME NEW m, NEW o, o # "new", outcome' = [outcome EXCEPT ![m] = o]
      PROVE  NewLess
  BY <1>3, <1>4 DEF NewLess
<1>5. ASSUME Return PROVE CallsLess
  <2>1. Calls(<< >>)
    BY <1>2, <1>3, <1>5, ReturnCalls
  <2>2. PlainStack
    BY <1>3, <2>1 DEF PlainStack
  <2> QED
    BY <1>2, <1>3, <2>2, PlainTail
<1>6. CASE CallRefused
  <2>1. PICK a, m : a = Head(stk).a /\ m = Head(stk).m
    OBVIOUS
  <2>2. FinishInvoke(a, m, "EXC", << >>) /\ UNCHANGED objQ
    BY <1>6, <2>1 DEF CallRefused
  <2>3. a \in Adapters /\ m \in Msgs
    BY <1>3, <1>6, <2>1, HeadTypes DEF CallRefused, Running
  <2>4. CallsLess /\ NewLess
    BY <1>2, <1>3, <2>2, <2>3, FinishTails
  <2> QED
    BY <1>1, <1>2, <2>2, <2>4, ParSame DEF WaitLess, Has
<1>7. CASE CallAborts
  <2>1. PICK f, fs : f = [Head(stk) EXCEPT !.op = "abort"] /\ fs = <<f>>
    OBVIOUS
  <2>2. UNCHANGED <<objQ, outcome>> /\ stk' = fs \o Tail(stk)
    BY <1>7, <2>1 DEF CallAborts, reqs
  <2>3. Head(stk) \in MsgFrames
    BY <1>3, <1>7, HeadTypes, Operands DEF CallAborts, Running
  <2>4. f \in MsgFrames /\ f.op = "abort"
    BY <2>1, <2>3 DEF MsgFrames
  <2>5. fs \in Stacks /\ \A g : Has(fs, g) => g.op # "call"
    BY <2>1, <2>4, Single
  <2>6. CallsLess
    BY <1>2, <1>3, <2>2, <2>5, StackTail
  <2> QED
    BY <1>1, <1>2, <2>2, <2>6, ParSame DEF NewLess, WaitLess, Has
<1>8. CASE PrepareNoAdapter
  <2>1. objQ # << >> /\ PopWaiting /\ Return /\ \E m, o : o # "new" /\ Settle(m, o)
    BY <1>8 DEF PrepareNoAdapter, InvokeException
  <2>2. NewLess
    BY <1>4, <2>1 DEF Settle
  <2>3. \A x : Has(objQ, x)' => Has(objQ, x)
    BY <2>1, ObjectHead
  <2> QED
    BY <1>1, <1>2, <1>5, <2>1, <2>2, <2>3, ParSame DEF WaitLess, Has
<1>9. CASE Deliver
  <2>1. PICK m : m = Head(stk).m
    OBVIOUS
  <2>2. m \in Msgs /\ Settle(m, status[m]) /\ Return /\ UNCHANGED objQ
    BY <1>3, <1>9, <2>1, HeadTypes DEF Deliver, Running
  <2>3. status[m] # "new"
    BY <1>3, <2>2 DEF Statuses
  <2>4. NewLess
    BY <1>4, <2>2, <2>3 DEF Settle
  <2> QED
    BY <1>1, <1>2, <1>5, <2>2, <2>4, ParSame DEF WaitLess, Has
<1>10. CASE ScanObject
  <2>1. PICK k \in DOMAIN objQ : DropWaiting(k) /\ InvokeException(objQ[k])
    BY <1>10 DEF ScanObject
  <2>2. UNCHANGED stk /\ \E m, o : o # "new" /\ Settle(m, o)
    BY <1>10, <2>1 DEF ScanObject, InvokeException
  <2>3. NewLess
    BY <1>4, <2>2 DEF Settle
  <2>4. k \in 1 .. Len(objQ) /\ Once(objQ)
    BY <1>3, <2>1 DEF Inv, PlaceInv
  <2>5. \A x : Has(objQ', x) => Has(objQ, x)
    BY <1>3, <2>1, <2>4, RemoveOne DEF DropWaiting
  <2> QED
    BY <1>1, <1>2, <2>2, <2>3, <2>5, ParSame DEF WaitLess, CallsLess, Has
<1> QED
  BY <1>6, <1>7, <1>8, <1>9, <1>10

\* A queue loses requests, or none.
LEMMA QueueLess ==
  ASSUME QueuesTyped, NEW a \in Adapters, NEW r, Becomes(a, r), Ids(r) \subseteq Ids(tq[a]),
         \A i \in Ids(r) : r.data[i].ptr = tq[a].data[i].ptr
  PROVE  \A b \in Adapters, m \in Msgs : Holds(tq[b], m)' => Holds(tq[b], m)
<1> TAKE b \in Adapters, m \in Msgs
<1>1. tq'[b] = IF b = a THEN r ELSE tq[b]
  BY DEF QueuesTyped, Becomes
<1>2. Holds(tq'[b], m) => Holds(tq[b], m)
  BY <1>1 DEF Holds
<1> QED
  BY <1>2 DEF Holds

\* A request that waited in the queue of its connection is sent.
LEMMA ParSends ==
  ASSUME Inv, ParInv, FlushSends PROVE ParInv'
<1> SUFFICES ASSUME ~ Serial PROVE ParInv'
  BY DEF ParInv, Serial, FlushSends, env
<1>1. PICK a, m, i, q : a = Head(stk).a /\ q = tq[a] /\ m = GetSend(q) /\ i = Head(q.send)
  OBVIOUS
<1>2. PICK del \in BOOLEAN : del <=> Kind[m] = "ONE_WAY"
  OBVIOUS
<1>3. PICK r : r = PopSend(q, del)
  OBVIOUS
<1>4. /\ stk # << >> /\ a \in Adapters /\ q.send # << >> /\ (Return \/ UNCHANGED stk)
      /\ UNCHANGED <<objQ, mode, uniqId, adapter, id, answer>>
  BY <1>1, HeadTypes DEF FlushSends, MaySendNext, Running, Inv, env
<1>5. Becomes(a, r)
  BY <1>1, <1>2, <1>3 DEF FlushSends, Becomes, PopSend
<1>6. PICK s \in {"Ok", "Full"} : SendRequest(a, m, s)
  BY <1>1 DEF FlushSends
<1>7. /\ NetTyped /\ QueuesTyped /\ stk \in Stacks /\ << >> \in Seq(Others)
      /\ outcome \in [Msgs -> Outcomes] /\ QueueOK(q) /\ Consistent(q)
  BY <1>1, <1>4 DEF Inv, Typed, ReqsTyped, QueuesTyped, KeyInv
<1>8. i \in Ids(q) /\ m = q.data[i].ptr /\ m \in Msgs
  BY <1>1, <1>4, <1>7, SendHead
<1>9. Ids(r) \subseteq Ids(q) /\ \A j \in Ids(r) : r.data[j].ptr = q.data[j].ptr
  BY <1>3, <1>4, <1>7, PopKeeps
<1>10. \A b \in Adapters, x \in Msgs : Holds(tq[b], x)' => Holds(tq[b], x)
  BY <1>1, <1>4, <1>5, <1>7, <1>9, QueueLess
<1>11. PlacesLess
  <2> SUFFICES ASSUME NEW b \in Adapters, NEW x \in Msgs, At(b, x)' PROVE At(b, x)
    BY DEF PlacesLess
  <2>1. Holds(tq[a], m)
    BY <1>1, <1>8 DEF Holds
  <2>2. x \in wire'[b] => x \in wire[b] \/ (b = a /\ x = m)
    BY <1>4, <1>6, <1>7, <1>8 DEF SendRequest, Reaches, NetTyped
  <2>3. x = buffered'[b] => x = buffered[b] \/ (b = a /\ x = m)
    BY <1>4, <1>6, <1>7, <1>8 DEF SendRequest, NetTyped
  <2>4. Holds(tq[b], x)' \/ x \in wire'[b] \/ x = buffered'[b]
    BY DEF At
  <2> QED
    BY <1>10, <2>1, <2>2, <2>3, <2>4 DEF At
<1>12. NewLess
  <2>1. Settle(m, "gone") \/ UNCHANGED outcome
    BY <1>1 DEF FlushSends
  <2> QED
    BY <1>7, <2>1 DEF NewLess, Settle
<1>13. CallsLess
  <2>1. CASE Return
    <3>1. Calls(<< >>)
      BY <1>4, <1>7, <2>1, ReturnCalls
    <3>2. PlainStack
      BY <1>7, <3>1 DEF PlainStack
    <3> QED
      BY <1>4, <1>7, <3>2, PlainTail
  <2>2. CASE UNCHANGED stk
    BY <2>2 DEF CallsLess, Has
  <2> QED
    BY <1>4, <2>1, <2>2
<1> QED
  BY <1>4, <1>11, <1>12, <1>13, ParStays DEF WaitLess, Has

\* A request of a connection runs out of time.
LEMMA ParScans ==
  ASSUME Inv, ParInv, ScanAdapter PROVE ParInv'
<1> SUFFICES ASSUME ~ Serial PROVE ParInv'
  BY DEF ParInv, Serial, ScanAdapter, env
<1>1. PICK a \in Adapters : \E i \in ExpiredIds(a) :
        /\ tq' = [tq EXCEPT ![a] = EraseQueue(@, i)]
        /\ LeaveConnection(a, tq[a].data[i].ptr)
        /\ FinishInvoke(a, tq[a].data[i].ptr, "TIME", <<Head(stk)>>)
  BY DEF ScanAdapter
<1>2. PICK i \in ExpiredIds(a) :
        /\ tq' = [tq EXCEPT ![a] = EraseQueue(@, i)]
        /\ LeaveConnection(a, tq[a].data[i].ptr)
        /\ FinishInvoke(a, tq[a].data[i].ptr, "TIME", <<Head(stk)>>)
  BY <1>1
<1>3. PICK q, m, r, fs : q = tq[a] /\ m = q.data[i].ptr /\ r = EraseQueue(q, i) /\ fs = <<Head(stk)>>
  OBVIOUS
<1>4. /\ Becomes(a, r) /\ LeaveConnection(a, m) /\ FinishInvoke(a, m, "TIME", fs)
  BY <1>2, <1>3 DEF Becomes
<1>5. /\ stk # << >> /\ Head(stk) \in Others /\ UNCHANGED <<objQ, mode, uniqId, adapter, id, answer>>
  BY HeadTypes DEF ScanAdapter, Running, Inv, env
<1>6. /\ Typed /\ NetTyped /\ QueuesTyped /\ i \in Ids(q) /\ QueueOK(q) /\ Consistent(q)
      /\ fs \in Seq(Others)
  BY <1>3, <1>5 DEF Inv, Typed, ExpiredIds, QueuesTyped, KeyInv
<1>7. m \in Msgs
  BY <1>3, <1>6 DEF QueueOK, Entry
<1>8. CallsLess /\ NewLess
  BY <1>4, <1>5, <1>6, <1>7, FinishTails
<1>9. BytesKept
  <2>1. Close(a) \/ UNCHANGED net
    BY <1>4 DEF LeaveConnection
  <2> QED
    BY <1>6, <2>1, ConnBytes DEF net
<1>10. Ids(r) \subseteq Ids(q) /\ \A j \in Ids(r) : r.data[j].ptr = q.data[j].ptr
  BY <1>3, <1>6, EraseKeeps
<1>11. PlacesLess
  BY <1>3, <1>4, <1>6, <1>9, <1>10, QueueLess, BytesFewer, PlacesKept
<1> QED
  BY <1>5, <1>8, <1>11, ParStays DEF WaitLess, Has

\* A response is given to the request that has its id: the one it answers, since no
\* other request of the connection has that id.
LEMMA ParReceives ==
  ASSUME Inv, ParInv, NEW q \in Msgs, NEW last \in BOOLEAN, Receive(q, last)
  PROVE  ParInv'
<1> SUFFICES ASSUME ~ Serial PROVE ParInv'
  BY DEF ParInv, Serial, Receive, env
<1>1. PICK a, m, i, f, fs : /\ a = Head(stk).a /\ m = Answered(a, q) /\ i = id[q] /\ f = Head(stk)
                            /\ fs = (IF last THEN << >> ELSE <<f>>)
  OBVIOUS
<1>2. /\ stk # << >> /\ a \in Adapters /\ f \in Others /\ q \in wire[a]
      /\ UNCHANGED <<objQ, mode, uniqId, adapter, id>>
  <2>1. stk # << >> /\ f.op = "recv" /\ a \in Adapters /\ f \in Others
    BY <1>1, HeadTypes DEF Receive, Running, Inv
  <2> QED
    BY <1>1, <2>1 DEF Receive, env
<1>3. /\ Typed /\ NetTyped /\ QueuesTyped /\ KeyInv /\ stk \in Stacks /\ fs \in Seq(Others)
      /\ answer \in [Msgs -> Msgs \cup {NoMsg}]
  BY <1>1, <1>2 DEF Inv, Typed, ReqsTyped
<1>4. BytesLess
  <2>1. Close(a) \/ (wire' = [wire EXCEPT ![a] = @ \ {q}] /\ UNCHANGED buffered)
    BY <1>1 DEF Receive
  <2>2. CASE Close(a)
    BY <1>2, <1>3, <2>2, ConnBytes, BytesFewer
  <2>3. CASE wire' = [wire EXCEPT ![a] = @ \ {q}] /\ UNCHANGED buffered
    <3>1. \A b \in Adapters : wire'[b] \subseteq wire[b] /\ buffered'[b] = buffered[b]
      BY <1>2, <1>3, <2>3 DEF NetTyped
    <3> QED
      BY <3>1 DEF BytesLess
  <2> QED
    BY <2>1, <2>2, <2>3
<1>5. CASE m = NoMsg
  <2>1. Calls(fs) /\ UNCHANGED <<tq, answer, outcome>>
    BY <1>1, <1>5 DEF Receive
  <2>2. CallsLess
    BY <1>2, <1>3, <2>1, PlainTail DEF PlainStack
  <2>3. PlacesLess
    BY <1>4, <2>1, PlacesKept DEF Holds
  <2> QED
    BY <1>2, <2>1, <2>2, <2>3, ParStays DEF NewLess, WaitLess, Has
<1>6. CASE m # NoMsg
  <2>1. PICK t, r : t = tq[a] /\ r = EraseQueue(t, i)
    OBVIOUS
  <2>2. Becomes(a, r) /\ answer' = [answer EXCEPT ![m] = q] /\ FinishInvoke(a, m, "RSP", fs)
    BY <1>1, <1>6, <2>1 DEF Receive, Becomes, AnsweredId
  <2>3. i \in Ids(t) /\ m = t.data[i].ptr
    BY <1>1, <1>6, <2>1 DEF Answered
  <2>4. QueueOK(t) /\ Consistent(t)
    BY <1>2, <1>3, <2>1 DEF QueuesTyped, KeyInv
  <2>5. m \in Msgs
    BY <2>3, <2>4 DEF QueueOK, Entry
  <2>6. id[m] = id[q]
    BY <1>1, <1>2, <1>3, <2>1, <2>3 DEF KeyInv
  <2>7. Ids(r) \subseteq Ids(t) /\ \A j \in Ids(r) : r.data[j].ptr = t.data[j].ptr
    BY <2>1, <2>3, <2>4, EraseKeeps
  <2>8. PlacesLess
    BY <1>2, <1>3, <1>4, <2>1, <2>2, <2>7, QueueLess, PlacesKept
  <2>9. CallsLess /\ NewLess
    BY <1>2, <1>3, <2>2, <2>5, FinishTails
  <2>10. IdsInv /\ MarkedInv /\ NumberInv /\ OwnResponse
    BY DEF ParInv
  <2>11. Marked(a, m) /\ Marked(a, q)
    <3>1. At(a, m) /\ At(a, q)
      BY <1>2, <2>1, <2>3 DEF At, Holds
    <3> QED
      BY <1>2, <2>5, <2>10, <3>1 DEF MarkedInv
  <2>12. m = q \/ RpcId[m] # 0 \/ RpcId[q] # 0
    BY <1>2, <2>6, <2>10, <2>11 DEF Marked, NumberInv, Numbered
  <2>13. OwnResponse'
    <3> SUFFICES ASSUME NEW x \in Msgs
                 PROVE  \/ answer'[x] \in {NoMsg, x}
                        \/ id[answer'[x]] = id[x] /\ \E k \in {answer'[x], x} : RpcId[k] # 0
      BY <1>2 DEF OwnResponse
    <3>1. CASE x = m
      <4>1. answer'[x] = q
        BY <1>3, <2>2, <2>5, <3>1
      <4> QED
        BY <2>6, <2>12, <3>1, <4>1
    <3>2. CASE x # m
      <4>1. answer'[x] = answer[x]
        BY <1>3, <2>2, <3>2
      <4> QED
        BY <2>10, <4>1 DEF OwnResponse
    <3> QED
      BY <3>1, <3>2
  <2>14. \A g : Has(stk', g) /\ g.op = "call" => adapter'[g.m] = g.a /\ id[g.m] = RpcId[g.m]
    BY <1>2, <2>9, <2>10 DEF IdsInv, CallsLess
  <2>15. \A b \in Adapters, x \in Msgs : At(b, x)' => Marked(b, x)
    BY <2>8, <2>10 DEF MarkedInv, PlacesLess
  <2>16. WaitLess
    BY <1>2 DEF WaitLess, Has
  <2>17. IdsInv' /\ MarkedInv' /\ NumberInv'
    BY <1>2, <2>9, <2>10, <2>14, <2>15, <2>16, ParKeeps
  <2> QED
    BY <2>13, <2>17 DEF ParInv
<1> QED
  BY <1>5, <1>6

\* A request that has not been called chooses a server.
LEMMA ParPlaced ==
  ASSUME ParInv, ~ Serial, adapter \in [Msgs -> Adapters \cup {NoAdapter}],
         UNCHANGED <<mode, tq, uniqId, id, answer, wire, buffered>>,
         NEW m \in Msgs, id[m] = RpcId[m], NEW b, adapter' = [adapter EXCEPT ![m] = b],
         NewLess, WaitLess,
         \A f : Has(stk', f) /\ f.op = "call" =>
           (f.m = m /\ f.a = b) \/ (Has(stk, f) /\ f.m \in Msgs \ {m})
  PROVE  ParInv'
<1>1. IdsInv /\ MarkedInv /\ NumberInv /\ OwnResponse
  BY DEF ParInv
<1>2. OwnResponse'
  BY <1>1 DEF OwnResponse
<1>3. adapter'[m] = b /\ \A x \in Msgs \ {m} : adapter'[x] = adapter[x]
  OBVIOUS
<1>4. \A x \in Msgs : adapter'[x] = adapter[x] \/ id[x] = RpcId[x]
  BY <1>3
<1>5. \A f : Has(stk', f) /\ f.op = "call" => adapter'[f.m] = f.a /\ id[f.m] = RpcId[f.m]
  BY <1>1, <1>3 DEF IdsInv
<1>6. \A a \in Adapters, x \in Msgs : At(a, x)' => Marked(a, x)
  BY <1>1 DEF MarkedInv, At, Holds
<1>7. IdsInv' /\ MarkedInv' /\ NumberInv'
  BY <1>1, <1>4, <1>5, <1>6, ParKeeps
<1> QED
  BY <1>2, <1>7 DEF ParInv

\* A request that waited may choose another server: it has no id yet.
LEMMA ParPrepares ==
  ASSUME Inv, ParInv, Prepare PROVE ParInv'
<1> SUFFICES ASSUME ~ Serial PROVE ParInv'
  BY DEF ParInv, Serial, Prepare, env
<1>1. PICK m : m = Head(objQ)
  OBVIOUS
<1>2. /\ stk # << >> /\ Head(stk).a \in Adapters /\ objQ # << >> /\ PopWaiting
      /\ UNCHANGED <<mode, tq, uniqId, id, answer, outcome, wire, buffered>>
  BY HeadTypes DEF Prepare, Running, SelectAdapter, env, net, Inv
<1>3. m \in Msgs /\ Has(objQ, m) /\ \A x : Has(objQ, x)' => Has(objQ, x)
  BY <1>1, <1>2, ObjectHead
<1>4. Typed /\ stk \in Stacks /\ adapter \in [Msgs -> Adapters \cup {NoAdapter}]
  BY DEF Inv, Typed, ReqsTyped
<1>5. ~ On(stk, m)
  BY <1>3, WaitingLive
<1>6. PICK b \in Adapters : /\ adapter' = [adapter EXCEPT ![m] = b]
                            /\ Calls(<<DoMsg("call", b, m), Do("prep", b)>>)
  BY <1>1, <1>2, <1>4, ClientProxyAssumption DEF Prepare, SelectAdapter, Typed
<1>7. PICK f, p, fs : f = DoMsg("call", b, m) /\ p = Do("prep", b) /\ fs = <<f, p>>
  OBVIOUS
<1>8. f \in MsgFrames /\ f.m = m /\ f.a = b /\ p \in Others /\ p.op = "prep"
  BY <1>3, <1>7 DEF DoMsg, Do, MsgFrames, Others, ConnFrames
<1>9. fs \in Stacks /\ Len(fs) = 2 /\ fs[1] = f /\ fs[2] = p
  BY <1>7, <1>8 DEF Stacks
<1>10. \A g : Has(fs, g) => g = f \/ g = p
  BY <1>9 DEF Has
<1>11. stk' = fs \o Tail(stk)
  BY <1>6, <1>7 DEF Calls
<1>12. \A g : Has(stk', g) => g = f \/ g = p \/ Has(stk, g)
  <2>1. \A g : Has(Tail(stk), g) => Has(stk, g)
    BY <1>2, <1>4, TailOne DEF Stacks
  <2> QED
    BY <1>2, <1>4, <1>9, <1>10, <1>11, <2>1, StackParts
<1>13. \A g : Has(stk, g) /\ g.op = "call" => g.m \in Msgs \ {m}
  <2>1. \A k \in 1 .. Len(stk) : stk[k] \in MsgFrames \cup Others
    BY <1>4 DEF Stacks
  <2> QED
    BY <1>5, <2>1, Operands DEF Has, On
<1>14. id[m] = RpcId[m]
  BY <1>3 DEF ParInv, IdsInv
<1>15. NewLess /\ WaitLess
  BY <1>2, <1>3 DEF NewLess, WaitLess, Has
<1>16. \A g : Has(stk', g) /\ g.op = "call" => (g.m = m /\ g.a = b) \/ (Has(stk, g) /\ g.m \in Msgs \ {m})
  BY <1>8, <1>12, <1>13
<1> QED
  BY <1>2, <1>3, <1>4, <1>6, <1>14, <1>15, <1>16, ParPlaced

\* So may a new one.
LEMMA ParInvokes ==
  ASSUME Inv, ParInv, NEW m \in Msgs, Invoke(m) PROVE ParInv'
<1> SUFFICES ASSUME ~ Serial PROVE ParInv'
  BY DEF ParInv, Serial, Invoke, env
<1>1. /\ stk = << >> /\ outcome[m] = "new" /\ outcome' = [outcome EXCEPT ![m] = "live"]
      /\ UNCHANGED <<mode, tq, uniqId, id, answer, wire, buffered>>
  BY DEF Invoke, SelectAdapter, env
<1>2. /\ Typed /\ adapter \in [Msgs -> Adapters \cup {NoAdapter}]
      /\ outcome \in [Msgs -> Outcomes] /\ objQ \in Seq(Msgs)
  BY DEF Inv, Typed, ReqsTyped
<1>3. PICK b \in eps : /\ adapter' = [adapter EXCEPT ![m] = b]
                       /\ \/ stk' = <<DoMsg("call", b, m)>> /\ UNCHANGED objQ
                          \/ PushWaiting(m) /\ UNCHANGED stk
  BY DEF Invoke
<1>4. b \in Adapters
  BY <1>2, ClientProxyAssumption DEF Typed
<1>5. id[m] = RpcId[m]
  BY <1>1 DEF ParInv, IdsInv
<1>6. NewLess
  BY <1>1, <1>2 DEF NewLess
<1>7. CASE stk' = <<DoMsg("call", b, m)>> /\ UNCHANGED objQ
  <2>1. PICK f, fs : f = DoMsg("call", b, m) /\ fs = <<f>>
    OBVIOUS
  <2>2. f \in MsgFrames /\ f.m = m /\ f.a = b /\ stk' = fs
    BY <1>4, <1>7, <2>1 DEF DoMsg, MsgFrames
  <2>3. \A g : Has(fs, g) <=> g = f
    BY <2>1, <2>2, Single
  <2>4. \A g : Has(stk', g) /\ g.op = "call" => (g.m = m /\ g.a = b) \/ (Has(stk, g) /\ g.m \in Msgs \ {m})
    BY <2>2, <2>3
  <2>5. WaitLess
    BY <1>7 DEF WaitLess
  <2> QED
    BY <1>1, <1>2, <1>3, <1>5, <1>6, <2>4, <2>5, ParPlaced
<1>8. CASE PushWaiting(m) /\ UNCHANGED stk
  <2>1. Len(stk') = 0
    BY <1>1, <1>8
  <2>2. \A g : ~ Has(stk', g)
    BY <2>1 DEF Has
  <2>3. objQ' = Append(objQ, m)
    BY <1>8 DEF PushWaiting
  <2>4. WaitLess
    BY <1>1, <1>2, <2>3, AppendOne DEF WaitLess
  <2> QED
    BY <1>1, <1>2, <1>3, <1>5, <1>6, <2>2, <2>4, ParPlaced
<1> QED
  BY <1>3, <1>7, <1>8

\* A request is put into the queue of its connection, or ends because its id is in use there.
LEMMA InsertPlaces ==
  ASSUME Inv, ~ Serial, Running("call"), NEW a, NEW m, a = Head(stk).a, m = Head(stk).m,
         NEW n \in IdSet, NEW sent \in BOOLEAN, Insert(a, m, n, sent)
  PROVE  /\ CallsTail /\ NewLess
         /\ \A b \in Adapters, x \in Msgs : Holds(tq[b], x)' => Holds(tq[b], x) \/ (b = a /\ x = m)
<1>1. stk # << >> /\ a \in Adapters /\ m \in Msgs
  BY HeadLive DEF Running
<1>2. Typed /\ QueuesTyped /\ KeyInv /\ stk \in Stacks /\ << >> \in Seq(Others)
  BY DEF Inv, Typed
<1>3. CASE n \in Ids(tq[a])
  <2>1. FinishInvoke(a, m, "EXC", << >>) /\ UNCHANGED tq
    BY <1>3 DEF Insert
  <2>2. CallsTail /\ NewLess
    BY <1>1, <1>2, <2>1, FinishTails
  <2> QED
    BY <2>1, <2>2 DEF Holds
<1>4. CASE n \notin Ids(tq[a])
  <2>1. tq' = [tq EXCEPT ![a] = PushQueue(tq[a], m, n, sent)] /\ Return /\ UNCHANGED outcome
    BY <1>4 DEF Insert
  <2>2. PICK r : r = PushQueue(tq[a], m, n, sent)
    OBVIOUS
  <2>3. /\ Ids(r) = Ids(tq[a]) \cup {n} /\ r.data[n].ptr = m
        /\ \A i \in Ids(tq[a]) : r.data[i].ptr = tq[a].data[i].ptr
    BY <1>1, <1>2, <1>4, <2>2, PushKeeps DEF QueuesTyped, KeyInv
  <2>4. \A x : Holds(r, x) <=> Holds(tq[a], x) \/ x = m
    BY <2>3 DEF Holds
  <2>5. \A b \in Adapters : tq'[b] = IF b = a THEN r ELSE tq[b]
    BY <1>2, <2>1, <2>2 DEF QueuesTyped
  <2>6. \A b \in Adapters, x \in Msgs : Holds(tq'[b], x) => Holds(tq[b], x) \/ (b = a /\ x = m)
    BY <2>4, <2>5
  <2>7. \A b \in Adapters, x \in Msgs : Holds(tq[b], x)' => Holds(tq'[b], x)
    BY DEF Holds
  <2>8. Calls(<< >>)
    BY <1>1, <1>2, <2>1, ReturnCalls
  <2>9. CallsTail
    BY <1>1, <1>2, <2>8, PlainTail DEF PlainStack
  <2> QED
    BY <2>1, <2>6, <2>7, <2>9 DEF NewLess
<1> QED
  BY <1>3, <1>4

\* The request that is called gets the next id of the connection it comes to.
LEMMA ParNumbered ==
  ASSUME FewMsgs, Typed, IdsInv, MarkedInv, NumberInv, OwnResponse,
         NEW a \in Adapters, NEW m \in Msgs, NEW v, v = GenerateId(uniqId[a], MaxId),
         RpcId[m] = 0, id[m] = 0, adapter[m] = a, outcome[m] # "new", ~ Has(objQ, m),
         uniqId' = With(uniqId, a, v), id' = With(id, m, v),
         UNCHANGED <<objQ, adapter, answer>>, NewLess,
         \A f : Has(stk', f) /\ f.op = "call" => f.m \in Msgs \ {m} /\ Has(stk, f),
         \A b \in Adapters, x \in Msgs : At(b, x)' => At(b, x) \/ (b = a /\ x = m)
  PROVE  IdsInv' /\ MarkedInv' /\ NumberInv' /\ OwnResponse'
<1>1. id \in [Msgs -> IdSet] /\ uniqId \in [Adapters -> IdSet]
  BY DEF Typed, ReqsTyped, QueuesTyped
<1>2. uniqId'[a] = v /\ \A b \in Adapters \ {a} : uniqId'[b] = uniqId[b]
  BY <1>1 DEF With
<1>3. id'[m] = v /\ \A x \in Msgs \ {m} : id'[x] = id[x]
  BY <1>1 DEF With
<1>4. PICK S, u, i, j : S = Given(a) /\ u = uniqId[a] /\ i = id /\ j = With(id, m, v)
  OBVIOUS
<1>5. S \in SUBSET Msgs /\ m \notin S /\ (\A x \in S : i[x] # 0)
  BY <1>4 DEF Given
<1>6. Numbered(i, S, u) /\ u \in IdSet /\ i \in [Msgs -> IdSet]
  BY <1>1, <1>4 DEF NumberInv
<1>7. v # 0 /\ Numbered(j, Plus(S, m), v) /\ id' = j
  <2>1. v = GenerateId(u, MaxId) /\ j = With(i, m, v)
    BY <1>4
  <2> QED
    BY <1>4, <1>5, <1>6, <2>1, NextNumber
<1>8. /\ Given(a)' = Plus(S, m)
      /\ \A b \in Adapters \ {a} : Given(b)' = Given(b) /\ m \notin Given(b)
  BY <1>3, <1>4, <1>7 DEF Given, Plus
<1>9. NumberInv'
  <2> SUFFICES ASSUME NEW b \in Adapters PROVE Numbered(id, Given(b), uniqId[b])'
    BY DEF NumberInv
  <2>1. CASE b = a
    BY <1>2, <1>7, <1>8, <2>1 DEF Numbered
  <2>2. CASE b # a
    <3>1. Given(b)' = Given(b) /\ uniqId'[b] = uniqId[b] /\ Given(b) \subseteq Msgs \ {m}
      BY <1>2, <1>8, <2>2 DEF Given
    <3>2. Numbered(id, Given(b), uniqId[b])
      BY DEF NumberInv
    <3>3. \A x \in Given(b) : id'[x] = id[x]
      BY <1>3, <3>1
    <3> QED
      BY <3>1, <3>2, <3>3 DEF Numbered
  <2> QED
    BY <2>1, <2>2
<1>10. MarkedInv'
  <2> SUFFICES ASSUME NEW b \in Adapters, NEW x \in Msgs, At(b, x)'
               PROVE  RpcId[x] # 0 \/ x \in Given(b)'
    BY DEF MarkedInv, Marked
  <2>1. CASE b = a /\ x = m
    BY <1>8, <2>1 DEF Plus
  <2>2. CASE ~ (b = a /\ x = m)
    <3>1. RpcId[x] # 0 \/ x \in Given(b)
      BY <2>2 DEF MarkedInv, Marked
    <3> QED
      BY <1>4, <1>8, <3>1 DEF Plus
  <2> QED
    BY <2>1, <2>2
<1>11. IdsInv'
  <2>1. \A x \in Msgs : outcome'[x] = "new" \/ Has(objQ, x)' => x # m /\ (outcome[x] = "new" \/ Has(objQ, x))
    BY DEF NewLess, Has
  <2>2. \A x \in Msgs : RpcId[x] # 0 \/ outcome'[x] = "new" \/ Has(objQ, x)' => id'[x] = RpcId[x]
    BY <1>3, <2>1 DEF IdsInv
  <2>3. \A f : Has(stk, f)' => Has(stk', f)
    BY DEF Has
  <2>4. \A f : Has(stk, f)' /\ f.op = "call" => adapter'[f.m] = f.a /\ id'[f.m] = RpcId[f.m]
    BY <1>3, <2>3 DEF IdsInv
  <2> QED
    BY <2>2, <2>4 DEF IdsInv
<1>12. OwnResponse'
  <2> SUFFICES ASSUME NEW x \in Msgs
               PROVE  \/ answer[x] \in {NoMsg, x}
                      \/ id'[answer[x]] = id'[x] /\ \E k \in {answer[x], x} : RpcId[k] # 0
    BY DEF OwnResponse
  <2>1. \/ answer[x] \in {NoMsg, x}
        \/ id[answer[x]] = id[x] /\ \E k \in {answer[x], x} : RpcId[k] # 0
    BY DEF OwnResponse
  <2>2. answer[x] \in Msgs \cup {NoMsg}
    BY DEF Typed, ReqsTyped
  <2>3. CASE answer[x] \notin {NoMsg, x}
    <3>1. PICK k \in {answer[x], x} : RpcId[k] # 0
      BY <2>1, <2>3
    <3>2. k \in Msgs /\ id[k] = RpcId[k]
      BY <2>2, <2>3, <3>1 DEF IdsInv
    <3>3. id[answer[x]] # 0 /\ id[x] # 0
      BY <2>1, <2>3, <3>1, <3>2
    <3>4. answer[x] # m /\ x # m
      BY <3>3
    <3> QED
      BY <1>3, <2>1, <2>2, <2>3, <3>4
  <2> QED
    BY <2>3
<1> QED
  BY <1>9, <1>10, <1>11, <1>12

\* The running handler calls m at a, and the ids change as its call changes them.
Calling(a, m) == Running("call") /\ a = Head(stk).a /\ m = Head(stk).m
TakesId(a, m) == /\ uniqId' = [uniqId EXCEPT ![a] = LastId(a, m)]
                 /\ id' = [id EXCEPT ![m] = NewId(a, m)]

\* A request is called: unless the application chose its id, it gets the next one of the
\* connection it comes to.
LEMMA ParCalled ==
  ASSUME FewMsgs, Inv, ParInv, ~ Serial, NEW a, NEW m, Calling(a, m), TakesId(a, m),
         UNCHANGED <<objQ, mode, adapter, answer>>, NewLess, CallsTail,
         \A b \in Adapters, x \in Msgs : At(b, x)' => At(b, x) \/ (b = a /\ x = m)
  PROVE  ParInv'
<1>1. /\ stk # << >> /\ a \in Adapters /\ m \in Msgs /\ outcome[m] = "live" /\ ~ Has(objQ, m)
  BY HeadLive DEF Calling, Running
<1>2. /\ stk \in Stacks /\ id \in [Msgs -> IdSet] /\ uniqId \in [Adapters -> IdSet] /\ Apart(stk)
      /\ outcome \in [Msgs -> Outcomes]
  BY DEF Inv, Typed, ReqsTyped, QueuesTyped, PlaceInv
<1>3. IdsInv /\ MarkedInv /\ NumberInv /\ OwnResponse
  BY DEF ParInv
<1>4. adapter[m] = a /\ id[m] = RpcId[m]
  <2>1. Has(stk, Head(stk)) /\ Head(stk).op = "call"
    BY <1>1, <1>2 DEF Calling, Has, Running, Stacks
  <2> QED
    BY <1>3, <2>1 DEF Calling, IdsInv
<1>5. \A f : Has(Tail(stk), f) /\ f.op = "call" => f.m \in Msgs \ {m} /\ Has(stk, f)
  <2> SUFFICES ASSUME NEW f, Has(Tail(stk), f), f.op = "call" PROVE f.m \in Msgs \ {m} /\ Has(stk, f)
    OBVIOUS
  <2>1. PICK k \in 1 .. Len(Tail(stk)) : Tail(stk)[k] = f
    BY DEF Has
  <2>2. Len(Tail(stk)) = Len(stk) - 1 /\ Len(stk) \in Nat
    BY <1>1, <1>2 DEF Stacks
  <2>3. k + 1 \in 1 .. Len(stk) /\ 1 \in 1 .. Len(stk) /\ k + 1 # 1 /\ stk[k + 1] = f /\ stk[1].m = m
    BY <1>1, <1>2, <2>1, <2>2 DEF Calling, Stacks
  <2>4. f \in MsgFrames \cup Others
    BY <1>2, <2>3 DEF Stacks
  <2>5. f.m \in Msgs
    BY <2>4, Operands
  <2>6. m # NoMsg
    BY <1>1, ClientProxyAssumption
  <2> QED
    BY <1>2, <2>3, <2>5, <2>6 DEF Apart, Has
<1>6. Serial' = Serial
  BY DEF Serial
<1>7. WaitLess
  BY DEF WaitLess, Has
<1>8. CASE RpcId[m] # 0
  <2>1. NewId(a, m) = id[m] /\ LastId(a, m) = uniqId[a]
    BY <1>4, <1>8 DEF NewId, LastId
  <2>2. UNCHANGED <<id, uniqId>>
    BY <1>2, <2>1 DEF TakesId
  <2>3. \A f : Has(stk', f) /\ f.op = "call" => adapter'[f.m] = f.a /\ id[f.m] = RpcId[f.m]
    BY <1>3, <1>5 DEF CallsTail, IdsInv
  <2>4. \A b \in Adapters, x \in Msgs : At(b, x)' => Marked(b, x)
    BY <1>3, <1>8 DEF MarkedInv, Marked
  <2>5. IdsInv' /\ MarkedInv' /\ NumberInv'
    BY <1>3, <1>7, <2>2, <2>3, <2>4, ParKeeps
  <2>6. OwnResponse'
    BY <1>3, <2>2 DEF OwnResponse
  <2> QED
    BY <2>5, <2>6 DEF ParInv
<1>9. CASE RpcId[m] = 0
  <2>1. PICK v : v = GenerateId(uniqId[a], MaxId)
    OBVIOUS
  <2>2. uniqId' = With(uniqId, a, v) /\ id' = With(id, m, v)
    <3>1. NewId(a, m) = v /\ LastId(a, m) = v
      BY <1>9, <2>1 DEF NewId, LastId
    <3> QED
      BY <3>1 DEF TakesId, With
  <2>3. \A f : Has(stk', f) /\ f.op = "call" => f.m \in Msgs \ {m} /\ Has(stk, f)
    BY <1>5 DEF CallsTail
  <2>4. id[m] = 0 /\ outcome[m] # "new" /\ Typed
    BY <1>1, <1>4, <1>9 DEF Inv
  <2>5. IdsInv' /\ MarkedInv' /\ NumberInv' /\ OwnResponse'
    BY <1>1, <1>3, <1>4, <1>9, <2>1, <2>2, <2>3, <2>4, ParNumbered
  <2> QED
    BY <2>5 DEF ParInv
<1> QED
  BY <1>8, <1>9

\* What was on a connection, with the request that is sent on it or waits for it.
LEMMA CallPlaces ==
  ASSUME NetTyped, NEW a \in Adapters, NEW m \in Msgs,
         BytesLess \/ \E r \in {"Ok", "Full"} : SendRequest(a, m, r),
         \A b \in Adapters, x \in Msgs : Holds(tq[b], x)' => Holds(tq[b], x) \/ (b = a /\ x = m)
  PROVE  \A b \in Adapters, x \in Msgs : At(b, x)' => At(b, x) \/ (b = a /\ x = m)
<1> SUFFICES ASSUME NEW b \in Adapters, NEW x \in Msgs, At(b, x)'
             PROVE  At(b, x) \/ (b = a /\ x = m)
  OBVIOUS
<1>1. Holds(tq[b], x)' \/ x \in wire'[b] \/ x = buffered'[b]
  BY DEF At
<1>2. x \in wire'[b] \/ x = buffered'[b] => x \in wire[b] \/ x = buffered[b] \/ (b = a /\ x = m)
  <2>1. CASE BytesLess
    BY <2>1 DEF BytesLess
  <2>2. ASSUME NEW r \in {"Ok", "Full"}, SendRequest(a, m, r)
        PROVE  x \in wire'[b] \/ x = buffered'[b] => x \in wire[b] \/ x = buffered[b] \/ (b = a /\ x = m)
    BY <2>2 DEF SendRequest, Reaches, NetTyped
  <2> QED
    BY <2>1, <2>2
<1> QED
  BY <1>1, <1>2 DEF At

\* AdapterProxy::invoke(), whether it sends the request, fails to or puts it in the queue.
LEMMA ParCalls ==
  ASSUME FewMsgs, Inv, ParInv, CallSent \/ CallFailed \/ CallQueued PROVE ParInv'
<1> SUFFICES ASSUME ~ Serial PROVE ParInv'
  BY DEF ParInv, Serial, CallSent, CallFailed, CallQueued, env
<1>1. PICK a, m, n : a = Head(stk).a /\ m = Head(stk).m /\ n = NewId(a, m)
  OBVIOUS
<1>2. /\ stk # << >> /\ a \in Adapters /\ m \in Msgs /\ Running("call")
      /\ UNCHANGED <<objQ, mode, adapter, answer>>
  BY <1>1, HeadLive DEF CallSent, CallFailed, CallQueued, Running, env
<1>3. /\ Typed /\ NetTyped /\ stk \in Stacks /\ << >> \in Seq(Others) /\ n \in IdSet
      /\ outcome \in [Msgs -> Outcomes]
  BY <1>1, <1>2, IdTypes DEF Inv, Typed, ReqsTyped
<1>4. Calling(a, m) /\ TakesId(a, m)
  BY <1>1, <1>2 DEF Calling, TakesId, CallSent, CallFailed, CallQueued
<1>5. /\ CallsTail /\ NewLess
      /\ \A b \in Adapters, x \in Msgs : Holds(tq[b], x)' => Holds(tq[b], x) \/ (b = a /\ x = m)
  <2>1. ASSUME NEW sent \in BOOLEAN, Insert(a, m, n, sent)
        PROVE  /\ CallsTail /\ NewLess
               /\ \A b \in Adapters, x \in Msgs : Holds(tq[b], x)' => Holds(tq[b], x) \/ (b = a /\ x = m)
    BY <1>1, <1>2, <1>3, <2>1, InsertPlaces
  <2>2. CASE CallQueued
    BY <1>1, <2>1, <2>2 DEF CallQueued
  <2>3. CASE CallSent /\ Kind[m] # "ONE_WAY"
    BY <1>1, <2>1, <2>3 DEF CallSent
  <2>4. CASE CallSent /\ Kind[m] = "ONE_WAY"
    <3>1. Settle(m, "gone") /\ Return /\ UNCHANGED tq
      BY <1>1, <2>4 DEF CallSent
    <3>2. Calls(<< >>)
      BY <1>2, <1>3, <3>1, ReturnCalls
    <3>3. CallsTail
      BY <1>2, <1>3, <3>2, PlainTail DEF PlainStack
    <3>4. NewLess
      BY <1>3, <3>1 DEF NewLess, Settle
    <3> QED
      BY <3>1, <3>3, <3>4 DEF Holds
  <2>5. CASE CallFailed
    <3>1. FinishInvoke(a, m, "EXC", << >>) /\ UNCHANGED tq
      BY <1>1, <2>5 DEF CallFailed
    <3>2. CallsTail /\ NewLess
      BY <1>2, <1>3, <3>1, FinishTails
    <3> QED
      BY <3>1, <3>2 DEF Holds
  <2> QED
    BY <2>2, <2>3, <2>4, <2>5
<1>6. BytesLess \/ \E r \in {"Ok", "Full"} : SendRequest(a, m, r)
  <2>1. CASE CallSent
    BY <1>1, <2>1 DEF CallSent
  <2>2. CASE CallFailed
    <3>1. SendRequest(a, m, "Error")
      BY <1>1, <2>2 DEF CallFailed
    <3> QED
      BY <1>2, <1>3, <3>1, ConnBytes, BytesFewer
  <2>3. CASE CallQueued
    <3>1. UNCHANGED <<buffered, wire>>
      BY <2>3 DEF CallQueued, net
    <3> QED
      BY <3>1 DEF BytesLess
  <2> QED
    BY <2>1, <2>2, <2>3
<1>7. \A b \in Adapters, x \in Msgs : At(b, x)' => At(b, x) \/ (b = a /\ x = m)
  BY <1>2, <1>3, <1>5, <1>6, CallPlaces
<1> QED
  BY <1>2, <1>4, <1>5, <1>7, ParCalled

\* A caller gets the response to its own request and no other, however late it comes and
\* through every reconnection (OwnResponse), if a connection does not come round to an id
\* it has given before: there are at least as many ids as requests.
THEOREM ResponsesGoHome == ASSUME FewMsgs PROVE Spec => []OwnResponse
<1>1. Init => ParInv
  <2> SUFFICES ASSUME Init PROVE ParInv
    OBVIOUS
  <2>1. \A a \in Adapters : Given(a) = {} /\ Ids(tq[a]) = {} /\ wire[a] = {} /\ buffered[a] = NoMsg
    BY DEF Init, Given, EmptyQueue, Ids
  <2>2. \A a \in Adapters, m \in Msgs : ~ At(a, m)
    BY <2>1, ClientProxyAssumption DEF At, Holds
  <2>3. NumberInv
    BY <2>1 DEF NumberInv, Numbered
  <2>4. IdsInv
    <3>1. Len(stk) = 0 /\ id = RpcId
      BY DEF Init
    <3> QED
      BY <3>1 DEF IdsInv, Has
  <2>5. OwnResponse
    BY DEF Init, OwnResponse
  <2> QED
    BY <2>2, <2>3, <2>4, <2>5 DEF ParInv, MarkedInv
<1>2. Inv /\ ParInv /\ [Next]_vars => ParInv'
  <2> SUFFICES ASSUME Inv, ParInv, [Next]_vars PROVE ParInv'
    OBVIOUS
  <2>1. CASE CallSent \/ CallFailed \/ CallQueued
    BY <2>1, ParCalls
  <2>2. CASE \/ PrepareDone \/ FinishTail \/ FlushDone \/ FlushStops \/ EventStale \/ EventConnecting
             \/ EventConnected \/ EventError \/ Request \/ ReceiveDone \/ ReceiveClosed
             \/ ScanAdaptersDone \/ ScanDone
    BY <2>2, ParPlain
  <2>3. CASE CallRefused \/ CallAborts \/ PrepareNoAdapter \/ Deliver \/ ScanObject
    BY <2>3, ParEnds
  <2>4. CASE Prepare
    BY <2>4, ParPrepares
  <2>5. CASE FlushSends
    BY <2>5, ParSends
  <2>6. CASE FlushFails
    BY <2>6 DEF FlushFails, ParInv, Serial, env
  <2>7. CASE \E r \in Msgs, last \in BOOLEAN : Receive(r, last)
    BY <2>7, ParReceives
  <2>8. CASE ScanAdapter
    BY <2>8, ParScans
  <2>9. CASE \E m \in Msgs : Invoke(m)
    BY <2>9, ParInvokes
  <2>10. CASE \/ \E a \in Adapters, in, out, err \in BOOLEAN : Event(a, in, out, err)
              \/ Scan
              \/ \E m \in Msgs : InvokeUnknown(m) \/ InvokeNoAdapter(m) \/ DeadlinePasses(m)
              \/ \E s \in mode.lists : UpdateEndpoints(s)
              \/ UNCHANGED vars
    BY <2>10, ParBegins
  <2> QED
    BY <2>1, <2>2, <2>3, <2>4, <2>5, <2>6, <2>7, <2>8, <2>9, <2>10 DEF Next, Handler, Environment
<1>3. ParInv /\ (Serial => OwnAnswer) => OwnResponse
  BY DEF ParInv, OwnAnswer, OwnResponse
<1> QED
  BY <1>1, <1>2, <1>3, Invariant, SerialOwnResponse, PTL DEF Spec
==============================================================================
