---------------------------- MODULE TimeoutQueue ----------------------------
(* TC_TimeoutQueueNew: the requests of one connection.  _data maps a request *)
(* id to the request and to whether it has been sent; _send lists the ids    *)
(* that have not, oldest first.  (_time orders the same ids by deadline; the *)
(* modules that use the queue keep the deadlines.)                           *)
EXTENDS Naturals, Sequences, SequencesExt

EmptyQueue == [data |-> << >>, send |-> << >>]

Ids(tq) == DOMAIN tq.data

\* Wrong forms, which the properties of ClientProxy rule out, stand before the
\* definition they are a wrong form of.

\* generateId(): a uint32_t that wraps to the largest value + 1 = 0, and 0 is
\* left out because a response with id 0 is a message the server pushes.
GenerateId(uniqId, maxId) == (uniqId % maxId) + 1

\* push(): the caller has seen that the id is not in use.
PushQueue(tq, ptr, id, hasSend) ==
  [data |-> [i \in Ids(tq) \cup {id} |->
               IF i = id THEN [ptr |-> ptr, hasSend |-> hasSend] ELSE tq.data[i]],
   send |-> IF hasSend THEN tq.send ELSE Append(tq.send, id)]

\* getSend(): the oldest request that has not been sent.
GetSend(tq) == tq.data[Head(tq.send)].ptr

\* Wrong: a popSend() that never forgets.
PopSendKeeps(tq, del) == [data |-> [tq.data EXCEPT ![Head(tq.send)].hasSend = TRUE],
                          send |-> Tail(tq.send)]

\* popSend(del): it has been sent (and is forgotten if del).
PopSend(tq, del) ==
  LET id == Head(tq.send)
  IN  [data |-> IF del THEN [i \in Ids(tq) \ {id} |-> tq.data[i]]
                       ELSE [tq.data EXCEPT ![id].hasSend = TRUE],
       send |-> Tail(tq.send)]

\* erase(id), and the removal timeout() makes: a request that has not been
\* sent is also taken out of the send list.
EraseQueue(tq, id) ==
  [data |-> [i \in Ids(tq) \ {id} |-> tq.data[i]],
   send |-> IF tq.data[id].hasSend THEN tq.send
            ELSE RemoveAt(tq.send, CHOOSE k \in DOMAIN tq.send : tq.send[k] = id)]

\* The send list names each request that has not been sent exactly once and
\* no other: sendIter and dataIter never dangle.
Consistent(tq) ==
  /\ \A k, l \in DOMAIN tq.send : tq.send[k] = tq.send[l] => k = l
  /\ ToSet(tq.send) = {i \in Ids(tq) : ~ tq.data[i].hasSend}
=============================================================================
