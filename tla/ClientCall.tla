----------------------------- MODULE ClientCall -----------------------------
(* How a calling thread and a network thread of the client meet.  Each       *)
(* calling thread owns a queue of requests and a number (seq) under which    *)
(* the network thread keeps the event of that queue; a synchronous caller    *)
(* sleeps on the monitor of its request.                                     *)
(*                                                                           *)
(* The queue is the bounded FIFO LoopQueue implements.  What the network     *)
(* thread does with a request between taking and finishing it is ClientProxy.*)
EXTENDS Naturals, Sequences, FiniteSets

CONSTANTS Threads, NoThread,
          NumSeq,     \* MAX_CLIENT_NOTIFYEVENT_NUM
          QueueCap,   \* the requests a queue holds
          MaxProcess, \* requests after which one event is left (1000)
          Spurious,   \* a condition variable may wake up by itself
          MaxCalls    \* bound: the calls of one thread

ASSUME ClientCallAssumption ==
  /\ NoThread \notin Threads
  /\ NumSeq \in Nat \ {0} /\ QueueCap \in Nat \ {0}
  /\ MaxProcess \in Nat /\ MaxCalls \in Nat
  /\ Spurious \in BOOLEAN

VARIABLES
  free,     \* SeqManager: the free numbers, in the order they will be given
  seq,      \* _reqQNo of each thread
  queue,    \* _reqQueue of each thread
  calls,    \* the calls it has made
  kind,     \* eType of its current request, "FULL" when the queue refused it
  fin,      \* bMonitorFin of that request
  pc,       \* where the thread is
  owner,    \* CommunicatorEpoll::_notify: whose queue the event of a number names
  pend,     \* the events epoll has not reported yet
  held,     \* the threads whose synchronous request the network thread has
  netPc, netSeq, count,   \* the loop of handle() and its event
  netFor, netRet,         \* the request it is finishing, and where to go then
  freed     \* the monitor it is working on has been deleted by the caller

callers == <<free, seq, queue, calls, kind, fin, pc>>
net     == <<netPc, netSeq, count, netFor, netRet, freed>>
vars    == <<callers, owner, pend, held, net>>

Seqs == 1 .. NumSeq

Idle == {"out", "idle", "gone"}
InCall == {"notify", "notified", "check", "lock", "sleep", "relock", "done"}
InExit == {"exit", "exitNotify", "exitDel"}

TypeOK ==
  /\ free \in Seq(Seqs)
  /\ seq \in [Threads -> Seqs \cup {0}]
  /\ queue \in [Threads -> Seq({"SYNC", "ASYNC", "EXIT"})]
  /\ \A t \in Threads : Len(queue[t]) <= QueueCap
  /\ calls \in [Threads -> 0 .. MaxCalls]
  /\ kind \in [Threads -> {"SYNC", "ASYNC", "FULL"}]
  /\ fin \in [Threads -> BOOLEAN]
  /\ pc \in [Threads -> Idle \cup InCall \cup InExit]
  /\ owner \in [Seqs -> Threads \cup {NoThread}]
  /\ pend \subseteq {s \in Seqs : owner[s] # NoThread}
  /\ held \subseteq Threads
  /\ netPc \in {"wait", "pop", "signal", "unlock"} /\ netRet \in {"wait", "pop"}
  /\ netSeq \in Seqs /\ count \in 0 .. MaxProcess
  /\ netFor \in Threads \cup {NoThread}
  /\ freed \in BOOLEAN

Init ==
  /\ free = [i \in Seqs |-> i]
  /\ seq = [t \in Threads |-> 0]
  /\ queue = [t \in Threads |-> << >>]
  /\ calls = [t \in Threads |-> 0]
  /\ kind = [t \in Threads |-> "ASYNC"]
  /\ fin = [t \in Threads |-> FALSE]
  /\ pc = [t \in Threads |-> "out"]
  /\ owner = [s \in Seqs |-> NoThread]
  /\ pend = {} /\ held = {}
  /\ netPc = "wait" /\ netSeq = 1 /\ count = 0
  /\ netFor = NoThread /\ netRet = "wait" /\ freed = FALSE

Go(t, l) == pc' = [pc EXCEPT ![t] = l]

\* Wrong forms, which the properties rule out, stand before the definition
\* they are a wrong form of: a stack instead of a queue, ...
PushFront(t, k)  == queue' = IF Len(queue[t]) < QueueCap
                             THEN [queue EXCEPT ![t] = <<k>> \o @] ELSE queue

\* push_back(); what does not fit is not pushed.
PushBack(t, k) == queue' = IF Len(queue[t]) < QueueCap
                           THEN [queue EXCEPT ![t] = Append(@, k)] ELSE queue

\* ... a descriptor that is reported once, when it is added, ...
NotifyNot(s) == pend' = pend

\* NotifyInfo::notify(): EPOLL_CTL_MOD on an edge-triggered descriptor that can
\* always be written, so that epoll reports it again.  On an event the network
\* thread has deleted it does nothing that the model sees.
Notify(s) == pend' = IF owner[s] = NoThread THEN pend ELSE pend \cup {s}

-----------------------------------------------------------------------------
(* A calling thread. *)

\* ServantProxyThreadData::getData().
Start(t) ==
  /\ pc[t] = "out" /\ free # << >>
  /\ seq' = [seq EXCEPT ![t] = Head(free)]
  /\ free' = Tail(free)
  /\ Go(t, "idle")
  /\ UNCHANGED <<queue, calls, kind, fin, owner, pend, held, net>>

\* ServantProxy::invoke() up to push_back().  A refused request is deleted, and
\* the network thread is notified all the same.
Call(t, k) ==
  /\ pc[t] = "idle" /\ calls[t] < MaxCalls
  /\ calls' = [calls EXCEPT ![t] = @ + 1]
  /\ PushBack(t, k)
  /\ kind' = [kind EXCEPT ![t] = IF Len(queue[t]) < QueueCap THEN k ELSE "FULL"]
  /\ fin' = [fin EXCEPT ![t] = FALSE]
  /\ Go(t, "notify")
  /\ UNCHANGED <<free, seq, owner, pend, held, net>>

\* CommunicatorEpoll::notify(): the event of the number is made by the first
\* thread that uses it, ...
NotifyInit(t) ==
  /\ pc[t] = "notify"
  /\ IF owner[seq[t]] = NoThread
     THEN owner' = [owner EXCEPT ![seq[t]] = t] /\ pend' = pend \cup {seq[t]}
     ELSE UNCHANGED <<owner, pend>>
  /\ Go(t, "notified")
  /\ UNCHANGED <<free, seq, queue, calls, kind, fin, held, net>>

\* ... and then used.
NotifyUse(t) ==
  /\ pc[t] = "notified"
  /\ Notify(seq[t])
  /\ Go(t, IF kind[t] = "SYNC" THEN "check" ELSE "idle")
  /\ UNCHANGED <<free, seq, queue, calls, kind, fin, owner, held, net>>

\* bMonitorFin is read first without the lock ...
Check(t) ==
  /\ pc[t] = "check"
  /\ Go(t, IF fin[t] THEN "done" ELSE "lock")
  /\ UNCHANGED <<free, seq, queue, calls, kind, fin, owner, pend, held, net>>

\* The network thread is inside the monitor of t's request.
Locked(t) == netFor = t /\ ~ freed

\* ... (wrong: not looked at again) ...
LockBlindly(t) ==
  /\ pc[t] = "lock" /\ ~ Locked(t)
  /\ Go(t, "sleep")
  /\ UNCHANGED <<free, seq, queue, calls, kind, fin, owner, pend, held, net>>

\* ... and again with it; wait() gives the lock up.
Lock(t) ==
  /\ pc[t] = "lock" /\ ~ Locked(t)
  /\ Go(t, IF fin[t] THEN "done" ELSE "sleep")
  /\ UNCHANGED <<free, seq, queue, calls, kind, fin, owner, pend, held, net>>

SpuriousWake(t) ==
  /\ Spurious /\ pc[t] = "sleep"
  /\ Go(t, "relock")
  /\ UNCHANGED <<free, seq, queue, calls, kind, fin, owner, pend, held, net>>

\* wait() returns; it is not in a loop.
Relock(t) ==
  /\ pc[t] = "relock" /\ ~ Locked(t)
  /\ Go(t, "done")
  /\ UNCHANGED <<free, seq, queue, calls, kind, fin, owner, pend, held, net>>

\* assert(msg->eStatus != REQ_REQ), then the request and its monitor are
\* deleted.
Return(t) ==
  /\ pc[t] = "done" /\ fin[t]
  /\ freed' = (freed \/ netFor = t)
  /\ Go(t, "idle")
  /\ UNCHANGED <<free, seq, queue, calls, kind, fin, owner, pend, held,
                 netPc, netSeq, count, netFor, netRet>>

\* ~ServantProxyThreadData(): THREAD_EXIT is pushed if there is room, ...
Exit(t) ==
  /\ pc[t] = "idle"
  /\ IF calls[t] > 0 THEN PushBack(t, "EXIT") /\ Go(t, "exit")
                     ELSE Go(t, "exitDel") /\ UNCHANGED queue
  /\ UNCHANGED <<free, seq, calls, kind, fin, owner, pend, held, net>>

\* ... (wrong: the network thread is left to find out) ...
NotifyDelNot(t) ==
  /\ pc[t] = "exit"
  /\ Go(t, "exitDel")
  /\ UNCHANGED <<free, seq, queue, calls, kind, fin, owner, pend, held, net>>

\* ... notifyDel() looks whether the event exists, ...
NotifyDel(t) ==
  /\ pc[t] = "exit"
  /\ Go(t, IF owner[seq[t]] # NoThread THEN "exitNotify" ELSE "exitDel")
  /\ UNCHANGED <<free, seq, queue, calls, kind, fin, owner, pend, held, net>>

\* ... uses it, ...
NotifyDelUse(t) ==
  /\ pc[t] = "exitNotify"
  /\ Notify(seq[t])
  /\ Go(t, "exitDel")
  /\ UNCHANGED <<free, seq, queue, calls, kind, fin, owner, held, net>>

\* ... and SeqManager::del() puts the number behind the other free ones.
SeqDel(t) ==
  /\ pc[t] = "exitDel"
  /\ free' = Append(free, seq[t])
  /\ Go(t, "gone")
  /\ UNCHANGED <<seq, queue, calls, kind, fin, owner, pend, held, net>>

-----------------------------------------------------------------------------
(* The network thread: CommunicatorEpoll::run() and handle(). *)

PickEvent(s) ==
  /\ netPc = "wait" /\ s \in pend
  /\ pend' = pend \ {s}
  /\ netPc' = "pop" /\ netSeq' = s /\ count' = 0
  /\ UNCHANGED <<callers, owner, held, netFor, netRet, freed>>

\* The queue the event names (not that of the thread that uses the number).
Source == owner[netSeq]

PopNone ==
  /\ netPc = "pop" /\ queue[Source] = << >>
  /\ netPc' = "wait"
  /\ UNCHANGED <<callers, owner, pend, held, netSeq, count, netFor, netRet, freed>>

\* A request; after MaxProcess of them the event is raised again so that the
\* connections get their turn.
PopRequest ==
  /\ netPc = "pop" /\ queue[Source] # << >> /\ Head(queue[Source]) # "EXIT"
  /\ queue' = [queue EXCEPT ![Source] = Tail(@)]
  /\ held' = IF Head(queue[Source]) = "SYNC" THEN held \cup {Source} ELSE held
  /\ IF count = MaxProcess THEN Notify(netSeq) /\ netPc' = "wait" /\ UNCHANGED count
                           ELSE count' = count + 1 /\ UNCHANGED <<netPc, pend>>
  /\ UNCHANGED <<free, seq, calls, kind, fin, pc, owner, netSeq, netFor, netRet, freed>>

\* THREAD_EXIT: the event and the queue are deleted.
PopExit ==
  /\ netPc = "pop" /\ queue[Source] # << >> /\ Head(queue[Source]) = "EXIT"
  /\ queue' = [queue EXCEPT ![Source] = Tail(@)]
  /\ owner' = [owner EXCEPT ![netSeq] = NoThread]
  /\ pend' = pend \ {netSeq}
  /\ netPc' = "wait"
  /\ UNCHANGED <<free, seq, calls, kind, fin, pc, held, netSeq, count, netFor, netRet, freed>>

\* finishInvoke() of a synchronous request, in any handler: under the lock of
\* its monitor bMonitorFin is set, and on the way out of the lock the caller is
\* signalled.
FinishLock(t) ==
  /\ netPc \in {"wait", "pop"} /\ t \in held
  /\ held' = held \ {t}
  /\ fin' = [fin EXCEPT ![t] = TRUE]
  /\ netFor' = t /\ netRet' = netPc /\ netPc' = "signal" /\ freed' = FALSE
  /\ UNCHANGED <<free, seq, queue, calls, kind, pc, owner, pend, netSeq, count>>

Signal ==
  /\ netPc = "signal"
  /\ IF ~ freed /\ pc[netFor] = "sleep" THEN Go(netFor, "relock") ELSE UNCHANGED pc
  /\ netPc' = "unlock"
  /\ UNCHANGED <<free, seq, queue, calls, kind, fin, owner, pend, held,
                 netSeq, count, netFor, netRet, freed>>

Unlock ==
  /\ netPc = "unlock"
  /\ netPc' = netRet /\ netFor' = NoThread /\ freed' = FALSE
  /\ UNCHANGED <<callers, owner, pend, held, netSeq, count, netRet>>

-----------------------------------------------------------------------------

\* What a thread has begun it goes on with.
Step(t) == \/ NotifyInit(t) \/ NotifyUse(t) \/ Check(t) \/ Lock(t) \/ Relock(t) \/ Return(t)
           \/ NotifyDel(t) \/ NotifyDelUse(t) \/ SeqDel(t)

Caller(t) == Step(t) \/ Start(t) \/ SpuriousWake(t) \/ Exit(t)
             \/ \E k \in {"SYNC", "ASYNC"} : Call(t, k)

Loop == PopNone \/ PopRequest \/ PopExit \/ Signal \/ Unlock

NetThread == Loop \/ (\E s \in Seqs : PickEvent(s)) \/ (\E t \in Threads : FinishLock(t))

Next == NetThread \/ \E t \in Threads : Caller(t)

Spec == Init /\ [][Next]_vars

\* Threads run; epoll_wait reports every event in the end; every request the
\* network thread has taken is finished (LifeSpec of ClientProxy, which MCProxyLive checks).
FairSpec == /\ Spec
            /\ \A t \in Threads : WF_vars(Step(t)) /\ SF_vars(FinishLock(t))
            /\ WF_vars(Loop)
            /\ \A s \in Seqs : SF_vars(PickEvent(s))

-----------------------------------------------------------------------------
(* Properties. *)

\* No wake-up is lost: when a thread has come out of notify() and requests of
\* its are still queued, their event is pending or the network thread is just
\* taking them, also when it stops at MaxProcess.
Taking == IF netFor = NoThread THEN netPc = "pop" ELSE netRet = "pop"

NoLostWakeup ==
  \A t \in Threads :
    queue[t] # << >> /\ pc[t] \notin {"notify", "notified", "exit", "exitNotify"} =>
      \E s \in Seqs : owner[s] = t /\ (s \in pend \/ (s = netSeq /\ Taking))

\* No signal is lost: a caller asleep on a finished request is about to be
\* signalled.
NoLostSignal ==
  \A t \in Threads : pc[t] = "sleep" /\ fin[t] => Locked(t) /\ netPc = "signal"

\* assert(pInfoQueue->empty()) in handle(): THREAD_EXIT is the last of its queue.
ExitIsLast == [][PopExit => Len(queue[Source]) = 1]_vars

\* assert(msg->eStatus != REQ_REQ): a caller that comes out of its wait finds
\* the request finished.
StatusSet == \A t \in Threads : pc[t] = "done" => fin[t]

\* "Wait until the network thread has notified": the caller goes on with the
\* request, which it deletes, only when the network thread is through with it.
ReturnsAfterNotification ==
  \A t \in Threads : pc[t] = "done" => netFor # t

\* A synchronous call comes back (with its answer, an error or after its
\* timeout).
SyncReturns ==
  \A t \in Threads : (pc[t] = "notify" /\ kind[t] = "SYNC") ~> pc[t] = "done"

\* When a thread has ended, the network thread lets go of its queue.
QueueReleased ==
  \A t \in Threads : pc[t] = "gone" ~> \A s \in Seqs : owner[s] # t
=============================================================================
