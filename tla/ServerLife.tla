----------------------------- MODULE ServerLife -----------------------------
(* Start and shutdown of the server: the main thread in waitForShutdown(),   *)
(* a network thread, the handlers of one adapter with the queues they sleep  *)
(* at, and whoever calls terminate(), a thread of the application or a       *)
(* servant.  What happens to a connection meanwhile is the subject of Server.*)
EXTENDS Integers, Sequences

CONSTANTS
  NumServants,   \* the handlers of the adapter are numbered from 1
  Arrivals,      \* requests that come
  Fds,           \* descriptors of the connections they come from
  Sharings          \* "shared", "own" (queue mode), "merged"

ASSUME ServerLifeAssumption ==
  NumServants \in Nat \ {0} /\ Fds \subseteq Nat /\ Sharings \subseteq {"shared", "own", "merged"}

Servants == 1..NumServants
Outside  == 0

VARIABLES
  sharing,             \* one queue, a queue for each handler, or no handler threads
  stopped,             \* _bTerminate of the server
  mainAt, started,     \* the main thread; the handlers it has dealt with
  netAt, netStopped,   \* the network thread; its _bTerminate
  arriving,            \* the request it puts in a queue, and that queue
  servantAt,           \* position of each handler thread
  hasQueue,            \* handlers whose _threadDataQueue exists
  requestQ,            \* _rbuffer of each _threadDataQueue; 0 is the shared one
  bufferSize,          \* _iRecvBufferSize
  progress,            \* of each request
  stopAt, stopBy, stopIdx,  \* position in terminate(), who is in it, the handler it has come to
  crashed              \* a queue was used that did not exist

servantVars == <<servantAt, hasQueue>>
queueVars   == <<requestQ, bufferSize, progress>>
netVars     == <<netAt, netStopped, arriving>>
mainVars    == <<mainAt, started>>
stopVars    == <<stopAt, stopBy, stopIdx>>
lifeVars    == <<sharing, stopped, crashed, servantVars, queueVars, netVars, mainVars, stopVars>>

\* A server that waitForShutdown() is not called for does nothing.
ServerLifeInit ==
  /\ sharing \in Sharings
  /\ stopped = FALSE /\ crashed = FALSE
  /\ mainAt \in {"start", "absent"} /\ started = 0
  /\ netAt = "off" /\ netStopped = FALSE /\ arriving = <<>>
  /\ servantAt = [i \in Servants |-> "off"] /\ hasQueue = {}
  /\ requestQ = [k \in {0} \cup Servants |-> <<>>] /\ bufferSize = 0
  /\ progress = [r \in Arrivals |-> "out"]
  /\ stopAt = "idle" /\ stopBy = Outside /\ stopIdx = 1

\* getRecvQueue(), getLock(): where a handler takes its requests and sleeps.
QueueOf(i) == IF sharing = "own" THEN i ELSE 0
Missing(k) == k # 0 /\ k \notin hasQueue

Steps(i, from, to) == servantAt[i] = from /\ servantAt' = [servantAt EXCEPT ![i] = to]

\* TC_ThreadQueue: push_back(), whose notification nobody waits for, and pop_front() without
\* a wait.
PushRecvQueue(k, r) == requestQ' = [requestQ EXCEPT ![k] = Append(@, r)]
PopRecvQueue(k)  == requestQ[k] # <<>> /\ requestQ' = [requestQ EXCEPT ![k] = Tail(@)]

-----------------------------------------------------------------------------
(* The main thread: waitForShutdown(). *)

\* startHandle(): start() returns when the thread runs.
StartServant ==
  /\ mainAt = "start" /\ sharing # "merged" /\ started < NumServants
  /\ started' = started + 1
  /\ Steps(started + 1, "off", "initialize")
  /\ UNCHANGED <<sharing, stopped, crashed, mainAt, hasQueue, queueVars, netVars, stopVars>>

StartNet ==
  /\ mainAt = "start" /\ (sharing = "merged" \/ started = NumServants)
  /\ mainAt' = "accepts" /\ netAt' = "runs"
  /\ UNCHANGED <<sharing, stopped, crashed, started, servantVars, queueVars, netStopped, arriving,
                 stopVars>>

\* Wrong: the thread is only waited for.
TellNetNot == UNCHANGED netStopped
TellNet    == netStopped' = TRUE

\* Its wait for connections ends by itself after 300 ms.
SeeStop ==
  /\ mainAt = "accepts" /\ stopped
  /\ mainAt' = "joins" /\ TellNet
  /\ UNCHANGED <<sharing, stopped, crashed, started, servantVars, queueVars, netAt, arriving, stopVars>>

JoinNet ==
  /\ mainAt = "joins" /\ netAt = "ended"
  /\ mainAt' = "returned"
  /\ UNCHANGED <<sharing, stopped, crashed, started, servantVars, queueVars, netVars, stopVars>>

-----------------------------------------------------------------------------
(* The network thread. *)

\* The requests of a connection are in one queue.
QueueFor(fd) == IF sharing = "own" THEN (fd % NumServants) + 1 ELSE 0

\* A request is handled at once when the threads are merged; otherwise insertRecvQueue()
\* counts it, ...
Arrive(r, fd) ==
  /\ netAt = "runs" /\ progress[r] = "out"
  /\ IF sharing = "merged"
     THEN progress' = [progress EXCEPT ![r] = "taken"] /\ UNCHANGED <<netAt, arriving, bufferSize>>
     ELSE /\ progress' = [progress EXCEPT ![r] = "arrived"]
          /\ bufferSize' = bufferSize + 1
          /\ netAt' = "pushes" /\ arriving' = <<r, QueueFor(fd)>>
  /\ UNCHANGED <<sharing, stopped, crashed, servantVars, requestQ, netStopped, mainVars, stopVars>>

\* ... puts it in the queue of its connection, which its handler makes when it begins, ...
Target == arriving[2]

PushRequest ==
  /\ netAt = "pushes"
  /\ IF Missing(Target)
     THEN crashed' = TRUE /\ UNCHANGED <<requestQ, netAt>>
     ELSE /\ PushRecvQueue(Target, arriving[1])
          /\ netAt' = "signals" /\ UNCHANGED crashed
  /\ UNCHANGED <<sharing, stopped, servantVars, bufferSize, progress, netStopped, arriving, mainVars,
                 stopVars>>

\* ... and wakes a handler that sleeps there, if there is one.
Sleepers(k) == {i \in Servants : servantAt[i] = "asleep" /\ QueueOf(i) = k}
Woken(S)    == [i \in Servants |-> IF i \in S THEN "pop" ELSE servantAt[i]]

SignalServant ==
  /\ netAt = "signals"
  /\ IF Sleepers(Target) = {} THEN UNCHANGED servantAt
     ELSE \E i \in Sleepers(Target) : servantAt' = Woken({i})
  /\ netAt' = "runs" /\ arriving' = <<>>
  /\ UNCHANGED <<sharing, stopped, crashed, hasQueue, queueVars, netStopped, mainVars, stopVars>>

EndNet ==
  /\ netAt = "runs" /\ netStopped
  /\ netAt' = "ended"
  /\ UNCHANGED <<sharing, stopped, crashed, servantVars, queueVars, netStopped, arriving, mainVars,
                 stopVars>>

-----------------------------------------------------------------------------
(* A handler: run() and handleImp(). *)

\* initialize() of the servant may take its time; then initThreadRecvQueue().
MakeQueue(i) ==
  /\ Steps(i, "initialize", "test")
  /\ hasQueue' = IF sharing = "own" THEN hasQueue \cup {i} ELSE hasQueue
  /\ UNCHANGED <<sharing, stopped, crashed, queueVars, netVars, mainVars, stopVars>>

TestStop(i) ==
  /\ Steps(i, "test", IF stopped THEN "ended" ELSE "look")
  /\ UNCHANGED <<sharing, stopped, crashed, hasQueue, queueVars, netVars, mainVars, stopVars>>

\* wait(): the count is that of all queues, and it is read without the lock.
Look(i) ==
  /\ Steps(i, "look", IF bufferSize > 0 THEN "pop" ELSE "doze")
  /\ UNCHANGED <<sharing, stopped, crashed, hasQueue, queueVars, netVars, mainVars, stopVars>>

Doze(i) ==
  /\ Steps(i, "doze", "asleep")
  /\ UNCHANGED <<sharing, stopped, crashed, hasQueue, queueVars, netVars, mainVars, stopVars>>

\* waitAtQueue() waits no longer than _iWaitTime (wrong: until it is notified).
TimesOutNot(i) == FALSE
TimesOut(i)    == Steps(i, "asleep", "pop")

WakeUp(i) ==
  /\ TimesOut(i)
  /\ UNCHANGED <<sharing, stopped, crashed, hasQueue, queueVars, netVars, mainVars, stopVars>>

\* waitForRecvQueue(): takes a request and counts it no longer, in two steps.  The loop goes
\* on for as long as there are any, whether or not the server is to stop.
PopRequest(i) ==
  /\ IF requestQ[QueueOf(i)] = <<>>
     THEN Steps(i, "pop", "test") /\ UNCHANGED queueVars
     ELSE /\ Steps(i, "pop", "taken")
          /\ PopRecvQueue(QueueOf(i))
          /\ progress' = [progress EXCEPT ![Head(requestQ[QueueOf(i)])] = "taken"]
          /\ UNCHANGED bufferSize
  /\ UNCHANGED <<sharing, stopped, crashed, hasQueue, netVars, mainVars, stopVars>>

\* An exception of the servant leaves the loop, but not the thread.
HandleRequest(i) ==
  /\ Steps(i, "taken", "pop") \/ Steps(i, "taken", "test")
  /\ bufferSize' = bufferSize - 1
  /\ UNCHANGED <<sharing, stopped, crashed, hasQueue, requestQ, progress, netVars, mainVars, stopVars>>

-----------------------------------------------------------------------------
(* terminate() and stopThread(). *)

AskToStop(by) ==
  /\ stopAt = "idle" /\ ~stopped /\ mainAt # "absent"
  /\ stopped' = TRUE /\ stopBy' = by
  /\ stopAt' = IF sharing = "merged" THEN "done" ELSE "wake"
  /\ UNCHANGED <<stopIdx, sharing, crashed, requestQ, progress, netVars, mainVars, hasQueue>>

StopFromOutside == AskToStop(Outside) /\ UNCHANGED <<servantAt, bufferSize>>

StopFromServant(i) ==
  AskToStop(i) /\ Steps(i, "taken", "stops") /\ bufferSize' = bufferSize - 1

\* notifyHandle() for the one queue, or for the queue of each handler in turn.
WakeServants ==
  /\ stopAt = "wake"
  /\ IF sharing = "own" /\ Missing(stopIdx)
     THEN crashed' = TRUE /\ UNCHANGED <<servantAt, stopAt, stopIdx>>
     ELSE /\ servantAt' = Woken(Sleepers(QueueOf(stopIdx)))
          /\ IF sharing = "own" /\ stopIdx < NumServants
             THEN stopIdx' = stopIdx + 1 /\ UNCHANGED stopAt
             ELSE stopIdx' = 1 /\ stopAt' = "join"
          /\ UNCHANGED crashed
  /\ UNCHANGED <<sharing, stopped, hasQueue, queueVars, netVars, mainVars, stopBy>>

\* A thread that has not begun is passed over, and one that has is waited for.  After the last
\* the main thread is notified, which looks at _bTerminate every now and then anyway.
JoinServant ==
  /\ stopAt = "join" /\ servantAt[stopIdx] \in {"off", "ended"}
  /\ IF stopIdx = NumServants THEN stopAt' = "done" /\ UNCHANGED stopIdx
     ELSE stopIdx' = stopIdx + 1 /\ UNCHANGED stopAt
  /\ UNCHANGED <<sharing, stopped, crashed, servantVars, queueVars, netVars, mainVars, stopBy>>

\* join() of the calling thread throws, which handleImp() catches: the other handlers are
\* not waited for, and the main thread is not notified.
JoinItself ==
  /\ stopAt = "join" /\ stopBy = stopIdx
  /\ stopAt' = "done"
  /\ Steps(stopBy, "stops", "test")
  /\ UNCHANGED <<sharing, stopped, crashed, hasQueue, queueVars, netVars, mainVars, stopBy, stopIdx>>

-----------------------------------------------------------------------------

MainStep == StartServant \/ StartNet \/ SeeStop \/ JoinNet

NetLoopStep == PushRequest \/ SignalServant \/ EndNet

ServantStep(i) ==
  MakeQueue(i) \/ TestStop(i) \/ Look(i) \/ Doze(i) \/ WakeUp(i) \/ PopRequest(i) \/ HandleRequest(i)

StopStep == WakeServants \/ JoinServant \/ JoinItself

ServerLifeNext ==
  /\ ~crashed
  /\ \/ MainStep \/ NetLoopStep \/ StopStep \/ StopFromOutside
     \/ \E r \in Arrivals, fd \in Fds : Arrive(r, fd)
     \/ \E i \in Servants : ServantStep(i) \/ StopFromServant(i)

\* Threads run, and servants return; nobody need send a request or stop the server.
ServerLifeFairness ==
  /\ WF_lifeVars(~crashed /\ MainStep)
  /\ WF_lifeVars(~crashed /\ NetLoopStep)
  /\ WF_lifeVars(~crashed /\ StopStep)
  /\ \A i \in Servants : WF_lifeVars(~crashed /\ ServantStep(i))

ServerLifeSpec == ServerLifeInit /\ [][ServerLifeNext]_lifeVars /\ ServerLifeFairness

-----------------------------------------------------------------------------

\* waitForShutdown() ends when the server is stopped, whoever stops it and however far the
\* start has come: terminate() returns to its caller, the main thread has joined the network
\* thread, and every handler has ended, those that start after it included.  (With a queue
\* for each handler the process may die first.)
ShutdownReturns ==
  stopped ~> \/ crashed
             \/ /\ stopAt = "done" /\ mainAt = "returned"
                /\ \A i \in Servants : servantAt[i] = IF sharing = "merged" THEN "off" ELSE "ended"

\* A handler that found no request may begin to sleep just after it was notified of one;
\* the request is taken all the same while the server runs.
RequestsTaken ==
  \A r \in Arrivals : progress[r] = "arrived" ~> progress[r] = "taken" \/ stopped \/ crashed
=============================================================================
