----------------------------- MODULE Communicator -----------------------------
(* Start and termination of a Communicator, its network threads and the      *)
(* threads that run the callbacks of asynchronous calls (AsyncProcThread).   *)
(* Communicator is itself the lock that initialize() and terminate() take,   *)
(* and every callback that asks it for a proxy or a property.                *)
EXTENDS Integers, Sequences, FiniteSets

CONSTANTS
  Apps,         \* threads of the application
  NoThread,
  Nets,         \* network threads (CommunicatorEpoll)
  NumAsync,     \* callback threads are numbered from 1 (asyncthread)
  Msgs,         \* asynchronous requests that finish
  AskingMsgs,   \* those whose callback uses the communicator
  QueueCap,     \* asyncqueuecap
  Merges        \* values of mergenetasync

ASSUME CommunicatorAssumption ==
  /\ NumAsync \in Nat \ {0} /\ QueueCap \in Nat
  /\ AskingMsgs \subseteq Msgs /\ Merges \subseteq BOOLEAN
  /\ NoThread \notin Apps

Cbs == 1..NumAsync

VARIABLES
  merge,        \* callbacks are run by the network threads
  initialized,  \* _initialized
  terminating,  \* _terminating
  lock,         \* owner of the communicator's lock
  pc,           \* position of each application thread
  net, npc,     \* state and position of each network thread
  netStop,      \* its _terminate
  target,       \* callback thread it is pushing to
  cb,           \* state of each callback thread
  cbStop,       \* its _terminate
  queue,        \* its _msgQueue
  asyncSeq,     \* _asyncSeq, modulo the number of callback threads
  calling,      \* the request it has popped and is calling back
  life,         \* what became of each request
  down          \* a callback thread was used after it was deleted

commVars == <<merge, initialized, terminating, lock, pc, net, npc, netStop, target, cb, cbStop,
              queue, asyncSeq, calling, life, down>>
appVars == <<merge, initialized, terminating, lock, pc, netStop, cbStop>>

CommunicatorInit ==
  /\ merge \in Merges
  /\ initialized = FALSE /\ terminating = FALSE /\ down = FALSE
  /\ lock = NoThread
  /\ pc = [t \in Apps |-> "idle"]
  /\ net = [n \in Nets |-> "none"] /\ npc = [n \in Nets |-> "loop"]
  /\ netStop = [n \in Nets |-> FALSE] /\ target = [n \in Nets |-> 1]
  /\ cb = [a \in Cbs |-> "none"] /\ cbStop = [a \in Cbs |-> FALSE]
  /\ queue = [a \in Cbs |-> <<>>]
  /\ asyncSeq = 0 /\ calling = [a \in Cbs |-> {}]
  /\ life = [m \in Msgs |-> "under way"]

Go(t, from, to) == pc[t] = from /\ pc' = [pc EXCEPT ![t] = to]

----------------------------------------------------------------------------
(* initialize(), from getServantProxy() *)

Enter(t) ==
  /\ Go(t, "idle", IF initialized THEN "unlock" ELSE "create")
  /\ lock = NoThread /\ lock' = t
  /\ initialized' = TRUE
  /\ UNCHANGED <<merge, terminating, net, npc, netStop, target, cb, cbStop, queue, asyncSeq,
                 life, down, calling>>

\* Without merging the constructor starts the thread.
CreateCallbackThread(t, a) ==
  /\ pc[t] = "create"
  /\ cb[a] = "none" /\ \A b \in 1..(a - 1) : cb[b] # "none"
  /\ cb' = [cb EXCEPT ![a] = IF merge THEN "idle" ELSE "check"]
  /\ UNCHANGED <<merge, initialized, terminating, lock, pc, net, npc, netStop, target, cbStop,
                 queue, asyncSeq, life, down, calling>>

CreateNetThread(t, n) ==
  /\ pc[t] = "create"
  /\ \A a \in Cbs : cb[a] # "none"
  /\ net[n] = "none" /\ net' = [net EXCEPT ![n] = "running"]
  /\ UNCHANGED <<merge, initialized, terminating, lock, pc, npc, netStop, target, cb, cbStop,
                 queue, asyncSeq, life, down, calling>>

Created(t) ==
  /\ Go(t, "create", "unlock")
  /\ \A n \in Nets : net[n] # "none"
  /\ UNCHANGED <<merge, initialized, terminating, lock, net, npc, netStop, target, cb, cbStop,
                 queue, asyncSeq, life, down, calling>>

Unlock(t) ==
  /\ Go(t, "unlock", "idle") /\ lock' = NoThread
  /\ UNCHANGED <<merge, initialized, terminating, net, npc, netStop, target, cb, cbStop, queue,
                 asyncSeq, life, down, calling>>

----------------------------------------------------------------------------
(* terminate() *)

TerminateBegins(t) ==
  /\ pc[t] = "idle" /\ lock = NoThread
  /\ IF terminating
     THEN pc' = [pc EXCEPT ![t] = "done"] /\ UNCHANGED <<lock, terminating, netStop>>
     ELSE /\ pc' = [pc EXCEPT ![t] = IF initialized THEN "stop callbacks" ELSE "release"]
          /\ lock' = t /\ terminating' = TRUE
          /\ netStop' = [n \in Nets |-> initialized]
  /\ UNCHANGED <<merge, initialized, net, npc, target, cb, cbStop, queue, asyncSeq, life, down,
                 calling>>

NotifyCallback(a) == IF cb[a] = "asleep" THEN [cb EXCEPT ![a] = "check"] ELSE cb

NextCallback(a) == \A b \in 1..(a - 1) : cb[b] = "deleted"

\* AsyncProcThread::terminate() of the first that is left, if it is alive.
StopCallbackThread(t, a) ==
  /\ pc[t] = "stop callbacks" /\ NextCallback(a)
  /\ cb[a] \notin {"idle", "ended", "deleted"} /\ ~cbStop[a]
  /\ cbStop' = [cbStop EXCEPT ![a] = TRUE]
  /\ cb' = NotifyCallback(a)
  /\ UNCHANGED <<merge, initialized, terminating, lock, pc, net, npc, netStop, target, queue,
                 asyncSeq, life, down, calling>>

\* join() and delete; what is in the queue is never called.
DeleteCallbackThread(t, a) ==
  /\ pc[t] = "stop callbacks" /\ NextCallback(a)
  /\ cb[a] \in {"idle", "ended"}
  /\ cb' = [cb EXCEPT ![a] = "deleted"]
  /\ UNCHANGED <<merge, initialized, terminating, lock, pc, net, npc, netStop, target, cbStop,
                 queue, asyncSeq, life, down, calling>>

CallbacksStopped(t) ==
  /\ Go(t, "stop callbacks", "release")
  /\ \A a \in Cbs : cb[a] = "deleted"
  /\ UNCHANGED <<merge, initialized, terminating, lock, net, npc, netStop, target, cb, cbStop,
                 queue, asyncSeq, life, down, calling>>

\* Wrong form: the lock is kept until the network threads have ended.
FreeLockNot == UNCHANGED lock

FreeLock == lock' = NoThread

\* The lock is given back before the network threads are waited for.
Release(t) ==
  /\ Go(t, "release", IF initialized THEN "join" ELSE "done")
  /\ FreeLock
  /\ UNCHANGED <<merge, initialized, terminating, net, npc, netStop, target, cb, cbStop, queue,
                 asyncSeq, life, down, calling>>

DeleteNetThread(t, n) ==
  /\ pc[t] = "join" /\ net[n] = "ended"
  /\ net' = [net EXCEPT ![n] = "deleted"]
  /\ UNCHANGED <<merge, initialized, terminating, lock, pc, npc, netStop, target, cb, cbStop,
                 queue, asyncSeq, life, down, calling>>

Terminated(t) ==
  /\ Go(t, "join", "done")
  /\ \A n \in Nets : net[n] = "deleted"
  /\ lock' = IF lock = t THEN NoThread ELSE lock
  /\ UNCHANGED <<merge, initialized, terminating, net, npc, netStop, target, cb, cbStop, queue,
                 asyncSeq, life, down, calling>>

----------------------------------------------------------------------------
(* Network threads *)

\* An asynchronous request has finished: pushAsyncThreadQueue() chooses the thread in turn,
\* and with merging runs the callback itself.
NetPush(n, m) ==
  /\ net[n] = "running" /\ npc[n] = "loop" /\ life[m] = "under way"
  /\ LET next == asyncSeq + 1
     IN  /\ asyncSeq' = (asyncSeq + 1) % NumAsync
         /\ target' = [target EXCEPT ![n] = next]
         /\ IF cb[next] = "deleted"
            THEN down' = TRUE /\ UNCHANGED <<npc, life, queue>>
            ELSE /\ UNCHANGED down
                 /\ IF merge
                    THEN /\ m \in AskingMsgs => lock = NoThread
                         /\ life' = [life EXCEPT ![m] = "called"] /\ UNCHANGED <<npc, queue>>
                    ELSE IF Len(queue[next]) >= QueueCap
                    THEN life' = [life EXCEPT ![m] = "dropped"] /\ UNCHANGED <<npc, queue>>
                    ELSE /\ life' = [life EXCEPT ![m] = "queued"]
                         /\ queue' = [queue EXCEPT ![next] = Append(@, m)]
                         /\ npc' = [npc EXCEPT ![n] = "notify"]
  /\ UNCHANGED <<appVars, net, cb, calling>>

NetNotify(n) ==
  /\ npc[n] = "notify" /\ npc' = [npc EXCEPT ![n] = "loop"]
  /\ IF cb[target[n]] = "deleted"
     THEN down' = TRUE /\ UNCHANGED cb
     ELSE cb' = NotifyCallback(target[n]) /\ UNCHANGED down
  /\ UNCHANGED <<appVars, net, target, queue, asyncSeq, life, calling>>

\* The thread needs the lock for something of its own.
NetAsks(n) ==
  /\ net[n] = "running" /\ npc[n] = "loop" /\ npc' = [npc EXCEPT ![n] = "lock"]
  /\ UNCHANGED <<appVars, net, target, cb, queue, asyncSeq, life, down, calling>>

NetGetsLock(n) ==
  /\ npc[n] = "lock" /\ lock = NoThread /\ npc' = [npc EXCEPT ![n] = "loop"]
  /\ UNCHANGED <<appVars, net, target, cb, queue, asyncSeq, life, down, calling>>

NetEnds(n) ==
  /\ net[n] = "running" /\ npc[n] = "loop" /\ netStop[n]
  /\ net' = [net EXCEPT ![n] = "ended"]
  /\ UNCHANGED <<appVars, npc, target, cb, queue, asyncSeq, life, down, calling>>

----------------------------------------------------------------------------
(* Callback threads: AsyncProcThread::run() *)

CheckEnd(a) ==
  /\ cb[a] = "check"
  /\ cb' = [cb EXCEPT ![a] = IF cbStop[a] THEN "ended" ELSE "pop"]
  /\ UNCHANGED <<appVars, net, npc, target, queue, asyncSeq, life, down, calling>>

PopCallback(a) ==
  /\ cb[a] = "pop"
  /\ IF queue[a] = <<>>
     THEN cb' = [cb EXCEPT ![a] = "sleep"] /\ UNCHANGED <<calling, queue>>
     ELSE /\ cb' = [cb EXCEPT ![a] = "call"]
          /\ calling' = [calling EXCEPT ![a] = {Head(queue[a])}]
          /\ queue' = [queue EXCEPT ![a] = Tail(@)]
  /\ UNCHANGED <<appVars, net, npc, target, asyncSeq, life, down>>

\* The callback has been run; one that uses the communicator has had to take its lock.
Callback(a) ==
  /\ cb[a] = "call" /\ cb' = [cb EXCEPT ![a] = "check"]
  /\ calling[a] \cap AskingMsgs # {} => lock = NoThread
  /\ life' = [m \in Msgs |-> IF m \in calling[a] THEN "called" ELSE life[m]]
  /\ calling' = [calling EXCEPT ![a] = {}]
  /\ UNCHANGED <<appVars, net, npc, target, queue, asyncSeq, down>>

CallbackSleeps(a) ==
  /\ cb[a] = "sleep" /\ cb' = [cb EXCEPT ![a] = "asleep"]
  /\ UNCHANGED <<appVars, net, npc, target, queue, asyncSeq, life, down, calling>>

\* Wrong form: the thread waits until it is notified.
WaitNever(a) == FALSE /\ UNCHANGED cb

WaitEnds(a) == cb' = [cb EXCEPT ![a] = "check"]

\* timedWait(1000) ends.
CallbackWakes(a) ==
  /\ cb[a] = "asleep" /\ WaitEnds(a)
  /\ UNCHANGED <<appVars, net, npc, target, queue, asyncSeq, life, down, calling>>

----------------------------------------------------------------------------
AppStep(t) ==
  \/ Enter(t) \/ Created(t) \/ Unlock(t)
  \/ \E a \in Cbs : CreateCallbackThread(t, a)
  \/ \E n \in Nets : CreateNetThread(t, n)

TerminateStep(t) ==
  \/ \E a \in Cbs : StopCallbackThread(t, a) \/ DeleteCallbackThread(t, a)
  \/ CallbacksStopped(t) \/ Release(t) \/ Terminated(t)
  \/ \E n \in Nets : DeleteNetThread(t, n)

NetStep(n) == NetNotify(n) \/ NetGetsLock(n) \/ NetEnds(n)

CallbackStep(a) ==
  CheckEnd(a) \/ PopCallback(a) \/ Callback(a) \/ CallbackSleeps(a) \/ CallbackWakes(a)

CommunicatorNext ==
  /\ ~down
  /\ \/ \E t \in Apps : AppStep(t) \/ TerminateBegins(t) \/ TerminateStep(t)
     \/ \E n \in Nets : NetStep(n) \/ NetAsks(n) \/ \E m \in Msgs : NetPush(n, m)
     \/ \E a \in Cbs : CallbackStep(a)

CommunicatorSpec == CommunicatorInit /\ [][CommunicatorNext]_commVars

\* Every thread that can go on does; a network thread has no more than finitely many
\* requests to finish, sees _terminate each time round, and gets a lock that is free again
\* and again.
CommunicatorFairness ==
  /\ \A t \in Apps : /\ WF_commVars(~down /\ AppStep(t) /\ pc[t] # "idle")
                     /\ WF_commVars(~down /\ TerminateStep(t))
  /\ \A n \in Nets : WF_commVars(~down /\ NetNotify(n)) /\ SF_commVars(~down /\ NetGetsLock(n))
                     /\ SF_commVars(~down /\ NetEnds(n))
  /\ \A a \in Cbs : SF_commVars(~down /\ CallbackStep(a))

----------------------------------------------------------------------------
(* Properties *)

\* What the values are; a thread that is inside terminate() or initialize() under the lock
\* owns it.
CommunicatorTypeOK ==
  /\ lock \in Apps \cup {NoThread}
  /\ \A t \in Apps : pc[t] \in {"create", "unlock", "stop callbacks", "release"} <=> lock = t

\* A request whose callback is queued is called, although the thread may have found the
\* queue empty before the push and begun to wait after the notification; only termination
\* may leave it.
CallbacksRun ==
  \A m \in Msgs : life[m] = "queued" ~> (life[m] = "called" \/ terminating)

\* terminate() returns, whatever the threads it waits for are doing.
TerminateReturns ==
  \A t \in Apps : pc[t] \in {"stop callbacks", "release", "join"} ~> (pc[t] = "done" \/ down)
===============================================================================
