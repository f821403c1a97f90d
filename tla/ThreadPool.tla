------------------------------ MODULE ThreadPool ------------------------------
(* TC_ThreadPool: worker threads take tasks from one queue; callers wait     *)
(* until it is empty, or stop the pool.  Workers and waiting callers sleep   *)
(* on the same condition variable, so a notification for one task may go to  *)
(* either.  Every critical section of _mutex is one step.                    *)
EXTENDS Integers, Sequences, FiniteSets

CONSTANTS
  Workers,     \* the threads init() asks for
  PoolUsers,   \* threads that use the pool
  PoolTasks,   \* tasks; each is given to exec() at most once
  NoTask

ASSUME ThreadPoolAssumption ==
  NoTask \notin PoolTasks /\ Workers \cap PoolUsers = {} /\ IsFiniteSet(Workers)

VARIABLES
  tasks,    \* _tasks
  wpc,      \* position of each worker
  taken,    \* the task it has taken
  busy,     \* _atomic: tasks being run
  poolEnd,  \* _bTerminate
  upc       \* what each user does

poolVars == <<tasks, wpc, taken, busy, poolEnd, upc>>

PoolInit ==
  /\ tasks = <<>>
  /\ wpc = [w \in Workers |-> "none"] /\ taken = [w \in Workers |-> NoTask]
  /\ busy = 0 /\ poolEnd = FALSE
  /\ upc = [u \in PoolUsers |-> "idle"]

\* A woken thread looks at its condition again, under the lock.
Woken == [waiting |-> "woken", timed |-> "timed woken"]
WakeWorkers(W) == [w \in Workers |-> IF w \in W /\ wpc[w] = "asleep" THEN "get" ELSE wpc[w]]
WakeUsers(U)   == [u \in PoolUsers |-> IF u \in U /\ upc[u] \in DOMAIN Woken
                                       THEN Woken[upc[u]] ELSE upc[u]]

Sleepers == {w \in Workers : wpc[w] = "asleep"} \cup {u \in PoolUsers : upc[u] \in DOMAIN Woken}

\* Wrong form: nobody is told.
NotifyNobody == UNCHANGED <<wpc, upc>>

NotifyOne ==
  \/ Sleepers = {} /\ UNCHANGED <<wpc, upc>>
  \/ \E s \in Sleepers : wpc' = WakeWorkers({s}) /\ upc' = WakeUsers({s})

----------------------------------------------------------------------------
(* Users *)

\* start() throws while there are threads.
Start(u) ==
  /\ upc[u] = "idle" /\ \A w \in Workers : wpc[w] = "none"
  /\ wpc' = [w \in Workers |-> "loop"]
  /\ UNCHANGED <<tasks, taken, busy, poolEnd, upc>>

Exec(t) == tasks' = Append(tasks, t) /\ NotifyOne

\* waitForAllDone(), for ever or for a time.
WaitForAllDone(u, how) ==
  /\ upc[u] = "idle" /\ tasks # <<>>
  /\ upc' = [upc EXCEPT ![u] = how]
  /\ UNCHANGED <<tasks, wpc, taken, busy, poolEnd>>

WaitAgain(u) ==
  /\ \E how \in DOMAIN Woken :
       /\ upc[u] = Woken[how]
       /\ upc' = [upc EXCEPT ![u] = IF tasks = <<>> THEN "idle" ELSE how]
  /\ UNCHANGED <<tasks, wpc, taken, busy, poolEnd>>

WaitTimeout(u) ==
  /\ upc[u] \in {"timed", "timed woken"} /\ upc' = [upc EXCEPT ![u] = "idle"]
  /\ UNCHANGED <<tasks, wpc, taken, busy, poolEnd>>

\* stop(), called by one thread at a time.
Stop(u) ==
  /\ upc[u] = "idle" /\ \A v \in PoolUsers : upc[v] # "joining"
  /\ poolEnd' = TRUE
  /\ wpc' = WakeWorkers(Workers) /\ upc' = [WakeUsers(PoolUsers) EXCEPT ![u] = "joining"]
  /\ UNCHANGED <<tasks, taken, busy>>

Joined(u) ==
  /\ upc[u] = "joining" /\ \A w \in Workers : wpc[w] \in {"none", "ended"}
  /\ wpc' = [w \in Workers |-> "none"] /\ upc' = [upc EXCEPT ![u] = "idle"]
  /\ UNCHANGED <<tasks, taken, busy, poolEnd>>

----------------------------------------------------------------------------
(* Workers *)

Move(w, from, to) == wpc[w] = from /\ wpc' = [wpc EXCEPT ![w] = to]

LookForEnd(w) ==
  /\ Move(w, "loop", IF poolEnd THEN "ended" ELSE "get")
  /\ UNCHANGED <<tasks, taken, busy, poolEnd, upc>>

\* get(): a pool that ends takes no more tasks.
GetNothing(w) ==
  /\ poolEnd \/ tasks = <<>>
  /\ Move(w, "get", IF poolEnd THEN "loop" ELSE "asleep")
  /\ UNCHANGED <<tasks, taken, busy, poolEnd, upc>>

Get(w) ==
  /\ ~poolEnd /\ tasks # <<>>
  /\ Move(w, "get", "begin")
  /\ taken' = [taken EXCEPT ![w] = Head(tasks)]
  /\ tasks' = Tail(tasks)
  /\ UNCHANGED <<busy, poolEnd, upc>>

BeginTask(w) ==
  /\ Move(w, "begin", "run") /\ busy' = busy + 1
  /\ UNCHANGED <<tasks, taken, poolEnd, upc>>

\* The task has returned or thrown.
EndTask(w) ==
  /\ Move(w, "run", "finish")
  /\ busy' = busy - 1
  /\ taken' = [taken EXCEPT ![w] = NoTask]

\* The last task that ends tells the waiting callers.
AllDone == busy = 0 /\ tasks = <<>>

FinishTask(w) ==
  /\ wpc[w] = "finish"
  /\ IF AllDone
     THEN wpc' = [WakeWorkers(Workers) EXCEPT ![w] = "loop"] /\ upc' = WakeUsers(PoolUsers)
     ELSE Move(w, "finish", "loop") /\ UNCHANGED upc
  /\ UNCHANGED <<tasks, taken, busy, poolEnd>>

\* The condition variable wakes by itself.
SpuriousWake(w) ==
  /\ Move(w, "asleep", "get")
  /\ UNCHANGED <<tasks, taken, busy, poolEnd, upc>>

----------------------------------------------------------------------------
(* The pool by itself: users give it tasks that end. *)

VARIABLE given    \* tasks exec() has been called for

Give(u, t) ==
  /\ upc[u] = "idle" /\ t \notin given
  /\ given' = given \cup {t}
  /\ Exec(t)
  /\ UNCHANGED <<taken, busy, poolEnd>>

RunTask(w) == taken[w] \in given /\ EndTask(w) /\ UNCHANGED <<tasks, poolEnd, upc>>

WorkerStep(w) == LookForEnd(w) \/ GetNothing(w) \/ Get(w) \/ BeginTask(w) \/ FinishTask(w)

UserStep(u) ==
  \/ Start(u) \/ WaitForAllDone(u, "waiting") \/ WaitForAllDone(u, "timed")
  \/ WaitTimeout(u) \/ Stop(u)

UserReturns(u) == WaitAgain(u) \/ Joined(u)

PoolNext ==
  \/ \E w \in Workers : (WorkerStep(w) \/ RunTask(w) \/ SpuriousWake(w)) /\ UNCHANGED given
  \/ \E u \in PoolUsers : \/ (UserStep(u) \/ UserReturns(u)) /\ UNCHANGED given
                          \/ \E t \in PoolTasks : Give(u, t)

PoolSpec == PoolInit /\ given = {} /\ [][PoolNext]_<<poolVars, given>>

----------------------------------------------------------------------------
(* Properties *)

Started == \E w \in Workers : wpc[w] # "none"

Waiting == \E u \in PoolUsers : upc[u] \in DOMAIN Woken

Resting == {"none", "asleep", "ended"}

\* Nobody sleeps for ever in a pool that runs.  exec() wakes one thread, which may be a caller
\* of waitForAllDone() for whom the task is no news: some worker is awake all the same and
\* will look at the queue.  And while callers wait on an empty queue some worker has still
\* to finish a task, and the last of them wakes the callers.
NobodyForgotten ==
  Started /\ ~poolEnd =>
    /\ tasks # <<>> => \E w \in Workers : wpc[w] \notin Resting
    /\ tasks = <<>> /\ Waiting => \E w \in Workers : wpc[w] \in {"begin", "run", "finish"}
===============================================================================
