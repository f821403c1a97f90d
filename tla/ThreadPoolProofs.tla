--------------------------- MODULE ThreadPoolProofs ---------------------------
(* Proofs about ThreadPool and the Timer that gives it its tasks, for any     *)
(* number of workers, users, tasks and events: work is not left while all     *)
(* wait, an event that is posted keeps a time, and one that is erased does    *)
(* not run.                                                                   *)
EXTENDS Timer, FiniteSetTheorems, SequenceTheorems, TLAPS

(****************************************************************************)
(* The pool                                                                 *)
(****************************************************************************)

WorkerPlaces == {"none", "loop", "get", "asleep", "begin", "run", "finish", "ended"}
UserPlaces   == {"idle", "waiting", "timed", "woken", "timed woken", "joining"}

PoolTypes ==
  /\ tasks \in Seq(PoolTasks) /\ given \subseteq PoolTasks
  /\ wpc \in [Workers -> WorkerPlaces] /\ taken \in [Workers -> PoolTasks \cup {NoTask}]
  /\ upc \in [PoolUsers -> UserPlaces]
  /\ busy \in Int /\ poolEnd \in BOOLEAN

Running == {w \in Workers : wpc[w] = "run"}

\* _atomic counts the tasks that run.
BusyInv == busy = Cardinality(Running)

\* Until the pool is stopped its threads are there all together or not at all, and nobody
\* waits for their end.
AliveInv ==
  ~poolEnd =>
    /\ \A u \in PoolUsers : upc[u] # "joining"
    /\ \A w \in Workers : wpc[w] # "ended"
    /\ Started => \A w \in Workers : wpc[w] # "none"

\* Before there are threads no task is taken: who waits still has reason to.
EarlyWaitInv == ~poolEnd /\ ~Started /\ Waiting => tasks # <<>>

PoolInv == PoolTypes /\ BusyInv /\ AliveInv /\ EarlyWaitInv /\ NobodyForgotten

-----------------------------------------------------------------------------
(* The counter. *)

\* There are finitely many workers.
LEMMA RunningFinite == IsFiniteSet(Running)
BY FS_Subset, ThreadPoolAssumption DEF Running

\* A worker that begins to run is one more, one that has run is one less.
LEMMA OneMoreRuns ==
  ASSUME PoolTypes, BusyInv, NEW w \in Workers, Move(w, "begin", "run")
  PROVE  busy + 1 = Cardinality(Running')
<1>1. Running' = Running \cup {w} /\ w \notin Running
  BY DEF PoolTypes, Move, Running
<1>2. Cardinality(Running') = Cardinality(Running) + 1
  BY <1>1, RunningFinite, FS_AddElement
<1> QED
  BY <1>2 DEF BusyInv

\* _atomic still counts those that run when one of them has finished.
LEMMA OneLessRuns ==
  ASSUME PoolTypes, BusyInv, NEW w \in Workers, Move(w, "run", "finish")
  PROVE  busy - 1 = Cardinality(Running')
<1>1. Running' = Running \ {w} /\ w \in Running
  BY DEF PoolTypes, Move, Running
<1>2. Cardinality(Running') = Cardinality(Running) - 1
  BY <1>1, RunningFinite, FS_RemoveElement
<1> QED
  BY <1>2 DEF BusyInv

\* If it does not become zero, another worker runs.
LEMMA SomeoneRuns ==
  ASSUME BusyInv, busy # 0
  PROVE  \E w \in Workers : wpc[w] = "run"
<1>1. Running # {}
  BY FS_EmptySet DEF BusyInv
<1> QED
  BY <1>1 DEF Running

-----------------------------------------------------------------------------
(* Notifications. *)

\* Who is woken is a worker that looks at the queue or a user who looks at it; nobody else
\* moves.
LEMMA WokenFacts ==
  /\ DOMAIN Woken = {"waiting", "timed"}
  /\ Woken["waiting"] = "woken" /\ Woken["timed"] = "timed woken"
BY DEF Woken

\* A user that is woken was waiting.
LEMMA UsersWoken ==
  ASSUME PoolTypes, NEW U
  PROVE  /\ WakeUsers(U) \in [PoolUsers -> UserPlaces]
         /\ \A u \in PoolUsers : upc[u] # "joining" => WakeUsers(U)[u] # "joining"
         /\ \A u \in PoolUsers : WakeUsers(U)[u] \in DOMAIN Woken => upc[u] \in DOMAIN Woken
BY WokenFacts DEF PoolTypes, UserPlaces, WakeUsers

\* A worker that is woken was asleep.
LEMMA WorkersWoken ==
  ASSUME PoolTypes, NEW W
  PROVE  /\ WakeWorkers(W) \in [Workers -> WorkerPlaces]
         /\ \A w \in Workers : \/ WakeWorkers(W)[w] = wpc[w]
                               \/ wpc[w] = "asleep" /\ WakeWorkers(W)[w] = "get"
BY DEF PoolTypes, WorkerPlaces, WakeWorkers

\* Only those that wait are woken.
LEMMA Notified ==
  ASSUME PoolTypes, NotifyOne
  PROVE  /\ wpc' \in [Workers -> WorkerPlaces] /\ upc' \in [PoolUsers -> UserPlaces]
         /\ \A w \in Workers : wpc'[w] = wpc[w] \/ (wpc[w] = "asleep" /\ wpc'[w] = "get")
         /\ \A u \in PoolUsers : upc[u] # "joining" => upc'[u] # "joining"
         /\ Waiting' => Waiting
<1>1. CASE Sleepers = {} /\ UNCHANGED <<wpc, upc>>
  BY <1>1 DEF PoolTypes, Waiting
<1>2. ASSUME NEW s \in Sleepers, wpc' = WakeWorkers({s}), upc' = WakeUsers({s})
      PROVE  /\ wpc' \in [Workers -> WorkerPlaces] /\ upc' \in [PoolUsers -> UserPlaces]
             /\ \A w \in Workers : wpc'[w] = wpc[w] \/ (wpc[w] = "asleep" /\ wpc'[w] = "get")
             /\ \A u \in PoolUsers : upc[u] # "joining" => upc'[u] # "joining"
             /\ Waiting' => Waiting
  <2>1. /\ wpc' \in [Workers -> WorkerPlaces]
        /\ \A w \in Workers : wpc'[w] = wpc[w] \/ (wpc[w] = "asleep" /\ wpc'[w] = "get")
    BY <1>2, WorkersWoken
  <2>2. /\ upc' \in [PoolUsers -> UserPlaces]
        /\ \A u \in PoolUsers : upc[u] # "joining" => upc'[u] # "joining"
        /\ \A u \in PoolUsers : upc'[u] \in DOMAIN Woken => upc[u] \in DOMAIN Woken
    BY <1>2, UsersWoken
  <2> QED
    BY <2>1, <2>2 DEF Waiting, Woken
<1> QED
  BY <1>1, <1>2 DEF NotifyOne

\* Where no user waits it is a worker, if one sleeps.
LEMMA WorkerNotified ==
  ASSUME PoolTypes, NotifyOne, ~Waiting, NEW w \in Workers
  PROVE  \E v \in Workers : wpc'[v] # "asleep"
<1>1. CASE Sleepers = {} /\ UNCHANGED <<wpc, upc>>
  BY <1>1 DEF Sleepers
<1>2. ASSUME NEW s \in Sleepers, wpc' = WakeWorkers({s})
      PROVE  wpc'[s] = "get" /\ s \in Workers
  BY <1>2 DEF Sleepers, Waiting, WakeWorkers
<1> QED
  BY <1>1, <1>2 DEF NotifyOne

-----------------------------------------------------------------------------
(* Nobody is forgotten. *)

\* What users do to the pool, except to give it tasks.  Only Stop and Joined may leave nobody
\* awake, and the pool ends with the first of them.
LEMMA UserKeeps ==
  ASSUME PoolInv, NEW u \in PoolUsers, UserStep(u) \/ UserReturns(u), UNCHANGED given
  PROVE  PoolInv'
<1> USE DEF PoolInv, PoolTypes, WorkerPlaces, UserPlaces, BusyInv, AliveInv, EarlyWaitInv,
            NobodyForgotten, Running, Started, Waiting, Resting
<1>1. CASE Start(u)
  <2>1. Running' = Running
    BY <1>1 DEF Start
  <2>2. PoolTypes' /\ BusyInv' /\ AliveInv'
    BY <1>1, <2>1 DEF Start
  <2>3. \A w \in Workers : wpc[w] = "none" /\ wpc'[w] = "loop"
    BY <1>1 DEF Start
  <2>4. tasks' = tasks /\ poolEnd' = poolEnd /\ upc' = upc
    BY <1>1 DEF Start
  <2>5. EarlyWaitInv' /\ NobodyForgotten'
    BY <2>3, <2>4
  <2> QED
    BY <2>2, <2>5
<1>2. ASSUME NEW how \in {"waiting", "timed"}, WaitForAllDone(u, how)
      PROVE  PoolInv'
  <2>1. Running' = Running
    BY <1>2 DEF WaitForAllDone
  <2> QED
    BY <1>2, <2>1 DEF WaitForAllDone
<1>3. CASE WaitTimeout(u)
  <2>1. Waiting' => Waiting
    BY <1>3, WokenFacts DEF WaitTimeout
  <2> QED
    BY <1>3, <2>1 DEF WaitTimeout
<1>4. CASE Stop(u)
  <2>1. Running' = Running
    BY <1>4 DEF Stop, WakeWorkers
  <2>2. wpc' \in [Workers -> WorkerPlaces] /\ upc' \in [PoolUsers -> UserPlaces]
    BY <1>4, WorkersWoken, UsersWoken DEF Stop
  <2> QED
    BY <1>4, <2>1, <2>2 DEF Stop
<1>5. CASE WaitAgain(u)
  <2>1. PICK how \in {"waiting", "timed"} :
          /\ upc[u] = Woken[how]
          /\ upc' = [upc EXCEPT ![u] = IF tasks = <<>> THEN "idle" ELSE how]
    BY <1>5, WokenFacts DEF WaitAgain
  <2>2. Running' = Running /\ UNCHANGED <<tasks, wpc, taken, busy, poolEnd, given>>
    BY <1>5 DEF WaitAgain
  <2>3. PoolTypes' /\ BusyInv' /\ AliveInv'
    BY <2>1, <2>2
  <2>4. Waiting' => Waiting \/ tasks # <<>>
    BY <2>1, WokenFacts
  <2> QED
    BY <2>2, <2>3, <2>4
<1>6. CASE Joined(u)
  <2>1. poolEnd
    BY <1>6 DEF Joined
  <2>2. Running' = Running
    BY <1>6 DEF Joined
  <2> QED
    BY <1>6, <2>1, <2>2 DEF Joined
<1> QED
  BY <1>1, <1>2, <1>3, <1>4, <1>5, <1>6 DEF UserStep, UserReturns

\* The notification of exec() may go to a user; there is then a worker that has still to
\* finish a task, because that user waited on an empty queue, or one that is awake, because
\* the queue was not empty.
LEMMA GiveKeeps ==
  ASSUME PoolInv, NEW u \in PoolUsers, NEW t \in PoolTasks, Give(u, t)
  PROVE  PoolInv'
<1>1. /\ tasks' = Append(tasks, t) /\ NotifyOne /\ given' = given \cup {t}
      /\ UNCHANGED <<taken, busy, poolEnd>>
  BY DEF Give, Exec
<1>2. tasks' \in Seq(PoolTasks) /\ tasks' # <<>>
  BY <1>1 DEF PoolInv, PoolTypes
<1>3. /\ wpc' \in [Workers -> WorkerPlaces] /\ upc' \in [PoolUsers -> UserPlaces]
      /\ \A w \in Workers : wpc'[w] = wpc[w] \/ (wpc[w] = "asleep" /\ wpc'[w] = "get")
      /\ \A v \in PoolUsers : upc[v] # "joining" => upc'[v] # "joining"
  BY <1>1, Notified DEF PoolInv
<1>4. PoolTypes'
  BY <1>1, <1>2, <1>3 DEF PoolInv, PoolTypes
<1>5. BusyInv'
  <2>1. Running' = Running
    BY <1>3 DEF Running
  <2> QED
    BY <1>1, <2>1 DEF PoolInv, BusyInv
<1>6. AliveInv'
  BY <1>1, <1>3 DEF PoolInv, AliveInv, Started
<1>7. ASSUME Started', ~poolEnd
      PROVE  \E w \in Workers : wpc'[w] \notin Resting
  <2>1. Started
    BY <1>3, <1>7 DEF Started
  <2>2. CASE \E w \in Workers : wpc[w] \notin Resting
    BY <1>3, <2>2 DEF Resting
  <2>3. CASE tasks = <<>> /\ ~Waiting
    <3>1. PICK v \in Workers : wpc'[v] # "asleep"
      BY <1>1, <2>1, <2>3, WorkerNotified DEF PoolInv, Started
    <3>2. wpc'[v] # "none" /\ wpc'[v] # "ended"
      BY <1>3, <1>7, <2>1 DEF PoolInv, AliveInv
    <3> QED
      BY <3>1, <3>2 DEF Resting
  <2> QED
    BY <1>7, <2>1, <2>2, <2>3 DEF PoolInv, NobodyForgotten, Resting
<1> QED
  BY <1>1, <1>2, <1>4, <1>5, <1>6, <1>7 DEF PoolInv, EarlyWaitInv, NobodyForgotten

\* A worker that finishes without telling the others leaves tasks behind, for which it is
\* awake itself, or one that runs.
LEMMA FinishKeeps ==
  ASSUME PoolInv, NEW w \in Workers, FinishTask(w), UNCHANGED given
  PROVE  PoolInv'
<1> USE DEF PoolInv, PoolTypes, WorkerPlaces, BusyInv, AliveInv, EarlyWaitInv,
            NobodyForgotten, Running, Started, Waiting, Resting
<1>1. wpc[w] = "finish" /\ UNCHANGED <<tasks, taken, busy, poolEnd, given>>
  BY DEF FinishTask
<1>2. CASE AllDone
  <2>1. wpc' = [WakeWorkers(Workers) EXCEPT ![w] = "loop"] /\ upc' = WakeUsers(PoolUsers)
    BY <1>2 DEF FinishTask
  <2>2. /\ wpc' \in [Workers -> WorkerPlaces] /\ wpc'[w] = "loop"
        /\ \A v \in Workers \ {w} : wpc'[v] = wpc[v] \/ (wpc[v] = "asleep" /\ wpc'[v] = "get")
    BY <2>1, WorkersWoken
  <2>3. /\ upc' \in [PoolUsers -> UserPlaces]
        /\ \A u \in PoolUsers : upc[u] # "joining" => upc'[u] # "joining"
    BY <2>1, UsersWoken
  <2>4. ~Waiting'
    BY <2>1, WokenFacts DEF WakeUsers
  <2>5. Running' = Running
    BY <1>1, <2>2
  <2>6. PoolTypes' /\ BusyInv'
    BY <1>1, <2>2, <2>3, <2>5
  <2>7. AliveInv'
    BY <1>1, <2>2, <2>3
  <2> QED
    BY <1>1, <1>2, <2>4, <2>6, <2>7 DEF AllDone
<1>3. CASE ~AllDone
  <2>1. wpc' = [wpc EXCEPT ![w] = "loop"] /\ upc' = upc
    BY <1>3 DEF FinishTask, Move
  <2>2. Running' = Running
    BY <1>1, <2>1
  <2>3. PoolTypes' /\ BusyInv' /\ AliveInv'
    BY <1>1, <2>1, <2>2
  <2>4. EarlyWaitInv'
    BY <1>1, <2>1
  <2>5. CASE tasks # <<>>
    BY <1>1, <2>1, <2>3, <2>4, <2>5
  <2>6. CASE tasks = <<>>
    <3>1. PICK v \in Workers : wpc[v] = "run"
      BY <1>3, <2>6, SomeoneRuns DEF AllDone
    <3>2. wpc'[v] = "run"
      BY <1>1, <2>1, <3>1
    <3> QED
      BY <1>1, <2>3, <2>4, <2>6, <3>2
  <2> QED
    BY <2>5, <2>6
<1> QED
  BY <1>2, <1>3

\* The other steps of a worker.  One that goes to sleep has seen an empty queue, and is not
\* one of those who have a task to finish.
LEMMA WorkerKeeps ==
  ASSUME PoolInv, NEW w \in Workers, UNCHANGED given,
         \/ LookForEnd(w) \/ GetNothing(w) \/ Get(w) \/ BeginTask(w)
         \/ RunTask(w) \/ SpuriousWake(w)
  PROVE  PoolInv'
<1> USE DEF PoolInv, PoolTypes, WorkerPlaces, BusyInv, AliveInv, EarlyWaitInv,
            NobodyForgotten, Started, Waiting, Resting
<1>1. CASE LookForEnd(w)
  <2>1. Running' = Running
    BY <1>1 DEF LookForEnd, Move, Running
  <2> QED
    BY <1>1, <2>1 DEF LookForEnd, Move
<1>2. CASE GetNothing(w)
  <2>1. Running' = Running
    BY <1>2 DEF GetNothing, Move, Running
  <2> QED
    BY <1>2, <2>1 DEF GetNothing, Move
<1>3. CASE Get(w)
  <2>1. Running' = Running
    BY <1>3 DEF Get, Move, Running
  <2>2. Head(tasks) \in PoolTasks /\ Tail(tasks) \in Seq(PoolTasks)
    BY <1>3 DEF Get
  <2> QED
    BY <1>3, <2>1, <2>2 DEF Get, Move
<1>4. CASE BeginTask(w)
  <2>1. BusyInv'
    BY <1>4, OneMoreRuns DEF BeginTask
  <2> QED
    BY <1>4, <2>1 DEF BeginTask, Move
<1>5. CASE RunTask(w)
  <2>1. BusyInv'
    BY <1>5, OneLessRuns DEF RunTask, EndTask
  <2> QED
    BY <1>5, <2>1 DEF RunTask, EndTask, Move
<1>6. CASE SpuriousWake(w)
  <2>1. Running' = Running
    BY <1>6 DEF SpuriousWake, Move, Running
  <2> QED
    BY <1>6, <2>1 DEF SpuriousWake, Move
<1> QED
  BY <1>1, <1>2, <1>3, <1>4, <1>5, <1>6

\* Before start() nobody runs.
LEMMA PoolStarts == PoolInit /\ given = {} => PoolInv
<1> SUFFICES ASSUME PoolInit, given = {} PROVE PoolInv
  OBVIOUS
<1>1. PoolTypes
  <2>1. tasks \in Seq(PoolTasks)
    BY DEF PoolInit
  <2>2. wpc \in [Workers -> WorkerPlaces] /\ upc \in [PoolUsers -> UserPlaces]
    BY DEF PoolInit, WorkerPlaces, UserPlaces
  <2>3. taken \in [Workers -> PoolTasks \cup {NoTask}]
    BY DEF PoolInit
  <2>4. busy \in Int
    BY DEF PoolInit
  <2>5. poolEnd \in BOOLEAN
    BY Zenon DEF PoolInit
  <2>6. given \subseteq PoolTasks
    OBVIOUS
  <2> QED
    BY <2>1, <2>2, <2>3, <2>4, <2>5, <2>6 DEF PoolTypes
<1>2. BusyInv
  <2>1. Running = {}
    BY DEF PoolInit, Running
  <2> QED
    BY <2>1, FS_EmptySet DEF PoolInit, BusyInv
<1>3. AliveInv /\ EarlyWaitInv /\ NobodyForgotten
  BY WokenFacts DEF PoolInit, AliveInv, EarlyWaitInv, NobodyForgotten, Started, Waiting
<1> QED
  BY <1>1, <1>2, <1>3 DEF PoolInv

\* The invariant is inductive.
LEMMA PoolKeeps == PoolInv /\ [PoolNext]_<<poolVars, given>> => PoolInv'
<1> SUFFICES ASSUME PoolInv, [PoolNext]_<<poolVars, given>> PROVE PoolInv'
  OBVIOUS
<1>1. ASSUME NEW w \in Workers, WorkerStep(w) \/ RunTask(w) \/ SpuriousWake(w), UNCHANGED given
      PROVE  PoolInv'
  BY <1>1, WorkerKeeps, FinishKeeps DEF WorkerStep
<1>2. ASSUME NEW u \in PoolUsers, UserStep(u) \/ UserReturns(u), UNCHANGED given
      PROVE  PoolInv'
  BY <1>2, UserKeeps
<1>3. ASSUME NEW u \in PoolUsers, NEW t \in PoolTasks, Give(u, t)
      PROVE  PoolInv'
  BY <1>3, GiveKeeps
<1>4. CASE UNCHANGED <<poolVars, given>>
  BY <1>4 DEF poolVars, PoolInv, PoolTypes, BusyInv, AliveInv, EarlyWaitInv, NobodyForgotten,
              Running, Started, Waiting
<1> QED
  BY <1>1, <1>2, <1>3, <1>4 DEF PoolNext

\* Whatever the number of workers, users and tasks, a notification that goes to the wrong
\* thread loses nothing: in a started pool that has not been stopped, exec() leaves a worker
\* awake and waitForAllDone() is told (TC_ThreadPool::exec, get, run, waitForAllDone).
THEOREM PoolForgetsNobody == PoolSpec => []NobodyForgotten
<1>1. PoolInv => NobodyForgotten
  BY DEF PoolInv
<1> QED
  BY <1>1, PoolStarts, PoolKeeps, PTL DEF PoolSpec

(****************************************************************************)
(* The timer                                                                *)
(****************************************************************************)

(* The inductive invariant: events run or are erased once, the set the loop   *)
(* takes is one whose time has come, and it takes none before it is through   *)
(* with the last.                                                             *)

TimerInv ==
  /\ tasks \in Seq(PoolTasks)
  /\ mapEvent \subseteq Events /\ erased \subseteq Events /\ mapEvent \cap erased = {}
  /\ mapTimer \in Seq(SUBSET Events) /\ due \in 0 .. Len(mapTimer)
  /\ loop # "fire" => firing = {}

\* An event is in one place at a time, if it has been posted at all: it waits for its time, or
\* the loop has found it, or it is one task in the queue, or one worker has it.
Queued(e) == \E i \in 1 .. Len(tasks) : tasks[i] = e
Has(w, e) == taken[w] = e

PlaceInv ==
  /\ taken \in [Workers -> PoolTasks \cup {NoTask}] /\ posts \in [Events -> Nat]
  /\ func \in Events \cup {NoTask} /\ func \notin mapEvent \cup erased
  /\ \A i, j \in 1 .. Len(tasks) : tasks[i] \in Events /\ tasks[i] = tasks[j] => i = j
  /\ \A v, w \in Workers : taken[v] \in Events /\ taken[v] = taken[w] => v = w
  /\ \A e \in Events, w \in Workers : ~ (Queued(e) /\ Has(w, e))
  /\ \A e \in Events : Queued(e) \/ (\E w \in Workers : Has(w, e)) => e \notin mapEvent /\ func # e
  /\ \A e \in Events : posts[e] = 0 =>
       e \notin mapEvent /\ func # e /\ ~ Queued(e) /\ \A w \in Workers : ~ Has(w, e)

\* The event has a time.
Timed(q, e) == \E k \in 1 .. Len(q) : e \in q[k]

TimerKept == TimerInv /\ EventsKept

-----------------------------------------------------------------------------
(* Sequences of sets of events. *)

\* A set more: every event keeps its time.
LEMMA Inserted ==
  ASSUME NEW T, NEW q \in Seq(T), NEW S \in T, NEW k \in 1 .. Len(q) + 1
  PROVE  /\ InsertBefore(q, k, S) \in Seq(T) /\ Len(InsertBefore(q, k, S)) = Len(q) + 1
         /\ \A e : Timed(q, e) \/ e \in S => Timed(InsertBefore(q, k, S), e)
<1> DEFINE l == SubSeq(q, 1, k - 1)
           r == SubSeq(q, k, Len(q))
           p == l \o <<S>> \o r
<1>1. /\ l \in Seq(T) /\ Len(l) = k - 1 /\ \A i \in 1 .. k - 1 : l[i] = q[i]
      /\ r \in Seq(T) /\ Len(r) = Len(q) - k + 1 /\ \A i \in 1 .. Len(q) - k + 1 : r[i] = q[k + i - 1]
  OBVIOUS
<1> HIDE DEF l, r
<1> DEFINE m == l \o <<S>>
<1>2. /\ m \in Seq(T) /\ Len(m) = k
      /\ \A i \in 1 .. k - 1 : m[i] = q[i]
      /\ m[k] = S
  <2>1. <<S>> \in Seq(T) /\ Len(<<S>>) = 1 /\ <<S>>[1] = S
    OBVIOUS
  <2>2. /\ m \in Seq(T) /\ Len(m) = Len(l) + Len(<<S>>)
        /\ \A i \in 1 .. Len(l) + Len(<<S>>) :
             m[i] = IF i <= Len(l) THEN l[i] ELSE <<S>>[i - Len(l)]
    BY <1>1, <2>1, ConcatProperties
  <2> HIDE DEF m
  <2> QED
    BY <1>1, <2>1, <2>2
<1> HIDE DEF m
<1>3. /\ p \in Seq(T) /\ Len(p) = Len(q) + 1
      /\ \A i \in 1 .. k - 1 : p[i] = q[i]
      /\ p[k] = S
      /\ \A i \in k .. Len(q) : p[i + 1] = q[i]
  <2>0. p = m \o r
    BY DEF m
  <2> HIDE DEF p
  <2>1. /\ p \in Seq(T) /\ Len(p) = Len(m) + Len(r)
        /\ \A i \in 1 .. Len(m) + Len(r) : p[i] = IF i <= Len(m) THEN m[i] ELSE r[i - Len(m)]
    <3>1. m \in Seq(T) /\ r \in Seq(T)
      BY <1>1, <1>2
    <3> QED
      BY <2>0, <3>1, ConcatProperties
  <2>2. ASSUME NEW i \in k .. Len(q)
        PROVE  p[i + 1] = q[i]
    <3> DEFINE j == i + 1 - k
    <3>1. /\ i + 1 \in 1 .. Len(m) + Len(r) /\ ~ (i + 1 <= Len(m)) /\ (i + 1) - Len(m) = j
          /\ j \in 1 .. Len(q) - k + 1 /\ k + j - 1 = i
      BY <1>1, <1>2
    <3>2. p[i + 1] = r[j] /\ r[j] = q[k + j - 1]
      BY <1>1, <2>1, <3>1
    <3> QED
      BY <3>1, <3>2
  <2>3. (\A i \in 1 .. k - 1 : p[i] = q[i]) /\ p[k] = S
    BY <1>1, <1>2, <2>1
  <2>4. Len(p) = Len(q) + 1
    BY <1>1, <1>2, <2>1
  <2> QED
    BY <2>1, <2>2, <2>3, <2>4
<1> HIDE DEF p
<1>4. ASSUME NEW e, Timed(q, e) \/ e \in S
      PROVE  Timed(p, e)
  <2>1. CASE e \in S
    BY <1>3, <2>1 DEF Timed
  <2>2. ASSUME NEW i \in 1 .. Len(q), e \in q[i]
        PROVE  Timed(p, e)
    <3>1. CASE i < k
      BY <1>3, <2>2, <3>1 DEF Timed
    <3>2. CASE ~ i < k
      <4>1. p[i + 1] = q[i] /\ i + 1 \in 1 .. Len(p)
        BY <1>3, <3>2
      <4> QED
        BY <2>2, <4>1 DEF Timed
    <3> QED
      BY <3>1, <3>2
  <2> QED
    BY <1>4, <2>1, <2>2 DEF Timed
<1>5. InsertBefore(q, k, S) = p
  BY DEF InsertBefore, p, l, r
<1> QED
  BY <1>3, <1>4, <1>5

\* A set less: the events that are not in it keep their times.
LEMMA Removed ==
  ASSUME NEW T, NEW q \in Seq(T), NEW k \in 1 .. Len(q)
  PROVE  /\ Without(q, k) \in Seq(T) /\ Len(Without(q, k)) = Len(q) - 1
         /\ \A e : Timed(q, e) /\ e \notin q[k] => Timed(Without(q, k), e)
<1> DEFINE l == SubSeq(q, 1, k - 1)
           r == SubSeq(q, k + 1, Len(q))
           p == l \o r
<1>1. /\ l \in Seq(T) /\ Len(l) = k - 1 /\ \A i \in 1 .. k - 1 : l[i] = q[i]
      /\ r \in Seq(T) /\ Len(r) = Len(q) - k /\ \A i \in 1 .. Len(q) - k : r[i] = q[k + 1 + i - 1]
  OBVIOUS
<1> HIDE DEF l, r
<1>2. /\ p \in Seq(T) /\ Len(p) = Len(l) + Len(r)
      /\ \A i \in 1 .. Len(l) + Len(r) : p[i] = IF i <= Len(l) THEN l[i] ELSE r[i - Len(l)]
  BY <1>1, ConcatProperties
<1> HIDE DEF p
<1>3. Len(p) = Len(q) - 1
  BY <1>1, <1>2
<1>4. ASSUME NEW e, NEW i \in 1 .. Len(q), e \in q[i], e \notin q[k]
      PROVE  Timed(p, e)
  <2>1. CASE i < k
    <3>1. i \in 1 .. Len(p) /\ p[i] = q[i]
      BY <1>1, <1>2, <2>1
    <3> QED
      BY <1>4, <3>1 DEF Timed
  <2>2. CASE i > k
    <3> DEFINE j == i - k
    <3>1. /\ i - 1 \in 1 .. Len(l) + Len(r) /\ ~ (i - 1 <= Len(l)) /\ (i - 1) - Len(l) = j
          /\ j \in 1 .. Len(q) - k /\ k + 1 + j - 1 = i
      BY <1>1, <1>2, <2>2
    <3>2. p[i - 1] = r[j] /\ r[j] = q[k + 1 + j - 1]
      BY <1>1, <1>2, <3>1
    <3>3. p[i - 1] = q[i] /\ i - 1 \in 1 .. Len(p)
      BY <1>2, <3>1, <3>2
    <3> QED
      BY <1>4, <3>3 DEF Timed
  <2> QED
    BY <1>4, <2>1, <2>2
<1>5. Without(q, k) = p
  BY DEF Without, p, l, r
<1> QED
  BY <1>2, <1>3, <1>4, <1>5 DEF Timed

-----------------------------------------------------------------------------
(* The steps. *)

\* Posting an event gives it a time and takes no other's.
LEMMA PostKeeps ==
  ASSUME TimerKept, NEW e \in Events, Post(e), UNCHANGED firing
  PROVE  /\ mapEvent' \subseteq Events /\ erased' \subseteq Events /\ mapEvent' \cap erased' = {}
         /\ mapTimer' \in Seq(SUBSET Events) /\ due' \in 0 .. Len(mapTimer')
         /\ EventsKept'
<1>1. /\ mapEvent' = mapEvent \cup {e} /\ erased' = erased \ {e}
      /\ mapTimer \in Seq(SUBSET Events) /\ due \in 0 .. Len(mapTimer)
      /\ \A x \in mapEvent : x \in firing \/ Timed(mapTimer, x)
  BY DEF Post, TimerKept, TimerInv, EventsKept, Timed
<1>2. mapEvent' \subseteq Events /\ erased' \subseteq Events /\ mapEvent' \cap erased' = {}
  BY <1>1 DEF TimerKept, TimerInv
<1>3. SUFFICES /\ mapTimer' \in Seq(SUBSET Events) /\ due' \in 0 .. Len(mapTimer')
               /\ \A x : Timed(mapTimer, x) \/ x = e => Timed(mapTimer', x)
  BY <1>1, <1>2 DEF EventsKept, Timed
<1>4. ASSUME NEW k \in 1 .. Len(mapTimer) + 1, mapTimer' = InsertBefore(mapTimer, k, {e}),
             due' = due + (IF k <= due THEN 1 ELSE 0)
      PROVE  /\ mapTimer' \in Seq(SUBSET Events) /\ due' \in 0 .. Len(mapTimer')
             /\ \A x : Timed(mapTimer, x) \/ x = e => Timed(mapTimer', x)
  <2>1. {e} \in SUBSET Events
    OBVIOUS
  <2>2. /\ mapTimer' \in Seq(SUBSET Events) /\ Len(mapTimer') = Len(mapTimer) + 1
        /\ \A x : Timed(mapTimer, x) \/ x \in {e} => Timed(mapTimer', x)
    BY <1>1, <1>4, <2>1, Inserted
  <2>3. due' \in 0 .. Len(mapTimer')
    BY <1>1, <1>4, <2>2
  <2> QED
    BY <2>2, <2>3
<1>5. ASSUME NEW k \in 1 .. Len(mapTimer), mapTimer' = [mapTimer EXCEPT ![k] = @ \cup {e}],
             due' = due
      PROVE  /\ mapTimer' \in Seq(SUBSET Events) /\ due' \in 0 .. Len(mapTimer')
             /\ \A x : Timed(mapTimer, x) \/ x = e => Timed(mapTimer', x)
  <2>1. /\ mapTimer[k] \cup {e} \in SUBSET Events
        /\ mapTimer' \in Seq(SUBSET Events) /\ Len(mapTimer') = Len(mapTimer)
        /\ mapTimer'[k] = mapTimer[k] \cup {e}
        /\ \A i \in 1 .. Len(mapTimer) : i # k => mapTimer'[i] = mapTimer[i]
    BY <1>1, <1>5
  <2> QED
    BY <1>1, <1>5, <2>1 DEF Timed
<1> QED
  BY <1>4, <1>5 DEF Post

\* The same for the invariant of the timer.
LEMMA StepKept ==
  ASSUME TimerKept, PlaceInv, [TimerNext]_allVars
  PROVE  TimerKept'
<1> USE DEF TimerKept
<1>i. TimerInv /\ EventsKept
  OBVIOUS
<1>1. CASE UNCHANGED allVars
  BY <1>1 DEF allVars, timerVars, poolVars, TimerInv, EventsKept
<1>2. CASE Look
  <2>1. CASE due > 0
    <3>1. mapTimer # << >> /\ mapTimer \in Seq(SUBSET Events) /\ due \in 1 .. Len(mapTimer)
      BY <2>1 DEF TimerInv
    <3>2. /\ firing = {} /\ firing' = Head(mapTimer) /\ mapTimer' = Tail(mapTimer) /\ due' = due - 1
          /\ loop' = "fire" /\ UNCHANGED <<tasks, mapEvent, erased>>
      BY <1>2, <2>1 DEF Look, TimerInv, poolVars
    <3>3. /\ mapTimer' \in Seq(SUBSET Events) /\ Len(mapTimer') = Len(mapTimer) - 1
          /\ Head(mapTimer) = mapTimer[1]
          /\ \A k \in 2 .. Len(mapTimer) : k - 1 \in 1 .. Len(mapTimer') /\ mapTimer'[k - 1] = mapTimer[k]
      BY <3>1, <3>2
    <3>4. ASSUME NEW e \in mapEvent'
          PROVE  e \in firing' \/ \E k \in 1 .. Len(mapTimer') : e \in mapTimer'[k]
      <4>1. PICK k \in 1 .. Len(mapTimer) : e \in mapTimer[k]
        BY <3>2 DEF EventsKept
      <4>2. CASE k = 1
        BY <3>2, <3>3, <4>1, <4>2
      <4>3. CASE k \in 2 .. Len(mapTimer)
        BY <3>3, <4>1, <4>3
      <4> QED
        BY <3>1, <4>2, <4>3
    <3>5. due' \in 0 .. Len(mapTimer')
      BY <3>1, <3>2, <3>3
    <3> QED
      BY <3>2, <3>3, <3>4, <3>5 DEF TimerInv, EventsKept
  <2>2. CASE ~ due > 0
    BY <1>2, <2>2 DEF Look, TimerInv, EventsKept, poolVars
  <2> QED
    BY <2>1, <2>2
<1>3. CASE LoopWaitEnds \/ Fired
  BY <1>3 DEF LoopWaitEnds, Fired, TimerInv, EventsKept, poolVars
<1>4. ASSUME NEW e \in Events, FindEvent(e)
      PROVE  TimerKept'
  BY <1>4 DEF FindEvent, TimerInv, EventsKept, poolVars
<1>15. CASE FireEvent
  <2>1. tasks' = Append(tasks, func) /\ func \in PoolTasks
    BY <1>15 DEF FireEvent, Exec, PlaceInv, Events
  <2>2. tasks' \in Seq(PoolTasks)
    BY <2>1 DEF TimerInv
  <2> QED
    BY <1>15, <2>2 DEF FireEvent, TimerInv, EventsKept
<1>5. CASE TimePasses
  <2>1. due' \in 0 .. Len(mapTimer')
    BY <1>5 DEF TimePasses, TimerInv
  <2> QED
    BY <1>5, <2>1 DEF TimePasses, TimerInv, EventsKept, poolVars
<1>6. ASSUME NEW w \in Workers, WorkerStep(w), UNCHANGED timerVars
      PROVE  TimerKept'
  <2>1. tasks' = tasks \/ (tasks # << >> /\ tasks' = Tail(tasks))
    BY <1>6 DEF WorkerStep, LookForEnd, GetNothing, Get, BeginTask, FinishTask
  <2>2. tasks' \in Seq(PoolTasks)
    BY <2>1 DEF TimerInv
  <2> QED
    BY <1>6, <2>2 DEF timerVars, TimerInv, EventsKept
<1>7. ASSUME NEW w \in Workers, EndEvent(w)
      PROVE  TimerKept'
  <2>1. UNCHANGED <<tasks, firing>> /\ taken[w] \in Events
    BY <1>7 DEF EndEvent
  <2>2. CASE taken[w] \in Repeated /\ posts[taken[w]] < MaxPosts
    <3>1. Post(taken[w]) /\ loop' \in {loop, "look"} /\ (loop' = "fire" => loop = "fire")
          /\ (loop = "fire" => loop' = "fire")
      BY <1>7, <2>2 DEF EndEvent, LoopWakened
    <3>2. /\ mapEvent' \subseteq Events /\ erased' \subseteq Events /\ mapEvent' \cap erased' = {}
          /\ mapTimer' \in Seq(SUBSET Events) /\ due' \in 0 .. Len(mapTimer')
          /\ EventsKept'
      BY <2>1, <3>1, PostKeeps
    <3> QED
      BY <2>1, <3>1, <3>2 DEF TimerInv
  <2>3. CASE ~ (taken[w] \in Repeated /\ posts[taken[w]] < MaxPosts)
    BY <1>7, <2>1, <2>3 DEF EndEvent, TimerInv, EventsKept
  <2> QED
    BY <2>2, <2>3
<1>8. ASSUME NEW w \in Workers, EndLoop(w)
      PROVE  TimerKept'
  BY <1>8 DEF EndLoop, TimerInv, EventsKept
<1>9. ASSUME NEW u \in PoolUsers, StartTimer(u)
      PROVE  TimerKept'
  <2>1. tasks' \in Seq(PoolTasks)
    BY <1>9, TimerAssumption DEF StartTimer, TimerInv
  <2> QED
    BY <1>9, <2>1 DEF StartTimer, TimerInv, EventsKept
<1>10. ASSUME NEW u \in PoolUsers, NotifyStop(u)
       PROVE  TimerKept'
  <2>1. loop' # "fire" => loop # "fire"
    BY <1>10 DEF NotifyStop, LoopWakened
  <2> QED
    BY <1>10, <2>1 DEF NotifyStop, TimerInv, EventsKept
<1>11. ASSUME NEW u \in PoolUsers, NEW e \in Events, PostEvent(u, e)
       PROVE  TimerKept'
  <2>1. Post(e) /\ UNCHANGED <<tasks, firing>> /\ (loop' # "fire" => loop # "fire")
    BY <1>11 DEF PostEvent, LoopWakened, poolVars
  <2>2. /\ mapEvent' \subseteq Events /\ erased' \subseteq Events /\ mapEvent' \cap erased' = {}
        /\ mapTimer' \in Seq(SUBSET Events) /\ due' \in 0 .. Len(mapTimer')
        /\ EventsKept'
    BY <2>1, PostKeeps
  <2> QED
    BY <2>1, <2>2 DEF TimerInv
<1>12. ASSUME NEW u \in PoolUsers, NEW e \in Events, Erase(u, e)
       PROVE  TimerKept'
  <2>1. /\ e \in mapEvent /\ mapEvent' = mapEvent \ {e} /\ erased' = erased \cup {e}
        /\ UNCHANGED <<tasks, loop, firing>>
    BY <1>12 DEF Erase, poolVars
  <2>2. SUFFICES /\ mapTimer' \in Seq(SUBSET Events) /\ due' \in 0 .. Len(mapTimer')
                 /\ \A x : Timed(mapTimer, x) /\ x # e => Timed(mapTimer', x)
    BY <2>1, <2>2 DEF TimerInv, EventsKept, Timed
  <2>3. mapTimer \in Seq(SUBSET Events) /\ due \in 0 .. Len(mapTimer)
    BY DEF TimerInv
  <2>4. ASSUME NEW k \in 1 .. Len(mapTimer), Emptied(k, e), mapTimer' = Without(mapTimer, k),
               due' = due - (IF k <= due THEN 1 ELSE 0)
        PROVE  /\ mapTimer' \in Seq(SUBSET Events) /\ due' \in 0 .. Len(mapTimer')
               /\ \A x : Timed(mapTimer, x) /\ x # e => Timed(mapTimer', x)
    <3>1. /\ mapTimer' \in Seq(SUBSET Events) /\ Len(mapTimer') = Len(mapTimer) - 1
          /\ \A x : Timed(mapTimer, x) /\ x \notin mapTimer[k] => Timed(mapTimer', x)
      BY <2>3, <2>4, Removed
    <3>2. due' \in 0 .. Len(mapTimer')
      BY <2>3, <2>4, <3>1
    <3> QED
      BY <2>4, <3>1, <3>2 DEF Emptied
  <2>5. ASSUME mapTimer' = [k \in 1 .. Len(mapTimer) |-> mapTimer[k] \ {e}], due' = due
        PROVE  /\ mapTimer' \in Seq(SUBSET Events) /\ due' \in 0 .. Len(mapTimer')
               /\ \A x : Timed(mapTimer, x) /\ x # e => Timed(mapTimer', x)
    <3>1. \A k \in 1 .. Len(mapTimer) : mapTimer[k] \ {e} \in SUBSET Events
      BY <2>3
    <3>2. mapTimer' \in Seq(SUBSET Events) /\ Len(mapTimer') = Len(mapTimer)
      BY <2>3, <2>5, <3>1
    <3> QED
      BY <2>3, <2>5, <3>2 DEF Timed
  <2> QED
    BY <1>12, <2>4, <2>5 DEF Erase
<1>13. ASSUME NEW u \in PoolUsers, UserReturns(u), UNCHANGED timerVars
       PROVE  TimerKept'
  BY <1>13 DEF UserReturns, WaitAgain, Joined, timerVars, TimerInv, EventsKept
<1>14. ASSUME NEW u \in PoolUsers, StopTimer(u)
       PROVE  TimerKept'
  BY <1>14 DEF StopTimer, LookForStop, SetTerminate, StopPool, timerVars, TimerInv, EventsKept
<1> QED
  BY <1>1, <1>2, <1>3, <1>4, <1>5, <1>6, <1>7, <1>8, <1>9, <1>10, <1>11, <1>12, <1>13, <1>14, <1>15
     DEF TimerNext, LoopStep, TimerWorker, TimerUser, TimerReturns

\* What is in its place stays in one: an event is taken out where it was before it is put
\* elsewhere, and posted only when it is nowhere.
LEMMA PlaceKept ==
  ASSUME TimerKept, PlaceInv, [TimerNext]_allVars
  PROVE  PlaceInv'
<1> USE DEF Queued, Has
<1>0. /\ tasks \in Seq(PoolTasks) /\ mapEvent \subseteq Events /\ erased \subseteq Events
      /\ NoTask \notin Events
  BY ThreadPoolAssumption DEF TimerKept, TimerInv, Events
<1> DEFINE Still == UNCHANGED <<mapEvent, func, posts, erased, tasks, taken>>
<1>1. Still => PlaceInv'
  BY DEF PlaceInv
<1>2. CASE UNCHANGED allVars \/ Look \/ LoopWaitEnds \/ Fired \/ TimePasses
  <2>1. Still
    BY <1>2 DEF allVars, timerVars, poolVars, Look, LoopWaitEnds, Fired, TimePasses
  <2> QED
    BY <1>1, <2>1
<1>3. ASSUME NEW u \in PoolUsers, NotifyStop(u) \/ TimerReturns(u)
      PROVE  PlaceInv'
  <2>1. Still
    BY <1>3 DEF NotifyStop, TimerReturns, UserReturns, WaitAgain, Joined, StopTimer, LookForStop,
                SetTerminate, StopPool, timerVars
  <2> QED
    BY <1>1, <2>1
<1>4. ASSUME NEW w \in Workers, WorkerStep(w), UNCHANGED timerVars
      PROVE  PlaceInv'
  <2>1. CASE Get(w)
    <3>1. /\ tasks # << >> /\ tasks' = Tail(tasks) /\ taken' = [taken EXCEPT ![w] = Head(tasks)]
          /\ UNCHANGED <<mapEvent, func, posts, erased>>
      BY <1>4, <2>1 DEF Get, timerVars
    <3>2. /\ Head(tasks) = tasks[1] /\ 1 \in 1 .. Len(tasks) /\ Head(tasks) \in PoolTasks
          /\ \A i \in 1 .. Len(tasks') : i + 1 \in 2 .. Len(tasks) /\ tasks'[i] = tasks[i + 1]
      BY <1>0, <3>1
    <3>3. \A i, j \in 1 .. Len(tasks') : tasks'[i] \in Events /\ tasks'[i] = tasks'[j] => i = j
      BY <1>0, <3>1, <3>2 DEF PlaceInv
    <3>4. \A e \in Events : Queued(e)' => Queued(e) /\ e # Head(tasks)
      <4> SUFFICES ASSUME NEW e \in Events, NEW i \in 1 .. Len(tasks'), tasks'[i] = e
                   PROVE  Queued(e) /\ e # Head(tasks)
        OBVIOUS
      <4>1. i + 1 \in 2 .. Len(tasks) /\ tasks[i + 1] = e
        BY <3>2
      <4> QED
        BY <3>2, <4>1 DEF PlaceInv
    <3>5. \A e \in Events, v \in Workers : Has(v, e)' => Has(v, e) \/ (v = w /\ e = Head(tasks))
      BY <3>1 DEF PlaceInv
    <3>6. Queued(Head(tasks))
      BY <3>2
    <3>7. taken' \in [Workers -> PoolTasks \cup {NoTask}]
      BY <3>1, <3>2 DEF PlaceInv
    <3>8. \A v, x \in Workers : taken'[v] \in Events /\ taken'[v] = taken'[x] => v = x
      BY <3>1, <3>6 DEF PlaceInv
    <3>9. \A e \in Events, v \in Workers : ~ (Queued(e)' /\ Has(v, e)')
      BY <3>4, <3>5 DEF PlaceInv
    <3>10. /\ \A e \in Events : Queued(e)' \/ (\E v \in Workers : Has(v, e)') =>
                Queued(e) \/ \E v \in Workers : Has(v, e)
      BY <3>4, <3>5, <3>6
    <3> HIDE DEF Queued, Has
    <3> QED
      BY <3>1, <3>3, <3>7, <3>8, <3>9, <3>10 DEF PlaceInv
  <2>2. CASE ~ Get(w)
    <3>1. Still
      BY <1>4, <2>2 DEF WorkerStep, LookForEnd, GetNothing, BeginTask, FinishTask, timerVars
    <3> QED
      BY <1>1, <3>1
  <2> QED
    BY <2>1, <2>2
<1>5. ASSUME NEW w \in Workers, taken' = [taken EXCEPT ![w] = NoTask],
             UNCHANGED <<mapEvent, func, posts, erased, tasks>>
      PROVE  PlaceInv'
  <2>1. \A v \in Workers : taken'[v] = taken[v] \/ taken'[v] = NoTask
    BY <1>5 DEF PlaceInv
  <2>2. taken' \in [Workers -> PoolTasks \cup {NoTask}]
    BY <1>5 DEF PlaceInv
  <2> QED
    BY <1>0, <1>5, <2>1, <2>2 DEF PlaceInv
<1>6. ASSUME NEW w \in Workers, EndLoop(w)
      PROVE  PlaceInv'
  BY <1>5, <1>6 DEF EndLoop, EndTask
<1>7. ASSUME NEW e \in Events, Post(e), UNCHANGED <<func, tasks>>, func # e, ~ Queued(e),
             \A v \in Workers : taken'[v] # e /\ (taken'[v] = taken[v] \/ taken'[v] = NoTask),
             taken' \in [Workers -> PoolTasks \cup {NoTask}]
      PROVE  PlaceInv'
  <2>1. /\ mapEvent' = mapEvent \cup {e} /\ erased' = erased \ {e}
        /\ posts' = [posts EXCEPT ![e] = @ + 1]
    BY <1>7 DEF Post
  <2>2. posts' \in [Events -> Nat] /\ posts'[e] # 0 /\ \A x \in Events \ {e} : posts'[x] = posts[x]
    BY <2>1 DEF PlaceInv
  <2>3. \A v \in Workers, x \in Events : Has(v, x)' => Has(v, x) /\ x # e
    BY <1>0, <1>7
  <2>4. \A v, x \in Workers : taken'[v] \in Events /\ taken'[v] = taken'[x] => v = x
    BY <2>3 DEF PlaceInv
  <2>5. \A x \in Events : Queued(x)' => Queued(x) /\ x # e
    BY <1>7
  <2> HIDE DEF Queued, Has
  <2> QED
    BY <1>7, <2>1, <2>2, <2>3, <2>4, <2>5 DEF PlaceInv
<1>8. ASSUME NEW w \in Workers, EndEvent(w)
      PROVE  PlaceInv'
  <2>1. taken[w] \in Events /\ taken' = [taken EXCEPT ![w] = NoTask] /\ UNCHANGED <<func, tasks>>
    BY <1>8 DEF EndEvent, EndTask
  <2>2. CASE taken[w] \in Repeated /\ posts[taken[w]] < MaxPosts
    <3>1. Post(taken[w])
      BY <1>8, <2>2 DEF EndEvent
    <3>2. func # taken[w] /\ ~ Queued(taken[w])
      BY <2>1 DEF PlaceInv
    <3>3. /\ taken' \in [Workers -> PoolTasks \cup {NoTask}]
          /\ \A v \in Workers : taken'[v] # taken[w] /\ (taken'[v] = taken[v] \/ taken'[v] = NoTask)
      BY <1>0, <2>1 DEF PlaceInv
    <3> QED
      BY <1>7, <2>1, <3>1, <3>2, <3>3
  <2>3. CASE ~ (taken[w] \in Repeated /\ posts[taken[w]] < MaxPosts)
    BY <1>5, <1>8, <2>1, <2>3 DEF EndEvent
  <2> QED
    BY <2>2, <2>3
<1>9. ASSUME NEW u \in PoolUsers, NEW e \in Events, PostEvent(u, e)
      PROVE  PlaceInv'
  <2>1. Post(e) /\ posts[e] = 0 /\ UNCHANGED <<func, tasks, taken>>
    BY <1>9 DEF PostEvent, poolVars
  <2>2. /\ func # e /\ ~ Queued(e) /\ \A v \in Workers : taken[v] # e
        /\ taken \in [Workers -> PoolTasks \cup {NoTask}]
    BY <2>1 DEF PlaceInv
  <2> QED
    BY <1>7, <2>1, <2>2
<1>10. ASSUME NEW u \in PoolUsers, NEW e \in Events, Erase(u, e)
       PROVE  PlaceInv'
  <2>1. /\ e \in mapEvent /\ mapEvent' = mapEvent \ {e} /\ erased' = erased \cup {e}
        /\ UNCHANGED <<func, posts, tasks, taken>>
    BY <1>10 DEF Erase, poolVars
  <2> QED
    BY <2>1 DEF PlaceInv
<1>11. ASSUME NEW e \in Events, FindEvent(e)
       PROVE  PlaceInv'
  <2>1. /\ mapEvent' = mapEvent \ {e} /\ func' \in {e, NoTask} /\ (func' = e => e \in mapEvent)
        /\ UNCHANGED <<erased, posts, tasks, taken>>
    BY <1>0, <1>11 DEF FindEvent, Found, poolVars
  <2>2. mapEvent \cap erased = {}
    BY DEF TimerKept, TimerInv
  <2> QED
    BY <1>0, <2>1, <2>2 DEF PlaceInv
<1>12. ASSUME NEW t \in PoolTasks, tasks' = Append(tasks, t), t \in Events => t = func,
              func' = NoTask, UNCHANGED <<mapEvent, erased, posts, taken>>
       PROVE  PlaceInv'
  <2>1. \A i \in 1 .. Len(tasks') : \/ i \in 1 .. Len(tasks) /\ tasks'[i] = tasks[i]
                                    \/ i = Len(tasks) + 1 /\ tasks'[i] = t
    BY <1>0, <1>12
  <2>2. \A x \in Events : Queued(x)' => Queued(x) \/ x = func
    BY <1>12, <2>1
  <2>3. t \in Events => ~ Queued(t) /\ \A w \in Workers : ~ Has(w, t)
    BY <1>12 DEF PlaceInv
  <2>4. \A i, j \in 1 .. Len(tasks') : tasks'[i] \in Events /\ tasks'[i] = tasks'[j] => i = j
    BY <2>1, <2>3 DEF PlaceInv
  <2> HIDE DEF Queued
  <2> QED
    BY <1>0, <1>12, <2>2, <2>3, <2>4 DEF PlaceInv
<1>13. CASE FireEvent
  <2>1. /\ func # NoTask /\ tasks' = Append(tasks, func) /\ func' = NoTask
        /\ UNCHANGED <<mapEvent, erased, posts, taken>>
    BY <1>13 DEF FireEvent, Exec
  <2>2. func \in PoolTasks
    BY <2>1 DEF PlaceInv, Events
  <2> QED
    BY <1>12, <2>1, <2>2
<1>14. ASSUME NEW u \in PoolUsers, StartTimer(u)
       PROVE  PlaceInv'
  <2>1. /\ tasks' = Append(tasks, LoopTask) /\ LoopTask \in PoolTasks /\ LoopTask \notin Events
        /\ UNCHANGED <<mapEvent, erased, posts, taken, func>>
    BY <1>14, TimerAssumption DEF StartTimer, Events
  <2>2. \A i \in 1 .. Len(tasks') : \/ i \in 1 .. Len(tasks) /\ tasks'[i] = tasks[i]
                                    \/ i = Len(tasks) + 1 /\ tasks'[i] = LoopTask
    BY <1>0, <2>1
  <2>3. \A x \in Events : Queued(x)' => Queued(x)
    BY <2>1, <2>2
  <2>4. \A i, j \in 1 .. Len(tasks') : tasks'[i] \in Events /\ tasks'[i] = tasks'[j] => i = j
    BY <2>1, <2>2 DEF PlaceInv
  <2> HIDE DEF Queued
  <2> QED
    BY <2>1, <2>3, <2>4 DEF PlaceInv
<1> QED
  BY <1>2, <1>3, <1>4, <1>6, <1>8, <1>9, <1>10, <1>11, <1>13, <1>14
     DEF TimerNext, LoopStep, TimerWorker, TimerUser

\* They hold always.
LEMMA Kept == TimerSpec => [](TimerKept /\ PlaceInv)
<1>1. PoolInit /\ TimerInit => TimerKept /\ PlaceInv
  <2> SUFFICES ASSUME PoolInit, TimerInit PROVE TimerKept /\ PlaceInv
    OBVIOUS
  <2>1. TimerKept
    BY DEF PoolInit, TimerInit, TimerKept, TimerInv, EventsKept
  <2>2. PlaceInv
    BY ThreadPoolAssumption DEF PoolInit, TimerInit, PlaceInv, Queued, Has, Events
  <2> QED
    BY <2>1, <2>2
<1>2. TimerKept /\ PlaceInv /\ [TimerNext]_allVars => (TimerKept /\ PlaceInv)'
  BY StepKept, PlaceKept
<1> QED
  BY <1>1, <1>2, PTL DEF TimerSpec

-----------------------------------------------------------------------------
(* The theorems. *)

\* An event that is posted and has neither run nor been erased has a time at which the loop
\* finds it, or is being fired, whatever is erased or repeated next to it.
THEOREM EventsHaveTimes == TimerSpec => []EventsKept
<1>1. TimerKept => EventsKept
  BY DEF TimerKept
<1> QED
  BY <1>1, Kept, PTL

\* erase() of an event that waits is final: fireEvent() does not give it to the pool, even
\* when the loop has taken its set already.
THEOREM ErasedDoesNotRun == TimerSpec => ErasedStaysErased
<1> DEFINE A == \A e \in erased : ~(\E i \in 1..Len(tasks') : tasks'[i] = e)
                                  \/ \E i \in 1..Len(tasks) : tasks[i] = e
<1>1. ASSUME TimerKept, PlaceInv, [TimerNext]_allVars
      PROVE  [A]_allVars
  <2>1. /\ tasks \in Seq(PoolTasks) /\ erased \subseteq Events
        /\ func \in Events \cup {NoTask} /\ func \notin erased
    BY <1>1 DEF TimerKept, TimerInv, PlaceInv
  <2>2. \/ tasks' = tasks
        \/ tasks # << >> /\ tasks' = Tail(tasks)
        \/ \E t \in PoolTasks \ erased : tasks' = Append(tasks, t)
    <3>1. ASSUME NEW u \in PoolUsers, StartTimer(u)
          PROVE  \E t \in PoolTasks \ erased : tasks' = Append(tasks, t)
      <4>1. LoopTask \in PoolTasks \ erased /\ tasks' = Append(tasks, LoopTask)
        BY <2>1, <3>1, TimerAssumption DEF StartTimer, Events
      <4> QED
        BY <4>1
    <3>2. CASE FireEvent
      <4>1. func \in PoolTasks \ erased /\ tasks' = Append(tasks, func)
        BY <2>1, <3>2 DEF FireEvent, Exec, Events
      <4> QED
        BY <4>1
    <3>3. ASSUME NEW w \in Workers, TimerWorker(w)
          PROVE  tasks' = tasks \/ (tasks # << >> /\ tasks' = Tail(tasks))
      BY <3>3 DEF TimerWorker, WorkerStep, LookForEnd, GetNothing, Get, BeginTask, FinishTask,
                  EndEvent, EndLoop
    <3>4. CASE Look \/ LoopWaitEnds \/ Fired \/ TimePasses \/ UNCHANGED allVars
               \/ \E e \in Events : FindEvent(e)
      BY <3>4 DEF Look, LoopWaitEnds, Fired, TimePasses, FindEvent, allVars, poolVars
    <3>5. ASSUME NEW u \in PoolUsers, TimerReturns(u)
          PROVE  tasks' = tasks
      BY <3>5 DEF TimerReturns, UserReturns, WaitAgain, Joined, StopTimer, LookForStop, SetTerminate,
                  StopPool
    <3>6. ASSUME NEW u \in PoolUsers, NEW e \in Events, NotifyStop(u) \/ PostEvent(u, e) \/ Erase(u, e)
          PROVE  tasks' = tasks
      BY <3>6 DEF NotifyStop, PostEvent, Erase, poolVars
    <3>7. ASSUME NEW u \in PoolUsers, NotifyStop(u)
          PROVE  tasks' = tasks
      BY <3>7 DEF NotifyStop
    <3> QED
      BY <1>1, <3>1, <3>2, <3>3, <3>4, <3>5, <3>6, <3>7 DEF TimerNext, LoopStep, TimerUser
  <2>3. CASE tasks' = tasks
    BY <2>3
  <2>4. CASE tasks # << >> /\ tasks' = Tail(tasks)
    <3>1. \A i \in 1 .. Len(tasks') : i + 1 \in 1 .. Len(tasks) /\ tasks'[i] = tasks[i + 1]
      BY <2>1, <2>4
    <3> QED
      BY <3>1
  <2>5. ASSUME NEW t \in PoolTasks \ erased, tasks' = Append(tasks, t)
        PROVE  A
    <3>1. \A i \in 1 .. Len(tasks') : tasks'[i] = t \/ (i \in 1 .. Len(tasks) /\ tasks'[i] = tasks[i])
      BY <2>1, <2>5
    <3> QED
      BY <3>1
  <2> QED
    BY <2>2, <2>3, <2>4, <2>5
<1>2. TimerSpec => [][A]_allVars
  BY <1>1, Kept, PTL DEF TimerSpec
<1> QED
  BY <1>2 DEF ErasedStaysErased
===============================================================================
