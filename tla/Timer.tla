-------------------------------- MODULE Timer --------------------------------
(* TC_Timer: a loop that runs as a task of the timer's own thread pool takes *)
(* the events whose time has come and gives them to the pool as tasks.       *)
(* Users post and erase events and stop the timer while this goes on.        *)
(* Times are kept by their order: mapTimer is the sequence of the sets of    *)
(* events with equal times, and the first few of them are due.               *)
EXTENDS ThreadPool

CONSTANTS
  LoopTask,   \* TC_Timer::run
  Repeated,   \* the events that are posted again when they have run
  MaxPosts    \* bound: how often one event is posted

Events == PoolTasks \ {LoopTask}

ASSUME TimerAssumption == LoopTask \in PoolTasks /\ Repeated \subseteq Events /\ MaxPosts \in Nat

VARIABLES
  mapEvent,   \* _mapEvent
  mapTimer,   \* _mapTimer: sets of events, in the order of their times
  due,        \* how many of them have come
  loop,       \* where the loop is
  firing,     \* el, the events it has still to look for
  func,       \* the event it has found and not given to the pool yet
  posts,      \* how often each event has been posted
  erased,     \* events erase() has taken out and nobody has posted since
  timerEnd    \* _terminate

timerVars == <<mapEvent, mapTimer, due, loop, firing, func, posts, erased, timerEnd>>
allVars   == <<poolVars, timerVars>>

TimerInit ==
  /\ mapEvent = {} /\ mapTimer = <<>> /\ due = 0
  /\ loop = "none" /\ firing = {} /\ func = NoTask
  /\ posts = [e \in Events |-> 0] /\ erased = {} /\ timerEnd = FALSE

\* A set put before, or an event put into, the k-th place.
InsertBefore(s, k, S) == SubSeq(s, 1, k - 1) \o <<S>> \o SubSeq(s, k, Len(s))
Without(s, k) == SubSeq(s, 1, k - 1) \o SubSeq(s, k + 1, Len(s))

LoopWakened == IF loop = "asleep" THEN "look" ELSE loop

\* post(): the event gets a time of its own or one that others have; it may be in the past.
Post(e) ==
  /\ posts[e] < MaxPosts
  /\ posts' = [posts EXCEPT ![e] = @ + 1]
  /\ mapEvent' = mapEvent \cup {e}
  /\ erased' = erased \ {e}
  /\ \/ \E k \in 1..(Len(mapTimer) + 1) :
          mapTimer' = InsertBefore(mapTimer, k, {e}) /\ due' = due + (IF k <= due THEN 1 ELSE 0)
     \/ \E k \in 1..Len(mapTimer) :
          mapTimer' = [mapTimer EXCEPT ![k] = @ \cup {e}] /\ UNCHANGED due

TimePasses ==
  /\ due < Len(mapTimer) /\ due' = due + 1
  /\ UNCHANGED <<poolVars, mapEvent, mapTimer, loop, firing, func, posts, erased, timerEnd>>

----------------------------------------------------------------------------
(* Users *)

\* startTimer() starts the pool and gives it the loop.
StartTimer(u) ==
  /\ loop = "none" /\ upc[u] = "idle" /\ \A w \in Workers : wpc[w] = "none"
  /\ loop' = "queued"
  /\ tasks' = Append(tasks, LoopTask) /\ wpc' = [w \in Workers |-> "loop"]
  /\ UNCHANGED <<taken, busy, poolEnd, upc, mapEvent, mapTimer, due, firing, func, posts, erased, timerEnd>>

PostEvent(u, e) ==
  /\ upc[u] = "idle" /\ posts[e] = 0
  /\ Post(e)
  /\ loop' = LoopWakened
  /\ UNCHANGED <<poolVars, firing, func, timerEnd>>

\* Wrong form: the set goes although other events are left in it.
EmptiedAny(k, e) == e \in mapTimer[k]

Emptied(k, e) == mapTimer[k] = {e}

\* erase() looks for the event by its time; the loop may have taken that set already.
Erase(u, e) ==
  /\ upc[u] = "idle" /\ e \in mapEvent
  /\ mapEvent' = mapEvent \ {e} /\ erased' = erased \cup {e}
  /\ IF \E k \in 1..Len(mapTimer) : Emptied(k, e)
     THEN \E k \in 1..Len(mapTimer) :
            /\ Emptied(k, e)
            /\ mapTimer' = Without(mapTimer, k) /\ due' = due - (IF k <= due THEN 1 ELSE 0)
     ELSE mapTimer' = [k \in 1..Len(mapTimer) |-> mapTimer[k] \ {e}] /\ UNCHANGED due
  /\ UNCHANGED <<poolVars, loop, firing, func, posts, timerEnd>>

\* stopTimer() wakes the loop, looks at _terminate, sets it and stops the pool, and holds the
\* lock for the first of these only: two users may find that nobody has stopped the timer.
NotifyStop(u) ==
  /\ upc[u] = "idle" /\ ~timerEnd /\ loop # "none"
  /\ upc' = [upc EXCEPT ![u] = "notified"]
  /\ loop' = LoopWakened
  /\ UNCHANGED <<tasks, wpc, taken, busy, poolEnd, mapEvent, mapTimer, due, firing, func, posts, erased,
                 timerEnd>>

LookForStop(u) ==
  /\ upc[u] = "notified" /\ upc' = [upc EXCEPT ![u] = IF timerEnd THEN "idle" ELSE "ending"]
  /\ UNCHANGED <<tasks, wpc, taken, busy, poolEnd, timerVars>>

SetTerminate(u) ==
  /\ upc[u] = "ending" /\ upc' = [upc EXCEPT ![u] = "stopping"] /\ timerEnd' = TRUE
  /\ UNCHANGED <<tasks, wpc, taken, busy, poolEnd, mapEvent, mapTimer, due, loop, firing, func, posts, erased>>

\* As with Stop, one thread at a time.
StopPool(u) ==
  /\ upc[u] = "stopping" /\ \A v \in PoolUsers : upc[v] # "joining"
  /\ poolEnd' = TRUE
  /\ wpc' = WakeWorkers(Workers) /\ upc' = [upc EXCEPT ![u] = "joining"]
  /\ UNCHANGED <<tasks, taken, busy, timerVars>>

StopTimer(u) == LookForStop(u) \/ SetTerminate(u) \/ StopPool(u)

----------------------------------------------------------------------------
(* The loop: run() and fireEvent(), by the worker that has taken it *)

Looping == \E w \in Workers : wpc[w] = "run" /\ taken[w] = LoopTask

\* The set whose time has come is taken, or the loop sleeps until the next time comes, for
\* a second when there is none, or until an event is posted.
Look ==
  /\ loop \in {"queued", "look"} /\ Looping /\ ~timerEnd
  /\ IF due > 0
     THEN /\ firing' = Head(mapTimer) /\ mapTimer' = Tail(mapTimer) /\ due' = due - 1
          /\ loop' = "fire"
     ELSE loop' = "asleep" /\ UNCHANGED <<firing, mapTimer, due>>
  /\ UNCHANGED <<poolVars, mapEvent, func, posts, erased, timerEnd>>

LoopWaitEnds ==
  /\ loop = "asleep" /\ (due > 0 \/ mapTimer = <<>>)
  /\ loop' = "look"
  /\ UNCHANGED <<poolVars, mapEvent, mapTimer, due, firing, func, posts, erased, timerEnd>>

\* Wrong form: an event is run although it is no longer in mapEvent.
FoundAlways(e) == TRUE

Found(e) == e \in mapEvent

FindEvent(e) ==
  /\ loop = "fire" /\ func = NoTask /\ e \in firing
  /\ firing' = firing \ {e} /\ mapEvent' = mapEvent \ {e}
  /\ func' = IF Found(e) THEN e ELSE NoTask
  /\ UNCHANGED <<poolVars, mapTimer, due, loop, posts, erased, timerEnd>>

\* exec() of the event, without the lock of the timer.
FireEvent ==
  /\ loop = "fire" /\ func # NoTask
  /\ Exec(func) /\ func' = NoTask
  /\ UNCHANGED <<taken, busy, poolEnd, mapEvent, mapTimer, due, loop, firing, posts, erased, timerEnd>>

Fired ==
  /\ loop = "fire" /\ firing = {} /\ func = NoTask /\ loop' = "look"
  /\ UNCHANGED <<poolVars, mapEvent, mapTimer, due, firing, func, posts, erased, timerEnd>>

\* An event that is repeated is posted again by the task itself, also when it was erased
\* while it ran.
EndEvent(w) ==
  /\ taken[w] \in Events
  /\ EndTask(w)
  /\ IF taken[w] \in Repeated /\ posts[taken[w]] < MaxPosts
     THEN Post(taken[w]) /\ loop' = LoopWakened
     ELSE UNCHANGED <<mapEvent, mapTimer, due, loop, posts, erased>>
  /\ UNCHANGED <<tasks, poolEnd, upc, firing, func, timerEnd>>

EndLoop(w) ==
  /\ taken[w] = LoopTask /\ timerEnd /\ loop \in {"queued", "look"}
  /\ EndTask(w)
  /\ loop' = "ended"
  /\ UNCHANGED <<tasks, poolEnd, upc, mapEvent, mapTimer, due, firing, func, posts, erased, timerEnd>>

----------------------------------------------------------------------------
LoopStep == Look \/ LoopWaitEnds \/ FireEvent \/ Fired \/ \E e \in Events : FindEvent(e)

TimerUser(u) ==
  \/ StartTimer(u) \/ NotifyStop(u)
  \/ \E e \in Events : PostEvent(u, e) \/ Erase(u, e)

TimerWorker(w) ==
  (WorkerStep(w) /\ UNCHANGED timerVars) \/ EndEvent(w) \/ EndLoop(w)

TimerReturns(u) == (UserReturns(u) /\ UNCHANGED timerVars) \/ StopTimer(u)

TimerNext ==
  \/ LoopStep \/ TimePasses
  \/ \E w \in Workers : TimerWorker(w)
  \/ \E u \in PoolUsers : TimerUser(u) \/ TimerReturns(u)

TimerSpec == PoolInit /\ TimerInit /\ [][TimerNext]_allVars

----------------------------------------------------------------------------
(* Properties *)

\* An event that is posted and has neither run nor been erased still has a time at which it
\* will be found, or is being fired: erasing one of the events with the same time does not
\* take the others along, nor does a repeated event lose its place.
EventsKept ==
  \A e \in mapEvent : e \in firing \/ \E k \in 1..Len(mapTimer) : e \in mapTimer[k]

\* erase() of an event that is waiting is final, even when the loop has already taken the
\* set the event was in: it is not given to the pool unless it is posted again.
ErasedStaysErased ==
  [][\A e \in erased : ~(\E i \in 1..Len(tasks') : tasks'[i] = e)
                       \/ \E i \in 1..Len(tasks) : tasks[i] = e]_allVars
===============================================================================
