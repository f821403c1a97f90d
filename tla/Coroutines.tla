------------------------------ MODULE Coroutines ------------------------------
(* CoroutineScheduler::run() and the calls coroutines make.  One thread runs *)
(* the scheduler and, one at a time, its coroutines; a network thread put()s *)
(* the coroutines whose answers have come into a queue of their own.  A      *)
(* coroutine is in one of five lists, also while it runs.                    *)
EXTENDS Integers, Sequences, FiniteSets, SequencesExt

CONSTANTS
  PoolSize,    \* _poolSize: coroutines are numbered from 1
  Grow,        \* how many are made at a time (100)
  FirstCoros,  \* how many handleCoro() starts with (_num)
  MaxCalls,    \* bound: what one coroutine does before it ends
  Together,    \* how many requests it sends before coroWhenAll()
  Turns        \* how many coroutines are resumed in one round (100)

ASSUME CoroutinesAssumption ==
  /\ PoolSize \in Nat \ {0} /\ Grow \in Nat \ {0} /\ FirstCoros \in 1..PoolSize
  /\ MaxCalls \in Nat /\ Together \in Nat \ {0} /\ Turns \in Nat \ {0}

Coros == 1..PoolSize
Main  == 0

VARIABLES
  lists,      \* _active, _avail, _inactive, _timeout, _free
  made,       \* _currentSize, and _uniqId
  used,       \* _usedSize
  selfQ,      \* _needActiveCoroId
  netQ,       \* _activeCoroQueue
  timers,     \* _timeoutCoroId, in the order of the times
  current,    \* _currentCoro
  at,         \* where the thread is, in the scheduler or in the current coroutine
  turns,      \* iLoop
  left,       \* what each coroutine may still do
  missing,    \* answers it waits for
  putting,    \* the coroutine that has been put and not announced yet
  terminal    \* _terminal

coVars == <<lists, made, used, selfQ, netQ, timers, current, at, turns, left, missing, putting,
            terminal>>

Least(a, b) == IF a < b THEN a ELSE b
Interval(a, b) == [i \in 1..(b - a + 1) |-> a + i - 1]

\* CoroutineDel()
Unlinked(q, c) == IF Contains(q, c) THEN RemoveAt(q, CHOOSE k \in DOMAIN q : q[k] = c) ELSE q

\* CoroutineDel() and CoroutineAddTail().
MoveTo(L, to, c) ==
  [l \in DOMAIN L |-> IF l = to THEN Append(Unlinked(L[l], c), c) ELSE Unlinked(L[l], c)]

\* A coroutine is moved only from the lists in which it may be.
MoveFrom(L, from, to, c) == IF \E l \in from : Contains(L[l], c) THEN MoveTo(L, to, c) ELSE L

\* Those of q in their order.
AllMoved(L, from, to, q) ==
  LET moved[n \in 0 .. Len(q)] == IF n = 0 THEN L ELSE MoveFrom(moved[n - 1], from, to, q[n])
  IN  moved[Len(q)]

\* moveToActive(), moveToAvail() of all in a queue: only a coroutine that waits (or sleeps)
\* is moved.
Waits == {"inactive", "timeout"}
AllToActive(L, q) == AllMoved(L, Waits, "active", q)
AllToAvail(L, q)  == AllMoved(L, {"inactive"}, "avail", q)

\* moveToInactive(), moveToTimeout(): one that runs; moveToFreeList(): any that is not free.
Runs == {"active", "avail"}
MoveToInactive(L, c) == MoveFrom(L, Runs, "inactive", c)
MoveToTimeout(L, c)  == MoveFrom(L, Runs, "timeout", c)
MoveToFreeList(L, c) == MoveFrom(L, Waits \cup Runs, "free", c)

\* The thread has not been started yet; what init() makes and the coroutines handleCoro()
\* starts with, for which it may have made more, are there.
CoroutinesInit ==
  /\ \E n \in 1..FirstCoros : /\ FirstCoros \in (n - 1) * Grow + 1 .. n * Grow
                             /\ made = Least(PoolSize, n * Grow)
  /\ lists = [active |-> <<>>, avail |-> Interval(1, FirstCoros), inactive |-> <<>>,
              timeout |-> <<>>, free |-> Interval(FirstCoros + 1, made)]
  /\ used = FirstCoros
  /\ selfQ = <<>> /\ netQ = <<>> /\ timers = <<>>
  /\ current = Main /\ at = "none" /\ turns = 0
  /\ left = [c \in Coros |-> MaxCalls] /\ missing = [c \in Coros |-> 0]
  /\ putting = Main /\ terminal = FALSE

----------------------------------------------------------------------------
(* One round of run() *)

Scheduler(from, to) == current = Main /\ at = from /\ at' = to

Begin ==
  /\ Scheduler("none", "test")
  /\ UNCHANGED <<lists, made, used, selfQ, netQ, timers, current, turns, left, missing, putting, terminal>>

\* With nothing to run the thread sleeps, unless a coroutine has been put; _monitor is held
\* from the look at the queue to the wait.  Coroutines that only yielded are not looked for.
Test ==
  /\ Scheduler("test", IF terminal THEN "end"
                       ELSE IF lists.avail = <<>> /\ lists.active = <<>> THEN "lock" ELSE "wake")
  /\ UNCHANGED <<lists, made, used, selfQ, netQ, timers, current, turns, left, missing, putting, terminal>>

\* Wrong form: the queue is not looked at again under the lock.
QueueNotSeen == TRUE

QueueSeenEmpty == netQ = <<>>

SleepOrNot ==
  /\ Scheduler("lock", IF QueueSeenEmpty THEN "asleep" ELSE "wake")
  /\ UNCHANGED <<lists, made, used, selfQ, netQ, timers, current, turns, left, missing, putting, terminal>>

\* timedWait(1000) ends by itself.
WaitOver ==
  /\ Scheduler("asleep", "wake")
  /\ UNCHANGED <<lists, made, used, selfQ, netQ, timers, current, turns, left, missing, putting, terminal>>

\* wakeupbytimeout() for the timers whose time has come, wakeupbyself() and wakeup().
WakeUp ==
  /\ Scheduler("wake", "active") /\ turns' = Turns
  /\ IF terminal THEN UNCHANGED <<lists, selfQ, netQ, timers>>
     ELSE \E n \in 0..Len(timers) :
            /\ lists' = LET late == AllToActive(lists, SubSeq(timers, 1, n))
                        IN  AllToActive(AllToAvail(late, selfQ), netQ)
            /\ timers' = SubSeq(timers, n + 1, Len(timers))
            /\ selfQ' = <<>> /\ netQ' = <<>>
  /\ UNCHANGED <<made, used, current, left, missing, putting, terminal>>

\* switchCoro() to the coroutines that wait no longer, ...
ResumeActive ==
  /\ current = Main /\ at = "active" /\ turns > 0 /\ lists.active # <<>>
  /\ current' = Head(lists.active) /\ turns' = turns - 1 /\ at' = "running"
  /\ UNCHANGED <<lists, made, used, selfQ, netQ, timers, left, missing, putting, terminal>>

ActiveDone ==
  /\ turns = 0 \/ lists.active = <<>>
  /\ Scheduler("active", IF lists.avail = <<>> THEN "round" ELSE "avail")
  /\ UNCHANGED <<lists, made, used, selfQ, netQ, timers, current, turns, left, missing, putting, terminal>>

\* ... and to one that is new or has yielded.
ResumeAvail ==
  /\ current = Main /\ at = "avail"
  /\ current' = Head(lists.avail) /\ at' = "running" /\ turns' = 0
  /\ UNCHANGED <<lists, made, used, selfQ, netQ, timers, left, missing, putting, terminal>>

RoundDone ==
  /\ Scheduler("round", IF used = 0 THEN "end" ELSE "test")
  /\ UNCHANGED <<lists, made, used, selfQ, netQ, timers, current, turns, left, missing, putting, terminal>>

\* destroy(), and the scheduler is deleted.
Destroy ==
  /\ Scheduler("end", "gone")
  /\ UNCHANGED <<lists, made, used, selfQ, netQ, timers, current, turns, left, missing, putting, terminal>>

----------------------------------------------------------------------------
(* The coroutine that runs *)

\* Back to the main coroutine, after the switch that resumed this one.
Back == current' = Main /\ at' = IF turns > 0 \/ Contains(lists.active, current) THEN "active" ELSE "round"

Does == current # Main /\ at = "running" /\ left[current] > 0 /\ left' = [left EXCEPT ![current] = @ - 1]

\* createCoroutine() makes more coroutines up to the size of the pool.
Create ==
  /\ Does
  /\ LET grow  == used >= made \/ lists.free = <<>>
         more  == IF grow THEN Least(PoolSize - made, Grow) ELSE 0
         frees == lists.free \o Interval(made + 1, made + more)
     IN  IF grow /\ more = 0 THEN UNCHANGED <<lists, made, used>>
         ELSE /\ made' = made + more /\ used' = used + 1
              /\ lists' = [lists EXCEPT !.free = Tail(frees), !.avail = Append(@, Head(frees))]
  /\ UNCHANGED <<selfQ, netQ, timers, current, at, turns, missing, putting, terminal>>

\* invoke() of a synchronous call, or of the requests coroWhenAll() waits for; the answers
\* can come before the coroutine has given up the thread.  Left out: a coroutine that makes
\* another call, or sleeps, between such requests and coroWhenAll().
Send(n) ==
  /\ Does
  /\ missing' = [missing EXCEPT ![current] = n] /\ at' = "sent"
  /\ UNCHANGED <<lists, made, used, selfQ, netQ, timers, current, turns, putting, terminal>>

\* yield(false)
Wait ==
  /\ current # Main /\ at = "sent"
  /\ lists' = MoveToInactive(lists, current)
  /\ Back
  /\ UNCHANGED <<made, used, selfQ, netQ, timers, turns, left, missing, putting, terminal>>

\* yield(true)
YieldSelf ==
  /\ Does
  /\ selfQ' = IF terminal THEN selfQ ELSE Append(selfQ, current)
  /\ lists' = MoveToInactive(lists, current)
  /\ Back
  /\ UNCHANGED <<made, used, netQ, timers, turns, missing, putting, terminal>>

\* sleep() for any time.
Sleep ==
  /\ Does
  /\ \E k \in 1..(Len(timers) + 1) : timers' = InsertAt(timers, k, current)
  /\ lists' = MoveToTimeout(lists, current)
  /\ Back
  /\ UNCHANGED <<made, used, selfQ, netQ, turns, missing, putting, terminal>>

\* corotineProc() after the function has returned; the number may be used again.
Finish ==
  /\ current # Main /\ at = "running"
  /\ used' = used - 1
  /\ lists' = MoveToFreeList(lists, current)
  /\ Back
  /\ UNCHANGED <<made, selfQ, netQ, timers, turns, left, missing, putting, terminal>>

----------------------------------------------------------------------------
(* Other threads *)

\* Wrong form: each answer to coroWhenAll() puts the coroutine.
AllReturnedNot(c) == TRUE

AllReturned(c) == missing[c] = 1

\* finishInvoke(): the last answer puts the coroutine, ...
Put(c) ==
  /\ at # "gone" /\ putting = Main /\ missing[c] > 0
  /\ missing' = [missing EXCEPT ![c] = @ - 1]
  /\ IF AllReturned(c) /\ ~terminal THEN netQ' = Append(netQ, c) /\ putting' = c
                                    ELSE UNCHANGED <<netQ, putting>>
  /\ UNCHANGED <<lists, made, used, selfQ, timers, current, at, turns, left, terminal>>

SchedulerWakened == IF current = Main /\ at = "asleep" THEN "wake" ELSE at

\* ... and then wakes the scheduler.
PutNotify ==
  /\ at # "gone" /\ putting # Main
  /\ putting' = Main /\ at' = SchedulerWakened
  /\ UNCHANGED <<lists, made, used, selfQ, netQ, timers, current, turns, left, missing, terminal>>

Terminate ==
  /\ at # "gone" /\ ~terminal /\ terminal' = TRUE
  /\ at' = SchedulerWakened
  /\ UNCHANGED <<lists, made, used, selfQ, netQ, timers, current, turns, left, missing, putting>>

----------------------------------------------------------------------------
SchedulerStep == Test \/ SleepOrNot \/ WaitOver \/ WakeUp \/ ResumeActive \/ ActiveDone
                 \/ ResumeAvail \/ RoundDone \/ Destroy

CoroutineStep == Create \/ Send(1) \/ Send(Together) \/ Wait \/ YieldSelf \/ Sleep \/ Finish

NetworkStep == PutNotify \/ \E c \in Coros : Put(c)

CoroutinesNext == Begin \/ SchedulerStep \/ CoroutineStep \/ NetworkStep \/ Terminate

CoroutinesSpec == CoroutinesInit /\ [][CoroutinesNext]_coVars

----------------------------------------------------------------------------
(* Properties *)

\* assert(msg->eStatus != REQ_REQ) after yield(false), and coroWhenAll(): a coroutine that
\* runs has all the answers it waited for, although it is woken by its number alone, and
\* numbers are used again.  It does nothing else between its parallel requests and
\* coroWhenAll() (see Send).
OwnAnswers == current # Main /\ at = "running" => missing[current] = 0

\* A coroutine that waits for nothing any more, or sleeps, is in the queue from which the
\* scheduler will take it, and a scheduler that sleeps while there is one in the queue of
\* put() is about to be woken: it does not sleep its second through.
NoneForgotten ==
  /\ terminal \/ \A c \in Coros :
       /\ Contains(lists.inactive, c) /\ missing[c] = 0 => Contains(netQ, c) \/ Contains(selfQ, c)
       /\ Contains(lists.timeout, c) => Contains(timers, c)
  /\ current = Main /\ at = "asleep" /\ netQ # <<>> => putting # Main
===============================================================================
