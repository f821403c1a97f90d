--------------------------- MODULE ClientCallProofs ---------------------------
(* Proofs about ClientCall, for any number of threads, numbers and calls and   *)
(* queues of any size.                                                         *)
EXTENDS ClientCall, FiniteSetTheorems, SequenceTheorems, TLAPS

USE DEF Seqs, Idle, InCall, InExit

-----------------------------------------------------------------------------
(* Sequences. *)

\* A queue of one is empty after its pop.
LEMMA TailOfOne ==
  ASSUME NEW S, NEW q \in Seq(S), Len(q) = 1
  PROVE  Tail(q) = << >>
<1>1. Tail(q) \in Seq(S) /\ Len(Tail(q)) = 0
  OBVIOUS
<1> QED
  BY <1>1, EmptySeq

-----------------------------------------------------------------------------
(* Type correctness.  A thread that has started has a number, and the network *)
(* thread takes requests from the queue of a thread.                           *)

Started == \A t \in Threads : pc[t] # "out" => seq[t] \in Seqs

NetInv == /\ netFor = NoThread <=> netPc \in {"wait", "pop"}
          /\ Taking => owner[netSeq] # NoThread

Typed == TypeOK /\ Started /\ NetInv

\* Nobody has called yet.
LEMMA InitTyped == Init => Typed
<1> SUFFICES ASSUME Init PROVE Typed
  OBVIOUS
<1> USE ClientCallAssumption DEF Init
<1>1. free \in Seq(Seqs)
  OBVIOUS
<1>2. Started
  BY DEF Started
<1>3. pend \subseteq {s \in Seqs : owner[s] # NoThread}
  OBVIOUS
<1>4. fin \in [Threads -> BOOLEAN] /\ freed \in BOOLEAN
  OBVIOUS
<1>5. /\ queue \in [Threads -> Seq({"SYNC", "ASYNC", "EXIT"})]
      /\ \A t \in Threads : Len(queue[t]) <= QueueCap
  OBVIOUS
<1>6. /\ pc \in [Threads -> Idle \cup InCall \cup InExit]
      /\ kind \in [Threads -> {"SYNC", "ASYNC", "FULL"}]
      /\ calls \in [Threads -> 0 .. MaxCalls]
      /\ seq \in [Threads -> Seqs \cup {0}]
      /\ owner \in [Seqs -> Threads \cup {NoThread}]
  OBVIOUS
<1>7. /\ held \subseteq Threads
      /\ netPc \in {"wait", "pop", "signal", "unlock"} /\ netRet \in {"wait", "pop"}
      /\ netSeq \in Seqs /\ count \in 0 .. MaxProcess
      /\ netFor \in Threads \cup {NoThread}
  OBVIOUS
<1>8. NetInv
  BY DEF NetInv, Taking
<1> QED
  BY <1>1, <1>2, <1>3, <1>4, <1>5, <1>6, <1>7, <1>8 DEF Typed, TypeOK

\* What is pushed fits.
LEMMA PushBackTyped ==
  ASSUME TypeOK, NEW t \in Threads, NEW k \in {"SYNC", "ASYNC", "EXIT"}, PushBack(t, k)
  PROVE  /\ queue' \in [Threads -> Seq({"SYNC", "ASYNC", "EXIT"})]
         /\ \A u \in Threads : Len(queue'[u]) <= QueueCap
BY ClientCallAssumption DEF PushBack, TypeOK

\* What is notified is an event that exists.
LEMMA NotifyTyped ==
  ASSUME TypeOK, NEW s \in Seqs, Notify(s)
  PROVE  pend' \subseteq {i \in Seqs : owner[i] # NoThread}
BY DEF Notify, TypeOK

\* A thread has a number from its first call until it has ended.
LEMMA CallerTyped ==
  ASSUME Typed, NEW t \in Threads, Caller(t)
  PROVE  Typed'
<1> USE ClientCallAssumption DEF Typed, TypeOK, Started, NetInv, Taking, Go, net
<1>1. CASE Start(t)
  <2>1. Head(free) \in Seqs /\ Tail(free) \in Seq(Seqs)
    BY <1>1 DEF Start
  <2>2. /\ seq' \in [Threads -> Seqs \cup {0}] /\ free' \in Seq(Seqs)
        /\ \A u \in Threads \ {t} : seq'[u] = seq[u]
        /\ seq'[t] \in Seqs
    BY <1>1, <2>1 DEF Start
  <2>3. /\ pc' \in [Threads -> Idle \cup InCall \cup InExit]
        /\ \A u \in Threads \ {t} : pc'[u] = pc[u]
    BY <1>1 DEF Start
  <2>4. Started'
    BY <2>2, <2>3
  <2>5. UNCHANGED <<queue, calls, kind, fin, owner, pend, held, net>>
    BY <1>1 DEF Start
  <2>6. TypeOK'
    BY <2>2, <2>3, <2>5
  <2>7. NetInv'
    BY <2>5
  <2> QED
    BY <2>4, <2>6, <2>7 DEF Typed
<1>2. ASSUME NEW k \in {"SYNC", "ASYNC"}, Call(t, k)
      PROVE  Typed'
  <2>1. /\ queue' \in [Threads -> Seq({"SYNC", "ASYNC", "EXIT"})]
        /\ \A u \in Threads : Len(queue'[u]) <= QueueCap
    BY <1>2, PushBackTyped DEF Call
  <2>2. calls' \in [Threads -> 0 .. MaxCalls]
    BY <1>2 DEF Call
  <2>3. fin' \in [Threads -> BOOLEAN] /\ kind' \in [Threads -> {"SYNC", "ASYNC", "FULL"}]
    BY <1>2 DEF Call
  <2> QED
    BY SMTT(60), <1>2, <2>1, <2>2, <2>3 DEF Call
<1>3. CASE NotifyInit(t)
  <2>1. seq[t] \in Seqs
    BY <1>3 DEF NotifyInit
  <2>2. CASE owner[seq[t]] = NoThread
    <3>1. owner' = [owner EXCEPT ![seq[t]] = t] /\ pend' = pend \cup {seq[t]}
      BY <1>3, <2>2 DEF NotifyInit
    <3>2. owner' \in [Seqs -> Threads \cup {NoThread}] /\ owner'[seq[t]] # NoThread
      BY <2>1, <3>1
    <3>3. \A s \in pend' : s \in Seqs /\ owner'[s] # NoThread
      BY <2>1, <3>1, <3>2
    <3> QED
      BY <1>3, <3>2, <3>3 DEF NotifyInit
  <2>3. CASE owner[seq[t]] # NoThread
    BY <1>3, <2>3 DEF NotifyInit
  <2> QED
    BY <2>2, <2>3
<1>4. CASE NotifyUse(t)
  <2>1. pend' \subseteq {i \in Seqs : owner[i] # NoThread}
    BY <1>4, NotifyTyped DEF NotifyUse
  <2> QED
    BY <1>4, <2>1 DEF NotifyUse
<1>5. CASE Check(t) \/ Lock(t) \/ SpuriousWake(t) \/ Relock(t)
  BY ZenonT(60), <1>5 DEF Check, Lock, SpuriousWake, Relock
<1>6. CASE Return(t)
  BY <1>6 DEF Return
<1>7. CASE Exit(t)
  <2>1. CASE calls[t] > 0
    BY <1>7, <2>1, PushBackTyped DEF Exit
  <2>2. CASE ~ calls[t] > 0
    BY <1>7, <2>2 DEF Exit
  <2> QED
    BY <2>1, <2>2
<1>8. CASE NotifyDel(t)
  BY <1>8 DEF NotifyDel
<1>9. CASE NotifyDelUse(t)
  <2>1. pend' \subseteq {i \in Seqs : owner[i] # NoThread}
    BY <1>9, NotifyTyped DEF NotifyDelUse
  <2> QED
    BY <1>9, <2>1 DEF NotifyDelUse
<1>10. CASE SeqDel(t)
  BY SMTT(60), <1>10 DEF SeqDel
<1> QED
  BY <1>1, <1>2, <1>3, <1>4, <1>5, <1>6, <1>7, <1>8, <1>9, <1>10 DEF Caller, Step

\* The network thread works on a number that has an owner.
LEMMA NetTyped ==
  ASSUME Typed, NetThread
  PROVE  Typed'
<1> USE ClientCallAssumption DEF Typed, TypeOK, Started, NetInv, Taking, Go, callers
<1>1. ASSUME NEW s \in Seqs, PickEvent(s)
      PROVE  Typed'
  BY <1>1 DEF PickEvent
<1>2. CASE PopNone
  BY <1>2 DEF PopNone
<1>3. CASE PopRequest
  <2>0. Source \in Threads
    BY <1>3 DEF PopRequest, Source
  <2>1. queue' \in [Threads -> Seq({"SYNC", "ASYNC", "EXIT"})] /\ \A t \in Threads : Len(queue'[t]) <= QueueCap
    BY <1>3, <2>0 DEF PopRequest
  <2>2. pend' \subseteq {i \in Seqs : owner[i] # NoThread}
    BY <1>3, NotifyTyped DEF PopRequest
  <2>3. held' \subseteq Threads /\ count' \in 0 .. MaxProcess
    BY <1>3, <2>0 DEF PopRequest
  <2> QED
    BY <1>3, <2>1, <2>2, <2>3 DEF PopRequest
<1>4. CASE PopExit
  <2>1. queue' \in [Threads -> Seq({"SYNC", "ASYNC", "EXIT"})] /\ \A t \in Threads : Len(queue'[t]) <= QueueCap
    BY <1>4 DEF PopExit, Source
  <2>2. /\ owner' \in [Seqs -> Threads \cup {NoThread}]
        /\ \A i \in pend' : owner'[i] # NoThread
    BY <1>4 DEF PopExit
  <2> QED
    BY <1>4, <2>1, <2>2 DEF PopExit
<1>5. ASSUME NEW t \in Threads, FinishLock(t)
      PROVE  Typed'
  BY <1>5 DEF FinishLock
<1>6. CASE Signal
  BY <1>6 DEF Signal
<1>7. CASE Unlock
  BY <1>7 DEF Unlock
<1> QED
  BY <1>1, <1>2, <1>3, <1>4, <1>5, <1>6, <1>7 DEF NetThread, Loop

\* Both together.
LEMMA NextTyped == Typed /\ [Next]_vars => Typed'
<1> SUFFICES ASSUME Typed, [Next]_vars PROVE Typed'
  OBVIOUS
<1>1. CASE UNCHANGED vars
  BY <1>1 DEF vars, callers, net, Typed, TypeOK, Started, NetInv, Taking
<1> QED
  BY <1>1, CallerTyped, NetTyped DEF Next

\* Every state of every behaviour is of its type.
THEOREM TypeCorrect == Spec => []TypeOK
<1>1. Typed => TypeOK
  BY DEF Typed
<1> QED
  BY <1>1, InitTyped, NextTyped, PTL DEF Spec

-----------------------------------------------------------------------------
(* No signal is lost: the invariant is inductive, given the types. *)

\* The lock of the monitor is held from the look at the status to the wait, and from the answer
\* to the notification.
LEMMA NextNoLostSignal ==
  ASSUME Typed, NoLostSignal, [Next]_vars
  PROVE  NoLostSignal'
<1> USE DEF Typed, TypeOK, NoLostSignal, Locked, Go
<1>1. ASSUME NEW t \in Threads, NEW k \in {"SYNC", "ASYNC"}, Call(t, k)
      PROVE  NoLostSignal'
  BY <1>1 DEF Call, net
<1>2. ASSUME NEW t \in Threads, Lock(t)
      PROVE  NoLostSignal'
  BY <1>2 DEF Lock, net
<1>3. ASSUME NEW t \in Threads, Return(t)
      PROVE  NoLostSignal'
  BY <1>3 DEF Return
<1>4. ASSUME NEW t \in Threads,
             Start(t) \/ NotifyInit(t) \/ NotifyUse(t) \/ Check(t) \/ SpuriousWake(t)
             \/ Relock(t) \/ Exit(t) \/ NotifyDel(t) \/ NotifyDelUse(t) \/ SeqDel(t)
      PROVE  NoLostSignal'
  BY <1>4 DEF Start, NotifyInit, NotifyUse, Check, SpuriousWake, Relock, Exit, NotifyDel,
              NotifyDelUse, SeqDel, net
<1>5. ASSUME NEW t \in Threads, FinishLock(t)
      PROVE  NoLostSignal'
  BY <1>5 DEF FinishLock
<1>6. CASE Signal
  BY <1>6 DEF Signal
<1>7. CASE PopNone \/ PopRequest \/ PopExit \/ Unlock \/ \E s \in Seqs : PickEvent(s)
  BY <1>7 DEF PopNone, PopRequest, PopExit, Unlock, PickEvent, callers
<1>8. CASE UNCHANGED vars
  BY <1>8 DEF vars, callers, net
<1> QED
  BY <1>1, <1>2, <1>3, <1>4, <1>5, <1>6, <1>7, <1>8
     DEF Next, NetThread, Loop, Caller, Step

\* A synchronous caller never sleeps on a finished request, unless the network
\* thread is about to signal it: between the two tests of bMonitorFin and the
\* wait no notification falls through.
THEOREM SignalsArrive == Spec => []NoLostSignal
<1>1. Init => NoLostSignal
  BY DEF Init, NoLostSignal
<1> QED
  BY <1>1, InitTyped, NextTyped, NextNoLostSignal, PTL DEF Spec

-----------------------------------------------------------------------------
(* THREAD_EXIT is the last of its queue. *)

Exited == InExit \cup {"gone"}

ExitInv ==
  \A t \in Threads : \A i \in 1 .. Len(queue[t]) :
    queue[t][i] = "EXIT" => i = Len(queue[t]) /\ pc[t] \in Exited

\* After THREAD_EXIT a thread adds nothing to its queue.
LEMMA NextExitInv ==
  ASSUME Typed, ExitInv, [Next]_vars
  PROVE  ExitInv'
<1> USE DEF Typed, TypeOK, ExitInv, Exited, Go
<1>1. ASSUME NEW t \in Threads, NEW k \in {"SYNC", "ASYNC"}, Call(t, k)
      PROVE  ExitInv'
  BY <1>1 DEF Call, PushBack
<1>2. ASSUME NEW t \in Threads, Exit(t)
      PROVE  ExitInv'
  <2>1. /\ \A i \in 1 .. Len(queue[t]) : queue[t][i] # "EXIT"
        /\ pc' = [pc EXCEPT ![t] = pc'[t]] /\ pc'[t] \in Exited
    BY <1>2 DEF Exit
  <2>2. CASE queue' = queue
    BY ZenonT(60), <2>1, <2>2
  <2>3. CASE queue' = [queue EXCEPT ![t] = Append(@, "EXIT")]
    BY <2>1, <2>3
  <2> QED
    BY <1>2, <2>2, <2>3 DEF Exit, PushBack
<1>3. ASSUME NEW t \in Threads,
             Start(t) \/ NotifyInit(t) \/ NotifyUse(t) \/ Check(t) \/ Lock(t) \/ SpuriousWake(t)
             \/ Relock(t) \/ Return(t) \/ NotifyDel(t) \/ NotifyDelUse(t) \/ SeqDel(t)
      PROVE  ExitInv'
  BY ZenonT(60), <1>3 DEF Start, NotifyInit, NotifyUse, Check, Lock, SpuriousWake, Relock, Return,
              NotifyDel, NotifyDelUse, SeqDel
<1>4. CASE PopRequest \/ PopExit
  <2>1. Source \in Threads
    BY <1>4 DEF PopRequest, PopExit, Source, NetInv, Taking
  <2>2. queue[Source] # << >> /\ queue' = [queue EXCEPT ![Source] = Tail(@)] /\ UNCHANGED pc
    BY <1>4 DEF PopRequest, PopExit
  <2> QED
    BY <2>1, <2>2
<1>5. ASSUME NEW t \in Threads, FinishLock(t)
      PROVE  ExitInv'
  BY <1>5 DEF FinishLock
<1>6. CASE Signal
  BY <1>6 DEF Signal, Locked
<1>7. CASE PopNone \/ Unlock \/ \E s \in Seqs : PickEvent(s)
  BY <1>7 DEF PopNone, Unlock, PickEvent, callers
<1>8. CASE UNCHANGED vars
  BY <1>8 DEF vars, callers
<1> QED
  BY <1>1, <1>2, <1>3, <1>4, <1>5, <1>6, <1>7, <1>8
     DEF Next, NetThread, Loop, Caller, Step

\* The queue the network thread deletes with THREAD_EXIT holds nothing else.
THEOREM ExitComesLast == Spec => ExitIsLast
<1>1. Init => ExitInv
  BY DEF Init, ExitInv
<1>2. ASSUME Typed, ExitInv, PopExit
      PROVE  Len(queue[Source]) = 1
  <2>1. Source \in Threads
    BY <1>2 DEF PopExit, Source, NetInv, Taking, Typed, TypeOK
  <2>2. queue[Source] \in Seq({"SYNC", "ASYNC", "EXIT"}) /\ queue[Source] # << >>
        /\ queue[Source][1] = "EXIT"
    BY <1>2, <2>1 DEF PopExit, Typed, TypeOK
  <2>3. 1 \in 1 .. Len(queue[Source])
    BY <2>2
  <2> QED
    BY <1>2, <2>1, <2>2, <2>3 DEF ExitInv
<1>3. Typed /\ ExitInv /\ [Next]_vars => [PopExit => Len(queue[Source]) = 1]_vars
  BY <1>2
<1> QED
  BY <1>1, <1>3, InitTyped, NextTyped, NextExitInv, PTL DEF Spec, ExitIsLast

-----------------------------------------------------------------------------
(* No wake-up is lost, as long as no thread works with a number whose event    *)
(* still belongs to another one.                                               *)

NoStaleEvent == \A t \in Threads : pc[t] = "notify" => owner[seq[t]] \in {NoThread, t}

Ownership == \A s \in Seqs, t \in Threads : owner[s] = t => seq[t] = s

Fresh ==
  \A t \in Threads :
    /\ pc[t] = "out" => seq[t] = 0 /\ calls[t] = 0 /\ queue[t] = << >>
    /\ pc[t] = "idle" /\ calls[t] = 0 => queue[t] = << >>
    /\ pc[t] \in InCall => calls[t] > 0

\* A thread that has called once has its event, and keeps it until the network
\* thread has emptied its queue.
EventOwned ==
  \A t \in Threads :
    /\ calls[t] > 0 /\ pc[t] \in {"idle", "notified", "check", "lock", "sleep", "relock", "done"}
         => owner[seq[t]] = t
    /\ pc[t] \in Exited => owner[seq[t]] = t \/ queue[t] = << >>

Wake == Ownership /\ Fresh /\ EventOwned /\ NoLostWakeup

\* A step of a calling thread keeps its event its own.
LEMMA CallerWake ==
  ASSUME Typed, Wake, NoStaleEvent, NEW t \in Threads, Caller(t)
  PROVE  Wake'
<1> USE ClientCallAssumption DEF Typed, TypeOK, Started, Wake, Ownership, Fresh, EventOwned,
        Exited, NoLostWakeup, Taking, Go, net
<1>1. CASE Start(t)
  BY SMTT(60), <1>1 DEF Start
<1>2. ASSUME NEW k \in {"SYNC", "ASYNC"}, Call(t, k)
      PROVE  Wake'
  BY <1>2 DEF Call, PushBack
<1>3. CASE NotifyInit(t)
  <2>1. owner[seq[t]] \in {NoThread, t}
    BY <1>3 DEF NotifyInit, NoStaleEvent
  <2>2. /\ seq[t] \in Seqs /\ owner'[seq[t]] = t /\ pc[t] = "notify" /\ pc'[t] = "notified"
        /\ \A s \in Seqs : s # seq[t] => owner'[s] = owner[s]
        /\ \A u \in Threads : u # t => pc'[u] = pc[u]
        /\ pend \subseteq pend' /\ UNCHANGED <<seq, queue, calls, net>>
    BY <1>3, <2>1 DEF NotifyInit
  <2>3. \A u \in Threads, s \in Seqs : owner[s] = u => owner'[s] = u
    BY <2>1, <2>2
  <2>4. \A u \in Threads : pc[u] # "out" => seq[u] \in Seqs
    OBVIOUS
  <2> HIDE DEF Typed, TypeOK, Started
  <2>5. Ownership'
    BY <2>2 DEF Ownership
  <2>6. Fresh'
    BY <2>2
  <2>7. EventOwned'
    BY <2>2, <2>3, <2>4
  <2>8. NoLostWakeup'
    BY <2>2, <2>3
  <2> QED
    BY <2>5, <2>6, <2>7, <2>8
<1>4. CASE NotifyUse(t)
  BY <1>4 DEF NotifyUse, Notify
<1>5. CASE Check(t) \/ Lock(t) \/ SpuriousWake(t) \/ Relock(t) \/ Return(t)
  <2>1. /\ pc[t] \in {"check", "lock", "sleep", "relock", "done"}
        /\ pc'[t] \in {"lock", "sleep", "relock", "done", "idle"}
        /\ \A u \in Threads : u # t => pc'[u] = pc[u]
        /\ UNCHANGED <<seq, queue, calls, owner, pend, netPc, netSeq, netFor, netRet>>
    BY <1>5 DEF Check, Lock, SpuriousWake, Relock, Return
  <2> HIDE DEF Typed, TypeOK, Started
  <2>2. Ownership' /\ Fresh' /\ EventOwned'
    BY <2>1
  <2>3. NoLostWakeup'
    BY <2>1
  <2> QED
    BY <2>2, <2>3
<1>6. CASE Exit(t)
  BY SMTT(60), <1>6 DEF Exit, PushBack
<1>7. CASE NotifyDel(t)
  BY <1>7 DEF NotifyDel
<1>8. CASE NotifyDelUse(t)
  BY <1>8 DEF NotifyDelUse, Notify
<1>9. CASE SeqDel(t)
  BY <1>9 DEF SeqDel
<1> QED
  BY <1>1, <1>2, <1>3, <1>4, <1>5, <1>6, <1>7, <1>8, <1>9 DEF Caller, Step

\* The network thread takes an event only to look into the queue, and deletes it only after
\* THREAD_EXIT.
LEMMA NetWake ==
  ASSUME Typed, ExitInv, Wake, NetThread
  PROVE  Wake'
<1> USE ClientCallAssumption DEF Typed, TypeOK, Started, NetInv, Wake, Ownership, Fresh,
        EventOwned, Exited, NoLostWakeup, Taking, callers
<1>1. ASSUME NEW s \in Seqs, PickEvent(s)
      PROVE  Wake'
  BY <1>1 DEF PickEvent
<1>2. CASE PopNone
  BY <1>2 DEF PopNone, Source
<1>3. CASE PopRequest
  BY <1>3 DEF PopRequest, Source, Notify
<1>4. CASE PopExit
  <2>1. /\ Source \in Threads /\ Source = owner[netSeq] /\ seq[Source] = netSeq
        /\ queue[Source] \in Seq({"SYNC", "ASYNC", "EXIT"})
        /\ queue[Source] # << >> /\ Head(queue[Source]) = "EXIT"
    BY <1>4 DEF PopExit, Source
  <2>2. Len(queue[Source]) = 1 /\ pc[Source] \in Exited
    <3>1. 1 \in 1 .. Len(queue[Source]) /\ queue[Source][1] = "EXIT"
      BY <2>1
    <3> QED
      BY ZenonT(60), <2>1, <3>1 DEF ExitInv
  <2>3. queue' = [queue EXCEPT ![Source] = << >>]
    <3>1. Tail(queue[Source]) = << >>
      BY <2>1, <2>2, TailOfOne
    <3> QED
      BY <1>4, <3>1 DEF PopExit
  <2>4. /\ owner' = [owner EXCEPT ![netSeq] = NoThread] /\ pend' = pend \ {netSeq}
        /\ UNCHANGED <<seq, calls, pc>>
    BY <1>4 DEF PopExit
  <2>5. Ownership' /\ Fresh'
    BY <2>1, <2>3, <2>4
  <2>6. \A u \in Threads \ {Source}, s \in Seqs : owner[s] = u => owner'[s] = u /\ s # netSeq
    BY <2>1, <2>4
  <2>7. EventOwned'
    BY <2>1, <2>2, <2>3, <2>4, <2>6
  <2>8. NoLostWakeup'
    <3>1. ASSUME NEW u \in Threads, queue'[u] # << >>,
                 pc'[u] \notin {"notify", "notified", "exit", "exitNotify"}
          PROVE  \E s \in Seqs : owner'[s] = u /\ s \in pend'
      BY <2>1, <2>3, <2>4, <2>6, <3>1
    <3> QED
      BY <3>1
  <2> QED
    BY <2>5, <2>7, <2>8
<1>5. ASSUME NEW t \in Threads, FinishLock(t)
      PROVE  Wake'
  BY <1>5 DEF FinishLock
<1>6. CASE Signal
  <2>1. /\ \A u \in Threads : pc'[u] = pc[u] \/ (pc[u] = "sleep" /\ pc'[u] = "relock")
        /\ UNCHANGED <<free, seq, queue, calls, owner, pend, netSeq, netFor, netRet>>
    BY <1>6 DEF Signal, Go
  <2>2. Ownership' /\ Fresh' /\ EventOwned'
    BY <2>1
  <2>3. netFor # NoThread
    BY <1>6 DEF Signal
  <2> HIDE DEF Typed, TypeOK, Started
  <2>4. NoLostWakeup'
    BY <2>1, <2>3
  <2> QED
    BY <2>2, <2>4
<1>7. CASE Unlock
  BY <1>7 DEF Unlock
<1> QED
  BY <1>1, <1>2, <1>3, <1>4, <1>5, <1>6, <1>7 DEF NetThread, Loop

-----------------------------------------------------------------------------
(* Numbers are given out in order, and as long as there are no more threads    *)
(* than numbers each thread gets one that nobody had before.                   *)

Begun == {t \in Threads : pc[t] # "out"}

Numbering ==
  /\ Len(free) >= NumSeq - Cardinality(Begun)
  /\ \A i \in 1 .. NumSeq - Cardinality(Begun) : free[i] = Cardinality(Begun) + i
  /\ \A t \in Begun : seq[t] \in 1 .. Cardinality(Begun)
  /\ \A t, u \in Begun : seq[t] = seq[u] => t = u

\* All numbers are free and there are no more threads than numbers.
LEMMA InitNumbering == Init => Numbering
<1> SUFFICES ASSUME Init PROVE Numbering
  OBVIOUS
<1>1. Begun = {}
  BY DEF Init, Begun
<1>2. Cardinality(Begun) = 0
  BY <1>1, FS_EmptySet
<1> QED
  BY <1>1, <1>2, ClientCallAssumption DEF Init, Numbering

\* A thread takes the oldest number: while some have not been used yet, one of these.
LEMMA NextNumbering ==
  ASSUME IsFiniteSet(Threads), Cardinality(Threads) <= NumSeq,
         Typed, Numbering, [Next]_vars
  PROVE  Numbering'
<1> DEFINE n == Cardinality(Begun)
<1>0. IsFiniteSet(Begun) /\ n \in Nat
  BY FS_Subset, FS_CardinalityType DEF Begun
<1>1. ASSUME NEW t \in Threads, Start(t)
      PROVE  Numbering'
  <2>1. t \notin Begun /\ Begun' = Begun \cup {t}
    BY <1>1 DEF Start, Go, Begun, Typed, TypeOK
  <2>2. n' = n + 1
    BY <1>0, <2>1, FS_AddElement
  <2>3. n + 1 <= NumSeq
    <3>1. Begun' \subseteq Threads /\ IsFiniteSet(Begun')
      BY <1>0, <2>1, FS_AddElement DEF Begun
    <3> QED
      BY <1>0, <2>2, <3>1, FS_Subset, FS_CardinalityType, ClientCallAssumption
  <2>4. free \in Seq(Seqs) /\ free # << >> /\ Head(free) = n + 1
    <3>1. free[1] = n + 1
      BY <1>0, <2>3, ClientCallAssumption DEF Numbering
    <3> QED
      BY <1>1, <3>1 DEF Start, Typed, TypeOK
  <2>5. seq' = [seq EXCEPT ![t] = n + 1] /\ free' = Tail(free)
    BY <1>1, <2>4 DEF Start
  <2>6. /\ Len(free') >= NumSeq - n'
        /\ \A i \in 1 .. NumSeq - n' : free'[i] = n' + i
    BY SMTT(60), <1>0, <2>2, <2>4, <2>5, ClientCallAssumption DEF Numbering
  <2>7. \A u \in Begun' : seq'[u] = IF u = t THEN n + 1 ELSE seq[u]
    BY <2>5 DEF Begun, Typed, TypeOK
  <2>8. /\ \A u \in Begun' : seq'[u] \in 1 .. n'
        /\ \A u, v \in Begun' : seq'[u] = seq'[v] => u = v
    BY <1>0, <2>1, <2>2, <2>7 DEF Numbering
  <2> QED
    BY <2>6, <2>8 DEF Numbering
<1>2. ASSUME NEW t \in Threads, SeqDel(t)
      PROVE  Numbering'
  <2>1. Begun' = Begun /\ UNCHANGED seq /\ free' = Append(free, seq[t])
    BY <1>2 DEF SeqDel, Go, Begun, Typed, TypeOK
  <2>2. free \in Seq(Seqs) /\ seq[t] \in Seqs
    BY <1>2 DEF SeqDel, Typed, TypeOK, Started
  <2>3. Len(free') = Len(free) + 1 /\ \A i \in 1 .. Len(free) : free'[i] = free[i]
    BY <2>1, <2>2
  <2> QED
    BY <1>0, <2>1, <2>2, <2>3, ClientCallAssumption DEF Numbering
<1>3. ASSUME UNCHANGED <<free, seq>>, Begun' = Begun
      PROVE  Numbering'
  BY <1>3 DEF Numbering
<1>4. ASSUME NEW t \in Threads, Caller(t), ~ Start(t), ~ SeqDel(t)
      PROVE  UNCHANGED <<free, seq>> /\ Begun' = Begun
  <2> DEFINE Stays == /\ UNCHANGED <<free, seq>> /\ pc[t] # "out"
                      /\ \E l \in (Idle \cup InCall \cup InExit) \ {"out"} : Go(t, l)
  <2>1. Stays
    <3>1. CASE NotifyInit(t) \/ NotifyUse(t) \/ NotifyDel(t) \/ NotifyDelUse(t)
      BY <3>1 DEF NotifyInit, NotifyUse, NotifyDel, NotifyDelUse, Go, Idle, InCall, InExit
    <3>2. CASE Check(t) \/ Lock(t) \/ Relock(t) \/ SpuriousWake(t) \/ Return(t)
      BY <3>2 DEF Check, Lock, Relock, SpuriousWake, Return, Go, Idle, InCall, InExit
    <3>3. CASE Exit(t)
      BY <3>3 DEF Exit, Go, Idle, InCall, InExit
    <3>4. ASSUME NEW k \in {"SYNC", "ASYNC"}, Call(t, k)
          PROVE  Stays
      BY <3>4 DEF Call, Go, Idle, InCall, InExit
    <3> HIDE DEF Stays
    <3> QED
      BY <1>4, <3>1, <3>2, <3>3, <3>4 DEF Caller, Step
  <2>2. \A u \in Threads : pc'[u] # "out" <=> pc[u] # "out"
    BY <2>1 DEF Go, Typed, TypeOK
  <2> QED
    BY <2>1, <2>2 DEF Begun
<1>5. ASSUME NetThread
      PROVE  UNCHANGED <<free, seq>> /\ Begun' = Begun
  BY <1>5 DEF NetThread, Loop, PickEvent, PopNone, PopRequest, PopExit, FinishLock, Signal,
              Unlock, Go, Begun, callers, Typed, TypeOK
<1>6. ASSUME UNCHANGED vars
      PROVE  UNCHANGED <<free, seq>> /\ Begun' = Begun
  BY <1>6 DEF vars, callers, Begun
<1> QED
  BY <1>1, <1>2, <1>3, <1>4, <1>5, <1>6 DEF Next

\* So no thread finds the event of another under its number.
LEMMA NumberingIsFresh ==
  ASSUME Typed, Numbering, Ownership, Fresh
  PROVE  NoStaleEvent
<1> SUFFICES ASSUME NEW t \in Threads, pc[t] = "notify", owner[seq[t]] # NoThread
             PROVE  owner[seq[t]] = t
  BY DEF NoStaleEvent
<1>1. seq[t] \in Seqs /\ owner[seq[t]] \in Threads
  BY DEF Typed, TypeOK, Started
<1>2. seq[owner[seq[t]]] = seq[t]
  BY <1>1 DEF Ownership
<1>3. t \in Begun /\ owner[seq[t]] \in Begun
  BY <1>1, <1>2 DEF Begun, Fresh
<1> QED
  BY <1>2, <1>3 DEF Numbering

\* With no more calling threads than numbers no wake-up is lost: requests that
\* are queued when their thread has come out of notify() are announced by a
\* pending event, or the network thread is taking them.
THEOREM WakeupsArrive ==
  ASSUME IsFiniteSet(Threads), Cardinality(Threads) <= NumSeq
  PROVE  Spec => []NoLostWakeup
<1> DEFINE Inv == Typed /\ ExitInv /\ Wake /\ Numbering
<1>1. Init => Inv
  <2>1. Init => ExitInv
    BY DEF Init, ExitInv
  <2>2. Init => Wake
    BY ClientCallAssumption DEF Init, Wake, Ownership, Fresh, EventOwned, NoLostWakeup, Exited
  <2> QED
    BY <2>1, <2>2, InitTyped, InitNumbering
<1>2. Inv /\ [Next]_vars => Inv'
  <2> SUFFICES ASSUME Inv, [Next]_vars PROVE Inv'
    OBVIOUS
  <2>1. NoStaleEvent
    BY NumberingIsFresh DEF Wake
  <2>2. ASSUME UNCHANGED vars
        PROVE  Wake'
    <3>1. UNCHANGED <<seq, queue, calls, pc, owner, pend, netPc, netSeq, netFor, netRet>>
      BY <2>2 DEF vars, callers, net
    <3>2. UNCHANGED Ownership /\ UNCHANGED Fresh /\ UNCHANGED EventOwned
      BY <3>1 DEF Ownership, Fresh, EventOwned, Exited
    <3>3. UNCHANGED NoLostWakeup
      BY <3>1 DEF NoLostWakeup, Taking
    <3> QED
      BY <3>2, <3>3 DEF Wake
  <2>3. Wake'
    BY <2>1, <2>2, CallerWake, NetWake DEF Next
  <2> QED
    BY <2>3, NextTyped, NextExitInv, NextNumbering
<1>3. Inv => NoLostWakeup
  BY DEF Wake
<1> QED
  BY <1>1, <1>2, <1>3, PTL DEF Spec
=============================================================================
