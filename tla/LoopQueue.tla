----------------------------- MODULE LoopQueue -----------------------------
(* TC_LoopQueue: the ring each calling thread shares with a network thread. *)
(* One thread pushes, one thread pops, and there is no lock: the two sides  *)
(* only meet in the indices _iBegin (next slot to write, moved by the       *)
(* producer) and _iEnd (next slot to read, moved by the consumer).  Every   *)
(* load of the other side's index and every store is a step of its own.     *)
EXTENDS Integers, Sequences

CONSTANTS ISize,      \* constructor argument: the values the ring must hold
          Val,
          NoVal,
          MaxBatch    \* bound: the longest vector given to the bulk push_back

ASSUME LoopQueueAssumption == /\ ISize \in Nat \ {0}
                              /\ MaxBatch \in Nat
                              /\ NoVal \notin Val

CapacitySub == ISize
Capacity    == ISize + 1
Slots       == 0 .. CapacitySub

VARIABLES p,          \* _p, the array
          iBegin,     \* _iBegin
          iEnd,       \* _iEnd
          pcP,        \* where the producer is in push_back
          todo,       \* the values it still has to copy
          single,     \* it runs the one-value push_back
          bEmpty,     \* the hint push_back returns
          pcC,        \* where the consumer is in pop_front
          t,          \* the value pop_front has copied out
          got,        \* the value pop_front returned last
          sawEmpty,   \* history: pop_front's latest answer was "empty"
          woken       \* history: a push_back has answered bEmpty since then

producer == <<pcP, todo, single, bEmpty>>
consumer == <<pcC, t, got>>
history  == <<sawEmpty, woken>>
ringVars == <<p, iBegin, iEnd, producer, consumer, history>>

Batches == UNION {[1 .. n -> Val] : n \in 0 .. MaxBatch}

RingTypeOK ==
  /\ p \in [Slots -> Val \cup {NoVal}]
  /\ iBegin \in Slots /\ iEnd \in Slots
  /\ pcP \in {"idle", "copy", "test", "advance", "size"}
  /\ todo \in Seq(Val)
  /\ single \in BOOLEAN /\ bEmpty \in BOOLEAN
  /\ pcC \in {"idle", "copy", "advance"}
  /\ t \in Val \cup {NoVal}
  /\ got \in Val \cup {NoVal}
  /\ sawEmpty \in BOOLEAN /\ woken \in BOOLEAN

Succ(i) == IF i = CapacitySub THEN 0 ELSE i + 1

\* size(): the number of values between the two indices.
Size(b, e) == IF b < e THEN b + Capacity - e ELSE b - e

\* Wrong forms, which the properties rule out, stand before the definition they are a wrong
\* form of: a test that forgets that the indices have gone round, ...
TooManyUnwrapped(b, e, n) == n > Capacity - 1 \/ (b > e /\ b - e > Capacity - n - 1)

\* The two tests that refuse a value (a vector of n values).
Full(b, e) == \/ e > b /\ e - b < 2
              \/ b > e /\ b - e > Capacity - 2

TooMany(b, e, n) == \/ n > Capacity - 1
                    \/ e > b /\ e - b < n + 1
                    \/ b > e /\ b - e > Capacity - n - 1

RingInit ==
  /\ p = [i \in Slots |-> NoVal]
  /\ iBegin = 0 /\ iEnd = 0
  /\ pcP = "idle" /\ todo = << >> /\ single = TRUE /\ bEmpty = FALSE
  /\ pcC = "idle" /\ t = NoVal /\ got = NoVal
  /\ sawEmpty = FALSE /\ woken = FALSE

-----------------------------------------------------------------------------
(* The producer. *)

PushRefused == /\ pcP = "idle"
               /\ Full(iBegin, iEnd)
               /\ bEmpty' = FALSE /\ single' = TRUE
               /\ UNCHANGED <<p, iBegin, iEnd, pcP, todo, consumer, history>>

Push(v) == /\ pcP = "idle"
           /\ ~ Full(iBegin, iEnd)
           /\ pcP' = "copy" /\ todo' = <<v>>
           /\ bEmpty' = FALSE /\ single' = TRUE
           /\ UNCHANGED <<p, iBegin, iEnd, consumer, history>>

PushAllRefused(vt) == /\ pcP = "idle"
                      /\ TooMany(iBegin, iEnd, Len(vt))
                      /\ single' = FALSE
                      /\ UNCHANGED <<p, iBegin, iEnd, pcP, todo, bEmpty, consumer, history>>

\* The bulk push_back makes no test for emptiness and returns no hint.
PushAll(vt) == /\ pcP = "idle"
               /\ ~ TooMany(iBegin, iEnd, Len(vt))
               /\ pcP' = IF vt = << >> THEN "idle" ELSE "copy"
               /\ todo' = vt
               /\ single' = FALSE
               /\ UNCHANGED <<p, iBegin, iEnd, bEmpty, consumer, history>>

Copy == /\ pcP = "copy"
        /\ p' = [p EXCEPT ![iBegin] = Head(todo)]
        /\ pcP' = IF single THEN "test" ELSE "advance"
        /\ UNCHANGED <<iBegin, iEnd, todo, single, bEmpty, consumer, history>>

TestEmpty == /\ pcP = "test"
             /\ bEmpty' = (iEnd = iBegin)
             /\ pcP' = "advance"
             /\ UNCHANGED <<p, iBegin, iEnd, todo, single, consumer, history>>

Advance == /\ pcP = "advance"
           /\ iBegin' = Succ(iBegin)
           /\ todo' = Tail(todo)
           /\ pcP' = IF single THEN "size"
                     ELSE IF Len(todo) > 1 THEN "copy" ELSE "idle"
           /\ woken' = (woken \/ (~ single /\ Len(todo) = 1))
           /\ UNCHANGED <<p, iEnd, single, bEmpty, consumer, sawEmpty>>

\* ... a hint that is not looked at again, ...
TestSizeOnce == /\ pcP = "size"
                /\ woken' = (woken \/ bEmpty)
                /\ pcP' = "idle"
                /\ UNCHANGED <<p, iBegin, iEnd, todo, single, bEmpty, consumer, sawEmpty>>

\* The second look at the size, then the return of true.
TestSize == /\ pcP = "size"
            /\ bEmpty' = (bEmpty \/ Size(iBegin, iEnd) = 1)
            /\ woken' = (woken \/ bEmpty')
            /\ pcP' = "idle"
            /\ UNCHANGED <<p, iBegin, iEnd, todo, single, consumer, sawEmpty>>

Producer == \/ PushRefused \/ Copy \/ TestEmpty \/ Advance \/ TestSize
            \/ \E v \in Val : Push(v)
            \/ \E vt \in Batches : PushAll(vt) \/ PushAllRefused(vt)

-----------------------------------------------------------------------------
(* The consumer. *)

PopEmpty == /\ pcC = "idle"
            /\ iEnd = iBegin
            /\ sawEmpty' = TRUE /\ woken' = FALSE
            /\ UNCHANGED <<p, iBegin, iEnd, producer, consumer>>

\* ... and a ring that is taken for empty once the writer has gone round.
PopUnwrapped == /\ pcC = "idle"
                /\ iEnd < iBegin
                /\ pcC' = "copy"
                /\ sawEmpty' = FALSE
                /\ UNCHANGED <<p, iBegin, iEnd, producer, t, got, woken>>

Pop == /\ pcC = "idle"
       /\ iEnd # iBegin
       /\ pcC' = "copy"
       /\ sawEmpty' = FALSE
       /\ UNCHANGED <<p, iBegin, iEnd, producer, t, got, woken>>

CopyOut == /\ pcC = "copy"
           /\ t' = p[iEnd]
           /\ pcC' = "advance"
           /\ UNCHANGED <<p, iBegin, iEnd, producer, got, history>>

AdvanceEnd == /\ pcC = "advance"
              /\ iEnd' = Succ(iEnd)
              /\ got' = t
              /\ pcC' = "idle"
              /\ UNCHANGED <<p, iBegin, producer, t, history>>

\* get_front() copies the value and leaves it in the ring.
GetFront == /\ pcC = "advance"
         /\ pcC' = "idle"
         /\ UNCHANGED <<p, iBegin, iEnd, producer, t, got, history>>

Consumer == PopEmpty \/ Pop \/ CopyOut \/ AdvanceEnd \/ GetFront

RingNext == Producer \/ Consumer

RingSpec == RingInit /\ [][RingNext]_ringVars

\* Both threads keep running inside a call they have begun, and the network
\* thread pops until the ring is empty.
RingFairness ==
  /\ WF_ringVars(Copy \/ TestEmpty \/ Advance \/ TestSize)
  /\ WF_ringVars(Pop \/ CopyOut)
  /\ SF_ringVars(AdvanceEnd)

-----------------------------------------------------------------------------
(* The ring, read from the oldest value on, is the queue BoundedFifo        *)
(* describes.                                                               *)
At(k) == IF iEnd + k - 1 > CapacitySub THEN iEnd + k - 1 - Capacity
                                       ELSE iEnd + k - 1

Held == [k \in 1 .. Size(iBegin, iEnd) |-> p[At(k)]]

Fifo == INSTANCE BoundedFifo WITH Capacity <- ISize, q <- Held

\* The ring is a bounded FIFO: no value is lost, repeated, overtaken or
\* overwritten before it is read, whatever the interleaving of push_back and
\* pop_front.
FifoSpec == Fifo!Spec

\* push_back answers false only when the ring holds all the values it was
\* built for, and the bulk form only when the vector does not fit: the index
\* arithmetic of the two refusals agrees with the number of values held.
RefusedOnlyWhenFull ==
  [][ /\ PushRefused => Size(iBegin, iEnd) = ISize
      /\ \A vt \in Batches :
           PushAllRefused(vt) => Size(iBegin, iEnd) + Len(vt) > ISize ]_ringVars

\* The slot pop_front is about to hand over is not the slot push_back is
\* writing: the two sides never touch the same slot.
DisjointSlots ==
  (pcP \in {"copy", "test", "advance"} /\ pcC # "idle") => iBegin # iEnd

\* The hint of push_back: a consumer that went to rest on an empty ring, and
\* for which values have been pushed since, has been told so by a push_back
\* that answered bEmpty (the bulk push_back has no hint: its caller must
\* wake the consumer itself, which the model counts as a wake-up).
NoMissedHint ==
  (sawEmpty /\ pcP = "idle" /\ iBegin # iEnd) => woken

\* What a pop_front has begun to read is what it returns: no push_back can
\* change the value between the copy and the move of _iEnd.
CopiedValueStays == pcC = "advance" => p[iEnd] = t

\* The oldest value in the ring is received in the end: no position of the
\* two indices makes pop_front take a ring that holds values for an empty one.
OldestReceived == \A v \in Val : (Held # << >> /\ Held[1] = v) ~> (got = v)
============================================================================
