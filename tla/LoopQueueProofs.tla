-------------------------- MODULE LoopQueueProofs --------------------------
(* For a ring of any size and any values: the type invariant of LoopQueue,  *)
(* its slot invariants, and that it implements BoundedFifo.                 *)
EXTENDS LoopQueue, TLAPS

-----------------------------------------------------------------------------
(* Index arithmetic. *)

\* The number of values between the indices fits the ring, it is zero only
\* when the indices meet, and moving an index changes it by one.
LEMMA SizeFacts ==
  ASSUME NEW b \in Slots, NEW e \in Slots
  PROVE  /\ Size(b, e) \in 0 .. ISize
         /\ Size(b, e) = 0 <=> b = e
         /\ Succ(b) \in Slots
         /\ Size(b, e) < ISize => Size(Succ(b), e) = Size(b, e) + 1
         /\ b # e => Size(b, Succ(e)) = Size(b, e) - 1
BY LoopQueueAssumption DEF Slots, Size, Succ, Capacity, CapacitySub

\* The two refusals of push_back, in terms of the number of values held.
LEMMA FullFacts ==
  ASSUME NEW b \in Slots, NEW e \in Slots
  PROVE  /\ Full(b, e) <=> Size(b, e) = ISize
         /\ \A n \in Nat : TooMany(b, e, n) <=> Size(b, e) + n > ISize
BY LoopQueueAssumption DEF Slots, Size, Full, TooMany, Capacity, CapacitySub

\* A vector of the bulk push_back is a sequence of values.
LEMMA BatchIsSequence ==
  ASSUME NEW vt \in Batches
  PROVE  vt \in Seq(Val) /\ Len(vt) \in Nat
BY LoopQueueAssumption DEF Batches

-----------------------------------------------------------------------------
(* The inductive invariant. *)

\* What push_back still has to copy fits the ring and has been written where
\* the program counter says it has.
PushInv ==
  /\ pcP \in {"test", "size"} => single
  /\ pcP \in {"copy", "test", "advance"} =>
       /\ Len(todo) >= 1
       /\ single => Len(todo) = 1
       /\ Size(iBegin, iEnd) + Len(todo) <= ISize
  /\ pcP \in {"test", "advance"} => p[iBegin] = Head(todo)

\* pop_front has seen a value and the copy it holds is the oldest one.
PopInv ==
  /\ pcC # "idle" => iBegin # iEnd
  /\ CopiedValueStays

HeldInv == \A k \in 1 .. Size(iBegin, iEnd) : p[At(k)] \in Val

IInv == RingTypeOK /\ PushInv /\ PopInv /\ HeldInv

\* The slots between the indices are slots of the array, and none is the one
\* the producer writes next as long as the ring is not full.
LEMMA AtFacts ==
  ASSUME RingTypeOK
  PROVE  /\ \A k \in 1 .. Size(iBegin, iEnd) : At(k) \in Slots
         /\ Size(iBegin, iEnd) < ISize =>
              \A k \in 1 .. Size(iBegin, iEnd) : At(k) # iBegin
         /\ At(Size(iBegin, iEnd) + 1) = iBegin
         /\ At(1) = iEnd
BY LoopQueueAssumption
   DEF RingTypeOK, Slots, Size, At, Capacity, CapacitySub

\* The initial state satisfies the inductive invariant.
LEMMA InitIInv == RingInit => IInv
BY LoopQueueAssumption
   DEF RingInit, IInv, RingTypeOK, PushInv, PopInv, HeldInv, CopiedValueStays, Slots,
       Size, CapacitySub, Capacity

\* Every step of either thread keeps the inductive invariant.
LEMMA NextIInv == IInv /\ [RingNext]_ringVars => IInv'
<1> SUFFICES ASSUME IInv, [RingNext]_ringVars PROVE IInv'
  OBVIOUS
<1> USE LoopQueueAssumption
<1>t. RingTypeOK /\ PushInv /\ PopInv /\ HeldInv
  BY DEF IInv
<1>i. iBegin \in Slots /\ iEnd \in Slots /\ todo \in Seq(Val)
  BY <1>t DEF RingTypeOK
<1>s. /\ Size(iBegin, iEnd) \in 0 .. ISize
      /\ Size(iBegin, iEnd) = 0 <=> iBegin = iEnd
      /\ Succ(iBegin) \in Slots /\ Succ(iEnd) \in Slots
      /\ Size(iBegin, iEnd) < ISize
           => Size(Succ(iBegin), iEnd) = Size(iBegin, iEnd) + 1
      /\ iBegin # iEnd => Size(iBegin, Succ(iEnd)) = Size(iBegin, iEnd) - 1
  BY <1>i, SizeFacts
<1>1. CASE PushRefused
  BY <1>t, <1>1
     DEF PushRefused, IInv, RingTypeOK, PushInv, PopInv, HeldInv, CopiedValueStays,
         consumer, history, At
<1>2. ASSUME NEW v \in Val, Push(v) PROVE IInv'
  <2>1. Size(iBegin, iEnd) < ISize
    BY <1>2, <1>i, <1>s, FullFacts DEF Push
  <2>2. <<v>> \in Seq(Val) /\ Len(<<v>>) = 1 /\ Head(<<v>>) = v
    OBVIOUS
  <2>3. /\ pcP' = "copy" /\ todo' = <<v>> /\ bEmpty' = FALSE /\ single' = TRUE
        /\ UNCHANGED <<p, iBegin, iEnd, pcC, t, got, sawEmpty, woken>>
    BY <1>2 DEF Push, consumer, history
  <2>4. RingTypeOK'
    BY <1>t, <2>2, <2>3 DEF RingTypeOK
  <2>5. PushInv'
    BY <1>s, <2>1, <2>2, <2>3 DEF PushInv
  <2>6. PopInv' /\ HeldInv'
    BY <1>t, <2>3 DEF PopInv, HeldInv, CopiedValueStays, At
  <2> QED
    BY <2>4, <2>5, <2>6 DEF IInv
<1>3. ASSUME NEW vt \in Batches, PushAllRefused(vt) PROVE IInv'
  BY <1>t, <1>3
     DEF PushAllRefused, IInv, RingTypeOK, PushInv, PopInv, HeldInv,
         CopiedValueStays, consumer, history, At
<1>4. ASSUME NEW vt \in Batches, PushAll(vt) PROVE IInv'
  <2>1. vt \in Seq(Val) /\ Len(vt) \in Nat /\ (vt # << >> => Len(vt) >= 1)
    BY BatchIsSequence
  <2>2. Size(iBegin, iEnd) + Len(vt) <= ISize
    BY <1>4, <1>i, <1>s, <2>1, FullFacts DEF PushAll
  <2> QED
    BY <1>t, <1>4, <1>s, <2>1, <2>2
       DEF PushAll, IInv, RingTypeOK, PushInv, PopInv, HeldInv, CopiedValueStays,
           consumer, history, At
<1>5. CASE Copy
  <2>1. Size(iBegin, iEnd) < ISize /\ Len(todo) >= 1 /\ Head(todo) \in Val
    BY <1>5, <1>t, <1>i, <1>s DEF Copy, PushInv
  <2>2. \A k \in 1 .. Size(iBegin, iEnd) : At(k) \in Slots /\ At(k) # iBegin
    BY <1>t, <2>1, AtFacts
  <2>3. p' = [p EXCEPT ![iBegin] = Head(todo)] /\ UNCHANGED <<iBegin, iEnd, t, pcC>>
    BY <1>5 DEF Copy, consumer
  <2>4. \A k \in 1 .. Size(iBegin, iEnd) : p'[At(k)] = p[At(k)]
    BY <1>t, <2>2, <2>3 DEF RingTypeOK
  <2>5. HeldInv'
    BY <1>t, <2>3, <2>4 DEF HeldInv, At
  <2>6. PopInv'
    <3>1. pcC = "advance" => p'[iEnd] = p[iEnd]
      BY <1>t, <1>i, <2>3 DEF RingTypeOK, PopInv
    <3> QED
      BY <1>t, <2>3, <3>1 DEF PopInv, CopiedValueStays
  <2>7. PushInv'
    BY <1>5, <1>t, <1>i, <2>3 DEF Copy, PushInv, RingTypeOK
  <2>8. RingTypeOK'
    BY <1>5, <1>t, <1>i, <2>1 DEF Copy, RingTypeOK, consumer, history
  <2> QED
    BY <2>5, <2>6, <2>7, <2>8 DEF IInv
<1>6. CASE TestEmpty
  BY <1>t, <1>6
     DEF TestEmpty, IInv, RingTypeOK, PushInv, PopInv, HeldInv, CopiedValueStays,
         consumer, history, At
<1>7. CASE Advance
  <2>1. /\ Len(todo) >= 1 /\ (single => Len(todo) = 1)
        /\ Size(iBegin, iEnd) + Len(todo) <= ISize
        /\ p[iBegin] = Head(todo)
    BY <1>7, <1>t DEF Advance, PushInv
  <2>2. Tail(todo) \in Seq(Val) /\ Len(Tail(todo)) = Len(todo) - 1 /\ Head(todo) \in Val
    BY <1>i, <2>1
  <2>3. /\ iBegin' = Succ(iBegin) /\ todo' = Tail(todo)
        /\ UNCHANGED <<p, iEnd, single, bEmpty, pcC, t, got, sawEmpty>>
    BY <1>7 DEF Advance, consumer
  <2>4. Size(iBegin, iEnd)' = Size(iBegin, iEnd) + 1 /\ Size(iBegin, iEnd) < ISize
    BY <1>i, <1>s, <2>1, <2>3
  <2>5. RingTypeOK'
    BY <1>7, <1>t, <1>s, <2>2, <2>3 DEF Advance, RingTypeOK
  <2>6. PushInv'
    BY <1>7, <1>t, <1>i, <1>s, <2>1, <2>2, <2>3, <2>4 DEF Advance, PushInv, RingTypeOK
  <2>7. PopInv'
    <3>1. Succ(iBegin) # iEnd
      BY <1>i, <1>s, <2>4, SizeFacts, <2>3
    <3> QED
      BY <1>t, <2>3, <3>1 DEF PopInv, CopiedValueStays
  <2>8. HeldInv'
    <3>1. \A k \in 1 .. Size(iBegin, iEnd) : p[At(k)] \in Val
      BY <1>t DEF HeldInv
    <3>2. p[At(Size(iBegin, iEnd) + 1)] \in Val
      BY <1>t, <2>1, <2>2, AtFacts
    <3> QED
      BY <1>s, <2>3, <2>4, <3>1, <3>2 DEF HeldInv, At
  <2> QED
    BY <2>5, <2>6, <2>7, <2>8 DEF IInv
<1>8. CASE TestSize
  BY <1>t, <1>8
     DEF TestSize, IInv, RingTypeOK, PushInv, PopInv, HeldInv, CopiedValueStays,
         consumer, history, At
<1>9. CASE PopEmpty
  BY <1>t, <1>9
     DEF PopEmpty, IInv, RingTypeOK, PushInv, PopInv, HeldInv, CopiedValueStays,
         consumer, producer, At
<1>10. CASE Pop
  BY <1>t, <1>10
     DEF Pop, IInv, RingTypeOK, PushInv, PopInv, HeldInv, CopiedValueStays,
         producer, At
<1>11. CASE CopyOut
  BY <1>t, <1>i, <1>11
     DEF CopyOut, IInv, RingTypeOK, PushInv, PopInv, HeldInv, CopiedValueStays,
         producer, history, At
<1>12. CASE AdvanceEnd
  <2>1. /\ iEnd' = Succ(iEnd) /\ got' = t /\ pcC' = "idle"
        /\ UNCHANGED <<p, iBegin, pcP, todo, single, bEmpty, t, sawEmpty, woken>>
    BY <1>12 DEF AdvanceEnd, producer, history
  <2>2. iBegin # iEnd
    BY <1>12, <1>t DEF AdvanceEnd, PopInv
  <2>3. Size(iBegin, iEnd)' = Size(iBegin, iEnd) - 1
    BY <1>s, <2>1, <2>2
  <2>4. RingTypeOK'
    BY <1>t, <1>s, <2>1 DEF RingTypeOK
  <2>5. PushInv'
    BY <1>t, <1>i, <1>s, <2>1, <2>3 DEF PushInv
  <2>6. PopInv'
    BY <2>1 DEF PopInv, CopiedValueStays
  <2>7. HeldInv'
    <3>1. \A k \in 1 .. Size(iBegin, iEnd) - 1 : At(k)' = At(k + 1)
      BY <1>i, <1>s, <2>1 DEF At, Succ, Slots, Capacity, CapacitySub
    <3> QED
      BY <1>t, <1>s, <2>1, <2>3, <3>1 DEF HeldInv
  <2> QED
    BY <2>4, <2>5, <2>6, <2>7 DEF IInv
<1>13. CASE GetFront
  BY <1>t, <1>13
     DEF GetFront, IInv, RingTypeOK, PushInv, PopInv, HeldInv, CopiedValueStays,
         producer, history, At
<1>14. CASE UNCHANGED ringVars
  BY <1>t, <1>14
     DEF ringVars, IInv, RingTypeOK, PushInv, PopInv, HeldInv, CopiedValueStays,
         producer, consumer, history, At
<1> QED
  BY <1>1, <1>2, <1>3, <1>4, <1>5, <1>6, <1>7, <1>8, <1>9, <1>10, <1>11, <1>12,
     <1>13, <1>14 DEF RingNext, Producer, Consumer

\* The type invariant and the slot invariants hold in every reachable state.
THEOREM Invariant == RingSpec => []IInv
  BY InitIInv, NextIInv, PTL DEF RingSpec

\* Every variable of the ring keeps its type: the indices stay inside the
\* array whatever the two threads do.
THEOREM TypeCorrect == RingSpec => []RingTypeOK
<1>1. IInv => RingTypeOK
  BY DEF IInv
<1> QED
  BY <1>1, Invariant, PTL

\* The two sides never touch the same slot.
THEOREM SlotsAreDisjoint == RingSpec => []DisjointSlots
<1>1. IInv => DisjointSlots
  BY DEF IInv, PopInv, DisjointSlots
<1> QED
  BY <1>1, Invariant, PTL

\* What pop_front has copied is what it returns.
THEOREM CopyIsStable == RingSpec => []CopiedValueStays
<1>1. IInv => CopiedValueStays
  BY DEF IInv, PopInv
<1> QED
  BY <1>1, Invariant, PTL

\* push_back refuses a value only when the ring is full, a vector only when it
\* does not fit.
THEOREM RefusalsAreRight == RingSpec => RefusedOnlyWhenFull
<1>1. ASSUME IInv, [RingNext]_ringVars
      PROVE  [ /\ PushRefused => Size(iBegin, iEnd) = ISize
               /\ \A vt \in Batches :
                    PushAllRefused(vt) => Size(iBegin, iEnd) + Len(vt) > ISize ]_ringVars
  <2>1. iBegin \in Slots /\ iEnd \in Slots
    BY <1>1 DEF IInv, RingTypeOK
  <2>2. \A vt \in Batches : Len(vt) \in Nat
    BY BatchIsSequence
  <2> QED
    BY <2>1, <2>2, FullFacts DEF PushRefused, PushAllRefused
<1> QED
  BY <1>1, Invariant, PTL DEF RingSpec, RefusedOnlyWhenFull

-----------------------------------------------------------------------------
(* The hint of push_back. *)

\* A consumer at rest on an empty ring and not told since: the ring is still
\* empty, or the push_back that has moved _iBegin has its second look before it;
\* the bulk form tells when its last value is in.
HintInv ==
  sawEmpty => /\ pcC = "idle"
              /\ ~ woken => /\ pcP = "idle" => iBegin = iEnd
                            /\ pcP = "size" => Size(iBegin, iEnd) <= 1
                            /\ pcP \in {"copy", "test", "advance"} /\ single => iBegin = iEnd

\* Every step of either thread keeps the invariant of the hint.
LEMMA NextHint == IInv /\ HintInv /\ [RingNext]_ringVars => HintInv'
<1> SUFFICES ASSUME IInv, HintInv, [RingNext]_ringVars PROVE HintInv'
  OBVIOUS
<1>i. /\ iBegin \in Slots /\ iEnd \in Slots /\ single \in BOOLEAN /\ woken \in BOOLEAN
      /\ bEmpty \in BOOLEAN /\ todo \in Seq(Val)
      /\ pcP \in {"test", "size"} => single
  BY DEF IInv, RingTypeOK, PushInv
<1>l. pcP = "advance" => Len(todo) = 1 \/ Len(todo) > 1
  <2>1. Len(todo) \in Nat
    BY <1>i
  <2>2. pcP = "advance" => Len(todo) >= 1
    BY DEF IInv, PushInv
  <2>3. \A n \in Nat : n >= 1 => n = 1 \/ n > 1
    OBVIOUS
  <2> QED
    BY <2>1, <2>2, <2>3, Zenon
<1>s. /\ Size(iBegin, iEnd) \in 0 .. ISize
      /\ Size(iBegin, iEnd) = 0 <=> iBegin = iEnd
  BY <1>i, SizeFacts
<1>0. CASE PushRefused
  BY <1>0 DEF PushRefused, HintInv, consumer, history
<1>1. CASE Copy \/ TestEmpty
  <2>1. /\ UNCHANGED <<iBegin, iEnd, single, pcC, sawEmpty, woken>>
        /\ pcP \in {"copy", "test"} /\ pcP' \in {"test", "advance"}
    BY <1>1 DEF Copy, TestEmpty, consumer, history
  <2> QED
    BY <2>1 DEF HintInv
<1>2. ASSUME NEW v \in Val, Push(v) PROVE HintInv'
  BY <1>2 DEF Push, HintInv, consumer, history
<1>3. ASSUME NEW vt \in Batches, PushAll(vt) \/ PushAllRefused(vt) PROVE HintInv'
  BY <1>3 DEF PushAll, PushAllRefused, HintInv, consumer, history
<1>4. CASE Advance
  <2>1. CASE single
    <3>1. /\ pcP' = "size" /\ woken' = woken /\ iBegin' = Succ(iBegin)
          /\ UNCHANGED <<iEnd, pcC, sawEmpty>>
      BY <1>4, <1>i, <2>1 DEF Advance, consumer
    <3>2. iBegin = iEnd => Size(iBegin, iEnd)' <= 1
      <4>1. iBegin = iEnd => Size(Succ(iBegin), iEnd) = Size(iBegin, iEnd) + 1
        BY <1>i, <1>s, SizeFacts, LoopQueueAssumption
      <4> QED
        BY <3>1, <4>1, <1>s
    <3> QED
      BY <1>4, <2>1, <3>1, <3>2 DEF Advance, HintInv
  <2>2. CASE ~ single
    <3>1. /\ pcP' = "copy" \/ (pcP' = "idle" /\ woken')
          /\ UNCHANGED <<pcC, sawEmpty, single>>
      BY <1>4, <1>l, <2>2 DEF Advance, consumer
    <3> QED
      BY <2>2, <3>1 DEF HintInv
  <2> QED
    BY <2>1, <2>2
<1>5. CASE TestSize
  <2>1. ~ woken' => ~ woken /\ Size(iBegin, iEnd) # 1
    BY <1>5, <1>i DEF TestSize
  <2> QED
    BY <1>5, <1>s, <2>1 DEF TestSize, HintInv, consumer
<1>6. CASE PopEmpty
  BY <1>6, <1>s DEF PopEmpty, HintInv, producer, consumer
<1>7. CASE Pop \/ CopyOut \/ AdvanceEnd \/ GetFront
  BY <1>7 DEF Pop, CopyOut, AdvanceEnd, GetFront, HintInv, history
<1>8. CASE UNCHANGED ringVars
  BY <1>8 DEF ringVars, HintInv, producer, consumer, history
<1> QED
  BY <1>0, <1>1, <1>2, <1>3, <1>4, <1>5, <1>6, <1>7, <1>8 DEF RingNext, Producer, Consumer

\* The hint push_back returns is never missed: a network thread that found the
\* ring empty has been told when values are in it and no push_back runs,
\* whatever the interleaving of the two looks at the indices with pop_front.
THEOREM HintArrives == RingSpec => []NoMissedHint
<1>1. RingInit => HintInv
  BY DEF RingInit, HintInv
<1>2. HintInv => NoMissedHint
  BY DEF HintInv, NoMissedHint
<1> QED
  BY <1>1, <1>2, NextHint, Invariant, PTL DEF RingSpec

-----------------------------------------------------------------------------
(* The refinement. *)

\* Held is a sequence of values as long as Size says.
LEMMA HeldFacts ==
  ASSUME IInv
  PROVE  /\ Held \in Seq(Val)
         /\ Len(Held) = Size(iBegin, iEnd)
         /\ Size(iBegin, iEnd) \in 0 .. ISize
<1>1. Size(iBegin, iEnd) \in 0 .. ISize
  BY SizeFacts DEF IInv, RingTypeOK
<1>2. \A k \in 1 .. Size(iBegin, iEnd) : p[At(k)] \in Val
  BY DEF IInv, HeldInv
<1>3. Held \in [1 .. Size(iBegin, iEnd) -> Val]
  BY <1>2 DEF Held
<1>4. Size(iBegin, iEnd) \in Nat
  BY <1>1, LoopQueueAssumption
<1> QED
  BY <1>1, <1>3, <1>4

\* Every step of the ring is a step of the FIFO queue, or changes nothing of it.
LEMMA StepRefines ==
  ASSUME IInv, [RingNext]_ringVars
  PROVE  [Fifo!Next]_(Fifo!vars)
<1> USE LoopQueueAssumption
<1>h. /\ Held \in Seq(Val) /\ Len(Held) = Size(iBegin, iEnd)
      /\ Size(iBegin, iEnd) \in 0 .. ISize
  BY HeldFacts
<1>i. IInv' /\ iBegin \in Slots /\ iEnd \in Slots /\ todo \in Seq(Val)
  BY NextIInv DEF IInv, RingTypeOK
<1>k. /\ Held' \in Seq(Val) /\ Len(Held') = Size(iBegin, iEnd)'
  <2>1. (Held \in Seq(Val) /\ Len(Held) = Size(iBegin, iEnd))'
    BY <1>i, HeldFacts, PTL
  <2> QED
    BY <2>1
<1>1. CASE UNCHANGED <<p, iBegin, iEnd, got>>
  BY <1>1 DEF Fifo!vars, Held, At
<1>2. CASE Copy
  <2>1. Size(iBegin, iEnd) < ISize
    BY <1>2, <1>i, <1>h DEF Copy, IInv, PushInv
  <2>2. \A k \in 1 .. Size(iBegin, iEnd) : At(k) \in Slots /\ At(k) # iBegin
    BY <2>1, AtFacts DEF IInv
  <2>3. \A k \in 1 .. Size(iBegin, iEnd) : p'[At(k)] = p[At(k)]
    BY <1>2, <2>2 DEF Copy, IInv, RingTypeOK
  <2>4. Held' = Held /\ got' = got
    BY <1>2, <2>3 DEF Copy, consumer, Held, At
  <2> QED
    BY <2>4 DEF Fifo!vars
<1>3. CASE Advance
  <2>1. /\ Size(iBegin, iEnd) + Len(todo) <= ISize /\ Len(todo) >= 1
        /\ p[iBegin] = Head(todo)
    BY <1>3 DEF Advance, IInv, PushInv
  <2>2. Head(todo) \in Val
    BY <1>i, <2>1
  <2>3. Size(iBegin, iEnd) < ISize /\ Size(iBegin, iEnd)' = Size(iBegin, iEnd) + 1
    BY <1>3, <1>i, <1>h, <2>1, SizeFacts DEF Advance
  <2>4. p[At(Size(iBegin, iEnd) + 1)] = Head(todo)
    BY <2>1, AtFacts DEF IInv
  <2>5. /\ \A k \in 1 .. Size(iBegin, iEnd) : Held'[k] = Held[k]
        /\ Held'[Size(iBegin, iEnd) + 1] = Head(todo)
    BY <1>3, <1>h, <2>3, <2>4 DEF Advance, Held, At
  <2>6. Held' = Append(Held, Head(todo))
    BY <1>h, <1>k, <2>2, <2>3, <2>5
  <2>7. Fifo!Enqueue(Head(todo))
    BY <1>3, <1>h, <2>3, <2>6 DEF Fifo!Enqueue, Advance, consumer
  <2> QED
    BY <2>2, <2>7 DEF Fifo!Next
<1>4. CASE AdvanceEnd
  <2>1. iBegin # iEnd /\ t = p[iEnd]
    BY <1>4 DEF AdvanceEnd, IInv, PopInv, CopiedValueStays
  <2>2. Size(iBegin, iEnd)' = Size(iBegin, iEnd) - 1 /\ Size(iBegin, iEnd) >= 1
    BY <1>4, <1>i, <1>h, <2>1, SizeFacts DEF AdvanceEnd
  <2>3. \A k \in 1 .. Size(iBegin, iEnd) - 1 : At(k)' = At(k + 1)
    BY <1>4, <1>i, <1>h DEF AdvanceEnd, At, Succ, Slots, Capacity, CapacitySub
  <2>4. \A k \in 1 .. Size(iBegin, iEnd) - 1 : Held'[k] = Held[k + 1]
    BY <1>4, <1>h, <2>2, <2>3 DEF AdvanceEnd, Held
  <2>5. Held' = Tail(Held) /\ Held # << >>
    BY <1>h, <1>k, <2>2, <2>4
  <2>6. Head(Held) = p[iEnd]
    <3>1. Held[1] = p[At(1)]
      BY <1>h, <2>2 DEF Held
    <3>2. At(1) = iEnd
      BY AtFacts DEF IInv
    <3> QED
      BY <1>h, <2>5, <3>1, <3>2
  <2>7. Fifo!Dequeue
    BY <1>4, <2>1, <2>5, <2>6 DEF Fifo!Dequeue, AdvanceEnd
  <2> QED
    BY <2>7 DEF Fifo!Next
<1> QED
  BY <1>1, <1>2, <1>3, <1>4
     DEF RingNext, Producer, Consumer, PushRefused, Push, PushAllRefused, PushAll,
         TestEmpty, TestSize, PopEmpty, Pop, CopyOut, GetFront, ringVars, producer,
         consumer, history

\* The ring implements the bounded FIFO queue.
THEOREM Refinement == RingSpec => FifoSpec
<1>1. RingInit => Fifo!Init
  BY LoopQueueAssumption DEF RingInit, Fifo!Init, Held, Size
<1>2. IInv /\ [RingNext]_ringVars => [Fifo!Next]_(Fifo!vars)
  BY StepRefines
<1> QED
  BY <1>1, <1>2, Invariant, PTL DEF RingSpec, FifoSpec, Fifo!Spec
============================================================================
