---------------------------- MODULE BoundedFifo ----------------------------
(* What a queue between one producer and one consumer promises: values come *)
(* out once each, in the order they went in, and at most Capacity of them   *)
(* are ever held.  LoopQueue implements it.                                 *)
EXTENDS Naturals, Sequences

CONSTANTS Capacity,   \* how many values the queue may hold
          Val,        \* the values
          NoVal       \* "nothing received yet"

VARIABLES q,          \* the values held, oldest first
          got         \* the value received last

vars == <<q, got>>

TypeOK == /\ q \in Seq(Val)
          /\ got \in Val \cup {NoVal}

Init == /\ q = << >>
        /\ got = NoVal

Enqueue(v) == /\ Len(q) < Capacity
              /\ q' = Append(q, v)
              /\ UNCHANGED got

Dequeue == /\ q # << >>
           /\ got' = Head(q)
           /\ q' = Tail(q)

Next == Dequeue \/ \E v \in Val : Enqueue(v)

Spec == Init /\ [][Next]_vars
============================================================================
