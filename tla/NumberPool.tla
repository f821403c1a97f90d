----------------------------- MODULE NumberPool -----------------------------
(* What SeqManager promises to the calling threads: a number is held by one *)
(* thread at a time, and a number that comes back is given out last.        *)
EXTENDS Naturals, Sequences

CONSTANT Num

VARIABLES free,     \* the free numbers, in the order they will be given
          taken     \* the numbers held by threads

vars == <<free, taken>>

Init == /\ free = [i \in 1 .. Num |-> i - 1]
        /\ taken = {}

Take == /\ free # << >>
        /\ taken' = taken \cup {Head(free)}
        /\ free' = Tail(free)

Give(i) == /\ i \in taken
           /\ taken' = taken \ {i}
           /\ free' = Append(free, i)

Next == Take \/ \E i \in taken : Give(i)

Spec == Init /\ [][Next]_vars
=============================================================================
