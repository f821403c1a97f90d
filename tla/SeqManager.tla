----------------------------- MODULE SeqManager -----------------------------
(* SeqManager: the numbers of the calling threads, kept as a linked list of *)
(* the free ones inside an array.  get() and del() hold the spin lock from  *)
(* beginning to end, so each is one step.                                   *)
EXTENDS Naturals, Sequences

CONSTANTS Num,    \* iNum
          End     \* MAX_UNSIGN_SHORT, the end of the list

ASSUME SeqManagerAssumption == Num \in Nat \ {0} /\ End \notin 0 .. Num - 1

Numbers == 0 .. Num - 1

VARIABLES isFree,     \* SeqInfo::free
          next,       \* SeqInfo::next
          first,      \* _free
          last        \* _freeTail

seqVars == <<isFree, next, first, last>>

Links == Numbers \cup {End}

SeqTypeOK == /\ isFree \in [Numbers -> BOOLEAN]
             /\ next \in [Numbers -> Links]
             /\ first \in Links /\ last \in Links

\* Wrong forms, which the properties rule out, stand before the definition they
\* are a wrong form of.

SeqInit == /\ isFree = [i \in Numbers |-> TRUE]
           /\ next = [i \in Numbers |-> IF i = Num - 1 THEN End ELSE i + 1]
           /\ first = 0 /\ last = Num - 1

\* The last free number goes, and is still the tail.
GetKeepsTail == /\ first # End
                /\ first' = next[first]
                /\ isFree' = [isFree EXCEPT ![first] = FALSE]
                /\ UNCHANGED <<next, last>>

\* get(); with no free number left it does not return (assert).
GetNumber == /\ first # End
             /\ last' = IF first = last THEN End ELSE last
             /\ first' = next[first]
             /\ isFree' = [isFree EXCEPT ![first] = FALSE]
             /\ UNCHANGED next

\* del(iSeq)
DelNumber(i) == /\ ~ isFree[i]
                /\ next' = IF last = End THEN [next EXCEPT ![i] = End]
                           ELSE [next EXCEPT ![i] = End, ![last] = i]
                /\ first' = IF last = End THEN i ELSE first
                /\ isFree' = [isFree EXCEPT ![i] = TRUE]
                /\ last' = i

SeqNext == GetNumber \/ \E i \in Numbers : DelNumber(i)

SeqSpec == SeqInit /\ [][SeqNext]_seqVars

-----------------------------------------------------------------------------

\* The list that begins at f, followed over at most Num of the links nx.
ListFrom(f, nx) ==
  LET from[n \in 0 .. Num] ==    \* the first n numbers of the list
        IF n = 0 THEN << >>
        ELSE LET c == from[n - 1]
                 i == IF c = << >> THEN f ELSE nx[c[Len(c)]]
             IN  IF i = End \/ Len(c) < n - 1 THEN c ELSE Append(c, i)
  IN  from[Num]

SeqChain == ListFrom(first, next)

Pool == INSTANCE NumberPool WITH
  free  <- SeqChain,
  taken <- {i \in Numbers : ~ isFree[i]}

\* The list always holds exactly the free numbers, in the order they came back:
\* however threads start and end, no number is lost and none is given twice.
NumberPoolSpec == Pool!Spec
=============================================================================
