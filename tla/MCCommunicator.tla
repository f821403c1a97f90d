--------------------------- MODULE MCCommunicator ---------------------------
(* Small instances of Communicator and of CircuitBreaker, with one server or *)
(* two: the two parts of the client where something must happen in the end   *)
(* and that share nothing: part says which of them a behaviour is about.     *)
EXTENDS Communicator, CircuitBreaker

CONSTANTS a, b,  \* the servers
          m3     \* a request

VARIABLES part, early

mcVars == <<part, early, commVars, breakerVars>>

\* Settings with every threshold above its least value, ...
Slow == [tryTime |-> 1, interval |-> 1, minFreqTime |-> 1, freqFail |-> 2, minTimeout |-> 2,
         maxExc |-> 2, conTimeout |-> 0, reconnect |-> 0, serial |-> TRUE, maxTotal |-> 2]

\* ... and least ones, with reconnection by the timer.
Again == [tryTime |-> 1, interval |-> 0, minFreqTime |-> 0, freqFail |-> 1, minTimeout |-> 2,
          maxExc |-> 1, conTimeout |-> 0, reconnect |-> 1, serial |-> FALSE, maxTotal |-> 1]

MCInfos == {Slow, Again}
MCLists == {<<a>>, <<a, b>>}

\* Bound: steps of two servers before all works.  A round that tries to connect both and
\* two failures at the same time give one entry of _reconnect that stands for both.  And a
\* server of the two has one request at a time.
MaxEarly == 3

BreakerPart ==
  /\ BreakerNext /\ proxys' = proxys
  /\ early' = IF Len(proxys) = 1 \/ settled' THEN 0 ELSE early + 1
  /\ early' <= MaxEarly
  /\ Len(proxys) = 2 => \A s \in waiting, fail \in BOOLEAN : FinishCall(s, fail) => s \notin waiting'

\* The application terminates what it has started; bound: m3 comes only to a full queue.
CommunicatorPart ==
  CommunicatorNext /\ (terminating' => initialized) /\ life'[m3] \in {"under way", "dropped"}

MCInit ==
  /\ part \in {"communicator", "breaker"}
  /\ CommunicatorInit /\ BreakerInit
  /\ early = 0
  /\ IF part = "breaker" THEN merge = (CHOOSE x \in Merges : TRUE) ELSE info = Again
  /\ Len(proxys) = IF part = "breaker" /\ info = Again THEN 2 ELSE 1

MCNext ==
  /\ UNCHANGED part
  /\ \/ part = "communicator" /\ CommunicatorPart /\ UNCHANGED <<early, breakerVars>>
     \/ part = "breaker"      /\ BreakerPart /\ UNCHANGED commVars

\* Nothing that fairness speaks of is possible in a part that has not begun.
MCSpec == MCInit /\ [][MCNext]_mcVars /\ CommunicatorFairness /\ BreakerFairness
=============================================================================
