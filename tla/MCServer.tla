------------------------------- MODULE MCServer -------------------------------
(* Instances of Server for TLC. *)
EXTENDS Server, TLC

VARIABLE maxAsked   \* the requests of this instance

\* Bound: instances of <<connections, handlers, requests>>.
Sizes == {<<3, 1, 1>>, <<2, 1, 2>>, <<1, 2, 2>>, <<2, 2, 1>>}

MCInit ==
  /\ Init
  /\ maxAsked \in {1, 2}
  /\ LET peers == {c \in Conns : life[c] = "out"}
         ready == {h \in Handles : hpc[h] = "idle"}
     IN  <<Cardinality(peers), Cardinality(ready), maxAsked>> \in Sizes

MCNext ==
  /\ Next /\ UNCHANGED maxAsked
  /\ Cardinality({r \in Requests : origin'[r] # NoConn}) <= maxAsked

MCSpec == MCInit /\ [][MCNext]_<<vars, maxAsked>>

Symmetry == Permutations(Conns) \cup Permutations(Requests) \cup Permutations(Handles)
===============================================================================
