---------------------------- MODULE MCProxyLive ----------------------------
(* Requests in a network thread, what the calling threads reach it by, the  *)
(* ring of each thread and the numbers of the threads, and the start and    *)
(* shutdown of a server.  part says which of them a behaviour is about.     *)
EXTENDS MCClientProxy, LoopQueue, SeqManager, ServerLife

VARIABLE part

MCInit ==
  /\ part \in {"requests", "ring", "numbers", "server life"}
  /\ Init /\ RingInit /\ SeqInit /\ ServerLifeInit
  /\ part # "requests" => mode = OneByOne
  /\ IF part = "server life" THEN mainAt = "start" ELSE mainAt = "absent" /\ sharing = "shared"

MCNext ==
  /\ UNCHANGED part
  /\ \/ part = "requests" /\ Next /\ UNCHANGED <<ringVars, seqVars, lifeVars>>
     \/ part = "ring"     /\ RingNext /\ UNCHANGED <<vars, seqVars, lifeVars>>
     \/ part = "numbers"  /\ SeqNext /\ UNCHANGED <<vars, ringVars, lifeVars>>
     \/ part = "server life" /\ ServerLifeNext /\ UNCHANGED <<vars, ringVars, seqVars>>

\* Nothing that fairness speaks of is possible in a part that has not begun.
MCSpec ==
  /\ MCInit /\ [][MCNext]_<<part, vars, ringVars, seqVars, lifeVars>>
  /\ ThreadFairness /\ RingFairness /\ ServerLifeFairness
============================================================================
