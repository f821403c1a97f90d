---------------------------- MODULE RequestLife ----------------------------
(* What the client promises for a request: once it has been taken, it ends, *)
(* and it ends once, in one of the ways its kind allows.                    *)
CONSTANT Requests

VARIABLES state,      \* of each request
          ends        \* the ways each may end, which do not change

Init == state = [m \in Requests |-> "new"]

Begin(m) == /\ state[m] = "new"
            /\ state' = [state EXCEPT ![m] = "live"]
            /\ UNCHANGED ends

Finish(m) == /\ state[m] \in {"new", "live"}
             /\ \E o \in ends[m] : state' = [state EXCEPT ![m] = o]
             /\ UNCHANGED ends

Next == \E m \in Requests : Begin(m) \/ Finish(m)

Spec ==
  /\ Init /\ [][Next]_<<state, ends>>
  /\ \A m \in Requests : WF_state(state[m] = "live" /\ Finish(m))
============================================================================
