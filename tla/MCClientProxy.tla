--------------------------- MODULE MCClientProxy ---------------------------
(* Small instances of ClientProxy. *)
EXTENDS ClientProxy, TLC

CONSTANTS s1, s2, as, rc, ow,  \* requests: synchronous, asynchronous, rpc_call, one-way
          a1, a2              \* adapters

Made(name, callback, n) == [name |-> name, callback |-> callback, id |-> n]

\* The rpc_call comes with the id that the generator gives next.
MCOperation ==
  [m \in Msgs |-> CASE m \in {s1, s2} -> Made("tars_invoke", FALSE, 0)
                    [] m = as -> Made("tars_invoke_async", TRUE, 0)
                    [] m = ow -> Made("tars_invoke_async", FALSE, 0)
                    [] m = rc -> Made("rpc_call_async", TRUE, FirstId + 1)]

Mode(s, v, l) == [serial |-> s, valid |-> v, lists |-> l]

\* One server: multiplexed, one request at a time, addresses never known.
Parallel   == Mode(FALSE, TRUE, {{a1}})
OneByOne   == Mode(TRUE, TRUE, {{a1}})
Unresolved == Mode(FALSE, FALSE, {{a1}})

OnlySerial == {OneByOne}
AllModes   == {Parallel, OneByOne, Unresolved}

\* Two servers: one comes and goes, or both do.
Changing == {Mode(FALSE, TRUE, {{a1, a2}, {a1}}), Mode(FALSE, TRUE, {{a1, a2}, {}})}

MCModes == AllModes \cup Changing

\* Bounds: the rpc_call is made, next to one other, where there are two servers.
MCBound == \A m \in IF mode \in Changing THEN {as, ow} ELSE {rc} : outcome'[m] = "new"
============================================================================
