------------------------------- MODULE Endpoints -------------------------------
(* Addresses: TC_Endpoint, the list in the name of an object, and the         *)
(* adapters EndpointManager makes and chooses from as its lists change; and   *)
(* the address a server is told to listen at, which is parsed into the one    *)
(* it has.                                                                    *)
(*                                                                            *)
(* A text is a sequence of words, [kind, value].  Blanks separate words, a    *)
(* colon is a word of its own.  Numbers are those an int holds and are not    *)
(* negative, but for the weight -1, which is none.                            *)
EXTENDS Integers, Sequences, FiniteSets, SequencesExt, FiniteSetsExt

CONSTANTS
  HostOrder,      \* host names as strings are ordered (ports have as many digits)
  ObjectNames,    \* names of objects, with addresses or without
  Leftovers,      \* what a port that is not initialised may be
  ListChanges,    \* [active, inactive], sequences of [host, port, type, weight, weightType]
  ListenTexts,    \* what the server is told
  MaxChanges      \* bound: changes of the lists, and texts the server is told

VARIABLES
  name,       \* [object, hash], of ObjectProxy; EndpointManager reads its own the same way
  valid,      \* _valid
  all,        \* _vAllProxys; an adapter is its index
  active,     \* _activeProxys
  reg,        \* _regProxys and _vRegProxys
  listen,     \* _ep of the BindAdapter
  listed,     \* history: the addresses that should be in use
  passed,     \* history: those of them that addEndpoints() passed over
  said,       \* history: the text parsed last, if it was good
  changes

endpointVars == <<name, valid, all, active, reg, listen, listed, passed, said, changes>>

-----------------------------------------------------------------------------
(* TC_Endpoint *)

Types == {"tcp", "udp", "ssl"}
Word(kind, value) == [kind |-> kind, value |-> value]

IsOption(w) == w.kind = "option"

\* TC_Endpoint(): an object that is parsed into keeps what the text does not say, but for these
\* (wrong: the weight is forgotten).
DefaultsButWeight(ep) == [ep EXCEPT !.grid = 0, !.qos = 0, !.weightType = 0, !.authType = 0]
Defaults(ep)          == [ep EXCEPT !.grid = 0, !.qos = 0, !.weight = -1, !.weightType = 0, !.authType = 0]
NewEndpoint ==
  Defaults([host |-> "0.0.0.0", port |-> 0, timeout |-> 3000, type |-> "tcp", grid |-> 0, qos |-> 0,
            weight |-> -1, weightType |-> 0, authType |-> 0])

OptionField == [h |-> "host", p |-> "port", t |-> "timeout", g |-> "grid", q |-> "qos", w |-> "weight",
                v |-> "weightType", e |-> "authType"]

\* An option with its argument, which does not begin with a minus.  An option that is not
\* known is passed over.
Takes(o, arg) ==
  CASE o \notin DOMAIN OptionField -> TRUE
    [] arg = <<>>  -> FALSE
    [] o = "h"     -> TRUE
    [] arg[1].kind # "number" -> FALSE
    [] o = "p"     -> arg[1].value \in 0..65535
    [] o = "e"     -> arg[1].value \in 0..1
    [] OTHER       -> TRUE

\* What the option leaves behind, also when it is refused: a number that is none reads as 0.
Assign(ep, o, arg) ==
  IF o \notin DOMAIN OptionField \/ arg = <<>> THEN ep
  ELSE [ep EXCEPT ![OptionField[o]] = IF o = "h" \/ arg[1].kind = "number" THEN arg[1].value ELSE 0]

NormalWeight(weight) == IF weight = -1 \/ weight > 100 THEN 100 ELSE weight

RECURSIVE ParseOptions(_, _)
ParseOptions(words, ep) ==
  IF words = <<>> THEN [ok |-> TRUE, ep |-> ep]
  ELSE LET o    == words[1].value
           arg  == IF Len(words) > 1 /\ ~IsOption(words[2]) THEN <<words[2]>> ELSE <<>>
           next == Assign(ep, o, arg)
       IN IF ~IsOption(words[1]) THEN [ok |-> FALSE, ep |-> ep]
          ELSE IF ~Takes(o, arg) THEN [ok |-> FALSE, ep |-> next]
          ELSE ParseOptions(SubSeq(words, 2 + Len(arg), Len(words)), next)

\* The end of parse().
ParseEnd(ep) ==
  LET weighed == IF ep.weightType # 0 THEN [ep EXCEPT !.weight = NormalWeight(@)] ELSE ep
  IN [ok |-> ep.host # "", ep |-> [weighed EXCEPT !.host = IF @ = "*" THEN "0.0.0.0" ELSE @]]

\* parse() into ep; what it has assigned stays when it throws.
ParseEndpoint(words, ep) ==
  IF words = <<>> \/ words[1].kind # "name" THEN [ok |-> FALSE, ep |-> Defaults(ep)]
  ELSE IF words[1].value \notin Types THEN [ok |-> FALSE, ep |-> Defaults(ep)]
  ELSE LET r == ParseOptions(Tail(words), [Defaults(ep) EXCEPT !.type = words[1].value])
       IN IF r.ok THEN ParseEnd(r.ep) ELSE r

\* toString().
Printed(ep) ==
  LET Number(n) == Word("number", n)
      Say(o, n, usual) == IF n = usual THEN <<>> ELSE <<Word("option", o), Number(n)>>
  IN <<Word("name", ep.type), Word("option", "h"), Word("name", ep.host), Word("option", "p"), Number(ep.port),
       Word("option", "t"), Number(ep.timeout)>>
     \o Say("g", ep.grid, 0) \o Say("q", ep.qos, 0) \o Say("w", ep.weight, -1)
     \o Say("v", ep.weightType, 0) \o Say("e", ep.authType, 0)

-----------------------------------------------------------------------------
(* EndpointInfo *)

\* init(): without a weight type there is no weight.
EndpointInfo(ep) ==
  [ep EXCEPT !.timeout = 60000, !.weight = IF ep.weightType = 0 THEN -1 ELSE NormalWeight(@)]

CmpDesc(ep) == <<ep.host, ep.port>>
Rank(host)  == CHOOSE i \in DOMAIN HostOrder : HostOrder[i] = host
DescBefore(d, e) == Rank(d[1]) < Rank(e[1]) \/ (d[1] = e[1] /\ d[2] < e[2])

\* A set<EndpointInfo>: of two with the same address the first stays.
InfoSet(infos) ==
  LET Firsts == {i \in DOMAIN infos : \A j \in 1..(i - 1) : CmpDesc(infos[j]) # CmpDesc(infos[i])}
      InOrder(i, j) == DescBefore(CmpDesc(infos[i]), CmpDesc(infos[j]))
  IN [k \in 1..Cardinality(Firsts) |-> infos[SetToSortSeq(Firsts, InOrder)[k]]]

-----------------------------------------------------------------------------
(* EndpointManager *)

\* TC_Common::sepstr() leaves empty pieces out.
Pieces(text) ==
  SelectSeq(FoldLeft(LAMBDA ps, w : IF w.kind = "colon" THEN Append(ps, <<>>)
                                    ELSE [ps EXCEPT ![Len(ps)] = Append(@, w)], << <<>> >>, text),
            LAMBDA p : p # <<>>)

\* The entries of a list that parse() accepts.
ParsedList(text, port) ==
  LET raw     == [NewEndpoint EXCEPT !.host = "", !.port = port]
      Parsed  == [i \in DOMAIN Pieces(text) |-> ParseEndpoint(Pieces(text)[i], raw)]
      Good    == SelectSeq(Parsed, LAMBDA r : r.ok)
  IN [i \in DOMAIN Good |-> EndpointInfo(Good[i].ep)]

Descs(adapters) == {CmpDesc(adapters[i]) : i \in DOMAIN adapters}

\* Adapters for the addresses that have none.
WithNew(adapters, infos) ==
  adapters \o SelectSeq(infos, LAMBDA x : CmpDesc(x) \notin Descs(adapters))

AdapterOf(adapters, x) == CHOOSE i \in DOMAIN adapters : CmpDesc(adapters[i]) = CmpDesc(x)

InNameOrder(adapters, ids) ==
  SetToSortSeq(ids, LAMBDA i, j : DescBefore(CmpDesc(adapters[i]), CmpDesc(adapters[j])))

UpdateWith(current, gone) ==
  LET made == WithNew(WithNew(all, current), gone)
  IN /\ all' = made
     /\ active' = [i \in DOMAIN current |-> AdapterOf(made, current[i])]
     /\ reg' = InNameOrder(made, ToSet(active'))

\* What comes before the first of these signs, and what comes behind it.
Upto(text, kind)   == LET at == SelectInSeq(text, LAMBDA w : w.kind = kind) IN IF at = 0 THEN text ELSE SubSeq(text, 1, at - 1)
After(text, kind) == LET at == SelectInSeq(text, LAMBDA w : w.kind = kind) IN IF at = 0 THEN <<>> ELSE SubSeq(text, at + 1, Len(text))
IsDirect(text)     == \E i \in DOMAIN text : text[i].kind = "at"

-----------------------------------------------------------------------------
(* The actions *)

NoName == [object |-> <<>>, hash |-> <<>>]

EndpointsInit ==
  /\ name = NoName /\ valid = FALSE
  /\ all = <<>> /\ active = <<>> /\ reg = <<>>
  /\ listen = NewEndpoint
  /\ listed = {} /\ passed = {} /\ said = <<>>
  /\ changes = 0

\* ObjectProxy and its EndpointManager, whose setObjName() goes on to setEndpoints().
NewObject(text) ==
  /\ name = NoName
  /\ name' = [object |-> Upto(Upto(text, "at"), "hash"), hash |-> After(Upto(text, "at"), "hash")]
  /\ valid' = IsDirect(text)
  /\ \E port \in Leftovers :
       LET infos == InfoSet(ParsedList(After(text, "at"), port))
       IN /\ UpdateWith(infos, <<>>)
          /\ listed' = Descs(infos)
  /\ said' = After(text, "at")
  /\ UNCHANGED <<listen, passed, changes>>

InfosOf(xs) ==
  InfoSet([i \in DOMAIN xs |-> EndpointInfo([NewEndpoint EXCEPT !.host = xs[i].host, !.port = xs[i].port,
                                !.type = xs[i].type, !.weight = xs[i].weight, !.weightType = xs[i].weightType])])

\* onNotifyEndpoints().
NotifyEndpoints(change) ==
  /\ name # NoName /\ changes < MaxChanges
  /\ UpdateWith(InfosOf(change.active), InfosOf(change.inactive))
  /\ listed' = Descs(InfosOf(change.active))
  /\ passed' = {}
  /\ changes' = changes + 1
  /\ UNCHANGED <<name, valid, listen, said>>

\* addEndpoints(): an address that has an adapter already is passed over, even when it is not
\* in use.
AddEndpoints(xs) ==
  /\ name # NoName /\ changes < MaxChanges
  /\ LET new == SelectSeq(InfosOf(xs), LAMBDA x : CmpDesc(x) \notin Descs(all))
         ids == [i \in DOMAIN new |-> Len(all) + i]
         wanted == Descs(InfosOf(xs))
     IN /\ all' = all \o new
        /\ active' = active \o ids
        /\ reg' = InNameOrder(all', ToSet(reg) \cup ToSet(ids))
        /\ listed' = listed \cup wanted
        /\ passed' = passed \cup {d \in wanted : d \in Descs(all) /\ \A k \in DOMAIN active : CmpDesc(all[active[k]]) # d}
  /\ changes' = changes + 1
  /\ UNCHANGED <<name, valid, listen, said>>

\* BindAdapter::setEndpoint().
SetEndpoint(text) ==
  /\ name = NoName /\ changes < MaxChanges
  /\ LET r == ParseEndpoint(text, listen)
     IN /\ listen' = r.ep
        /\ said' = IF r.ok THEN text ELSE <<>>
  /\ changes' = changes + 1
  /\ UNCHANGED <<name, valid, all, active, reg, listed, passed>>

EndpointsNext ==
  \/ \E text \in ObjectNames : changes = 0 /\ NewObject(text)
  \/ \E change \in ListChanges : NotifyEndpoints(change) \/ AddEndpoints(change.active)
  \/ \E text \in ListenTexts : SetEndpoint(text)

-----------------------------------------------------------------------------
(* Properties *)

\* What a text means, by the places of its options: the argument of an option is what follows
\* it, and the last of two counts.
ArgPlaces(words, o) ==
  {i \in 2..Len(words) : IsOption(words[i - 1]) /\ words[i - 1].value = o /\ ~IsOption(words[i])}
Says(words, o)        == ArgPlaces(words, o) # {}
Said(words, o, usual) == IF Says(words, o) THEN words[Max(ArgPlaces(words, o))].value ELSE usual

GoodText(words) ==
  /\ words # <<>> /\ words[1].kind = "name" /\ words[1].value \in Types
  /\ \A i \in 2..Len(words) :
       /\ ~IsOption(words[i]) => i > 2 /\ IsOption(words[i - 1])
       /\ IsOption(words[i]) /\ words[i].value \in DOMAIN OptionField =>
            i < Len(words) /\ Takes(words[i].value, IF IsOption(words[i + 1]) THEN <<>> ELSE <<words[i + 1]>>)

SaidHost(words) == IF Said(words, "h", "") = "*" THEN "0.0.0.0" ELSE Said(words, "h", "")
SaidWeight(words, none) ==
  IF Said(words, "v", 0) = 0 THEN none ELSE NormalWeight(Said(words, "w", -1))

\* ep is what the text says; a host, port or time the text is silent about may be anything.
Means(words, ep, none) ==
  /\ ep.type = words[1].value
  /\ Says(words, "h") => ep.host = SaidHost(words)
  /\ Says(words, "p") => ep.port = Said(words, "p", 0)
  /\ ep.grid = Said(words, "g", 0) /\ ep.qos = Said(words, "q", 0)
  /\ ep.weight = SaidWeight(words, none) /\ ep.weightType = Said(words, "v", 0)
  /\ ep.authType = Said(words, "e", 0)

\* The entries of a list that count: those that are good and name a host, and of those for
\* the same address the first.
Entries(text) == SelectSeq(Pieces(text), LAMBDA ws : GoodText(ws) /\ Says(ws, "h"))

\* The adapters in use are those for the addresses listed last, one for each, in the order of
\* the addresses, whatever was listed before; an address that comes back gets the adapter it
\* had, unless it comes back by addEndpoints(), which passes over it.  An adapter is what the
\* first entry for its address says, and a server listens where the last text says,
\* whatever it was told before.  What an endpoint prints is read as the same endpoint.
AddressesAsListed ==
  /\ \A i, j \in DOMAIN all : CmpDesc(all[i]) = CmpDesc(all[j]) => i = j
  /\ \A i, j \in DOMAIN active : active[i] = active[j] => i = j
  /\ {CmpDesc(all[active[i]]) : i \in DOMAIN active} = listed \ passed
  /\ ToSet(reg) = ToSet(active)
  /\ \A i, j \in DOMAIN reg : i < j => DescBefore(CmpDesc(all[reg[i]]), CmpDesc(all[reg[j]]))
  /\ name # NoName /\ changes = 0 /\ (\A k \in DOMAIN Entries(said) : Says(Entries(said)[k], "p")) =>
       /\ Descs(all) = {<<SaidHost(Entries(said)[k]), Said(Entries(said)[k], "p", 0)>> : k \in DOMAIN Entries(said)}
       /\ \A i \in DOMAIN all :
            LET first == SelectInSeq(Entries(said), LAMBDA ws : <<SaidHost(ws), Said(ws, "p", 0)>> = CmpDesc(all[i]))
            IN Means(Entries(said)[first], all[i], -1)
  /\ name = NoName /\ said # <<>> =>
       /\ Means(said, listen, Said(said, "w", -1))
       /\ Says(said, "t") => listen.timeout = Said(said, "t", 0)
  /\ \A ep \in ToSet(all) \cup (IF said # <<>> /\ Says(said, "p") THEN {listen} ELSE {}) :
       \A before \in {listen, NewEndpoint} : ParseEndpoint(Printed(ep), before) = [ok |-> TRUE, ep |-> ep]
===============================================================================
