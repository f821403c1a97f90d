------------------------------- MODULE MCParts -------------------------------
(* Small instances of the parts that share nothing with each other and of    *)
(* which only safety is asked.  part says which of them a behaviour is       *)
(* about; the state of the others does not change.                           *)
EXTENDS Timer, Coroutines, CircuitBreaker, TarsVersions, Framing, Cron, Http, ClientSocket, Cookies,
  Endpoints, Backlog

CONSTANTS a, b     \* servers

VARIABLE part

mcVars == <<part, allVars, given, coVars, breakerVars, tarsVars, framingVars, cronVars, httpVars, socketVars, cookieVars, endpointVars, backlogVars>>

\* Two servers with small thresholds.  Bounds: no more than one call of a window is counted,
\* no attempt to connect times out, the calls of b do not fail and it is connected at once or
\* not at all, and calls wait at one server at a time.
Fast == [tryTime |-> 1, interval |-> 0, minFreqTime |-> 0, freqFail |-> 1, minTimeout |-> 2,
         maxExc |-> 1, conTimeout |-> 0, reconnect |-> 0, serial |-> FALSE, maxTotal |-> 1]

\* One server, with every threshold above its least value.
Slow == [tryTime |-> 1, interval |-> 1, minFreqTime |-> 1, freqFail |-> 2, minTimeout |-> 2,
         maxExc |-> 2, conTimeout |-> 0, reconnect |-> 0, serial |-> TRUE, maxTotal |-> 2]

MCInfos == {Fast, Slow}
MCLists == {<<a>>, <<a, b>>}

BreakerPart ==
  /\ BreakerNext
  /\ ~settled'
  /\ IF info = Slow THEN proxys' = <<a>>
     ELSE /\ \A s \in Servers : srv'[s].total <= 1 /\ ~srv'[s].connTimeout
          /\ srv'[b].conn # "connecting" /\ srv'[b].fails = 0
          /\ waiting' # Servers

\* The Tars encoding.  A structure has a field 1 of some type and a short in field 16, which
\* shows that the reader is in step again after field 1.  Integers at the limits of each
\* width, zero, strings that hold what looks like heads (23 is a short with tag 1, 92 a zero
\* with tag 5, 28 a zero with tag 1), structures inside structures, lists and maps.
IntOf(bs)  == Extend(bs)
TarsInts == {IntOf(x) : x \in {<<0>>, <<1>>, <<127>>, <<128>>, <<0, 128>>, <<255, 127>>, <<127, 255>>,
               <<128, 0>>, <<0, 128, 0>>, <<0, 255, 255>>, <<127, 255, 255, 255>>, <<128, 0, 0, 0>>,
               <<0, 128, 0, 0, 0>>, <<0, 255, 255, 255, 255>>, <<255, 127, 255, 255, 255>>,
               <<32, 0, 0, 0, 0, 0, 1>>, <<127, 255, 255, 255, 255, 255, 255, 255>>, <<128, 0, 0, 0, 0, 0, 0, 0>>}}
Holds(t, n) == Fits(n, Carrier(t)) /\ (t.is = "unsigned" => Unsigned(n, t.width) = n)
Strings  == {<<>>, <<23>>, <<23, 92, 28>>}

Old    == Struct(<<Field(1, IntT, TRUE), Field(2, Text, FALSE)>>)
New    == Struct(Append(Old.of, Field(15, LongT, FALSE)))
NewOne == (1 :> IntOf(<<5>>)) @@ (2 :> <<92, 12, 28>>) @@ (15 :> IntOf(<<127, 12, 1, 1, 1>>))
OldOne == (1 :> IntOf(<<1, 6>>)) @@ (2 :> <<>>) @@ (15 :> IntOf(<<0>>))

TypedValues ==
  {x \in {CharT, ShortT, IntT, LongT, UInt(1), UInt(2), UInt(4)} \X TarsInts : Holds(x[1], x[2])}
  \cup {<<Real(4), <<7, 7, 7, 7>>>>, <<Real(8), <<7, 7, 7, 7>>>>}
  \cup {<<Text, s>> : s \in Strings} \cup {<<Bytes, Chars(s)>> : s \in Strings}
  \cup {<<ListOf(CharT), Chars(s)>> : s \in Strings}
  \cup {<<New, NewOne>>, <<ListOf(New), <<NewOne, OldOne>>>>,
        <<MapOf(Text, New), <<<< <<65>>, NewOne>>, << <<65, 66>>, OldOne>>>>>>,
        <<EndpointF, [tag \in Tags(EndpointF) |-> CASE tag = 0 -> <<46, 12>> [] tag = 7 -> <<97>> [] tag \in {1, 13} -> Num(200)
                                                 [] OTHER -> Num(0)]>>,
        <<RequestPacket, UniPacket(Num(9), <<83>>, <<23>>)>>,
        <<ResponsePacket, [tag \in 1..9 |-> CASE tag = 8 -> <<11>> [] tag \in {6, 7, 9} -> <<>> [] OTHER -> Num(tag)]>>,
        <<BoolT, Num(1)>>, <<BoolT, Num(0)>>, <<MapOf(BoolT, CharT), <<<<Num(0), Num(2)>>, <<Num(1), Num(3)>>>>>>,
        <<MapOf(UInt(1), ShortT), <<<<Num(0), Num(300)>>, <<Num(48), Num(0)>>, <<Num(200), Num(1)>>>>>>,
        <<MapOf(LongT, BoolT), <<<<IntOf(<<255>>), Num(1)>>, <<Num(6), Num(0)>>>>>>}

\* The same type, a wider one, another version of the structures.
Compatible(t) ==
  {t} \cup (CASE t.is = "int"      -> {x \in {CharT, ShortT, IntT, LongT} : x.width >= t.width}
              [] t.is = "unsigned" -> {LongT}
              [] t.is = "real"     -> {Real(8)}
              [] t = New           -> {Old}
              [] t = ListOf(New)   -> {ListOf(Old)}
              [] t = MapOf(Text, New) -> {MapOf(Text, Old)}
              [] t = ListOf(CharT) -> {Bytes}
              [] OTHER             -> {})

With(t, require) == Struct(<<Field(1, t, require), Field(16, ShortT, require)>>)
Readers(t) == {With(u, FALSE) : u \in Compatible(t)}
              \cup {Struct(<<Field(16, ShortT, FALSE)>>),
                    Struct(<<Field(0, IntT, FALSE), Field(16, IntT, TRUE)>>)}

NoExchange == [form |-> "tars", type |-> Struct(<<>>), value |-> <<>>, known |-> Struct(<<>>)]

MCExchanges ==
  {NoExchange} \cup UNION {{[form |-> m, type |-> With(x[1], TRUE), known |-> r,
                            value |-> (1 :> x[2]) @@ (16 :> IntOf(<<0, 200>>))]
                           : r \in Readers(x[1]), m \in {"tars", "tup", "json"}} : x \in TypedValues}

\* Answers of few bytes, of long numbers, without a body, too long a one, and ones that
\* a receiver refuses.  An answer of a few bytes follows each.
Answer(v, id, message, ret, body, desc) ==
  [version |-> v, id |-> IntOf(id), message |-> IntOf(message), ret |-> IntOf(ret), text |-> <<45>>,
   body |-> Chars(body), desc |-> desc]
Small(v)   == Answer(v, <<5>>, <<0>>, <<0>>, <<8, 12>>, <<>>)
Long(v)    == Answer(v, <<1, 0, 0, 1>>, <<1, 0, 0, 2>>, <<1, 0, 0, 3>>, <<8, 12>>, <<23, 92>>)
Minimal(v)   == Answer(v, <<7>>, <<0>>, <<157>>, <<>>, <<>>)
TooLow(v)  == [Minimal(v) EXCEPT !.ret = IntOf(<<156>>)]
TooLong(v) == [Small(v) EXCEPT !.body = Chars([i \in 1..40 |-> 8])]

\* The stream of the parts that are not about answers.
NoStream == [protocol |-> "tars", answers |-> <<>>]

MCStreams ==
  {NoStream} \cup {[protocol |-> "total", answers |-> <<Long(TarsVersion), Long(JsonVersion)>>]}
  \cup UNION {{[protocol |-> x[1], answers |-> <<y, Small(x[2])>>] : y \in x[3]} : x \in {
    <<"tars", TarsVersion, {Long(TarsVersion), Minimal(TarsVersion), TooLow(TarsVersion),
                            TooLong(TarsVersion), Small(JsonVersion)}>>,
    <<"json", JsonVersion, {Long(JsonVersion)}>>,
    <<"tup", TupVersion, {Long(TupVersion), Minimal(TupVersion)}>>,
    <<"request", TarsVersion, {TooLong(TarsVersion)}>>,
    <<"stream", TarsVersion, {Small(TarsVersion)}>>}}

MCGarbage == {<<0, 0, 0>>, <<255, 255, 255>>}

\* The ends of a year, of months and of a leap year's February, and a day between.
MCStarts == {Time(2022, 12, 31, 23, 59, 59), Time(2023, 1, 30, 12, 0, 0), Time(2023, 3, 1, 0, 0, 0),
             Time(2024, 2, 28, 23, 0, 10), Time(2023, 2, 27, 5, 0, 0), Time(2023, 6, 15, 14, 30, 44)}

Expr(sec, min, hour, mday, mon, wday) ==
  [sec |-> sec, min |-> min, hour |-> hour, mday |-> mday, mon |-> mon, wday |-> wday]
Stars     == <<Star>>
Zero      == <<One(0)>>
EveryTime == Expr(Stars, Stars, Stars, Stars, Stars, Stars)

\* The examples of tc_cron.h and some at the ends of months and years.
MCExpressions ==
  {EveryTime,
   Expr(<<Step(Star, 5)>>, Stars, Stars, Stars, Stars, Stars),
   Expr(Zero, <<Step(Star, 5)>>, <<Step(Star, 2)>>, Stars, Stars, Stars),
   Expr(Zero, <<Step(Star, 2)>>, <<Step(Star, 2)>>, Stars, <<Step(Star, 2)>>, <<Step(Star, 2)>>),
   Expr(Zero, <<Step(One(0), 5)>>, <<One(14)>>, Stars, Stars, Stars),
   Expr(Zero, <<One(10), One(44)>>, <<One(14)>>, Stars, <<One(3)>>, <<One(3)>>),
   Expr(Zero, <<One(15)>>, <<One(10)>>, Stars, Stars, <<From(1, 5)>>),
   Expr(Zero, Zero, <<One(12)>>, <<Step(One(1), 5)>>, Stars, Stars),
   Expr(Zero, <<One(11)>>, <<One(11)>>, <<One(11)>>, <<One(11)>>, Stars),
   Expr(Zero, Zero, Zero, <<One(29)>>, <<One(2)>>, Stars),
   Expr(Zero, Zero, Zero, <<One(30)>>, <<One(2)>>, Stars),
   Expr(<<One(59)>>, <<One(59)>>, <<One(23)>>, <<One(31)>>, Stars, Stars)}

\* Requests with and without a body, in chunks and not, and one of a method that is not known.
\* Responses of each kind, and bodies that look like a head, a chunk or the last one.
HttpRequest(m, c, body) == [method |-> m, coding |-> c, body |-> body]
HttpResponse(n, c, body) == [status |-> n, coding |-> c, body |-> body]
LikeHead  == <<49, 13, 10, 13, 10, 48, 13, 10>>
TwoDigits == [i \in 1..16 |-> 97]

NoHttp == [request |-> HttpRequest("GET", "none", <<>>), response |-> HttpResponse(204, "none", <<>>)]

MCHttpExchanges ==
  {[NoHttp EXCEPT !.response = p] : p \in {
    HttpResponse(200, "length", LikeHead), HttpResponse(200, "length", <<>>),
    HttpResponse(200, "chunked", <<LikeHead, TwoDigits>>), HttpResponse(404, "Chunked", <<>>),
    HttpResponse(200, "none", LikeHead), HttpResponse(204, "none", <<>>),
    HttpResponse(304, "none", <<>>), HttpResponse(302, "length", <<65>>)}}
  \cup {[request |-> q, response |-> HttpResponse(200, "length", <<65>>)] : q \in {
    HttpRequest("POST", "length", LikeHead), HttpRequest("PUT", "chunked", <<LikeHead, TwoDigits>>),
    HttpRequest("DELETE", "chunked", <<>>),
    HttpRequest("POST", "Chunked", <<LikeHead>>), HttpRequest("BREW", "none", <<>>)}}

\* Two tasks are enough for the pool by itself.
PoolPart == PoolNext /\ LoopTask \notin given'

\* An answer that recv() has room for and one it has not, one in a unit and one in more than
\* one recv() returns.
MCSocketCalls ==
  {[op |-> x[1], size |-> x[2], units |-> x[3]] : x \in {
    <<"recv", 3, 1>>, <<"recv", 2, 3>>, <<"sep", 0, 1>>, <<"sep", 0, 3>>, <<"length", 3, 3>>,
    <<"all", 0, 3>>, <<"http", 0, 3>>}}

\* URLs with and without each part, links of each kind, and lines that set one cookie over
\* another which expires at another time, for the page, its directory and its domain, or
\* for elsewhere.
HomePage == [scheme |-> "http", user |-> <<>>, pass |-> <<>>, labels |-> <<"QQ", "com">>, port |-> <<>>,
             segs |-> <<"">>, query |-> <<>>, ref |-> <<>>]

MCPlaces ==
  {HomePage,
   [scheme |-> "https", user |-> <<"u">>, pass |-> <<"p">>, labels |-> <<"www", "qq", "com">>, port |-> <<"8080">>,
    segs |-> <<"a", "b">>, query |-> <<"q", "/", "x", "?">>, ref |-> <<"r">>],
   [scheme |-> "ftp", user |-> <<"u">>, pass |-> <<>>, labels |-> <<"www", "qq", "com">>, port |-> <<"80">>,
    segs |-> <<"a", "">>, query |-> <<>>, ref |-> <<"r", "/", "s">>]}

MCLinks ==
  {[root |-> x[1], segs |-> x[2], query |-> x[3], ref |-> x[4]] : x \in {
    <<TRUE, <<"a", "c">>, <<>>, <<>>>>, <<FALSE, <<"..", "b", ".", "c", "..", "">>, <<"q">>, <<>>>>,
    <<FALSE, <<".", "..", "..", "a">>, <<>>, <<"r">>>>, <<FALSE, <<"b", "..">>, <<>>, <<>>>>,
    <<FALSE, <<>>, <<>>, <<"r">>>>}}

MCCookieLines ==
  {[data |-> x[1], domain |-> x[2], path |-> x[3], secure |-> x[4], expires |-> x[5]] : x \in {
    <<1 :> "x", <<>>, <<>>, FALSE, 0>>, <<1 :> "y", <<>>, <<>>, FALSE, 2>>, <<1 :> "deleted", <<>>, <<>>, FALSE, 1>>,
    <<2 :> "x", <<>>, <<"/", "a">>, FALSE, 2>>, <<2 :> "y", <<"qq", ".", "com">>, <<"/">>, TRUE, 2>>,
    <<2 :> "z", <<".", "QQ", ".", "com">>, <<"/">>, FALSE, 0>>,
    <<1 :> "x" @@ 2 :> "z", <<".", "qq", ".", "com">>, <<"/">>, FALSE, 2>>,
    <<2 :> "y", <<"com">>, <<"/">>, FALSE, 2>>}}

MCCapitals == "QQ" :> "qq"

\* Lists with addresses given twice, in another order than that of their names, with entries
\* that are wrong in the ways an entry can be, and one that has a colon in it.
Name(x)   == Word("name", x)
Option(x) == Word("option", x)
HostPort(h, p) == <<Option("h"), Name(h), Option("p"), Word("number", p)>>
Setting(o, n)   == <<Option(o), Word("number", n)>>
Colon     == <<Word("colon", "")>>
TcpAt(h, p) == <<Name("tcp")>> \o HostPort(h, p)
Obj       == <<Name("obj"), Word("hash", ""), Name("x")>>

MCListenTexts ==
  {TcpAt("h1", 10) \o Setting("t", 5) \o Setting("w", 30) \o Setting("v", 2) \o Setting("g", 1),
   TcpAt("*", 20) \o Setting("w", 7) \o Setting("e", 1) \o Setting("x", 1) \o Setting("q", 3),
   <<Name("udp"), Option("h"), Name("h2"), Option("z")>> \o Setting("v", 1),
   TcpAt("h2", 70000), TcpAt("h2", 10) \o Setting("v", 1) \o Setting("w", 500) \o Setting("e", 2),
   TcpAt("h3", 10) \o <<Option("t")>>, <<Name("tcp"), Name("h1")>> \o TcpAt("h1", 10), <<>>,
   <<Name("ssl"), Option("p"), Name("h3")>>, <<Name("tcp"), Option("h")>>}

MCObjectNames ==
  {Obj, Obj \o <<Word("at", "")>>}
  \cup {Obj \o <<Word("at", "")>> \o x : x \in {
    TcpAt("h2", 20) \o Setting("v", 1) \o Colon \o TcpAt("h1", 10) \o Setting("w", 5) \o Colon \o <<Name("ssl")>> \o HostPort("h2", 20),
    TcpAt("h3", 10) \o Colon \o Colon \o TcpAt("h2", 70000) \o Colon \o TcpAt("h3", 10) \o Setting("v", 1) \o Setting("w", 500)
      \o Colon \o <<Name("ftp")>> \o HostPort("h1", 10) \o Colon \o TcpAt("*", 20),
    <<Name("tcp"), Option("p"), Word("number", 10), Option("h")>> \o Colon \o Colon \o <<Word("number", 1)>>,
    <<Name("tcp"), Option("h"), Name("h1")>>}}

Listing(h, p, t, w, v) == [host |-> h, port |-> p, type |-> t, weight |-> w, weightType |-> v]
L1 == Listing("h1", 10, "tcp", -1, 0)
L2 == Listing("h2", 20, "tcp", 50, 1)
L3 == Listing("h1", 20, "ssl", 200, 1)
MCListChanges ==
  {[active |-> x[1], inactive |-> x[2]] : x \in {
    <<<<>>, <<>>>>, <<<<L1>>, <<L2>>>>, <<<<L2, L1>>, <<>>>>, <<<<L3, L2, L2>>, <<L1>>>>,
    <<<<[L1 EXCEPT !.type = "ssl"], L3>>, <<L3>>>>}}
MCHostOrder == <<"0.0.0.0", "h1", "h2", "h3">>

MCInit ==
  /\ part \in {"pool", "timer", "coroutines", "breaker", "tars", "framing", "cron", "http", "socket", "cookies",
             "endpoints", "backlog"}
  /\ part # "breaker" => info = Fast
  /\ part # "tars" => sent = NoExchange /\ whole = TRUE
  /\ part # "framing" => stream = NoStream
  /\ part # "cron" => expression = EveryTime /\ fireTime = Time(2023, 3, 1, 0, 0, 0)
  /\ part # "http" => http = NoHttp
  /\ part # "socket" => transport = "tcp"
  /\ part # "cookies" => place = HomePage
  /\ PoolInit /\ given = {} /\ TimerInit /\ CoroutinesInit /\ BreakerInit
  /\ part # "breaker" \/ info = Slow => proxys = <<a>>
  /\ TarsInit /\ FramingInit /\ CronInit /\ HttpInit /\ SocketInit /\ CookieInit /\ EndpointsInit
  /\ BacklogInit

MCNext ==
  /\ UNCHANGED part
  /\ \/ part = "pool"       /\ PoolPart /\ UNCHANGED <<timerVars, coVars, breakerVars, tarsVars, framingVars, cronVars, httpVars, socketVars, cookieVars, endpointVars, backlogVars>>
     \/ part = "timer"      /\ TimerNext /\ UNCHANGED <<given, coVars, breakerVars, tarsVars, framingVars, cronVars, httpVars, socketVars, cookieVars, endpointVars, backlogVars>>
     \/ part = "coroutines" /\ CoroutinesNext /\ UNCHANGED <<allVars, given, breakerVars, tarsVars, framingVars, cronVars, httpVars, socketVars, cookieVars, endpointVars, backlogVars>>
     \/ part = "breaker"    /\ BreakerPart /\ UNCHANGED <<allVars, given, coVars, tarsVars, framingVars, cronVars, httpVars, socketVars, cookieVars, endpointVars, backlogVars>>
     \/ part = "tars"       /\ ReadNext /\ UNCHANGED <<allVars, given, coVars, breakerVars, framingVars, cronVars, httpVars, socketVars, cookieVars, endpointVars, backlogVars>>
     \/ part = "framing"    /\ FramingNext /\ UNCHANGED <<allVars, given, coVars, breakerVars, tarsVars, cronVars, httpVars, socketVars, cookieVars, endpointVars, backlogVars>>
     \/ part = "cron"       /\ Fire /\ UNCHANGED <<allVars, given, coVars, breakerVars, tarsVars, framingVars, httpVars, socketVars, cookieVars, endpointVars, backlogVars>>
     \/ part = "http"       /\ HttpNext /\ UNCHANGED <<allVars, given, coVars, breakerVars, tarsVars, framingVars, cronVars, socketVars, cookieVars, endpointVars, backlogVars>>
     \/ part = "socket"     /\ SocketNext /\ UNCHANGED <<allVars, given, coVars, breakerVars, tarsVars, framingVars, cronVars, httpVars, cookieVars, endpointVars, backlogVars>>
     \/ part = "cookies"    /\ CookieNext /\ UNCHANGED <<allVars, given, coVars, breakerVars, tarsVars, framingVars, cronVars, httpVars, socketVars, endpointVars, backlogVars>>
     \/ part = "endpoints"  /\ EndpointsNext /\ UNCHANGED <<allVars, given, coVars, breakerVars, tarsVars, framingVars, cronVars, httpVars, socketVars, cookieVars, backlogVars>>
     \/ part = "backlog"    /\ BacklogNext /\ UNCHANGED <<allVars, given, coVars, breakerVars, tarsVars, framingVars, cronVars, httpVars, socketVars, cookieVars, endpointVars>>

MCSpec == MCInit /\ [][MCNext]_mcVars
===============================================================================
