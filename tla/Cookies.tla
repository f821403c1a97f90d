-------------------------------- MODULE Cookies --------------------------------
(* TC_HttpCookie with the URLs it is asked about: a client follows links, is  *)
(* told to set cookies by what it finds, and stores and loads them.           *)
(*                                                                            *)
(* The names of cookies are numbers, in the order of http_cookie_data, which  *)
(* takes capitals for small letters.                                          *)
EXTENDS Url, TLC

CONSTANTS
  StartPlaces,   \* [scheme, user, pass, labels, port, segs, query, ref] of URLs
  Links,         \* [root, segs, query, ref], relative to a URL
  CookieLines,   \* [data, domain, path, secure, expires] of a Set-Cookie line
  Capitals,      \* labels in capitals: a function to small letters
  MaxVisits,     \* bound: links followed
  MaxLines,      \* bound: lines
  MaxNow         \* bound: time

VARIABLES
  url,     \* the TC_URL of the page
  jar,     \* _cookies
  now,     \* time()
  place,   \* the page, as a reader of the URL would take it (its path as TC_URL has it, where
           \* tc_http.h and RFC 3986 differ)
  told,    \* the last value of each cookie, by <<labels, segs, secure, name>>
  mixed,   \* cookies named second in a line that changes when they expire
  visits, lines

cookieVars == <<url, jar, now, place, told, mixed, visits, lines>>

-----------------------------------------------------------------------------
(* The cookies *)

Lower(text)    == [i \in DOMAIN text |-> IF text[i] \in DOMAIN Capitals THEN Capitals[text[i]] ELSE text[i]]
WithDot(domain) == IF domain # <<>> /\ domain[1] = "." THEN domain ELSE <<".">> \o domain

\* A domain has two labels at least.
FixDomain(domain) == domain # <<>> /\ Find(".", WithDot(domain)) # RFind(".", WithDot(domain))

MatchDomain(cookie, domain) ==
  LET suffix == WithDot(Lower(cookie))
  IN /\ RFind(".", suffix) # 1
     /\ IsSuffix(suffix, Lower(domain)) \/ Lower(domain) = Tail(suffix)

WithSlash(path) == IF Last(path) = "/" THEN path ELSE Append(path, "/")
MatchPath(cookie, path) ==
  cookie # <<>> /\ path # <<>> /\ IsPrefix(WithSlash(cookie), WithSlash(path))

IsCookieExpires(c) == c.expires # 0 /\ c.expires < now
Alive(cookies)     == SelectSeq(cookies, LAMBDA c : ~IsCookieExpires(c))

\* Where a cookie is for; domains are compared without regard to capitals.
SameUse(c, d) ==
  WithDot(Lower(c.domain)) = WithDot(Lower(d.domain)) /\ c.path = d.path /\ c.secure = d.secure

FirstName(c)  == Min(DOMAIN c.data)
WithoutName(c, n) == [c EXCEPT !.data = [m \in DOMAIN @ \ {n} |-> @[m]]]

\* A cookie of the same use that expires at another time loses the first name of the new one
\* (wrong: keeps it).
StaleLeft(d, c) == d
StaleGone(d, c) == IF SameUse(c, d) /\ c.expires # d.expires /\ DOMAIN c.data # {} THEN WithoutName(d, FirstName(c)) ELSE d

\* addCookie(): one that expires at the same time is merged into the new one, at the end.
AddCookie(c, cookies) ==
  IF ~FixDomain(c.domain) \/ c.path = <<>> THEN cookies
  ELSE LET new  == [c EXCEPT !.domain = WithDot(@)]
           Same(d) == SameUse(new, d) /\ d.expires = new.expires
           all  == FoldLeft(LAMBDA data, d : IF Same(d) THEN data @@ d.data ELSE data, new.data, Alive(cookies))
           rest == SelectSeq(Alive(cookies), LAMBDA d : ~Same(d))
       IN Append([i \in DOMAIN rest |-> StaleGone(rest[i], new)], [new EXCEPT !.data = all])

AddCookies(cs, cookies) == FoldLeft(LAMBDA before, c : AddCookie(c, before), cookies, cs)

\* A Set-Cookie line of the page: without a domain it is for that of the page, without a path
\* for its directory; one for elsewhere is ignored.
CookieOf(line) ==
  [line EXCEPT !.domain = IF @ = <<>> THEN Lower(url.domain) ELSE @,
               !.path   = IF @ = <<>> THEN GetRelativePath(url) ELSE @]

Accepted(c) ==
  FixDomain(c.domain) /\ MatchDomain(c.domain, Lower(url.domain)) /\ MatchPath(c.path, url.path)

IsCookieMatch(c) ==
  /\ MatchDomain(c.domain, url.domain) /\ MatchPath(c.path, url.path)
  /\ c.secure => url.scheme = "https"

\* getCookieForURL(): the pairs it sends.  Some values stand for a cookie that was deleted.
ToDelete == {"", "null", "deleted"}
PairsOf(c) ==
  LET names == SetToSortSeq({n \in DOMAIN c.data : c.data[n] \notin ToDelete}, <)
  IN [i \in DOMAIN names |-> <<names[i], c.data[names[i]]>>]
GetCookieForURL == FlattenSeq([i \in DOMAIN jar |-> IF ~IsCookieExpires(jar[i]) /\ IsCookieMatch(jar[i])
                                                    THEN PairsOf(jar[i]) ELSE <<>>])

-----------------------------------------------------------------------------
(* What a URL is: its parts as written, and links as RFC 3986 resolves them. *)

Dotted(labels) == Tail(FlattenSeq([i \in DOMAIN labels |-> <<".", labels[i]>>]))
Slashed(segs)  == FlattenSeq([i \in DOMAIN segs |-> <<"/">> \o (IF segs[i] = "" THEN <<>> ELSE <<segs[i]>>)])
Further(p)     == IfAny(p.query, <<"?">> \o p.query) \o IfAny(p.ref, <<"#">> \o p.ref)

\* The parts that TC_URL should have.
PartsOf(p) ==
  [scheme |-> p.scheme, user |-> p.user, pass |-> p.pass, domain |-> Dotted(p.labels),
   port   |-> IF p.port = <<>> THEN DefaultPort(p.scheme) ELSE p.port,
   path   |-> Slashed(p.segs), query |-> p.query, ref |-> p.ref]

Written(p) ==
  <<p.scheme, ":", "/", "/">> \o IfAny(p.user, p.user \o IfAny(p.pass, <<":">> \o p.pass) \o <<"@">>)
  \o Dotted(p.labels) \o IfAny(p.port, <<":">> \o p.port)
  \o (IF p.segs = <<"">> THEN <<>> ELSE Slashed(p.segs)) \o Further(p)

WrittenLink(l) ==
  (IF l.segs = <<>> THEN <<>> ELSE IF l.root THEN Slashed(l.segs) ELSE Tail(Slashed(l.segs))) \o Further(l)

NoDots(segs) ==
  LET Step1(done, s) == CASE s = "." -> done [] s = ".." -> IF done = <<>> THEN <<>> ELSE Front(done)
                          [] OTHER -> Append(done, s)
  IN FoldLeft(Step1, <<>>, segs) \o (IF Last(segs) \in {".", ".."} THEN <<"">> ELSE <<>>)

Follows(p, l) ==
  IF l.segs = <<>> THEN [p EXCEPT !.ref = l.ref]
  ELSE [p EXCEPT !.segs = NoDots((IF l.root THEN <<>> ELSE Front(p.segs)) \o l.segs),
                 !.query = l.query, !.ref = l.ref]

\* A relative link from a page that is not a directory: tc_http.h:326-328 has the last segment
\* of the page kept (`test/abc` from /a/b is /a/b/test/abc), RFC 3986 and TC_URL drop it.
Disputed(p, l) == ~l.root /\ l.segs # <<>> /\ Last(p.segs) # ""

\* The segments of a path that TC_URL has.
Segments(path) ==
  LET at == SetToSortSeq({i \in DOMAIN path : path[i] = "/"}, <)
  IN [k \in DOMAIN at |-> IF at[k] < Len(path) /\ path[at[k] + 1] # "/" THEN path[at[k] + 1] ELSE ""]

-----------------------------------------------------------------------------

CookieInit ==
  /\ place \in StartPlaces
  /\ url = ParseURL(Written(place))
  /\ jar = <<>> /\ now = 1 /\ told = <<>> /\ mixed = {} /\ visits = 0 /\ lines = 0

Visit ==
  /\ visits < MaxVisits /\ visits' = visits + 1
  /\ \E l \in Links :
       /\ url' = Build(url, WrittenLink(l))
       /\ place' = IF Disputed(place, l) THEN [Follows(place, l) EXCEPT !.segs = Segments(url'.path)]
                   ELSE Follows(place, l)
  /\ UNCHANGED <<jar, now, told, mixed, lines>>

\* Who a line is from, what it is for, and whether that is the page's to say.
LabelsOf(line) == IF line.domain = <<>> THEN place.labels ELSE SelectSeq(line.domain, LAMBDA w : w # ".")
SegsOf(line)   == IF line.path = <<>> THEN Append(Front(place.segs), "")
                  ELSE Append(SelectSeq(line.path, LAMBDA w : w # "/"), IF Last(line.path) = "/" THEN "" ELSE "-")
Key(line, n)   == <<Lower(LabelsOf(line)), SegsOf(line), line.secure, n>>

LabelsMatch(of, at) == Len(of) >= 2 /\ IsSuffix(of, Lower(at))
SegsMatch(of, at)   == IsPrefix(Front(of), at)

SetCookie ==
  /\ lines < MaxLines /\ lines' = lines + 1
  /\ \E line \in CookieLines :
       /\ jar' = IF Accepted(CookieOf(line)) THEN AddCookie(CookieOf(line), jar) ELSE jar
       /\ IF LabelsMatch(Lower(LabelsOf(line)), place.labels) /\ SegsMatch(SegsOf(line), place.segs)
          THEN LET keys == {Key(line, n) : n \in DOMAIN line.data} IN
               /\ told' = [k \in keys |-> [value |-> line.data[k[4]], expires |-> line.expires]] @@ told
               /\ mixed' = mixed \cup {k \in keys \cap DOMAIN told :
                                         k[4] # FirstName(line) /\ told[k].expires # line.expires}
          ELSE UNCHANGED <<told, mixed>>
  /\ UNCHANGED <<url, now, place, visits>>

\* getCookieForURL(), getSerializeCookie() and deleteExpires() drop what has expired.
AskCookies == jar' = Alive(jar) /\ jar' # jar /\ UNCHANGED <<url, now, place, told, mixed, visits, lines>>

\* getSerializeCookie() when the client ends, addCookie() of the list when it starts again; or
\* deleteExpires() with bErase.  Cookies without a time do not outlive the client.
Lasting == SelectSeq(Alive(jar), LAMBDA c : c.expires # 0)
Restart ==
  /\ jar # <<>>
  /\ jar' \in {AddCookies(Lasting, <<>>), Lasting}
  /\ told' = [k \in {x \in DOMAIN told : told[x].expires # 0} |-> told[k]]
  /\ UNCHANGED <<url, now, place, mixed, visits, lines>>

Second == now < MaxNow /\ now' = now + 1 /\ UNCHANGED <<url, jar, place, told, mixed, visits, lines>>

CookieNext == Visit \/ SetCookie \/ AskCookies \/ Restart \/ Second

CookieSpec == CookieInit /\ [][CookieNext]_cookieVars

-----------------------------------------------------------------------------

\* The keys of the cookies that the page should get.
DueAt(p) ==
  {k \in DOMAIN told :
     /\ LabelsMatch(k[1], p.labels) /\ SegsMatch(k[2], p.segs)
     /\ k[3] => p.scheme = "https"
     /\ told[k].expires # 0 => told[k].expires >= now
     /\ told[k].value \notin ToDelete}

\* The client is where the links lead (the path a disputed link leads to is taken from the
\* code, see Disputed), and getCookieForURL() sends there every
\* cookie that a page it belongs to has set, with the last value it was set to, and once:
\* neither one that has expired or was meant for elsewhere nor an earlier value, however
\* cookies that expire at different times were set over each other and stored in between.
\* Of a line with several names addCookie() looks for earlier values of the first only.
CookiesAsSet ==
  /\ url = PartsOf(place)
  /\ mixed = {} =>
       LET got == GetCookieForURL
           due == DueAt(place)
       IN /\ \A k \in due : Cardinality({i \in DOMAIN got : got[i] = <<k[4], told[k].value>>})
                            = Cardinality({j \in due : j[4] = k[4] /\ told[j].value = told[k].value})
          /\ Len(got) = Cardinality(due)
===============================================================================
