---------------------------------- MODULE Url ----------------------------------
(* TC_URL.  The text of a URL is a sequence of words and of the marks that    *)
(* parseURL() looks for: ":" "/" "@" "?" "#" and the dot of a domain.  "." and *)
(* ".." are words of a path too.                                              *)
EXTENDS Integers, Sequences, SequencesExt, FiniteSetsExt

Schemes == {"http", "https", "ftp"}

\* find() and rfind(): npos is after the end for the first, and before the beginning for the other.
Find(w, text)  == Min({Len(text) + 1} \cup {i \in DOMAIN text : text[i] = w})
RFind(w, text) == Max({0} \cup {i \in DOMAIN text : text[i] = w})
Has(w, text)   == Contains(text, w)
To(text, i)    == SubSeq(text, 1, i)
Behind(text, i) == SubSeq(text, i + 1, Len(text))

-----------------------------------------------------------------------------
(* Between the text and the parts *)

DefaultPort(scheme) == CASE scheme = "http" -> <<"80">> [] scheme = "https" -> <<"443">> [] scheme = "ftp" -> <<"21">>

IfAny(part, text) == IF part = <<>> THEN <<>> ELSE text

\* type, user, password, domain and port.
Origin(u) ==
  <<u.scheme, ":", "/", "/">>
  \o IfAny(u.user, u.user \o IfAny(u.pass, <<":">> \o u.pass) \o <<"@">>)
  \o u.domain
  \o (IF u.port = DefaultPort(u.scheme) THEN <<>> ELSE <<":">> \o u.port)

GetRequest(u)  == u.path \o IfAny(u.query, <<"?">> \o u.query) \o IfAny(u.ref, <<"#">> \o u.ref)
ToURL(u)       == Origin(u) \o GetRequest(u)
GetRootPath(u) == Origin(u) \o <<"/">>

GetRelativePath(u) == IF Has("/", u.path) THEN To(u.path, RFind("/", u.path)) ELSE <<"/">>

HasScheme(text) == Len(text) >= 4 /\ text[1] \in Schemes /\ SubSeq(text, 2, 4) = <<":", "/", "/">>

\* Where the authority ends; what begins with a query or a reference gets a path.
Authority(text)  == To(text, Min({Find("/", text), IF Find("?", text) < Find("/", text)
                                                   THEN Find("?", text) ELSE Find("#", text)}) - 1)
PathAndMore(text) ==
  LET rest == Behind(text, Len(Authority(text)))
  IN IF rest # <<>> /\ rest[1] # "/" THEN <<"/">> \o rest ELSE rest

\* A query comes after the first "?", and a reference after the last "#" of what is then left.
WithoutRef(text) == IF Has("#", text) THEN To(text, RFind("#", text) - 1) ELSE text
RefOf(text)      == IF Has("#", text) THEN Behind(text, RFind("#", text)) ELSE <<>>

ParseURL(whole) ==
  LET scheme == IF HasScheme(whole) THEN whole[1] ELSE "http"
      text   == IF HasScheme(whole) THEN Behind(whole, 4) ELSE whole
      auth   == Authority(text)
      who    == IF Has("@", auth) THEN To(auth, Find("@", auth) - 1) ELSE <<>>
      host   == IF Has("@", auth) THEN Behind(auth, Find("@", auth)) ELSE auth
      more   == PathAndMore(text)
      path   == To(more, Find("?", more) - 1)
      query  == Behind(more, Find("?", more))
      asked  == Has("?", more)
      plain  == IF asked THEN path ELSE WithoutRef(path)
  IN [scheme |-> scheme,
      user   |-> To(who, Find(":", who) - 1),
      pass   |-> Behind(who, Find(":", who)),
      domain |-> To(host, Find(":", host) - 1),
      port   |-> IF Has(":", host) THEN Behind(host, Find(":", host)) ELSE DefaultPort(scheme),
      path   |-> IF plain = <<>> THEN <<"/">> ELSE plain,
      query  |-> IF asked THEN WithoutRef(query) ELSE <<>>,
      ref    |-> IF asked THEN RefOf(query) ELSE RefOf(path)]

-----------------------------------------------------------------------------
(* Paths *)

\* Every "./" that begins a path or a segment goes, and a "." at the end.
IsDot(p, i)  == i \in DOMAIN p /\ p[i] = "." /\ (i = 1 \/ p[i - 1] = "/")
DropDots(p)  ==
  LET gone == {i \in DOMAIN p : IsDot(p, i) /\ (i = Len(p) \/ p[i + 1] = "/")}
      kept == {i \in DOMAIN p : i \notin gone /\ ~(i - 1 \in gone /\ p[i] = "/")}
  IN [k \in 1..Cardinality(kept) |-> p[CHOOSE i \in kept : Cardinality({j \in kept : j <= i}) = k]]

\* Each "/../" goes with the segment before it (wrong: that one stays); the first of a path
\* by itself, and one after ".." not at all.
Ups(p, from) == {i \in from..(Len(p) - 2) : SubSeq(p, i, i + 2) = <<"/", "..", "/">>}
KeepSegment(p, i) == i
SegmentBefore(p, i)     == IF i = 1 THEN 1 ELSE Max({1} \cup {j \in 1..(i - 1) : p[j] = "/"})

RECURSIVE DropUps(_, _)
DropUps(p, from) ==
  IF Ups(p, from) = {} THEN p
  ELSE LET i == Min(Ups(p, from)) IN
       IF i > 1 /\ p[i - 1] = ".." THEN DropUps(p, i + 3)
       ELSE DropUps(To(p, SegmentBefore(p, i) - 1) \o Behind(p, i + 1), from)

DropLastUp(p) ==
  LET n == Len(p) IN
  IF n >= 2 /\ SubSeq(p, n - 1, n) = <<"/", "..">> /\ (n = 2 \/ p[n - 2] # "..")
  THEN To(p, SegmentBefore(p, n - 1)) ELSE p

SimplePath(p) == DropLastUp(DropUps(DropDots(p), 1))

\* buildWithRelativePath(): a link from the root, to a place in the page, or relative to the page.
Build(u, link) ==
  LET path == CASE link # <<>> /\ link[1] = "/" -> Tail(link)
                [] link # <<>> /\ link[1] = "#" -> Tail(u.path) \o IfAny(u.query, <<"?">> \o u.query) \o link
                [] OTHER                        -> Tail(GetRelativePath(u)) \o link
  IN ParseURL(GetRootPath(u) \o Tail(SimplePath(<<"/">> \o path)))
===============================================================================
