--------------------------------- MODULE Http ---------------------------------
(* One HTTP request and its response over a connection that is closed after   *)
(* it: what TC_HttpRequest and TC_HttpResponse encode travels in pieces, and  *)
(* is read by TC_HttpRequest::parseHttp() and decode() on one side and by     *)
(* doRequest() with TC_HttpResponse::incrementDecode() on the other.          *)
(*                                                                            *)
(* A message is a sequence of characters <<c>> and of lines <<name, value>>,  *)
(* which stand for more characters than the shortest message has; a piece     *)
(* that ends within a line of the head is like one that ends before it.       *)
EXTENDS Integers, Sequences, SequencesExt, FiniteSetsExt

CONSTANTS
  HttpExchanges,   \* [method, coding, body] of a request and [status, coding, body] of a response
  MaxHttpPieces    \* bound: pieces in which either of them arrives

VARIABLES
  http,          \* the exchange
  toServer,      \* what has not arrived at the server yet
  serverBuf,     \* its buffer
  served,        \* what parseHttp() and decode() made of the request
  toClient,      \* what has not arrived at the client
  clientBuf,     \* recvBuffer
  rsp,           \* the TC_HttpResponse
  httpOutcome,   \* of doRequest()
  httpPieces     \* so far, of the message that is under way

httpVars == <<http, toServer, serverBuf, served, toClient, clientBuf, rsp, httpOutcome, httpPieces>>

-----------------------------------------------------------------------------
(* Encoding *)

Chars1(s) == [i \in DOMAIN s |-> <<s[i]>>]
CRLF      == Chars1(<<13, 10>>)
EndOfHead == CRLF \o CRLF

Methods  == {"GET", "POST", "PUT", "PATCH", "OPTIONS", "PRI", "DELETE", "HEAD"}
WithBody == {"POST", "PUT", "PATCH", "DELETE"}

HexDigit(n) == IF n < 10 THEN 48 + n ELSE 87 + n
Hex(n)      == Chars1(IF n < 16 THEN <<HexDigit(n)>> ELSE <<HexDigit(n \div 16), HexDigit(n % 16)>>)

Chunk(body)   == Hex(Len(body)) \o CRLF \o Chars1(body) \o CRLF
LastChunk     == Chunk(<<>>)
Lines(fields) == FlattenSeq([i \in DOMAIN fields |-> <<fields[i]>> \o CRLF])

\* genHeader() and the body.  This library sends the length of a body; what others send comes
\* in chunks or ends with the connection.  coding is the length, the word for the chunks,
\* a sequence of bodies then, or "none".
Message(lines, coding, body) ==
  Lines(lines \o << <<"Connection", "close">> >>) \o
  (CASE coding = "length" -> Lines(<< <<"Content-Length", Len(body)>> >>) \o CRLF \o Chars1(body)
    [] coding = "none"   -> CRLF \o Chars1(body)
    [] OTHER             -> Lines(<< <<"Transfer-Encoding", coding>> >>) \o CRLF
                              \o FlattenSeq([i \in DOMAIN body |-> Chunk(body[i])]) \o LastChunk)

Located(status) == IF status \in {301, 302} THEN << <<"Location", "elsewhere">> >> ELSE <<>>

EncodeRequest(q)  == IF q.method \in WithBody THEN Message(<< <<q.method, "/">> >>, q.coding, q.body)
                     ELSE Message(<< <<q.method, "/">> >>, "none", <<>>)
EncodeResponse(p) == Message(<< <<"HTTP/1.1", p.status>> >> \o Located(p.status), p.coding, p.body)

InChunks(m) == m.coding \notin {"length", "none"}
BodyOf(m)   == IF InChunks(m) THEN FlattenSeq(m.body) ELSE m.body

-----------------------------------------------------------------------------
(* Parsing *)

\* strnstr(): where the first s in buf begins, or 0.
Places(s, buf) == {i \in 1..(Len(buf) - Len(s) + 1) : SubSeq(buf, i, i + Len(s) - 1) = s}
Place(s, buf)  == IF Places(s, buf) = {} THEN 0 ELSE Min(Places(s, buf))

From1(buf, i) == SubSeq(buf, i, Len(buf))
Head1(buf)    == SubSeq(buf, 1, Place(EndOfHead, buf) - 1)
Rest(buf)     == From1(buf, Place(EndOfHead, buf) + 4)

HasField(head, name)  == \E i \in DOMAIN head : Len(head[i]) = 2 /\ head[i][1] = name
ValueIn(head, name)   == (CHOOSE x \in ToSet(head) : Len(x) = 2 /\ x[1] = name)[2]
LengthIn(head, other) == IF HasField(head, "Content-Length") THEN ValueIn(head, "Content-Length") ELSE other

\* checkHeader() takes capitals for small letters, checkRequest() does not.
CodingIn(head)      == IF HasField(head, "Transfer-Encoding") THEN ValueIn(head, "Transfer-Encoding") ELSE ""
ChunkedIn(head)     == CodingIn(head) \in {"chunked", "Chunked"}
ChunkedExactly(head) == CodingIn(head) = "chunked"

\* strtol(line, 16): the digits at the beginning of the line.
DigitOf(c) == CASE c \in 48..57  -> c - 48
                [] c \in 97..102 -> c - 87
                [] c \in 65..70  -> c - 55
                [] OTHER         -> -1
Digits(line)  == SubSeq(line, 1, Max({0} \cup {n \in DOMAIN line : \A i \in 1..n : DigitOf(line[i][1]) >= 0}))
Strtol(line)  == FoldLeft(LAMBDA n, c : n * 16 + DigitOf(c[1]), 0, Digits(line))
SizeAt(buf)   == Strtol(SubSeq(buf, 1, Place(CRLF, buf) - 1))

\* A chunk whose line ends before eol has come with the end of its data (wrong: without it).
ComeShort(buf, eol, size) == Len(buf) >= eol + 1 + size
Come(buf, eol, size)      == Len(buf) >= eol + 1 + size + 2

\* The loop over chunks: what they hold, what is left, and whether the last one has come.
RECURSIVE TakeChunks(_, _, _, _)
TakeChunks(buf, eol, size, content) ==
  IF eol = 0 \/ (size > 0 /\ ~Come(buf, eol, size))
  THEN [content |-> content, rest |-> buf, last |-> FALSE]
  ELSE IF size = 0 THEN [content |-> content, rest |-> From1(buf, eol + 2), last |-> TRUE]
  ELSE TakeChunks(From1(buf, eol + 1 + size + 3), Place(CRLF, From1(buf, eol + 1 + size + 3)),
                  SizeAt(From1(buf, eol + 1 + size + 3)), content \o SubSeq(buf, eol + 2, eol + 1 + size))

Chunks(buf) == TakeChunks(buf, Place(CRLF, buf), SizeAt(buf), <<>>)

-----------------------------------------------------------------------------
(* The server *)

\* checkRequest(): the request is full with the line of the last chunk, and without chunks with
\* as many characters as its length says, 0 if it says none.
CheckRequest(buf) ==
  IF Place(EndOfHead, buf) = 0 THEN FALSE
  ELSE IF ChunkedExactly(Head1(buf)) THEN Chunks(Rest(buf)).last
  ELSE LengthIn(Head1(buf), 0) <= Len(Rest(buf))

\* A method it does not know throws.
CheckHttp(buf) ==
  IF buf = <<>> THEN "less"
  ELSE IF buf[1][1] \notin Methods THEN "error"
  ELSE IF CheckRequest(buf) THEN "full" ELSE "less"

\* decode() of a full buffer: every character has to belong to the request.
DecodeRequest(buf) ==
  IF ChunkedIn(Head1(buf))
  THEN [verdict |-> "full", method |-> buf[1][1], content |-> Chunks(Rest(buf)).content,
        complete |-> Chunks(Rest(buf)).last /\ Len(Chunks(Rest(buf)).rest) = 2]
  ELSE [verdict |-> "full", method |-> buf[1][1], content |-> Rest(buf),
        complete |-> LengthIn(Head1(buf), 0) = Len(Rest(buf))]

NotServed == [verdict |-> "less", method |-> "", content |-> <<>>, complete |-> FALSE]

\* parseHttp(): a full buffer is taken whole.  The servant answers what it could decode.
ServerReads(n) ==
  /\ served.verdict = "less" /\ n \in 1..Len(toServer)
  /\ httpPieces < MaxHttpPieces - 1 \/ n = Len(toServer)
  /\ toServer' = From1(toServer, n + 1)
  /\ LET buf == serverBuf \o SubSeq(toServer, 1, n)
     IN  \/ /\ CheckHttp(buf) = "full"
            /\ served' = DecodeRequest(buf) /\ serverBuf' = <<>>
            /\ toClient' = IF served'.complete THEN EncodeResponse(http.response) ELSE <<>>
            /\ httpPieces' = 0
         \/ /\ CheckHttp(buf) # "full"
            /\ served' = [NotServed EXCEPT !.verdict = CheckHttp(buf)] /\ serverBuf' = buf
            /\ httpPieces' = httpPieces + 1 /\ UNCHANGED toClient
  /\ UNCHANGED <<http, clientBuf, rsp, httpOutcome>>

-----------------------------------------------------------------------------
(* The client: doRequest() *)

\* reset(): the status is a good one before anything has come.
ResetResponse ==
  [headed |-> FALSE, status |-> 200, length |-> 0, chunked |-> FALSE, content |-> <<>>, done |-> FALSE]

\* The first half of incrementDecode(), when the head has come.
ParseHead(head) ==
  [headed |-> TRUE, status |-> head[1][2], length |-> LengthIn(head, -1),
   chunked |-> ChunkedIn(head), content |-> <<>>,
   done |-> \/ head[1][2] \in {204, 304}
            \/ head[1][2] \in {301, 302} /\ HasField(head, "Location")]

\* The second half: a body is added to what has come before, until its length is reached; without
\* a length it is never complete.
WithChunks(r, taken) ==
  [buf |-> IF taken.last THEN <<>> ELSE taken.rest,
   rsp |-> [r EXCEPT !.content = @ \o taken.content, !.done = taken.last]]

WithContent(r, content) ==
  [buf |-> <<>>, rsp |-> [r EXCEPT !.content = content, !.done = r.length # -1 /\ r.length <= Len(content)]]

DecodeBody(r, buf) ==
  IF r.done THEN [buf |-> buf, rsp |-> r]
  ELSE IF r.chunked THEN WithChunks(r, Chunks(buf)) ELSE WithContent(r, r.content \o buf)

IncrementDecode(r, buf) ==
  IF buf = <<>> \/ (~r.headed /\ Place(EndOfHead, buf) = 0) THEN [buf |-> buf, rsp |-> r]
  ELSE IF r.headed THEN DecodeBody(r, buf)
  ELSE DecodeBody(ParseHead(Head1(buf)), Rest(buf))

ClientReads(n) ==
  /\ httpOutcome = "waiting" /\ n \in 1..Len(toClient)
  /\ httpPieces < MaxHttpPieces - 1 \/ n = Len(toClient)
  /\ toClient' = From1(toClient, n + 1)
  /\ LET decoded == IncrementDecode(rsp, clientBuf \o SubSeq(toClient, 1, n))
     IN  /\ clientBuf' = decoded.buf /\ rsp' = decoded.rsp
         /\ httpOutcome' = IF decoded.rsp.done THEN "success" ELSE "waiting"
  /\ httpPieces' = httpPieces + 1
  /\ UNCHANGED <<http, toServer, serverBuf, served>>

\* EM_CLOSE: the connection is closed, with or without the whole response, and that is a success.
ClientSeesClose ==
  /\ httpOutcome = "waiting" /\ served.verdict # "less"
  /\ rsp' = IncrementDecode(rsp, clientBuf).rsp
  /\ httpOutcome' = "success"
  /\ UNCHANGED <<http, toServer, serverBuf, served, toClient, clientBuf, httpPieces>>

\* recv() returns an error, by its timeout for one.
ClientGivesUp ==
  /\ httpOutcome = "waiting" /\ httpOutcome' = "failed"
  /\ UNCHANGED <<http, toServer, serverBuf, served, toClient, clientBuf, rsp, httpPieces>>

-----------------------------------------------------------------------------

HttpInit ==
  /\ http \in HttpExchanges
  /\ toServer = EncodeRequest(http.request) /\ serverBuf = <<>> /\ served = NotServed
  /\ toClient = <<>> /\ clientBuf = <<>> /\ rsp = ResetResponse
  /\ httpOutcome = "waiting" /\ httpPieces = 0

HttpNext ==
  \/ \E n \in 1..Len(toServer) : ServerReads(n)
  \/ \E n \in 1..Len(toClient) : ClientReads(n)
  \/ ClientSeesClose \/ ClientGivesUp

HttpSpec == HttpInit /\ [][HttpNext]_httpVars

-----------------------------------------------------------------------------

\* Responses that have no body whatever their head says, and those whose end is known without
\* the end of the connection.
Bodiless(p) == p.status \in {204, 304, 301, 302}
Delimited(p) == Bodiless(p) \/ p.coding # "none"

\* Requests the server can read: checkRequest() misses chunks announced with a capital.
Readable(q) == q.method \in Methods /\ q.coding # "Chunked"

\* Wherever the pieces end: once all of a request has arrived the server has taken it as full and
\* decoded it, with the method and the body that were sent, and once all of a response has
\* arrived doRequest() has returned the status and the body that were sent, at the latest
\* when the connection is closed, and without waiting for that if the end is marked.  A
\* request whose last piece is but the end of the last chunk is the exception: the server
\* has taken it before and cannot decode it.
HttpAsSent ==
  /\ toServer = <<>> /\ Readable(http.request) =>
       /\ served.verdict = "full" /\ served.complete
       /\ served.method = http.request.method /\ served.content = Chars1(BodyOf(http.request))
  /\ served.complete /\ toClient = <<>> =>
       /\ httpOutcome = "waiting" => ~Delimited(http.response)
       /\ httpOutcome = "success" =>
            /\ rsp.status = http.response.status
            /\ rsp.content = IF Bodiless(http.response) THEN <<>> ELSE Chars1(BodyOf(http.response))
===============================================================================
