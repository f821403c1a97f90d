-------------------------------- MODULE Framing --------------------------------
(* How answers travel: Current::sendResponse() encodes them, TCP delivers the *)
(* bytes in pieces, TC_NetWorkBuffer keeps the pieces, and the protocol       *)
(* parser of the receiver (AppProtocol.h) takes whole packets from them.  A   *)
(* packet is four bytes of length, which count themselves, and a structure.   *)
EXTENDS Tars

CONSTANTS
  Streams,      \* [protocol: the receiver's parser, answers: what the servant answers]
  MaxPieces,    \* bound: pieces a stream arrives in
  MaxPacket,    \* TARS_NET_MAX_PACKAGE_SIZE
  Garbage       \* what three bytes past the end of a std::string may hold

MinPacket == 5
TarsVersion == 1    TupVersion == 3    JsonVersion == 5

----------------------------------------------------------------------------
(* Current::sendResponse() *)

\* An answer has the version, id and message type of its request.
ResponseValue(a) ==
  (1 :> Num(a.version)) @@ (2 :> Zeros(8)) @@ (3 :> a.id) @@ (4 :> a.message) @@ (5 :> a.ret)
  @@ (6 :> a.body) @@ (7 :> <<>>) @@ (8 :> a.desc) @@ (9 :> <<>>)

\* The body, if it is empty, is still empty: the content of an empty UniAttribute is encoded
\* into the buffer it has been swapped with.  The names are short ones.
TupValue(a) ==
  (1 :> Num(a.version)) @@ (2 :> Zeros(8)) @@ (3 :> a.message) @@ (4 :> a.id) @@ (5 :> <<83>>)
  @@ (6 :> <<70>>) @@ (7 :> a.body) @@ (8 :> Zeros(8)) @@ (9 :> <<>>)
  @@ (10 :> (IF a.ret = Zeros(8) THEN <<>> ELSE << << <<67>>, a.text>> >>)
            \o (IF a.desc = <<>> THEN <<>> ELSE << << <<68>>, a.desc>> >>))

SendResponse(a) ==
  LET fields == IF a.version = TupVersion THEN WriteFields(RequestPacket, TupValue(a))
                ELSE WriteFields(ResponsePacket, ResponseValue(a))
  IN  Low(Num(4 + Len(fields)), 4) \o fields

Answers == UNION {ToSet(s.answers) : s \in Streams}
Packet  == [a \in Answers |-> SendResponse(a)]
Value   == [a \in Answers |-> AsSeen(ResponsePacket, ResponsePacket, ResponseValue(a))]

----------------------------------------------------------------------------
(* TC_NetWorkBuffer: a list of pieces *)

Length(bs)       == Len(FlattenSeq(bs))
GetHeader(bs, n) == SubSeq(FlattenSeq(bs), 1, n)
ValueOf4(bs)     == Count(Zeros(4) \o GetHeader(bs, 4))

AddBuffer(bs, piece) == IF piece = <<>> THEN bs ELSE Append(bs, piece)

RECURSIVE MoveHeader(_, _)
MoveHeader(bs, n) ==
  IF n = 0 \/ n > Length(bs) THEN bs
  ELSE IF Len(bs[1]) > n THEN <<SubSeq(bs[1], n + 1, Len(bs[1]))>> \o Tail(bs)
  ELSE MoveHeader(Tail(bs), n - Len(bs[1]))

----------------------------------------------------------------------------
(* The parsers: less, full with what was parsed, or error (PACKET_ERR or a    *)
(* TarsDecodeException, after which the connection is closed and its buffer     *)
(* emptied), with what is left in the buffer.                                 *)

Less(bs)    == [packet |-> "less", left |-> bs, out |-> Missing]
Full(bs, v) == [packet |-> "full", left |-> bs, out |-> v]
Error       == [packet |-> "error", left |-> <<>>, out |-> Missing]

\* Wrong form: a packet that is just complete is not taken for one.
CompleteIfMore(bs, n) == Length(bs) > n

Complete(bs, n) == Length(bs) >= n

\* parseBuffer<uint32_t>, with which servers take requests: what is returned lacks the length.
ParseBuffer(bs) ==
  LET n == ValueOf4(bs)  body == MoveHeader(bs, 4)
  IN  IF Length(bs) < 4 THEN Less(bs)
      ELSE IF n < MinPacket \/ n > MaxPacket THEN Error
      ELSE IF ~Complete(bs, n) THEN Less(bs)
      ELSE Full(MoveHeader(body, n - 4), GetHeader(body, n - 4))

\* parseStream<0, uint32_t, true>: what is returned has it.
ParseStream(bs) ==
  LET n == ValueOf4(bs)
  IN  IF Length(bs) < 4 THEN Less(bs)
      ELSE IF n < 4 \/ n > MaxPacket THEN Error
      ELSE IF ~Complete(bs, n) THEN Less(bs)
      ELSE Full(MoveHeader(bs, n), GetHeader(bs, n))

\* m < n
Below(m, n) ==
  LET Key(x) == [x EXCEPT ![1] = (@ + 128) % 256]
  IN  \E i \in 1..8 : Key(m)[i] < Key(n)[i] /\ \A j \in 1..(i - 1) : m[j] = n[j]

UnknownErr == Extend(<<157>>)     \* TARSSERVERUNKNOWNERR, -99

\* "total" takes every version.
Version == "tars" :> TarsVersion @@ "json" :> JsonVersion @@ "tup" :> TupVersion
Protocols(protocol) == IF protocol = "total" THEN DOMAIN Version ELSE {protocol}

\* What is asked of the first fields, of which a tup packet has no return value.
Expected(protocol, vs) ==
  /\ vs[1] \in {Num(Version[p]) : p \in Protocols(protocol)}
  /\ vs[2] = Zeros(8)
  /\ protocol # "tup" => ~Below(vs[5], UnknownErr)

\* The fields read of a packet of which at least 20 bytes are there.  A field that is not
\* required keeps the zero it has.
HeadFields(protocol) ==
  <<Field(1, ShortT, protocol = "tup"), Field(2, CharT, protocol = "tup"),
    Field(3, IntT, protocol = "tup"), Field(4, IntT, protocol = "tup")>>
  \o IF protocol = "tup" THEN <<>> ELSE <<Field(5, IntT, FALSE)>>

\* The 20 bytes hold the length, which is left out, but the reader is told it has 20: it may
\* read the zero at the end of the string and three bytes after that.  Without 20 bytes the
\* string is empty, and the reader starts past its end.
HeadOf(bs, garbage) ==
  (IF Length(bs) < 20 THEN <<>> ELSE SubSeq(GetHeader(bs, 20), 5, 20) \o <<0>>) \o garbage

GoodHead(protocol, r) ==
  r.ok /\ Expected(protocol, [i \in 1..Len(r.v) |-> IF r.v[i] = Missing THEN Zeros(8) ELSE r.v[i]])

HeadOk(protocol, bs, garbage) ==
  GoodHead(protocol, ReadFields(HeadOf(bs, garbage), 0, HeadFields(protocol)))

\* totalResponseLen() parses a whole packet by the version it finds.
ByVersion(r) ==
  IF r.ok /\ \E p \in DOMAIN Version : r.v = Num(Version[p])
  THEN CHOOSE p \in DOMAIN Version : r.v = Num(Version[p]) ELSE "none"

FoundProtocol(protocol, bs, garbage) ==
  IF protocol # "total" THEN protocol
  ELSE ByVersion(ReadField(HeadOf(bs, garbage), 0, Field(1, ShortT, FALSE)))

\* A whole packet.  A tup packet is handed on with its length, to be decoded by the caller.
Content(protocol) == IF protocol = "tup" THEN RequestPacket ELSE ResponsePacket

GoodPacket(protocol, bs, n, r) ==
  IF ~r.ok \/ ~Expected(protocol, r.v) THEN Error
  ELSE Full(MoveHeader(bs, n),
            IF protocol = "tup" THEN GetHeader(bs, n) ELSE Compose(ResponsePacket, r.v))

ParseWhole(protocol, bs, n) ==
  IF protocol = "none" THEN Error
  ELSE GoodPacket(protocol, bs, n,
                  ReadFields(SubSeq(GetHeader(bs, n), 5, n), 0, Content(protocol).of))

\* tarsResponseLen, tupResponseLen, jsonResponseLen and totalResponseLen
Response(protocol, bs, garbage) ==
  LET n == ValueOf4(bs)
  IN  IF Length(bs) < 4 THEN Less(bs)
      ELSE IF n < MinPacket \/ n > MaxPacket THEN Error
      ELSE IF Complete(bs, n) THEN ParseWhole(FoundProtocol(protocol, bs, garbage), bs, n)
      ELSE IF Length(bs) >= 20 /\ ~HeadOk(protocol, bs, garbage) THEN Error
      ELSE Less(bs)

Parse(protocol, bs, garbage) ==
  CASE protocol = "request" -> ParseBuffer(bs)
    [] protocol = "stream"  -> ParseStream(bs)
    [] OTHER                -> Response(protocol, bs, garbage)

----------------------------------------------------------------------------
(* One connection *)

VARIABLES
  stream,     \* of Streams
  wire,       \* bytes that have not arrived
  pieces,     \* history: how many pieces have
  in,         \* _recvBuffer
  parsing,    \* doResponse() is in its inner loop
  parsed,     \* what has been parsed, in order
  open        \* the connection has not been closed

framingVars == <<stream, wire, pieces, in, parsing, parsed, open>>

FramingInit ==
  /\ stream \in Streams
  /\ wire = FlattenSeq([i \in 1..Len(stream.answers) |-> Packet[stream.answers[i]]])
  /\ pieces = 0 /\ in = <<>> /\ parsing = FALSE /\ parsed = <<>> /\ open = TRUE

Recv ==
  /\ open /\ ~parsing
  /\ \E n \in 1..Len(wire) :
       /\ pieces + 1 < MaxPieces \/ n = Len(wire)
       /\ in' = AddBuffer(in, SubSeq(wire, 1, n))
       /\ wire' = SubSeq(wire, n + 1, Len(wire))
  /\ pieces' = pieces + 1 /\ parsing' = TRUE
  /\ UNCHANGED <<stream, parsed, open>>

\* Packets are parsed until one is not there yet.
ParsePacket ==
  /\ parsing
  /\ \E garbage \in Garbage : \E r \in {Parse(stream.protocol, in, garbage)} :
       /\ in' = r.left
       /\ parsing' = (r.packet = "full")
       /\ parsed' = IF r.packet = "full" THEN Append(parsed, r.out) ELSE parsed
       /\ open' = (r.packet # "error")
  /\ UNCHANGED <<stream, wire, pieces>>

FramingNext == Recv \/ ParsePacket

FramingSpec == FramingInit /\ [][FramingNext]_framingVars

----------------------------------------------------------------------------
(* Properties *)

\* What the receiver should make of an answer, and the answers it cannot take.
Received(protocol, a) ==
  CASE protocol = "request" -> SubSeq(Packet[a], 5, Len(Packet[a]))
    [] protocol \in {"stream", "tup"} -> Packet[a]
    [] OTHER -> Value[a]

Refused(protocol, a) ==
  \/ Len(Packet[a]) > MaxPacket
  \/ protocol \in DOMAIN Version /\ a.version # Version[protocol]
  \/ a.version # TupVersion /\ protocol \in {"tars", "json", "total"} /\ Below(a.ret, UnknownErr)

\* However the bytes are cut into pieces, in the middle of a length, of a head or of a value:
\* the receiver takes the answers that were sent, each once, in order and with the values
\* they were sent with, up to the first one it cannot take; the early look at a packet that
\* is not complete, which reads past its 20 bytes, refuses none that it would have parsed
\* whole; and when everything has arrived, nothing is left in the buffer.
AnswersAsSent ==
  pieces > 0 =>
  LET p == stream.protocol
      good == {n \in 0..Len(stream.answers) : \A i \in 1..n : ~Refused(p, stream.answers[i])}
      all == [i \in 1..(CHOOSE n \in good : \A m \in good : m <= n) |-> Received(p, stream.answers[i])]
  IN  /\ IsPrefix(parsed, all)
      /\ ~open => parsed = all /\ Len(all) < Len(stream.answers)
      /\ open /\ ~parsing /\ wire = <<>> => parsed = all /\ Len(all) = Len(stream.answers) /\ in = <<>>
================================================================================
