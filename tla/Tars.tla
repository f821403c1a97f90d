--------------------------------- MODULE Tars ---------------------------------
(* The Tars encoding (protocol/Tars.h): every field is written with a head of *)
(* its tag and type, integers in as few bytes as hold them, so that a peer    *)
(* whose version of a structure has other fields can skip what it does not    *)
(* know.  A buffer is a sequence of bytes; an integer of any type is the      *)
(* sequence of the eight bytes of its value in two's complement.              *)
EXTENDS Integers, Sequences, SequencesExt

CONSTANTS
  MaxString1,   \* longest string with a length of one byte (255 in the code)
  Missing       \* value of a field that was not found

\* Types of a field.  Unsigned types are carried by the next wider signed one.
Type(is, width, of) == [is |-> is, width |-> width, of |-> of]
CharT == Type("int", 1, <<>>)    ShortT == Type("int", 2, <<>>)
IntT  == Type("int", 4, <<>>)    LongT  == Type("int", 8, <<>>)
UInt(w) == Type("unsigned", w, <<>>)
BoolT   == Type("bool", 1, <<>>)
Real(w) == Type("real", w, <<>>)
Text    == Type("string", 0, <<>>)
Bytes   == Type("bytes", 0, <<>>)
ListOf(t)     == Type("list", 0, <<t>>)
MapOf(k, v)   == Type("map", 0, <<k, v>>)
Struct(fs)    == Type("struct", 0, fs)
Field(tag, t, require) == [tag |-> tag, type |-> t, require |-> require]

FieldOf(t, tag) == CHOOSE f \in {t.of[i] : i \in 1..Len(t.of)} : f.tag = tag
Tags(t) == {t.of[i].tag : i \in 1..Len(t.of)}

ToChar == 0     ToInt(w) == CASE w = 1 -> 0 [] w = 2 -> 1 [] w = 4 -> 2 [] w = 8 -> 3
ToReal(w) == IF w = 4 THEN 4 ELSE 5
String1 == 6    String4 == 7    Map == 8    List == 9
StructBegin == 10    StructEnd == 11    ZeroTag == 12    SimpleList == 13

----------------------------------------------------------------------------
(* Integers *)

Extend(bs) == [i \in 1..(8 - Len(bs)) |-> IF bs[1] >= 128 THEN 255 ELSE 0] \o bs
Low(n, w)  == SubSeq(n, 9 - w, 8)
Num(k)     == <<0, 0, 0, 0, 0, 0, k \div 256, k % 256>>
Count(n)   == IF SubSeq(n, 1, 6) = <<0, 0, 0, 0, 0, 0>> THEN 256 * n[7] + n[8]
              ELSE 65535     \* bound: more than any buffer
Zeros(w)   == [i \in 1..w |-> 0]

\* n >= -2^(8w-1) && n <= 2^(8w-1) - 1
Fits(n, w) == Extend(Low(n, w)) = n

\* (UInt8)i and its like
Unsigned(n, w) == Zeros(8 - w) \o Low(n, w)

----------------------------------------------------------------------------
(* TarsOutputStream *)

WriteHead(type, tag) == IF tag < 15 THEN <<type + 16 * tag>> ELSE <<type + 240, tag>>

\* Wrong form: a number that fills its width takes the sign of what is left.
WidthUnsigned(n) ==
  CHOOSE w \in {1, 2, 4, 8} :
    /\ Zeros(8 - w) \o Low(n, w) = n \/ Fits(n, w)
    /\ \A v \in {1, 2, 4, 8} : v < w => Zeros(8 - v) \o Low(n, v) # n /\ ~Fits(n, v)

Width(n) ==
  CHOOSE w \in {1, 2, 4, 8} : Fits(n, w) /\ \A v \in {1, 2, 4, 8} : v < w => ~Fits(n, v)

WriteInt(n, tag) ==
  IF n = Zeros(8) THEN WriteHead(ZeroTag, tag)
  ELSE WriteHead(ToInt(Width(n)), tag) \o Low(n, Width(n))

WriteString(s, tag) ==
  IF Len(s) > MaxString1
  THEN WriteHead(String4, tag) \o Low(Num(Len(s)), 4) \o s
  ELSE WriteHead(String1, tag) \o Low(Num(Len(s)), 1) \o s

RECURSIVE Write(_, _, _)

\* resetDefautlt(); no structure is an optional field.
Default(t) ==
  CASE t.is \in {"bool", "int", "unsigned"} -> Zeros(8) [] t.is = "real" -> Zeros(4) [] OTHER -> <<>>

\* writeTo() of a structure: an optional field that has its default value is left out.
WriteFields(t, v) ==
  FlattenSeq([i \in 1..Len(t.of) |->
    LET f == t.of[i]
    IN  IF f.require \/ v[f.tag] # Default(f.type) THEN Write(f.type, v[f.tag], f.tag) ELSE <<>>])

\* A value: the eight bytes of an integer, 0 or 1 if it is a Bool; four bytes for a real number
\* of either width; a sequence of bytes; of integers; of values; of pairs; a function of the tags.
Write(t, v, tag) ==
  CASE t.is \in {"bool", "int", "unsigned"} -> WriteInt(v, tag)
    [] t.is = "real"   -> WriteHead(ToReal(t.width), tag) \o v \o Zeros(t.width - 4)
    [] t.is = "string" -> WriteString(v, tag)
    [] t.is = "bytes"  -> WriteHead(SimpleList, tag) \o WriteHead(ToChar, 0) \o WriteInt(Num(Len(v)), 0)
                          \o FlattenSeq([i \in 1..Len(v) |-> Low(v[i], 1)])
    [] t.is = "list"   -> WriteHead(List, tag) \o WriteInt(Num(Len(v)), 0)
                          \o FlattenSeq([i \in 1..Len(v) |-> Write(t.of[1], v[i], 0)])
    [] t.is = "map"    -> WriteHead(Map, tag) \o WriteInt(Num(Len(v)), 0)
                          \o FlattenSeq([i \in 1..Len(v) |->
                               Write(t.of[1], v[i][1], 0) \o Write(t.of[2], v[i][2], 1)])
    [] t.is = "struct" -> WriteHead(StructBegin, tag) \o WriteFields(t, v) \o WriteHead(StructEnd, 0)

----------------------------------------------------------------------------
(* TarsInputStream: what is read from buffer b at position c.  at is the      *)
(* position after it, ok is FALSE when a TarsDecodeException is thrown there.  *)

Read(at, v) == [at |-> at, ok |-> TRUE, v |-> v]
Thrown(at)  == [at |-> at, ok |-> FALSE, v |-> Missing]

Peek(b, c, n) == IF c + n > Len(b) THEN Thrown(c) ELSE Read(c + n, SubSeq(b, c + 1, c + n))

\* What is read next, unless this has thrown.
Then(r, Next(_, _)) == IF r.ok THEN Next(r.at, r.v) ELSE r

\* TarsPeekFromHead and TarsReadHeadSkip
HeadAt(b, c) ==
  Then(Peek(b, c, 1), LAMBDA at, one :
    IF one[1] \div 16 # 15 THEN Read(at, [type |-> one[1] % 16, tag |-> one[1] \div 16])
    ELSE Then(Peek(b, c, 2), LAMBDA at2, two : Read(at2, [type |-> two[1] % 16, tag |-> two[2]])))

\* Integers of any width up to that of the type.
Carrier(t) == IF t.is = "unsigned" THEN 2 * t.width ELSE t.width

ReadInt(b, c, t, type) ==
  IF type \notin {ToInt(w) : w \in {x \in {1, 2, 4, 8} : x <= Carrier(t)}} \cup {ZeroTag}
  THEN Thrown(c)
  ELSE Then(IF type = ZeroTag THEN Read(c, <<0>>)
            ELSE Peek(b, c, CHOOSE w \in {1, 2, 4, 8} : ToInt(w) = type), LAMBDA at, bs :
         Read(at, IF t.is = "unsigned" THEN Unsigned(Extend(bs), t.width) ELSE Extend(bs)))

\* read(size, 0) of a list, a map or bytes, required: no tag is less than 0.
ReadSize(b, c) ==
  Then(HeadAt(b, c), LAMBDA at, h :
    IF h.tag # 0 \/ h.type = StructEnd THEN Thrown(c)
    ELSE Then(ReadInt(b, at, UInt(4), h.type), LAMBDA to, n : Read(to, Count(n))))

\* The head and the size of bytes.
SimpleSize(b, c) ==
  Then(HeadAt(b, c), LAMBDA at, h : IF h.type = ToChar THEN ReadSize(b, at) ELSE Thrown(at))

\* What is skipped without a look at what it is, nor at the end of the buffer.
SkipPlain(b, c, type) ==
  LET Skip(at, n) == Read(at + n, Missing)
  IN  CASE type \in {ToInt(1), ToInt(2), ToInt(4), ToInt(8)} ->
             Skip(c, CHOOSE w \in {1, 2, 4, 8} : ToInt(w) = type)
        [] type = ToReal(4)   -> Skip(c, 4)
        [] type = ToReal(8)   -> Skip(c, 8)
        [] type = String1     -> Then(Peek(b, c, 1), LAMBDA at, n : Skip(at, n[1]))
        [] type = String4     -> Then(Peek(b, c, 4), LAMBDA at, n : Skip(at, Count(Zeros(4) \o n)))
        [] type = SimpleList  -> Then(SimpleSize(b, c), Skip)
        [] type \in {StructEnd, ZeroTag} -> Skip(c, 0)
        [] OTHER              -> Thrown(c)

RECURSIVE SkipField(_, _, _)

\* A list has its elements one after the other, a map its keys and values; a structure ends
\* with a head of type StructEnd.
SkipField(b, c, type) ==
  CASE type \in {Map, List} ->
         Then(ReadSize(b, c), LAMBDA at, n :
           FoldLeft(LAMBDA r, i : Then(r, LAMBDA x, v :
                      Then(HeadAt(b, x), LAMBDA y, h : SkipField(b, y, h.type))),
                    Read(at, Missing), [i \in 1..(IF type = Map THEN 2 * n ELSE n) |-> i]))
    [] type = StructBegin ->
         Then(HeadAt(b, c), LAMBDA at, h :
           Then(SkipField(b, at, h.type), LAMBDA x, v :
             IF h.type = StructEnd THEN Read(x, v) ELSE SkipField(b, x, StructBegin)))
    [] OTHER -> SkipPlain(b, c, type)

RECURSIVE SkipToTag(_, _, _), ReadField(_, _, _)

\* A field with this tag cannot follow: the tags of a structure go up.
Beyond(h, tag) == h.type = StructEnd \/ tag < h.tag

\* The macro TarsSkipToTag catches what is thrown: the field is then not found.  v is the
\* type of the field that was.
SkipToTag(b, c, tag) ==
  LET Caught(r) == IF r.ok THEN r ELSE Read(r.at, Missing)
  IN  Caught(Then(HeadAt(b, c), LAMBDA at, h :
        CASE Beyond(h, tag) -> Read(c, Missing)
          [] ~Beyond(h, tag) /\ h.tag = tag -> Read(at, h.type)
          [] OTHER -> Then(SkipField(b, at, h.type), LAMBDA x, v : SkipToTag(b, x, tag))))

\* A float where a double is expected.
ReadReal(b, c, t, type) ==
  IF type = ZeroTag THEN Read(c, Zeros(4))
  ELSE IF type \notin {ToReal(4), ToReal(t.width)} THEN Thrown(c)
  ELSE Then(Peek(b, c, IF type = ToReal(4) THEN 4 ELSE 8), LAMBDA at, x : Read(at, SubSeq(x, 1, 4)))

ReadText(b, c, type) ==
  IF type \notin {String1, String4} THEN Thrown(c)
  ELSE Then(Peek(b, c, IF type = String1 THEN 1 ELSE 4), LAMBDA at, n :
         Peek(b, at, Count(Zeros(8 - Len(n)) \o n)))

\* A size greater than the buffer is refused.
Sized(b, r) == Then(r, LAMBDA at, n : IF n > Len(b) THEN Thrown(at) ELSE Read(at, n))

ReadSimpleList(b, c) ==
  Then(Sized(b, SimpleSize(b, c)), LAMBDA at, n :
    Then(Peek(b, at, n), LAMBDA to, bs : Read(to, [i \in 1..n |-> Extend(<<bs[i]>>)])))

\* The fields of a composite, which follow its head and its size.  Bytes may be a list of Char.
Parts(b, c, t, type) ==
  LET of == IF t.is = "bytes" THEN CharT ELSE t.of[1]
  IN  CASE t.is = "struct" /\ type = StructBegin -> Read(c, t.of)
        [] t.is \in {"list", "bytes"} /\ type = List ->
             Then(Sized(b, ReadSize(b, c)), LAMBDA at, n :
               Read(at, [i \in 1..n |-> Field(0, of, TRUE)]))
        [] t.is = "map" /\ type = Map ->
             Then(Sized(b, ReadSize(b, c)), LAMBDA at, n :
               Read(at, [i \in 1..(2 * n) |-> IF i % 2 = 1 THEN Field(0, t.of[1], TRUE)
                                              ELSE Field(1, t.of[2], TRUE)]))
        [] OTHER -> Thrown(c)

\* The value they make; a field of a structure that was not found keeps its default.
Compose(t, vs) ==
  CASE t.is = "map"    -> [i \in 1..(Len(vs) \div 2) |-> <<vs[2 * i - 1], vs[2 * i]>>]
    [] t.is = "struct" -> [tag \in Tags(t) |->
                             LET i == CHOOSE i \in 1..Len(vs) : t.of[i].tag = tag
                             IN  IF vs[i] = Missing THEN Default(t.of[i].type) ELSE vs[i]]
    [] OTHER           -> vs

\* Fields read one after the other.
ReadFields(b, c, fields) ==
  FoldLeft(LAMBDA r, f : Then(r, LAMBDA x, vs :
             Then(ReadField(b, x, f), LAMBDA y, v : Read(y, Append(vs, v)))),
           Read(c, <<>>), fields)

\* The fields a newer peer has added at the end of a structure are skipped.
ReadComposite(b, c, t, type) ==
  Then(Parts(b, c, t, type), LAMBDA at, fields :
    Then(ReadFields(b, at, fields), LAMBDA z, vs :
      Then(IF t.is = "struct" THEN SkipField(b, z, StructBegin) ELSE Read(z, Missing),
           LAMBDA to, v : Read(to, Compose(t, vs)))))

\* read() of a field: one that is not found is an error when it is required.
ReadField(b, c, f) ==
  LET t == f.type
  IN  Then(SkipToTag(b, c, f.tag), LAMBDA at, type :
        CASE type = Missing -> (IF f.require THEN Thrown(at) ELSE Read(at, Missing))
          [] type # Missing /\ t.is \in {"bool", "int", "unsigned"} -> ReadInt(b, at, t, type)
          [] type # Missing /\ t.is = "real"   -> ReadReal(b, at, t, type)
          [] type # Missing /\ t.is = "string" -> ReadText(b, at, type)
          [] type = SimpleList /\ t.is = "bytes"  -> ReadSimpleList(b, at)
          [] OTHER -> ReadComposite(b, at, t, type))

----------------------------------------------------------------------------
(* Generated structures of the packets *)

TextMap == MapOf(Text, Text)

RequestPacket ==
  Struct(<<Field(1, ShortT, TRUE), Field(2, CharT, TRUE), Field(3, IntT, TRUE), Field(4, IntT, TRUE),
           Field(5, Text, TRUE), Field(6, Text, TRUE), Field(7, Bytes, TRUE), Field(8, IntT, TRUE),
           Field(9, TextMap, TRUE), Field(10, TextMap, TRUE)>>)

ResponsePacket ==
  Struct(<<Field(1, ShortT, TRUE), Field(2, CharT, TRUE), Field(3, IntT, TRUE), Field(4, IntT, TRUE),
           Field(5, IntT, TRUE), Field(6, Bytes, TRUE), Field(7, TextMap, TRUE),
           Field(8, Text, FALSE), Field(9, TextMap, FALSE)>>)

EndpointF ==
  Struct(<<Field(0, Text, TRUE), Field(1, IntT, TRUE), Field(2, IntT, TRUE), Field(3, IntT, TRUE),
           Field(4, IntT, TRUE), Field(5, IntT, FALSE), Field(6, IntT, FALSE), Field(7, Text, FALSE),
           Field(8, IntT, FALSE), Field(9, IntT, FALSE), Field(11, IntT, FALSE), Field(12, IntT, FALSE),
           Field(13, IntT, FALSE)>>)

----------------------------------------------------------------------------
(* What a reader should get *)

\* The value v of type t as a reader that expects type r should see it.
RECURSIVE AsSeen(_, _, _)
AsSeen(r, t, v) ==
  CASE r.is = "struct" -> [tag \in Tags(r) |->
         IF tag \in DOMAIN v THEN AsSeen(FieldOf(r, tag).type, FieldOf(t, tag).type, v[tag])
         ELSE Default(FieldOf(r, tag).type)]
    [] r.is = "list"   -> [i \in 1..Len(v) |-> AsSeen(r.of[1], t.of[1], v[i])]
    [] r.is = "map"    -> [i \in 1..Len(v) |->
         <<AsSeen(r.of[1], t.of[1], v[i][1]), AsSeen(r.of[2], t.of[2], v[i][2])>>]
    [] OTHER -> v
===============================================================================
