------------------------------- MODULE TarsJson -------------------------------
(* The JSON form of a structure (protocol/TarsJson.h, tc_json.h) and its form *)
(* as named attributes of a packet (protocol/tup.h).  Both know fields by     *)
(* name, for which the tag stands here.                                       *)
EXTENDS Tars

CONSTANT Unspecified   \* an integer that depends on rounding or on the compiler

Chars(bs) == [i \in 1..Len(bs) |-> Extend(<<bs[i]>>)]

----------------------------------------------------------------------------
(* JsonValue: every number is a double. *)

Json(is, v) == [is |-> is, v |-> v]
NoJson == Json("none", <<>>)

JsonAt(j, name) == IF name \in DOMAIN j.v THEN j.v[name] ELSE NoJson

\* At most 53 bits between the first and the last that is set.
Exact(n) ==
  LET top == IF n[1] >= 128 THEN 256 * n[1] + n[2] - 65536 ELSE 256 * n[1] + n[2]
  IN  \E s \in 0..11 : /\ (256 * n[7] + n[8]) % 2^s = 0
                       /\ 0 - 2^(5 + s) <= top /\ top < 2^(5 + s)

Double(n) == IF Exact(n) THEN n ELSE Unspecified

FromDouble(d, t) ==
  IF d # Unspecified /\ (Fits(d, t.width) \/ Unsigned(d, t.width) = d) THEN d ELSE Unspecified

----------------------------------------------------------------------------
(* TC_Common::tostr() and strto(): keys of maps *)

\* A number in decimals stands for itself; an unsigned char is written as a character, of
\* which 0 is none.
ToStr(t, k) ==
  CASE t.is = "string" -> k
    [] t.is = "unsigned" /\ t.width = 1 -> IF k = Zeros(8) THEN <<>> ELSE Low(k, 1)
    [] OTHER -> <<"decimal", k>>

StrTo(t, s) ==
  CASE t.is = "string" -> s
    [] t.is = "unsigned" /\ t.width = 1 -> IF s = <<>> THEN Zeros(8) ELSE Zeros(7) \o <<s[1]>>
    [] OTHER -> s[2]

\* The order of a map: of characters, or of numbers.
KeyLess(t, k, l) ==
  LET First(q) == IF t.is = "string" THEN q ELSE [q EXCEPT ![1] = (@ + 128) % 256]
      x == First(k)
      y == First(l)
  IN  \/ \E i \in 1..Len(x) : i <= Len(y) /\ x[i] < y[i] /\ SubSeq(x, 1, i - 1) = SubSeq(y, 1, i - 1)
      \/ Len(x) < Len(y) /\ SubSeq(y, 1, Len(x)) = x

----------------------------------------------------------------------------
(* JsonOutput *)

RECURSIVE WriteJson(_, _)

WriteElements(t, v) == Json("array", [i \in 1..Len(v) |-> WriteJson(t, v[i])])

WriteMap(t, v) ==
  LET Key(i) == ToStr(t.of[1], v[i][1])
  IN  Json("obj", [k \in {Key(i) : i \in 1..Len(v)} |->
                     WriteJson(t.of[2], v[CHOOSE i \in 1..Len(v) : Key(i) = k][2])])

\* writeToJson() of a structure
WriteMembers(t, v) == Json("obj", [tag \in DOMAIN v |-> WriteJson(FieldOf(t, tag).type, v[tag])])

WriteJson(t, v) ==
  CASE t.is = "bool"   -> Json("boolean", v # Zeros(8))
    [] t.is \in {"int", "unsigned"} -> Json("num", Double(v))
    [] t.is = "real"   -> Json("num", v)
    [] t.is = "string" -> Json("string", v)
    [] t.is = "bytes"  -> WriteElements(CharT, v)
    [] t.is = "list"   -> WriteElements(t.of[1], v)
    [] t.is = "map"    -> WriteMap(t, v)
    [] t.is = "struct" -> WriteMembers(t, v)

----------------------------------------------------------------------------
(* JsonInput *)

JsonType(t) ==
  CASE t.is = "bool"   -> "boolean"
    [] t.is \in {"int", "unsigned", "real"} -> "num"
    [] t.is = "string" -> "string"
    [] t.is \in {"bytes", "list"} -> "array"
    [] t.is \in {"map", "struct"} -> "obj"

RECURSIVE ReadJson(_, _)

\* One value after the other, until one throws.
ReadAllJson(js, fields) ==
  FoldLeft(LAMBDA r, i : Then(r, LAMBDA x, vs :
             Then(ReadJson(js[i], fields[i]), LAMBDA y, v : Read(0, Append(vs, v)))),
           Read(0, <<>>), [i \in 1..Len(js) |-> i])

ReadElements(j, t) == ReadAllJson(j.v, [i \in 1..Len(j.v) |-> Field(0, t, TRUE)])

ReadMap(j, t) ==
  LET Less(k, l) == KeyLess(t.of[1], StrTo(t.of[1], k), StrTo(t.of[1], l))
      keys == SetToSortSeq(DOMAIN j.v, Less)
  IN  Then(ReadAllJson([i \in 1..Len(keys) |-> j.v[keys[i]]],
                       [i \in 1..Len(keys) |-> Field(0, t.of[2], TRUE)]),
           LAMBDA x, vs : Read(0, [i \in 1..Len(keys) |-> <<StrTo(t.of[1], keys[i]), vs[i]>>]))

\* readFromJson() of a structure: a member that is not there is a null pointer.
ReadMembers(j, t) ==
  Then(ReadAllJson([i \in 1..Len(t.of) |-> JsonAt(j, t.of[i].tag)], t.of),
       LAMBDA x, vs : Read(0, Compose(t, vs)))

ReadJson(j, f) ==
  LET t == f.type
  IN  CASE j.is # JsonType(t) -> (IF f.require THEN Thrown(0) ELSE Read(0, Missing))
        [] j.is = "boolean" -> Read(0, IF j.v THEN Num(1) ELSE Num(0))
        [] j.is = "num"     -> Read(0, IF t.is = "real" THEN j.v ELSE FromDouble(j.v, t))
        [] j.is = "string"  -> Read(0, j.v)
        [] j.is = "array"   -> ReadElements(j, IF t.is = "bytes" THEN CharT ELSE t.of[1])
        [] j.is = "obj" /\ t.is = "map"    -> ReadMap(j, t)
        [] j.is = "obj" /\ t.is = "struct" -> ReadMembers(j, t)

----------------------------------------------------------------------------
(* tup::UniAttribute, tup::UniPacket *)

AttributeName(tag) == <<tag>>

\* put(): a field by itself, with tag 0.  data is a function of names.
PutAttribute(data, name, t, v) ==
  [n \in DOMAIN data \cup {name} |-> IF n = name THEN Write(t, v, 0) ELSE data[n]]

PutAll(t, v) ==
  FoldLeft(LAMBDA data, f : IF f.tag \in DOMAIN v THEN PutAttribute(data, AttributeName(f.tag), f.type, v[f.tag])
                            ELSE data, <<>>, t.of)

DataT == MapOf(Text, Bytes)

EncodeData(data) ==
  LET names == SetToSortSeq(DOMAIN data, LAMBDA k, l : KeyLess(Text, k, l))
  IN  Write(DataT, [i \in 1..Len(names) |-> <<names[i], Chars(data[names[i]])>>], 0)

DecodeData(b) ==
  Then(ReadField(b, 0, Field(0, DataT, TRUE)), LAMBDA at, pairs :
    Read(at, [n \in {pairs[i][1] : i \in 1..Len(pairs)} |->
                LET bs == pairs[CHOOSE i \in 1..Len(pairs) : pairs[i][1] = n][2]
                IN  [i \in 1..Len(bs) |-> bs[i][8]]]))

\* get() throws what getByDefault() catches.
GetAttribute(data, name, t) ==
  IF name \in DOMAIN data THEN ReadField(data[name], 0, Field(0, t, TRUE)) ELSE Thrown(0)

GetByDefault(data, name, t) ==
  LET r == GetAttribute(data, name, t) IN IF r.ok THEN r ELSE Read(0, Missing)

\* What the constructor and the user have set: version, number, servant, function.
UniPacket(id, servant, function) ==
  [tag \in 1..10 |-> CASE tag = 1 -> Num(3) [] tag = 4 -> id [] tag = 5 -> servant [] tag = 6 -> function
                       [] tag \in {2, 3, 8} -> Num(0) [] OTHER -> <<>>]

\* The whole length goes before a packet.
EncodePacket(packet, data) ==
  LET body == WriteFields(RequestPacket, [packet EXCEPT ![7] = Chars(EncodeData(data))])
  IN  Low(Num(4 + Len(body)), 4) \o body

DecodePacket(b) ==
  IF Len(b) < 4 THEN Thrown(0)
  ELSE Then(ReadFields(SubSeq(b, 5, Len(b)), 0, RequestPacket.of), LAMBDA at, vs :
         DecodeData([i \in 1..Len(vs[7]) |-> vs[7][i][8]]))
===============================================================================
