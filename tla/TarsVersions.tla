----------------------------- MODULE TarsVersions -----------------------------
(* A structure arrives in one of its forms, whole or cut short, and is read   *)
(* field by field by a peer that may have been built with another version of  *)
(* it.                                                                        *)
EXTENDS TarsJson

CONSTANT Exchanges    \* [form, type, value: a structure that is sent; known: the reader's type of it]

VARIABLES
  sent,          \* of Exchanges
  whole,         \* the message has not been cut short
  buffer, cur,   \* _buf and _cur
  got,           \* the fields read so far
  thrown         \* a TarsDecodeException has ended the reading

tarsVars == <<sent, whole, buffer, cur, got, thrown>>

\* As fields of the encoding, as attributes of a packet, or as a JSON value, which comes whole.
Sent(x) ==
  CASE x.form = "tars" -> WriteFields(x.type, x.value)
    [] x.form = "tup"  -> EncodePacket(UniPacket(Num(7), <<83>>, <<70>>), PutAll(x.type, x.value))
    [] x.form = "json" -> WriteJson(x.type, x.value)

ReadOne(f) ==
  CASE sent.form = "tars" -> ReadField(buffer, cur, f)
    [] sent.form = "json" -> ReadJson(JsonAt(buffer, f.tag), f)
    [] sent.form = "tup"  -> Then(DecodePacket(buffer), LAMBDA at, data :
         IF f.require THEN GetAttribute(data, AttributeName(f.tag), f.type)
         ELSE GetByDefault(data, AttributeName(f.tag), f.type))

TarsInit ==
  /\ sent \in Exchanges /\ whole \in BOOLEAN
  /\ \E all \in {Sent(sent)} :
       \/ whole /\ buffer = all
       \/ ~whole /\ sent.form # "json" /\ \E n \in 0..(Len(all) - 1) : buffer = SubSeq(all, 1, n)
  /\ cur = 0 /\ got = <<>> /\ thrown = FALSE

ReadNext ==
  /\ ~thrown
  /\ \E i \in 1..Len(sent.known.of) :
       LET f == sent.known.of[i]  r == ReadOne(f)
       IN  /\ DOMAIN got = {sent.known.of[j].tag : j \in 1..(i - 1)}
           /\ cur' = r.at /\ thrown' = ~r.ok
           /\ got' = IF r.ok THEN [g \in DOMAIN got \cup {f.tag} |->
                                      IF g # f.tag THEN got[g]
                                      ELSE IF r.v = Missing THEN Default(f.type) ELSE r.v]
                     ELSE got
  /\ UNCHANGED <<sent, whole, buffer>>

TarsSpec == TarsInit /\ [][ReadNext]_tarsVars

----------------------------------------------------------------------------
(* Properties *)

\* Peers with different versions of a structure understand each other: whatever fields the
\* reader does not know, of whatever type and wherever they stand, also in a structure
\* inside a list or a map, every field it does know gets the value that was sent, in full
\* width, and only a required field that was not sent is an error.  Of a message that was
\* cut short (whose lists and strings have a size of at most two bytes) no field gets
\* another value than the one sent: it has its default, or is an error.  The same holds of attributes
\* and, but for integers a double cannot hold, of JSON.
ReadsWhatWasSent ==
  got # <<>> \/ thrown =>
  LET all == AsSeen(sent.known, sent.type, sent.value)
      Lost(tag) == got[tag] = Unspecified /\ sent.form = "json" /\ ~Exact(all[tag])
  IN  /\ \A tag \in DOMAIN got :
           got[tag] = all[tag] \/ Lost(tag)
           \/ (~whole /\ got[tag] = Default(FieldOf(sent.known, tag).type))
      /\ thrown /\ whole => \E f \in ToSet(sent.known.of) : f.require /\ f.tag \notin Tags(sent.type)
===============================================================================
