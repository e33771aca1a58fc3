------------------------------ MODULE Encodings ------------------------------
(* How records become octets and octets become records: base-128 integers,
   attributes of every type, attribute lists in canonical order, and the
   definitions that a session record makes for the attributes after them. The
   widths are constants, so that every boundary is within reach: an octet has
   OctetBits bits and a word WordOctets octets.                               *)
EXTENDS Integers, Sequences, FiniteSets, SequencesExt, FiniteSetsExt, TLC

CONSTANTS
    OctetBits,      \* bits of an octet: 8
    WordOctets,     \* octets of a uint64_t or size_t: 8
    IntBits,        \* bits of an int: 32
    NsecOctets,     \* octets of the nanoseconds: 4
    NsecLimit,      \* 2000000000
    Samples,        \* bound: attributes that are inserted
    MaxAttributes,  \* bound: attributes of a record
    MaxOctets       \* bound: octets received from nowhere

Octet == 2^OctetBits
Base == 2^(OctetBits - 1)
WordBits == OctetBits * WordOctets
Word == 2^WordBits

ASSUME EncodingsAssumption ==
    /\ {OctetBits, WordOctets, NsecOctets, NsecLimit} \subseteq Nat \ {0}
    /\ WordBits % (OctetBits - 1) = 1 /\ IntBits \in 2..WordBits
    /\ NsecLimit < Octet^NsecOctets
    /\ {MaxAttributes, MaxOctets} \subseteq Nat

VARIABLES
    attrs,      \* _attributes of a record that is being built
    octets,     \* octets of a record
    made        \* how the octets came about

codecVars == <<attrs, octets, made>>

Fail(why) == [ok |-> FALSE, why |-> why]
Got(v, rest) == [ok |-> TRUE, value |-> v, rest |-> rest]
Then(got, Next(_, _)) == IF got.ok THEN Next(got.value, got.rest) ELSE got
Take(n, s) ==
    IF n > Len(s) THEN Fail("eof") ELSE Got(SubSeq(s, 1, n), SubSeq(s, n + 1, Len(s)))

-----------------------------------------------------------------------------
(* Integers in base 128: the top bit of an octet says that more will follow. *)

More(o) == o >= Base
Digit(o) == o % Base

Digits(v, n) ==
    [k \in 1..n |-> ((v \div Base^(n - k)) % Base) + IF k < n THEN Base ELSE 0]

LengthUnsigned128(v) == Min({n \in 1..WordBits : v < Base^n})
WriteUnsigned128(v) == Digits(v, LengthUnsigned128(v))

(* Encoded lengths and IDs stay below the values whose encoding would shift by
   more than a word. *)
LengthSigned128(v) ==
    LET d == IF v >= 0 THEN v ELSE -v - 1 IN
    Min({n \in 1..WordBits : d < Base^n \div 2})
WriteSigned128(v) == Digits(v, LengthSigned128(v))

RECURSIVE ContinueUnsigned(_, _, _), ContinueSigned(_, _, _)

(* Mutant: the top bit may still be shifted out. *)
TooBig(v) == v \div 2^(WordBits - OctetBits + 2) # 0
TopBitsSet(v) == v \div 2^(WordBits - OctetBits + 1) # 0

ContinueUnsigned(v, o, s) ==
    IF ~More(o) THEN Got(v, s)
    ELSE IF TopBitsSet(v) THEN Fail("overflow")
    ELSE IF s = <<>> THEN Fail("eof")
    ELSE ContinueUnsigned((v * Base + Digit(Head(s))) % Word, Head(s), Tail(s))

ReadUnsigned128(s) ==
    IF s = <<>> THEN Fail("eof") ELSE ContinueUnsigned(Digit(Head(s)), Head(s), Tail(s))

ContinueSigned(v, o, s) ==
    IF ~More(o) THEN Got(v, s)
    ELSE IF v \div 2^(WordBits - OctetBits) \notin {0, -1} THEN Fail("overflow")
    ELSE IF s = <<>> THEN Fail("eof")
    ELSE ContinueSigned(v * Base + Digit(Head(s)), Head(s), Tail(s))

SignOf(o) == IF Digit(o) >= Base \div 2 THEN Digit(o) - Base ELSE Digit(o)
ReadSigned128(s) ==
    IF s = <<>> THEN Fail("eof") ELSE ContinueSigned(SignOf(Head(s)), Head(s), Tail(s))

(* Integers of a given width. *)
WriteUnsigned(v, n) == [k \in 1..n |-> (v \div Octet^(n - k)) % Octet]
WriteSigned(v, n) == WriteUnsigned(v % Word, n)

Big(digits) == FoldLeft(LAMBDA a, o : a * Octet + o, 0, digits)
TwosComplement(v, half) == IF v < half THEN v ELSE v - 2 * half

ReadUnsigned(n, s) ==
    Then(Take(n, s), LAMBDA t, rest :
         IF Big(t) >= Word THEN Fail("overflow") ELSE Got(Big(t), rest))

ReadSigned(n, s) ==
    Then(ReadUnsigned(n, s), LAMBDA v, rest :
         Got(TwosComplement(v, Octet^n \div 2), rest))

(* An int takes the low bits of what was read; as a size_t it is sign-extended. *)
AsInt(v) == ((v + 2^(IntBits - 1)) % 2^IntBits) - 2^(IntBits - 1)
AsSize(v) == v % Word

-----------------------------------------------------------------------------
(* Attributes. *)

TypeNames == <<"compound", "unsigned", "signed", "binary", "string", "timestamp",
               "boolean">>
TypeNamed(n) == IF n < Len(TypeNames) THEN TypeNames[n + 1] ELSE "unrecognised"

Attr(id, type, content) == [id |-> id, type |-> type, content |-> content]
Compound(id, list) == Attr(id, "compound", list)
Unsigned(id, v) == Attr(id, "unsigned", v)
Signed(id, v) == Attr(id, "signed", v)
Binary(id, s) == Attr(id, "binary", s)
String(id, s) == Attr(id, "string", s)
Timestamp(id, sec, nsec) == Attr(id, "timestamp", <<sec, nsec>>)
Boolean(id, v) == Attr(id, "boolean", v)
Unrecognised(id, s) == Attr(id, "unrecognised", s)

RECURSIVE SameAttr(_, _), SameList(_, _)
SameAttr(a, b) ==
    /\ a.id = b.id /\ a.type = b.type
    /\ IF a.type = "compound" THEN SameList(a.content, b.content) ELSE a.content = b.content
SameList(l, m) == Len(l) = Len(m) /\ \A k \in DOMAIN l : SameAttr(l[k], m[k])

(* length() of each class. *)
UnsignedLength(v) == Min({n \in 0..WordOctets : v < Octet^n})
SignedLength(v) ==
    IF v = 0 THEN 0
    ELSE Min({n \in 1..WordOctets : v \in -(Octet^n \div 2)..(Octet^n \div 2) - 1})
TimestampLength(c) == NsecOctets + UnsignedLength(c[1])

RECURSIVE ListLength(_)
ContentLength(a) ==
    CASE a.type = "compound" -> ListLength(a.content)
      [] a.type = "unsigned" -> UnsignedLength(a.content)
      [] a.type = "signed" -> SignedLength(a.content)
      [] a.type = "timestamp" -> TimestampLength(a.content)
      [] a.type = "boolean" -> 1
      [] OTHER -> Len(a.content)
ListLength(l) ==
    FoldLeft(LAMBDA n, a : n + LengthSigned128(a.id)
                             + LengthUnsigned128(ContentLength(a)) + ContentLength(a), 0, l)

(* write() of each class: what comes after the ID and the length. *)
UnsignedContent(v) == WriteUnsigned(v, UnsignedLength(v))
SignedContent(v) == WriteSigned(v, SignedLength(v))
TimestampContent(c) ==
    WriteUnsigned(c[1], TimestampLength(c) - NsecOctets) \o WriteUnsigned(c[2], NsecOctets)
BooleanContent(v) == <<v>>

RECURSIVE WriteList(_)
Content(a) ==
    CASE a.type = "compound" -> WriteList(a.content)
      [] a.type = "unsigned" -> UnsignedContent(a.content)
      [] a.type = "signed" -> SignedContent(a.content)
      [] a.type = "timestamp" -> TimestampContent(a.content)
      [] a.type = "boolean" -> BooleanContent(a.content)
      [] OTHER -> a.content
WriteAttr(a) == WriteSigned128(a.id) \o WriteUnsigned128(ContentLength(a)) \o Content(a)
WriteList(l) == FoldLeft(LAMBDA s, a : s \o WriteAttr(a), <<>>, l)

(* attrid_less: reserved IDs first, then by absolute value; insert() puts an
   attribute after those that it is not less than. *)
LessById(a, b) == a.id < b.id
Less(a, b) ==
    LET order(id) == IF id < 0 THEN -id ELSE 2^(WordBits - 1) + 1 + id IN
    order(a.id) < order(b.id)
InsertInOrder(l, a) ==
    InsertAt(l, 1 + Cardinality({k \in DOMAIN l : ~Less(a, l[k])}), a)

FindOne(l, id) ==
    LET found == SelectSeq(l, LAMBDA a : a.id = id) IN
    CASE Len(found) = 1 -> Got(found[1].content, <<>>)
      [] Len(found) > 1 -> Fail("multiple")
      [] OTHER -> Fail("expected")

-----------------------------------------------------------------------------
(* The session context: what attr_def and chan_def attributes define. *)

NewSession == [types |-> <<>>, labels |-> <<>>, channels |-> <<>>]

ReservedTypes ==
    (-1 :> 1) @@ (-2 :> 0) @@ (-3 :> 2) @@ (-4 :> 4) @@ (-5 :> 0) @@ (-6 :> 2)
    @@ (-7 :> 4) @@ (-8 :> 1) @@ (-9 :> 4) @@ (-10 :> 1) @@ (-11 :> 5) @@ (-12 :> 4)
    @@ (-13 :> 4) @@ (-14 :> 3) @@ (-15 :> 4) @@ (-16 :> 3) @@ (-17 :> 4) @@ (-18 :> 3)

AttrType(session, id) ==
    LET known == IF id < 0 THEN ReservedTypes ELSE session.types IN
    IF id \in DOMAIN known THEN Got(known[id], <<>>) ELSE Fail("unrecognised")

HandleAttrDef(session, def) ==
    Then(FindOne(def, -3), LAMBDA id, none1 :
    Then(FindOne(def, -4), LAMBDA label, none2 :
    Then(FindOne(def, -8), LAMBDA type, none3 :
         Got([session EXCEPT !.types = (AsInt(id) :> AsInt(type)) @@ @,
                             !.labels = (AsInt(id) :> label) @@ @], <<>>))))

HandleChannelDef(session, def) ==
    Then(FindOne(def, -6), LAMBDA id, none1 :
    Then(FindOne(def, -7), LAMBDA label, none2 :
         Got([session EXCEPT !.channels = (AsInt(id) :> label) @@ @], <<>>)))

-----------------------------------------------------------------------------
(* Parsing. Each class checks the length that the header gave it. *)

UnsignedParse(n, s) == IF n > WordOctets THEN Fail("length") ELSE ReadUnsigned(n, s)
SignedParse(n, s) == IF n > WordOctets THEN Fail("length") ELSE ReadSigned(n, s)
BooleanParse(n, s) ==
    IF n # 1 THEN Fail("length")
    ELSE Then(Take(1, s), LAMBDA t, rest :
              IF t[1] \in {0, 1} THEN Got(t[1], rest) ELSE Fail("content"))
TimestampParse(n, s) ==
    IF n \notin NsecOctets + 1..NsecOctets + WordOctets THEN Fail("length")
    ELSE Then(ReadUnsigned(n - NsecOctets, s), LAMBDA sec, r :
         Then(ReadUnsigned(NsecOctets, r), LAMBDA nsec, rest :
              IF sec >= Word \div 2 \/ nsec >= NsecLimit THEN Fail("content")
              ELSE Got(<<sec, nsec>>, rest)))
BinaryParse(n, s) == Take(n, s)
StringParse(n, s) == Take(n, s)
UnrecognisedParse(n, s) == Take(n, s)

RECURSIVE ParseList(_, _, _, _)

ParseContent(session, type, n, s) ==
    CASE type = "compound" -> ParseList(session, n, <<>>, s)
      [] type = "unsigned" -> UnsignedParse(n, s)
      [] type = "signed" -> SignedParse(n, s)
      [] type = "binary" -> BinaryParse(n, s)
      [] type = "string" -> StringParse(n, s)
      [] type = "timestamp" -> TimestampParse(n, s)
      [] type = "boolean" -> BooleanParse(n, s)
      [] OTHER -> UnrecognisedParse(n, s)

(* An attribute, and the length that its header says it takes. *)
ParseAttr(session, s) ==
    Then(ReadSigned128(s), LAMBDA id, r :
    Then(ReadUnsigned128(r), LAMBDA len, t :
    Then(AttrType(session, AsInt(id)), LAMBDA type, none :
    Then(ParseContent(session, TypeNamed(type), AsSize(AsInt(len)), t), LAMBDA content, rest :
         Got([attr |-> Attr(AsInt(id), TypeNamed(type), content),
              length |-> (Len(s) - Len(t) + AsSize(AsInt(len))) % Word], rest)))))

ParseList(session, remaining, l, s) ==
    IF remaining = 0 THEN Got(l, s)
    ELSE Then(ParseAttr(session, s), LAMBDA a, rest :
              IF a.length > remaining THEN Fail("overrun")
              ELSE ParseList(session, remaining - a.length, InsertInOrder(l, a.attr), rest))

(* A definition is in force from the next attribute of the record on. *)
Define(session, a) ==
    CASE a.id = -2 -> HandleAttrDef(session, a.content)
      [] a.id = -5 -> HandleChannelDef(session, a.content)
      [] OTHER -> Got(session, <<>>)

RECURSIVE ParseAttrs(_, _, _, _)
ParseAttrs(session, remaining, l, s) ==
    IF remaining = 0 THEN Got([attrs |-> l, session |-> session], s)
    ELSE Then(ParseAttr(session, s), LAMBDA a, rest :
         Then(Define(session, a.attr), LAMBDA defined, none :
              IF a.length > remaining THEN Fail("overrun")
              ELSE ParseAttrs(defined, remaining - a.length, InsertInOrder(l, a.attr), rest)))

ParseRecord(session, s) ==
    Then(ReadSigned128(s), LAMBDA channel, r :
    Then(ReadUnsigned128(r), LAMBDA len, t : ParseAttrs(session, len, <<>>, t)))

WriteRecord(channel, l) ==
    WriteSigned128(channel) \o WriteUnsigned128(ListLength(l)) \o WriteList(l)

-----------------------------------------------------------------------------
(* A record is built and written; or octets come that nobody wrote so: cut
   short or altered, as a crash or a disk may leave them, or from nowhere.    *)

CodecStart == attrs = <<>> /\ octets = <<>> /\ made = "building"

Insert ==
    /\ made = "building" /\ Len(attrs) < MaxAttributes
    /\ \E a \in Samples : attrs' = InsertInOrder(attrs, a)
    /\ UNCHANGED <<octets, made>>

WriteOut ==
    /\ made = "building" /\ attrs # <<>>
    /\ octets' = WriteRecord(-1, attrs) /\ made' = "written"
    /\ UNCHANGED attrs

Cut ==
    /\ made = "written"
    /\ \E n \in 0..Len(octets) - 1 : octets' = SubSeq(octets, 1, n)
    /\ made' = "damaged"
    /\ UNCHANGED attrs

Alter ==
    /\ made = "written"
    /\ \E k \in DOMAIN octets, o \in 0..Octet - 1 : octets' = [octets EXCEPT ![k] = o]
    /\ made' = "damaged"
    /\ UNCHANGED attrs

Receive ==
    /\ attrs = <<>> /\ Len(octets) < MaxOctets
    /\ \E o \in 0..Octet - 1 : octets' = Append(octets, o)
    /\ made' = "received"
    /\ UNCHANGED attrs

CodecNext == Insert \/ WriteOut \/ Cut \/ Alter \/ Receive
CodecSpec == CodecStart /\ [][CodecNext]_codecVars

-----------------------------------------------------------------------------
ZeroSec(l) == \E k \in DOMAIN l : l[k].type = "timestamp" /\ l[k].content[1] = 0

(* The definitions of a record, and those of its attributes that they are for. *)
DefinedBy(l) == FoldLeft(LAMBDA s, a : Define(s, a).value, NewSession, l)
SelfDescribed(l) ==
    \A k \in DOMAIN l : l[k].id >= 0 =>
        /\ l[k].id \in DOMAIN DefinedBy(l).types
        /\ TypeNamed(DefinedBy(l).types[l[k].id]) = l[k].type

ReadBack(p) ==
    /\ p.ok <=> ~ZeroSec(attrs)
    /\ p.ok => /\ p.rest = <<>> /\ SameList(p.value.attrs, attrs)
               /\ p.value.session = DefinedBy(attrs)

(* A record that defines the attributes it uses is read back as it was written,
   in canonical order, whatever order its attributes were inserted in: its
   definitions come before their first use. The one exception is a timestamp
   in the first second of 1970, which is written too short to be read.        *)
WrittenIsRead ==
    made = "written" /\ SelfDescribed(attrs) => ReadBack(ParseRecord(NewSession, octets))

Exact(s, value(_)) ==
    LET ends == {k \in DOMAIN s : ~More(s[k])}
        n == Min(ends) IN
    IF ends = {} THEN Fail("eof")
    ELSE Got(value(SubSeq(s, 1, n)), SubSeq(s, n + 1, Len(s)))
UnsignedOf(s) == MapThenSumSet(LAMBDA k : Digit(s[k]) * Base^(Len(s) - k), DOMAIN s)
SignedOf(s) == UnsignedOf(s) - IF Digit(s[1]) >= Base \div 2 THEN Base^Len(s) ELSE 0

ExactOrRefused(got, exact, range) ==
    IF got.ok THEN got = exact ELSE exact.ok => exact.value \notin range

(* What was read is read again when it has been written. *)
ReadAgain(p, l) ==
    SelfDescribed(l) => /\ p.ok <=> ~ZeroSec(l)
                        /\ p.ok => SameList(p.value.attrs, l)
TakenExactly(p, len) ==
    p.ok => /\ Len(len.rest) - Len(p.rest) = len.value
            /\ ReadAgain(ParseRecord(NewSession, WriteRecord(-1, p.value.attrs)), p.value.attrs)

(* Whatever octets come, an integer is read with its exact value or refused,
   and refused only if there is no end to it or no word could hold it; and a
   record takes exactly as many octets as its header says, or is refused. What
   was read is the same when it is written and read again, unless the record
   defined the type of an attribute anew after using it.                      *)
ReadIsExact ==
    /\ ExactOrRefused(ReadUnsigned128(octets), Exact(octets, UnsignedOf), 0..Word - 1)
    /\ ExactOrRefused(ReadSigned128(octets), Exact(octets, SignedOf),
                      -(Word \div 2)..(Word \div 2) - 1)
    /\ TakenExactly(ParseRecord(NewSession, octets),
                    Then(ReadSigned128(octets), LAMBDA channel, r : ReadUnsigned128(r)))
=============================================================================
