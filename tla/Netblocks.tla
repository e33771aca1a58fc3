------------------------------ MODULE Netblocks ------------------------------
(* The texts of netblocks, as given to horace-capture -x, and their parsers: a
   sequence of tokens is read one after another and accepted or refused.

   An octet is of one bit. A number is a run of digits with its value in hex
   and in decimal, -1 if it has none that fits.                               *)
EXTENDS Integers, Sequences, SequencesExt, FiniteSets

CONSTANTS
    Groups,         \* fields of an IPv6 address
    Spellings,      \* the numbers that occur
    MaxRest         \* bound: tokens that follow in a text already refused

ASSUME NetblockAssumption == Groups \in Nat /\ Groups >= 2 /\ MaxRest \in Nat

VARIABLES
    family,     \* 4 or 6: which constructor
    place,      \* what it is reading, or how it ended
    text,       \* what it has read
    prefix,     \* _prefix, up to dstidx
    zidx,       \* where the compressed field is in it, or -1
    field,      \* the number just read, or Nothing
    decimals,   \* decimal_fields; in an IPv4 address, dstidx
    length,     \* _prefix_length
    rest        \* tokens after the one that was refused

netblockVars == <<family, place, text, prefix, zidx, field, decimals, length, rest>>

Token(c) == [c |-> c, hex |-> -1, dec |-> -1]
Number(h, d) == [c |-> "number", hex |-> h, dec |-> d]
Nothing == Token("nothing")
Colon == Token(":")
Stop == Token(".")
Slash == Token("/")
Other == Token("other")

AddressLength == IF family = 6 THEN 2 * Groups ELSE 4
Octets(h) == <<h \div 2, h % 2>>

NetblockStart ==
    /\ family \in {4, 6}
    /\ place = IF family = 6 THEN "hex" ELSE "decimal"
    /\ text = <<>> /\ prefix = <<>> /\ zidx = -1 /\ field = Nothing
    /\ decimals = 0 /\ length = -1 /\ rest = 0

Takes(t) ==
    /\ place \in {"hex", "decimal", "length"}
    /\ text' = Append(text, t)
    /\ UNCHANGED <<family, rest>>

Throw ==
    /\ place' = "thrown"
    /\ UNCHANGED <<prefix, zidx, field, decimals, length>>

(* A colon in front must be followed by another. *)
LoneColon == place = "hex" /\ text = <<Colon>>

Invalid(t) ==
    \/ t = Other
    \/ LoneColon /\ t # Colon
    \/ place # "hex" /\ t = Colon
    \/ place = "length" /\ t \in {Stop, Slash}
    \/ t.c = "number" /\ CASE place = "hex"     -> t.hex = -1
                           [] place = "decimal" -> t.dec \notin 0..1
                           [] OTHER             -> t.dec \notin 0..AddressLength

Refuse(t) == Takes(t) /\ Invalid(t) /\ Throw

ReadNumber(t) ==
    /\ Takes(t) /\ ~Invalid(t)
    /\ field = Nothing
    /\ field' = t
    /\ UNCHANGED <<place, prefix, zidx, decimals, length>>

-----------------------------------------------------------------------------
ReadColon ==
    /\ Takes(Colon) /\ ~Invalid(Colon)
    /\ \/ /\ text = <<>>
          /\ UNCHANGED <<place, prefix, zidx, field>>
       \/ /\ text # <<>> /\ field = Nothing /\ zidx = -1
          /\ zidx' = Len(prefix)
          /\ UNCHANGED <<place, prefix, field>>
       \/ /\ field # Nothing /\ Len(prefix) < AddressLength
          /\ prefix' = prefix \o Octets(field.hex)
          /\ field' = Nothing
          /\ UNCHANGED <<place, zidx>>
       \/ /\ \/ text # <<>> /\ field = Nothing /\ zidx # -1
             \/ field # Nothing /\ Len(prefix) >= AddressLength
          /\ place' = "thrown"
          /\ UNCHANGED <<prefix, zidx, field>>
    /\ UNCHANGED <<decimals, length>>

(* The first full stop takes the parser back to the start of the field. *)
Stops ==
    /\ field # Nothing /\ field.dec \in 0..1
    /\ IF place = "hex" THEN Len(prefix) + 4 <= AddressLength ELSE decimals < 4

ReadStop ==
    /\ Takes(Stop) /\ ~Invalid(Stop)
    /\ IF Stops
       THEN /\ place' = "decimal"
            /\ prefix' = Append(prefix, field.dec)
            /\ decimals' = decimals + 1
            /\ field' = Nothing
            /\ UNCHANGED <<zidx, length>>
       ELSE Throw

-----------------------------------------------------------------------------
(* The address ends, at a slash or with the text. *)

LastOctets ==
    IF place = "decimal" THEN <<field.dec>>
    ELSE IF field = Nothing THEN <<>> ELSE Octets(field.hex)

Ends ==
    IF place = "decimal" THEN field # Nothing /\ decimals = 3
    ELSE field = Nothing => zidx = Len(prefix)

(* Mutant: the compressed field may stand for nothing at all. *)
FillsAnyway(n) == IF zidx = -1 THEN n = AddressLength ELSE n <= AddressLength
Fills(n) == IF zidx = -1 THEN n = AddressLength ELSE n < AddressLength

Decompressed(o) ==
    IF zidx = -1 THEN o
    ELSE SubSeq(o, 1, zidx) \o [i \in 1..(AddressLength - Len(o)) |-> 0]
            \o SubSeq(o, zidx + 1, Len(o))

EndAddress(to) ==
    IF Ends /\ Fills(Len(prefix \o LastOctets))
    THEN /\ place' = to
         /\ prefix' = Decompressed(prefix \o LastOctets)
         /\ field' = Nothing
         /\ UNCHANGED <<zidx, decimals>>
    ELSE place' = "thrown" /\ UNCHANGED <<prefix, zidx, field, decimals>>

ReadSlash ==
    /\ Takes(Slash) /\ ~Invalid(Slash)
    /\ EndAddress("length")
    /\ UNCHANGED length

ReadEnd ==
    /\ place \in {"hex", "decimal", "length"}
    /\ IF place = "length"
       THEN /\ place' = IF field = Nothing THEN "thrown" ELSE "done"
            /\ length' = field.dec
            /\ UNCHANGED <<prefix, zidx, field, decimals>>
       ELSE EndAddress("done") /\ length' = AddressLength
    /\ rest' = MaxRest
    /\ UNCHANGED <<family, text>>

(* What a text that has been refused goes on with. *)
Ignore(t) ==
    /\ place = "thrown" /\ rest < MaxRest
    /\ t.c = "number" => (text # <<>> /\ Last(text).c # "number")
    /\ text' = Append(text, t)
    /\ rest' = rest + 1
    /\ UNCHANGED <<family, place, prefix, zidx, field, decimals, length>>

NetblockNext ==
    \/ \E t \in {Colon, Stop, Slash, Other} \cup Spellings : Refuse(t) \/ Ignore(t)
    \/ \E t \in Spellings : ReadNumber(t)
    \/ ReadColon \/ ReadStop \/ ReadSlash \/ ReadEnd

-----------------------------------------------------------------------------
(* What RFC 4291 means by a text. A piece is fields in hex, and perhaps four
   more in decimal. *)

Fields(s) == (Len(s) + 1) \div 2
InHex(s) == IF Stop \in Range(s) THEN Fields(s) - 4 ELSE Fields(s)
At(s, i) == s[2 * i - 1]

IsPiece(s) ==
    s = <<>> \/ /\ Len(s) % 2 = 1 /\ InHex(s) >= 0
                /\ \A i \in 1..Fields(s) :
                      IF i <= InHex(s) THEN At(s, i).hex >= 0 ELSE At(s, i).dec \in 0..1
                /\ \A i \in 1..(Fields(s) - 1) :
                      s[2 * i] = IF i <= InHex(s) THEN Colon ELSE Stop

Value(s) == FlattenSeq([i \in 1..Fields(s) |->
               IF i <= InHex(s) THEN Octets(At(s, i).hex) ELSE <<At(s, i).dec>>])

Zeros(n) == [i \in 1..n |-> 0]
Compressed(x, y) ==
    IF /\ IsPiece(x) /\ IsPiece(y) /\ Stop \notin Range(x)
       /\ Len(Value(x) \o Value(y)) < AddressLength /\ family = 6
    THEN {Value(x) \o Zeros(AddressLength - Len(Value(x) \o Value(y))) \o Value(y)}
    ELSE {}

IsAddress(s) ==
    IsPiece(s) /\ Len(Value(s)) = AddressLength /\ (family = 4 => InHex(s) = 0)

Addresses(s) ==
    (IF IsAddress(s) THEN {Value(s)} ELSE {})
    \cup UNION {Compressed(SubSeq(s, 1, i - 1), SubSeq(s, i + 2, Len(s))) :
                   i \in {j \in 1..(Len(s) - 1) : s[j] = Colon /\ s[j + 1] = Colon}}

Netblocks(s) ==
    (Addresses(s) \X {AddressLength})
    \cup IF Len(s) > 1 /\ s[Len(s) - 1] = Slash /\ Last(s).dec \in 0..AddressLength
         THEN Addresses(SubSeq(s, 1, Len(s) - 2)) \X {Last(s).dec}
         ELSE {}

(* A netblock given with -x is accepted exactly if its text is one of the forms
   of RFC 4291 (or a dotted IPv4 netblock), with the address and length that it
   stands for: wherever zeros are compressed, with or without decimal fields. *)
ParsedExactly ==
    /\ place = "done" => <<prefix, length>> \in Netblocks(text)
    /\ place = "thrown" => Netblocks(text) = {}
=============================================================================
