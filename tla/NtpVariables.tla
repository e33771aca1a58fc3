---------------------------- MODULE NtpVariables ----------------------------
(* What an ntp_peer makes of the text with which the NTP server answers for an
   association: variables by name, and from them the attributes of the record.

   A text is a sequence of pieces, with a comma between one and the next. A piece
   has a name and a value, or is the rest of a value with a comma in it. A value
   that is meant as a number is a sign, its digits before the point and those
   behind it.                                                                 *)
EXTENDS Integers, Sequences, FiniteSetsExt, SequencesExt

CONSTANTS
    Payloads,       \* the texts that a server may send
    FixedDigits,    \* digits behind the point that are kept: 6
    PortLimit,      \* a port is less: 2^16
    UsualPort       \* the port that is not recorded: 123

VARIABLES
    payload,    \* the text received last
    unread,     \* the pieces of it that have not been looked at
    variables,  \* _variables: values by name
    peerAttrs,  \* the attributes added for the peer, by name
    vpc         \* what the peer does next

variableVars == <<payload, unread, variables, peerAttrs, vpc>>

Ten(n) == 10 ^ n
FromDigits(start, digits) == FoldLeft(LAMBDA acc, d : 10 * acc + d, start, digits)
Signed10(value, n) == IF value.minus THEN -n ELSE n
NoVariables == [name \in {} |-> 0]

VariablesStart ==
    /\ payload = <<>> /\ unread = <<>>
    /\ variables = NoVariables /\ peerAttrs = NoVariables
    /\ vpc = "idle"

ReceivePayload ==
    /\ vpc = "idle"
    /\ \E p \in Payloads : payload' = p /\ unread' = p
    /\ vpc' = "parse"
    /\ UNCHANGED <<variables, peerAttrs>>

(* One piece after another is read, up to a comma: not the last one. *)
ReadPiece ==
    /\ vpc = "parse" /\ Len(unread) > 1
    /\ variables' = IF Head(unread).assigns
                    THEN [name \in DOMAIN variables \cup {Head(unread).name} |->
                             IF name = Head(unread).name THEN Head(unread).value
                             ELSE variables[name]]
                    ELSE variables
    /\ unread' = Tail(unread)
    /\ UNCHANGED <<payload, peerAttrs, vpc>>

AllRead ==
    /\ vpc = "parse" /\ Len(unread) <= 1
    /\ vpc' = "build"
    /\ UNCHANGED <<payload, unread, variables, peerAttrs>>

contains(name) == name \in DOMAIN variables

get_integer(value) == Signed10(value, FromDigits(0, value.whole))

(* Digits behind those that are kept are ignored, missing ones are zeros. *)
Kept(value) == SubSeq(value.fraction, 1, Min({FixedDigits, Len(value.fraction)}))
FixedUnpadded(value) ==                          \* mutant: no zeros are added
    Signed10(value, FromDigits(0, value.whole \o Kept(value)))
get_fixed(value) ==
    Signed10(value, FromDigits(0, value.whole \o Kept(value)) * Ten(FixedDigits - Len(Kept(value))))

(* The address has one name in the standard, and another in the usual server. *)
AddressName == IF contains("srcaddr") THEN "srcaddr" ELSE "srcadr"
Port == get_integer(variables["srcport"]) % PortLimit

Added ==
    {name \in {"stratum", "delay", "offset", "jitter"} : contains(name)}
        \cup {name \in {"srcaddr"} : contains(AddressName)}
        \cup {name \in {"srcport"} : contains(name) /\ Port # UsualPort}

BuildPeer ==
    /\ vpc = "build"
    /\ peerAttrs' = [name \in Added |->
           CASE name = "srcaddr" -> variables[AddressName]
             [] name = "srcport" -> Port
             [] name = "stratum" -> get_integer(variables[name])
             [] OTHER -> get_fixed(variables[name])]
    /\ vpc' = "built"
    /\ UNCHANGED <<payload, unread, variables>>

(* The peer is destroyed with the client that asked for it. *)
DropPeer ==
    /\ vpc = "built"
    /\ payload' = <<>> /\ unread' = <<>>
    /\ variables' = NoVariables /\ peerAttrs' = NoVariables
    /\ vpc' = "idle"

VariablesNext ==
    ReceivePayload \/ ReadPiece \/ AllRead \/ BuildPeer \/ DropPeer

VariablesSpec == VariablesStart /\ [][VariablesNext]_variableVars

-----------------------------------------------------------------------------
(* What the text says: the last assignment of a name that a comma follows. *)
Assignments(names) ==
    {i \in 1..(Len(payload) - 1) : payload[i].assigns /\ payload[i].name \in names}
Said(name) ==
    payload[CHOOSE i \in Assignments({name}) : \A j \in Assignments({name}) : j <= i].value

Abs(n) == IF n < 0 THEN -n ELSE n

(* n is the number that was said, in units of 10^-digits and cut off towards
   zero. *)
Truncates(n, value, digits) ==
    LET places == Len(value.fraction)
        all == FromDigits(0, value.whole \o value.fraction) * Ten(digits)
    IN  /\ Abs(n) * Ten(places) <= all /\ all < (Abs(n) + 1) * Ten(places)
        /\ n # 0 => (n < 0 <=> value.minus)

(* A peer's attributes are those that the server has said in the text, no more
   and no fewer, with the numbers it has said: whatever the order, the number of
   digits, the signs, and the commas within other values. (A variable at the very
   end of the text, without a comma behind it, is not among them.) *)
VariablesExact ==
    vpc = "built" =>
        /\ \A name \in {"stratum", "delay", "offset", "jitter"} :
              /\ name \in DOMAIN peerAttrs <=> Assignments({name}) # {}
              /\ name \in DOMAIN peerAttrs =>
                    Truncates(peerAttrs[name], Said(name),
                              IF name = "stratum" THEN 0 ELSE FixedDigits)
        /\ "srcaddr" \in DOMAIN peerAttrs <=> Assignments({"srcaddr", "srcadr"}) # {}
        /\ "srcport" \in DOMAIN peerAttrs <=>
              (Assignments({"srcport"}) # {}
               /\ ~Truncates(UsualPort, Said("srcport"), 0))
        /\ "srcport" \in DOMAIN peerAttrs =>
              Truncates(peerAttrs["srcport"], Said("srcport"), 0)
=============================================================================
