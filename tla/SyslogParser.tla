---------------------------- MODULE SyslogParser ----------------------------
(* The syslog+udp source: one datagram after another is taken apart by the
   syslog_parser, as far as it follows RFC 3164 or RFC 5424, and what is left
   of it becomes the message of the record.

   A datagram is a sequence of lexemes: signs, words, runs of digits with their
   value and width, names of months, and times of day with the largest of their
   three numbers.                                                             *)
EXTENDS Integers, Sequences, SequencesExt

CONSTANTS
    Datagrams       \* those that may arrive

VARIABLES
    datagram,   \* the one received last
    syslog,     \* _content, without the framing
    cursor,     \* _index, counted from one
    restore,    \* what precedes it is in the record
    parsing,    \* what is read next
    version,    \* of the protocol, 0 if there is none
    header,     \* the tokens of an RFC 5424 header read so far
    logAttrs,   \* the attributes in the builder, in the order they were added
    logged      \* the attributes of the record last built

syslogVars == <<datagram, syslog, cursor, restore, parsing, version, header,
                logAttrs, logged>>

Lexeme(c, v, w) == [c |-> c, value |-> v, width |-> w]
Sign(c) == Lexeme(c, 0, 1)
NameLexeme == Lexeme("word", 0, 1)
Decimal(v, w) == Lexeme("decimal", v, w)
Month(m) == Lexeme("month", m, 3)
Time(v) == Lexeme("time", v, 8)
Space == Sign(" ")
IsGraph(l) == l.c \notin {" ", "cr", "lf", "control"}

SyslogStart ==
    /\ datagram = <<>> /\ syslog = <<>> /\ cursor = 1 /\ restore = 1
    /\ parsing = "nothing" /\ version = 0
    /\ header = <<>> /\ logAttrs = <<>> /\ logged = <<>>

-----------------------------------------------------------------------------
(* What is found at a place of the text. *)

Is(i, c) == i <= Len(syslog) /\ syslog[i].c = c

(* A field ends with the text or with a space, which belongs to it. *)
EndsAt(i) == i > Len(syslog) \/ Is(i, " ")
Past(i) == IF i > Len(syslog) THEN i ELSE i + 1

LeadingZero(l) == l.width > (IF l.value < 10 THEN 1 ELSE IF l.value < 100 THEN 2 ELSE 3)
IsDecimal(i) == Is(i, "decimal") /\ syslog[i].width <= 3 /\ ~LeadingZero(syslog[i])

IsPriority(i) ==
    Is(i, "<") /\ IsDecimal(i + 1) /\ syslog[i + 1].value <= 191 /\ Is(i + 2, ">")

IsVersion(i) == IsDecimal(i) /\ syslog[i].value # 0 /\ EndsAt(i + 1)

TokenEnd(i) ==
    CHOOSE j \in i..(Len(syslog) + 1) :
        /\ \A k \in i..(j - 1) : IsGraph(syslog[k])
        /\ j <= Len(syslog) => ~IsGraph(syslog[j])
IsToken(i) == TokenEnd(i) > i /\ EndsAt(TokenEnd(i))

MonthLength(m) == CASE m = 2 -> 29 [] m \in {4, 6, 9, 11} -> 30 [] OTHER -> 31

(* A day of one digit follows a space. *)
DayAt(i) == IF Is(i, " ") THEN i + 1 ELSE i
IsDay(i, month) ==
    /\ Is(DayAt(i), "decimal")
    /\ syslog[DayAt(i)].width = IF Is(i, " ") THEN 1 ELSE 2
    /\ ~LeadingZero(syslog[DayAt(i)])
    /\ syslog[DayAt(i)].value \in 1..MonthLength(month)

TimestampEnd(i) == DayAt(i + 2) + 3
IsTimestamp(i) ==
    /\ Is(i, "month") /\ Is(i + 1, " ") /\ IsDay(i + 2, syslog[i].value)
    /\ Is(DayAt(i + 2) + 1, " ")
    /\ Is(DayAt(i + 2) + 2, "time") /\ syslog[DayAt(i + 2) + 2].value <= 59
    /\ EndsAt(TimestampEnd(i))

(* Structured data: up to the first bracket that is not escaped in quotes. *)
DataEnd(i) ==
    LET scan[j \in i..(Len(syslog) + 1), quote \in BOOLEAN] ==
            IF j > Len(syslog) \/ Is(j, "]") THEN [end |-> j, quote |-> quote]
            ELSE IF Is(j, "quote") THEN scan[j + 1, ~quote]
            ELSE IF Is(j, "backslash") /\ quote /\ j < Len(syslog) THEN scan[j + 2, quote]
            ELSE scan[j + 1, quote]
    IN  IF Is(i, "-") THEN i + 1
        ELSE IF ~Is(i, "[") \/ scan[i + 1, FALSE].quote \/ ~Is(scan[i + 1, FALSE].end, "]")
        THEN i
        ELSE scan[i + 1, FALSE].end + 1
IsData(i) == DataEnd(i) > i /\ EndsAt(DataEnd(i))

-----------------------------------------------------------------------------
(* A line end is framing. *)
Unframed(d) ==
    LET cut(s, c) == IF s # <<>> /\ Last(s).c = c THEN Front(s) ELSE s
    IN  cut(cut(d, "lf"), "cr")

ReceiveDatagram ==
    /\ parsing = "nothing"
    /\ \E d \in Datagrams : datagram' = d /\ syslog' = Unframed(d)
    /\ parsing' = "priority"
    /\ UNCHANGED <<cursor, restore, version, header, logAttrs, logged>>

(* A field goes into the record, and reading goes on behind it. *)
Field(name, end, next) ==
    /\ logAttrs' = Append(logAttrs, [name |-> name, text |-> SubSeq(syslog, cursor, end - 1)])
    /\ cursor' = Past(end) /\ restore' = Past(end)
    /\ parsing' = next
    /\ UNCHANGED <<datagram, syslog, version, header, logged>>

(* What is left, from the last field on, is the message. *)
Leave ==
    /\ cursor' = restore
    /\ parsing' = "remaining"
    /\ UNCHANGED <<datagram, syslog, restore, version, header, logAttrs, logged>>

ReadPriority ==
    /\ parsing = "priority"
    /\ IF IsPriority(cursor)
       THEN /\ logAttrs' = Append(logAttrs, [name |-> "priority", text |-> <<syslog[cursor + 1]>>])
            /\ cursor' = cursor + 3 /\ restore' = cursor + 3
            /\ parsing' = "version"
            /\ UNCHANGED <<datagram, syslog, version, header, logged>>
       ELSE Leave

(* The version is not in the record yet. One that is not known is never. *)
ReadVersion ==
    /\ parsing = "version"
    /\ IF IsVersion(cursor)
       THEN /\ version' = syslog[cursor].value
            /\ cursor' = Past(cursor + 1)
            /\ parsing' = IF version' = 1 THEN "header" ELSE "remaining"
       ELSE /\ version' = 0 /\ cursor' = restore
            /\ parsing' = "timestamp"
    /\ UNCHANGED <<datagram, syslog, restore, header, logAttrs, logged>>

ReadTimestamp ==
    /\ parsing = "timestamp"
    /\ IF IsTimestamp(cursor) THEN Field("timestamp", TimestampEnd(cursor), "hostname") ELSE Leave

ReadHostname ==
    /\ parsing = "hostname"
    /\ IF IsToken(cursor) THEN Field("hostname", TokenEnd(cursor), "remaining") ELSE Leave

HeaderNames == <<"timestamp", "hostname", "appname", "procid", "msgid">>

(* The header: all of its tokens go into the record, or none. *)
ReadHeader ==
    /\ parsing = "header"
    /\ IF Len(header) = Len(HeaderNames)
       THEN /\ logAttrs' = logAttrs
                   \o <<[name |-> "version", text |-> <<Decimal(version, 1)>>]>>
                   \o [n \in 1..5 |-> [name |-> HeaderNames[n], text |-> header[n]]]
            /\ restore' = cursor
            /\ parsing' = "data"
            /\ UNCHANGED <<datagram, syslog, cursor, version, header, logged>>
       ELSE IF IsToken(cursor)
       THEN /\ header' = Append(header, SubSeq(syslog, cursor, TokenEnd(cursor) - 1))
            /\ cursor' = Past(TokenEnd(cursor))
            /\ UNCHANGED <<datagram, syslog, restore, parsing, version, logAttrs, logged>>
       ELSE Leave

ReadData ==
    /\ parsing = "data"
    /\ IF IsData(cursor) THEN Field("structured_data", DataEnd(cursor), "remaining") ELSE Leave

(* Mutant: a message is added only if it would not be empty. *)
HasMessageIfAny == cursor <= Len(syslog)
HasMessage == (cursor > 1 /\ Is(cursor - 1, " ")) \/ cursor <= Len(syslog)

ReadRemaining ==
    /\ parsing = "remaining"
    /\ logAttrs' = IF HasMessage
                   THEN Append(logAttrs, [name |-> "message", text |-> SubSeq(syslog, cursor, Len(syslog))])
                   ELSE logAttrs
    /\ cursor' = Len(syslog) + 1
    /\ parsing' = "record"
    /\ UNCHANGED <<datagram, syslog, restore, version, header, logged>>

(* build() moves the attributes out of the builder. *)
BuildLog ==
    /\ parsing = "record"
    /\ logged' = logAttrs
    /\ logAttrs' = <<>>
    /\ parsing' = "built"
    /\ UNCHANGED <<datagram, syslog, cursor, restore, version, header>>

(* The reader returns, and its parser is gone; the builder stays. *)
ReturnLog ==
    /\ parsing = "built"
    /\ datagram' = <<>> /\ syslog' = <<>> /\ cursor' = 1 /\ restore' = 1
    /\ parsing' = "nothing" /\ version' = 0
    /\ header' = <<>> /\ logged' = <<>>
    /\ UNCHANGED logAttrs

SyslogNext ==
    \/ ReceiveDatagram
    \/ ReadPriority \/ ReadVersion \/ ReadTimestamp \/ ReadHostname
    \/ ReadHeader \/ ReadData \/ ReadRemaining \/ BuildLog \/ ReturnLog

SyslogSpec == SyslogStart /\ [][SyslogNext]_syslogVars

-----------------------------------------------------------------------------
(* The text that a record stands for: its priority, and then its other
   attributes with spaces between them. *)
Original(attrs) ==
    LET priority == SelectSeq(attrs, LAMBDA a : a.name = "priority")
        others == SelectSeq(attrs, LAMBDA a : a.name # "priority")
    IN  FlattenSeq([i \in DOMAIN priority |-> <<Sign("<")>> \o priority[i].text \o <<Sign(">")>>])
        \o FlattenSeq([i \in DOMAIN others |->
               IF i = 1 THEN others[i].text ELSE <<Space>> \o others[i].text])

(* From the record alone the datagram can be put together again, whatever form
   it follows or breaks off from, except for its line end; and none of it comes
   from the datagram before. (Of a version later than 1 nothing is recorded.) *)
Reconstructible ==
    (parsing = "built" /\ version <= 1) => Original(logged) = syslog
=============================================================================
