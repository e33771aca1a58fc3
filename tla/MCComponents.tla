---------------------------- MODULE MCComponents ----------------------------
(* The components that do their work by themselves, checked together: each
   behaviour is one of `subject', and the others stay as they started.      *)
EXTENDS PacketCapture, LeapSeconds, NtpClient, NtpVariables, OctetStream,
        Encodings, Netblocks, AddressFilter, SyslogParser, UnixSocket, SimpleSessionWriter

VARIABLE subject

CheckedVars == <<subject, captureVars, leapVars, ntpVars, variableVars, streamVars, codecVars,
                 netblockVars, filterVars, syslogVars, unixVars, vars>>

(* For SimpleSessionWriter: two sources, one of them not the writer's, two
   sessions and two definitions, so that wrong sources, repeated, replaced and
   conflicting session records all occur.                                   *)
MCSources == {"src", "other"}
MCDefs == {"d1", "d2"}
MCTimes == 1..2

(* For Encodings: a definition of a signed, one of an unsigned and one of an
   unnamed type, a channel, and attributes at the edges of their encodings.  *)
MCSamples ==
    {Compound(-2, <<Signed(-3, 1), String(-4, <<5>>), Unsigned(-8, 6)>>),
     Compound(-2, <<Signed(-3, 1), String(-4, <<>>), Unsigned(-8, 7)>>),
     Compound(-5, <<Signed(-6, -2), String(-7, <<5>>)>>),
     Boolean(1, 1), Unrecognised(1, <<7, 0>>),
     Unsigned(-10, 0), Unsigned(-10, 511), Unsigned(-10, 64),
     Signed(-3, -256), Signed(-6, 31), Signed(-6, -33),
     Binary(-14, <<0, 7>>),
     Timestamp(-11, 0, 5), Timestamp(-11, 8, 0), Timestamp(-11, 255, 5)}

(* For Netblocks: numbers that fit everywhere, in hex only, and as a length but
   not as an octet. *)
MCSpellings == {Number(0, 0), Number(1, 1), Number(3, 3), Number(2, -1)}

(* For AddressFilter: whole, partial and empty prefixes, some that end between
   two words, and some with bits set beyond their length. *)
MCBlocks4 == {[prefix |-> 2, length |-> 1], [prefix |-> 2, length |-> 2],
              [prefix |-> 0, length |-> 0], [prefix |-> 1, length |-> 1]}
MCBlocks6 == {[prefix |-> <<1, 3, 2, 0>>, length |-> 6], [prefix |-> <<1, 2, 0, 0>>, length |-> 3],
              [prefix |-> <<0, 0, 0, 1>>, length |-> 8], [prefix |-> <<2, 3, 1, 1>>, length |-> 6]}
MCAddresses6 == {<<1, 3, 2, 1>>, <<1, 3, 0, 0>>, <<0, 0, 0, 1>>, <<2, 3, 1, 1>>}

(* For SyslogParser: what may follow a priority, with the fields of both forms,
   right and wrong, and texts that break off anywhere. *)
Bare == NameLexeme
Priorities == {<<>>, <<Sign("<"), Decimal(13, 2), Sign(">")>>, <<Sign("<"), Decimal(13, 3), Sign(">")>>,
               <<Sign("<"), Decimal(192, 3), Sign(">")>>, <<Sign("<"), Decimal(0, 1)>>}
Versions == {<<>>, <<Decimal(1, 1), Space>>, <<Decimal(1, 1)>>, <<Decimal(2, 1), Space>>,
             <<Decimal(0, 1), Space>>}
Stamp3164(m, d, t) == <<Month(m), Space>> \o d \o <<Space, Time(t)>>
Headers == {<<>>, Stamp3164(2, <<Decimal(29, 2)>>, 59), Stamp3164(1, <<Space, Decimal(5, 1)>>, 12) \o <<Space>>,
            Stamp3164(4, <<Decimal(30, 2)>>, 0) \o <<Space, Bare, Space>>,
            Stamp3164(4, <<Decimal(31, 2)>>, 0) \o <<Space, Bare, Space>>,
            Stamp3164(1, <<Decimal(5, 2)>>, 60) \o <<Space, Bare>>,
            <<Bare, Space, Bare, Space, Bare, Space, Sign("-"), Space, Bare, Space>>,
            <<Bare, Space, Bare, Space, Bare, Space, Sign("-"), Space, Bare>>,
            <<Bare, Space, Space, Bare>>}
DataTexts == {<<>>, <<Sign("-")>>, <<Sign("["), Bare, Sign("]")>>, <<Sign("["), Bare, Space>>,
              <<Sign("["), Sign("quote"), Sign("backslash"), Sign("]"), Sign("quote"), Sign("]"), Space>>,
              <<Sign("["), Sign("quote"), Sign("]"), Space>>,
              <<Sign("["), Sign("quote"), Sign("backslash"), Sign("quote")>>}
Ends3164 == {<<>>, <<Space>>, <<Bare>>, <<Space, Bare, Sign("lf")>>, <<Sign("control")>>,
             <<Sign("cr"), Sign("lf")>>}
MCDatagrams ==
    {p \o v \o h \o d \o e : p \in Priorities, v \in Versions, h \in Headers,
                             d \in DataTexts, e \in Ends3164}

(* For NtpVariables: numbers with fewer and more digits than are kept, without any
   before or behind the point, and names given twice. *)
NumberText(minus, whole, fraction) == [minus |-> minus, whole |-> whole, fraction |-> fraction]
Assign(name, value) == [assigns |-> TRUE, name |-> name, value |-> value]
MCPieces ==
    {Assign("offset", NumberText(minus, whole, fraction)) :
        minus \in BOOLEAN, whole \in {<<0>>, <<1, 2>>}, fraction \in {<<>>, <<5>>, <<0, 0, 7>>}}
    \cup {Assign("delay", NumberText(FALSE, <<>>, <<1, 2>>)), Assign("delay", NumberText(TRUE, <<>>, <<>>)),
          Assign("stratum", NumberText(FALSE, <<1, 6>>, <<>>)),
          Assign("srcport", NumberText(FALSE, <<7>>, <<>>)), Assign("srcport", NumberText(FALSE, <<4>>, <<>>)),
          Assign("srcaddr", NumberText(FALSE, <<1>>, <<>>)), Assign("srcadr", NumberText(FALSE, <<2>>, <<>>)),
          [assigns |-> FALSE, name |-> "offset", value |-> NumberText(FALSE, <<9>>, <<>>)]}
MCPayloads == UNION {[1..n -> MCPieces] : n \in 1..3}

StartOf(s) ==
    /\ CaptureStart /\ (s = "packets" \/ (method = "packet" /\ ~monitored /\ junk = 0))
    /\ LeapStart /\ (s = "leap seconds" \/ (~detecting /\ now = 8 /\ cleared = 0))
    /\ NtpStart
    /\ VariablesStart
    /\ StreamStart /\ (s = "stream" \/ ~interruptible)
    /\ CodecStart
    /\ NetblockStart /\ (s = "netblocks" \/ family = 4)
    /\ FilterStart
    /\ SyslogStart
    /\ UnixStart
    /\ Init

CheckedStart ==
    /\ subject \in {"packets", "leap seconds", "ntp", "variables", "stream", "codec",
                   "netblocks", "filter", "syslog", "unix", "session"}
    /\ StartOf(subject)

CheckedNext ==
    /\ \/ /\ subject = "packets" /\ CaptureNext
          /\ UNCHANGED <<leapVars, ntpVars, variableVars, streamVars, codecVars,
                         netblockVars, filterVars, syslogVars, unixVars, vars>>
       \/ /\ subject = "leap seconds" /\ LeapNext
          /\ UNCHANGED <<captureVars, ntpVars, variableVars, streamVars, codecVars,
                         netblockVars, filterVars, syslogVars, unixVars, vars>>
       \/ /\ subject = "ntp" /\ NtpNext
          /\ UNCHANGED <<captureVars, leapVars, variableVars, streamVars, codecVars,
                         netblockVars, filterVars, syslogVars, unixVars, vars>>
       \/ /\ subject = "variables" /\ VariablesNext
          /\ UNCHANGED <<captureVars, leapVars, ntpVars, streamVars, codecVars,
                         netblockVars, filterVars, syslogVars, unixVars, vars>>
       \/ /\ subject = "stream" /\ StreamNext
          /\ UNCHANGED <<captureVars, leapVars, ntpVars, variableVars, codecVars,
                         netblockVars, filterVars, syslogVars, unixVars, vars>>
       \/ /\ subject = "codec" /\ CodecNext
          /\ UNCHANGED <<captureVars, leapVars, ntpVars, variableVars, streamVars,
                         netblockVars, filterVars, syslogVars, unixVars, vars>>
       \/ /\ subject = "netblocks" /\ NetblockNext
          /\ UNCHANGED <<captureVars, leapVars, ntpVars, variableVars, streamVars,
                         codecVars, filterVars, syslogVars, unixVars, vars>>
       \/ /\ subject = "filter" /\ FilterNext
          /\ UNCHANGED <<captureVars, leapVars, ntpVars, variableVars, streamVars,
                         codecVars, netblockVars, syslogVars, unixVars, vars>>
       \/ /\ subject = "syslog" /\ SyslogNext
          /\ UNCHANGED <<captureVars, leapVars, ntpVars, variableVars, streamVars,
                         codecVars, netblockVars, filterVars, unixVars, vars>>
       \/ /\ subject = "unix" /\ UnixNext
          /\ UNCHANGED <<captureVars, leapVars, ntpVars, variableVars, streamVars,
                         codecVars, netblockVars, filterVars, syslogVars, vars>>
       \/ /\ subject = "session" /\ Next
          /\ UNCHANGED <<captureVars, leapVars, ntpVars, variableVars, streamVars,
                         codecVars, netblockVars, filterVars, syslogVars, unixVars>>
    /\ UNCHANGED subject

CheckedSpec == CheckedStart /\ [][CheckedNext]_CheckedVars
=============================================================================
