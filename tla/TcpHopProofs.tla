---------------------------- MODULE TcpHopProofs ----------------------------
(***************************************************************************)
(* Proofs about TcpHop, for any number of batches, events, connections and *)
(* faults, and for buffers of any size: what is stored is stored under its *)
(* own session, a diode loses only what a fault destroyed or a wait for    *)
(* room garbled, and an error record that was sent over a connection that  *)
(* was not torn is not overtaken.                                          *)
(***************************************************************************)
EXTENDS TcpHop, TLAPS

-----------------------------------------------------------------------------
(* The batches of the source.                                               *)

\* A batch is a session record, its events in order, and a sync request.
LEMMA SourceFacts ==
  ASSUME NEW b \in 1..Batches
  PROVE  /\ Source(b)[1] = SessionRec(SrcId, b, "d")
         /\ \A i \in 2..(MaxSeq + 2) : Source(b)[i] = EventRec(b, i - 2)
         /\ Source(b)[MaxSeq + 3] = SyncRequest
         /\ \A i \in 1..(MaxSeq + 3) : Source(b)[i] \in HopRecs
<1> DEFINE first == <<SessionRec(SrcId, b, "d")>>
           mid   == [i \in 1..(MaxSeq + 1) |-> EventRec(b, i - 1)]
           last  == <<SyncRequest>>
<1>1. Batches \in Nat /\ MaxSeq \in Nat /\ b \in Nat
  BY TcpAssumption
<1>2. /\ SessionRec(SrcId, b, "d") \in HopRecs /\ SyncRequest \in HopRecs
      /\ \A n \in 0..MaxSeq : EventRec(b, n) \in HopRecs
  BY DEF HopRecs, Sessions, Events
<1>3. /\ first \in Seq(HopRecs) /\ Len(first) = 1
      /\ first[1] = SessionRec(SrcId, b, "d")
      /\ last \in Seq(HopRecs) /\ Len(last) = 1 /\ last[1] = SyncRequest
  BY <1>2
<1>4. /\ mid \in Seq(HopRecs) /\ Len(mid) = MaxSeq + 1
      /\ \A i \in 1..(MaxSeq + 1) : mid[i] = EventRec(b, i - 1)
  <2>1. \A i \in 1..(MaxSeq + 1) : EventRec(b, i - 1) \in HopRecs
    BY <1>1, <1>2
  <2>2. QED
    BY <1>1, <2>1
<1>5. Source(b) = (first \o mid) \o last
  BY DEF Source
<1> HIDE DEF first, mid, last
<1>6. PICK fm : fm = first \o mid
  OBVIOUS
<1>7. /\ fm \in Seq(HopRecs) /\ Len(fm) = MaxSeq + 2 /\ fm[1] = first[1]
      /\ \A i \in 2..(MaxSeq + 2) : fm[i] = mid[i - 1]
  <2>1. /\ fm \in Seq(HopRecs) /\ Len(fm) = 1 + (MaxSeq + 1)
        /\ \A i \in 1..1 : fm[i] = first[i]
        /\ \A i \in 1..(MaxSeq + 1) : fm[1 + i] = mid[i]
    <3>1. /\ first \o mid \in Seq(HopRecs)
          /\ Len(first \o mid) = Len(first) + Len(mid)
          /\ \A i \in 1..Len(first) : (first \o mid)[i] = first[i]
          /\ \A i \in 1..Len(mid) : (first \o mid)[Len(first) + i] = mid[i]
      <4>1. first \in Seq(HopRecs) /\ mid \in Seq(HopRecs)
        BY <1>3, <1>4
      <4>2. QED
        BY <4>1
    <3>2. QED
      BY <1>3, <1>4, <1>6, <3>1
  <2>2. ASSUME NEW i \in 2..(MaxSeq + 2) PROVE fm[i] = mid[i - 1]
    <3>1. i - 1 \in 1..(MaxSeq + 1) /\ 1 + (i - 1) = i
      BY <1>1
    <3>2. QED
      BY <2>1, <3>1
  <2>3. QED
    BY <1>1, <2>1, <2>2
<1>8. /\ Source(b) \in Seq(HopRecs) /\ Len(Source(b)) = MaxSeq + 3
      /\ \A i \in 1..(MaxSeq + 2) : Source(b)[i] = fm[i]
      /\ Source(b)[MaxSeq + 3] = last[1]
  <2>1. /\ Source(b) \in Seq(HopRecs) /\ Len(Source(b)) = (MaxSeq + 2) + 1
        /\ \A i \in 1..(MaxSeq + 2) : Source(b)[i] = fm[i]
        /\ \A i \in 1..1 : Source(b)[(MaxSeq + 2) + i] = last[i]
    <3>1. /\ fm \o last \in Seq(HopRecs)
          /\ Len(fm \o last) = Len(fm) + Len(last)
          /\ \A i \in 1..Len(fm) : (fm \o last)[i] = fm[i]
          /\ \A i \in 1..Len(last) : (fm \o last)[Len(fm) + i] = last[i]
      <4>1. fm \in Seq(HopRecs) /\ last \in Seq(HopRecs)
        BY <1>3, <1>7
      <4>2. QED
        BY <4>1
    <3>2. QED
      BY <1>3, <1>5, <1>6, <1>7, <3>1
  <2>2. (MaxSeq + 2) + 1 = MaxSeq + 3
    BY <1>1
  <2>3. QED
    BY <2>1, <2>2
<1>9. \A i \in 2..(MaxSeq + 2) : Source(b)[i] = EventRec(b, i - 2)
  BY <1>1, <1>4, <1>7, <1>8
<1>10. \A i \in 1..(MaxSeq + 3) : Source(b)[i] \in HopRecs
  BY <1>1, <1>8
<1>11. QED
  BY <1>1, <1>3, <1>7, <1>8, <1>9, <1>10

\* A record of a batch follows the one before it.
LEMMA SourceFollows ==
  ASSUME NEW b \in 1..Batches, NEW i \in 1..(MaxSeq + 2)
  PROVE  Follows(Source(b)[i], Source(b)[i + 1])
<1>1. MaxSeq \in Nat
  BY TcpAssumption
<1>2. CASE i = MaxSeq + 2
  <2>1. ~IsEvent(Source(b)[i + 1])
    BY <1>1, <1>2, SourceFacts DEF SyncRequest, IsEvent
  <2>2. QED
    BY <2>1 DEF Follows
<1>3. CASE i \in 1..(MaxSeq + 1)
  <2>1. Source(b)[i + 1] = EventRec(b, i - 1)
    BY <1>1, <1>3, SourceFacts
  <2>2. Source(b)[i] \in {SessionRec(SrcId, b, "d")}
                           \cup {EventRec(b, n) : n \in 0..MaxSeq}
    BY <1>1, <1>3, SourceFacts
  <2>3. QED
    BY <2>1, <2>2 DEF Follows, SessionRec, EventRec
<1>4. QED
  BY <1>1, <1>2, <1>3

\* Whatever comes before it, the first record of a batch follows.
LEMMA FirstFollows ==
  ASSUME NEW b, NEW prev
  PROVE  Follows(prev, SessionRec(SrcId, b, "d"))
BY DEF Follows, SessionRec, IsEvent

-----------------------------------------------------------------------------
(* Rows of records.                                                         *)

\* A record that follows the last may be added.
LEMMA RowAppend ==
  ASSUME NEW S, NEW q \in Seq(S), NEW prev, NEW rec \in S,
         RowFollows(prev, q), Follows(LastOf(prev, q), rec)
  PROVE  /\ RowFollows(prev, Append(q, rec))
         /\ LastOf(prev, Append(q, rec)) = rec
<1> DEFINE t == Append(q, rec)
<1>1. /\ Len(q) \in Nat /\ Len(t) = Len(q) + 1 /\ t # <<>>
      /\ \A i \in 1..Len(q) : t[i] = q[i]
      /\ t[Len(q) + 1] = rec
  OBVIOUS
<1> HIDE DEF t
<1>2. ASSUME NEW i \in 1..Len(t)
      PROVE  Follows(IF i = 1 THEN prev ELSE t[i - 1], t[i])
  <2>1. CASE i \in 1..Len(q)
    <3>1. t[i] = q[i] /\ (i # 1 => t[i - 1] = q[i - 1])
      BY <1>1, <2>1
    <3>2. Follows(IF i = 1 THEN prev ELSE q[i - 1], q[i])
      BY <2>1 DEF RowFollows
    <3>3. QED
      BY <3>1, <3>2
  <2>2. CASE i = Len(q) + 1
    <3>1. LastOf(prev, q) = IF i = 1 THEN prev ELSE t[i - 1]
      BY <1>1, <2>2 DEF LastOf
    <3>2. QED
      BY <1>1, <2>2, <3>1
  <2>3. QED
    BY <1>1, <2>1, <2>2
<1>3. RowFollows(prev, t) /\ LastOf(prev, t) = rec
  BY <1>1, <1>2 DEF RowFollows, LastOf
<1>4. QED
  BY <1>3 DEF t

\* The first record follows what comes before the row, and the rest follows
\* the first.
LEMMA RowHead ==
  ASSUME NEW S, NEW q \in Seq(S), NEW prev, q # <<>>, RowFollows(prev, q)
  PROVE  /\ Follows(prev, Head(q)) /\ RowFollows(Head(q), Tail(q))
         /\ LastOf(Head(q), Tail(q)) = LastOf(prev, q)
<1> DEFINE t == Tail(q)
<1>1. /\ Len(q) \in Nat /\ Len(q) > 0 /\ Len(t) = Len(q) - 1
      /\ \A i \in 1..Len(t) : t[i] = q[i + 1]
      /\ Head(q) = q[1] /\ t \in Seq(S)
  OBVIOUS
<1> HIDE DEF t
<1>a. t = <<>> <=> Len(q) = 1
  BY <1>1
<1>2. Follows(prev, q[1])
  BY <1>1 DEF RowFollows
<1>3. ASSUME NEW i \in 1..Len(t)
      PROVE  Follows(IF i = 1 THEN Head(q) ELSE t[i - 1], t[i])
  <2>1. i + 1 \in 1..Len(q) /\ i + 1 # 1 /\ (i + 1) - 1 = i
    BY <1>1
  <2>2. Follows(q[i], q[i + 1])
    BY <2>1 DEF RowFollows
  <2>3. t[i] = q[i + 1] /\ (i # 1 => t[i - 1] = q[i])
    BY <1>1
  <2>4. QED
    BY <1>1, <2>2, <2>3
<1>4. LastOf(Head(q), t) = LastOf(prev, q)
  <2>1. CASE t = <<>>
    BY <1>1, <1>a, <2>1 DEF LastOf
  <2>2. CASE t # <<>>
    <3>1. Len(t) \in 1..Len(t) /\ Len(t) + 1 = Len(q)
      BY <1>1, <1>a, <2>2
    <3>2. t[Len(t)] = q[Len(q)]
      BY <1>1, <3>1
    <3>3. QED
      BY <2>2, <3>2 DEF LastOf
  <2>3. QED
    BY <2>1, <2>2
<1>5. QED
  BY <1>1, <1>2, <1>3, <1>4 DEF RowFollows, t

\* The first record of a row may be moved to the end of the row before it.
LEMMA RowMove ==
  ASSUME NEW S, NEW q \in Seq(S), NEW r \in Seq(S), NEW prev, r # <<>>,
         RowFollows(prev, q), RowFollows(LastOf(prev, q), r)
  PROVE  /\ RowFollows(prev, Append(q, Head(r)))
         /\ RowFollows(LastOf(prev, Append(q, Head(r))), Tail(r))
         /\ LastOf(LastOf(prev, Append(q, Head(r))), Tail(r)) =
              LastOf(LastOf(prev, q), r)
<1>1. Head(r) \in S
  OBVIOUS
<1>2. PICK last : last = LastOf(prev, q)
  OBVIOUS
<1>3. /\ Follows(last, Head(r)) /\ RowFollows(Head(r), Tail(r))
      /\ LastOf(Head(r), Tail(r)) = LastOf(last, r)
  BY <1>2, RowHead
<1>4. /\ RowFollows(prev, Append(q, Head(r)))
      /\ LastOf(prev, Append(q, Head(r))) = Head(r)
  BY <1>1, <1>2, <1>3, RowAppend
<1>5. QED
  BY <1>2, <1>3, <1>4

\* What may follow one record may follow another.
AtLeast(prev, next) == \A rec \in WireRecs : Follows(prev, rec) => Follows(next, rec)

\* A row that follows the one then follows the other.
LEMMA RowSwap ==
  ASSUME NEW q \in Seq(WireRecs), NEW prev, NEW next, AtLeast(prev, next),
         RowFollows(prev, q)
  PROVE  /\ RowFollows(next, q)
         /\ AtLeast(LastOf(prev, q), LastOf(next, q))
<1>1. \A i \in 1..Len(q) : q[i] \in WireRecs
  OBVIOUS
<1>2. RowFollows(next, q)
  BY <1>1 DEF RowFollows, AtLeast
<1>3. AtLeast(LastOf(prev, q), LastOf(next, q))
  BY DEF LastOf, AtLeast
<1>4. QED
  BY <1>2, <1>3
-----------------------------------------------------------------------------
(* Types.                                                                   *)

\* Upstream keeps its types, whoever moves: hand is the record at pos.
LEMMA UpTypedStep ==
  ASSUME HopTyped, Next
  PROVE  UpTyped'
<1>0. /\ UpTyped /\ Batches \in Nat /\ MaxSeq \in Nat
  BY TcpAssumption DEF HopTyped
<1>1. CASE ReadSession
  BY <1>0, <1>1 DEF ReadSession, UpTyped
<1>2. ASSUME NEW c \in Conns, Connect(c) PROVE UpTyped'
  BY <1>0, <1>2, TcpAssumption DEF Connect, UpTyped
<1>3. CASE PutRecord
  <2>1. upc \in {"put", "flush"} /\ batch \in 1..Batches
    BY <1>0, <1>3 DEF PutRecord, Room, UpTyped
  <2>2. pos \in 1..(MaxSeq + 3) /\ hand = Source(batch)[pos]
    BY <1>0, <2>1 DEF UpTyped
  <2>3. hand \in HopRecs /\ pos < MaxSeq + 3
    BY <1>0, <1>3, <2>1, <2>2, SourceFacts DEF PutRecord, SyncRequest
  <2>4. obuf' \in Seq(HopRecs)
    BY <1>0, <1>3, <2>3 DEF PutRecord, UpTyped
  <2>5. QED
    BY <1>0, <1>3, <2>1, <2>3, <2>4 DEF PutRecord, UpTyped
<1>4. CASE PutSyncDiode
  <2>1. upc = "put" /\ batch \in 1..Batches
    BY <1>0, <1>4 DEF PutSyncDiode, UpTyped
  <2>2. pos \in 1..(MaxSeq + 3) /\ hand = Source(batch)[pos]
    BY <1>0, <2>1 DEF UpTyped
  <2>3. pos = MaxSeq + 3
    <3>1. CASE pos = 1
      <4>1. hand = SessionRec(SrcId, batch, "d")
        BY <2>1, <2>2, <3>1, SourceFacts
      <4>2. QED
        BY <1>4, <4>1 DEF PutSyncDiode, SessionRec
    <3>2. CASE pos \in 2..(MaxSeq + 2)
      <4>1. hand = EventRec(batch, pos - 2)
        BY <2>1, <2>2, <3>2, SourceFacts
      <4>2. QED
        BY <1>4, <4>1 DEF PutSyncDiode, EventRec
    <3>3. QED
      BY <1>0, <2>2, <3>1, <3>2
  <2>4. QED
    BY <1>0, <1>4, <2>1, <2>3 DEF PutSyncDiode, UpTyped
<1>5. CASE PutSyncThrows
  <2>1. upc \in {"put", "flush"} /\ batch \in 1..Batches
    BY <1>0, <1>5 DEF PutSyncThrows, Room, UpTyped
  <2>2. hand \in HopRecs
    BY <1>0, <2>1, SourceFacts DEF UpTyped
  <2>3. obuf' \in Seq(HopRecs)
    BY <1>0, <1>5, <2>2 DEF PutSyncThrows, UpTyped
  <2>4. QED
    BY <1>0, <1>5, <2>1, <2>3 DEF PutSyncThrows, UpTyped
<1>6. CASE BeginFlush
  BY <1>0, <1>6 DEF BeginFlush, UpTyped
<1>7. CASE Flush
  <2>1. obuf' \in Seq(HopRecs)
    BY <1>0, <1>7 DEF Flush, UpTyped
  <2>2. QED
    BY <1>0, <1>7, <2>1 DEF Flush, UpTyped
<1>8. CASE FlushThrows
  BY <1>0, <1>8 DEF FlushThrows, UpTyped
<1>9. CASE Close
  BY <1>0, <1>9 DEF Close, UpTyped
<1>a. CASE FlushWait
  BY <1>0, <1>a DEF FlushWait, UpTyped, upVars
<1>10. CASE Notice \/ Look
  BY <1>0, <1>10 DEF Notice, Look, UpTyped
<1>11. CASE ReadNext
  BY <1>0, <1>11 DEF ReadNext, UpTyped
<1>12. CASE Acknowledge
  <2>1. batch \in 1..Batches
    BY <1>0, <1>12 DEF Acknowledge, UpTyped
  <2>2. QED
    BY <1>0, <1>12, <2>1 DEF Acknowledge, UpTyped
<1>13. CASE Stop
  BY <1>0, <1>13 DEF Stop, UpTyped
<1>14. CASE Kill
  BY <1>0, <1>14 DEF Kill, UpTyped
<1>15. CASE DownStop \/ \E c \in Conns : DownStep(c) \/ DownPutThrows(c) \/ Break(c)
  <2>1. UNCHANGED <<diode, upVars>>
    BY <1>15 DEF DownStop, DownStep, DownPutThrows, Break, Accept, DownRead,
       DownReadGarbled, DownReadThrows, DownPut, DownAck, DownAckThrows, DownError,
       DownKilled, DownGivesUp, Drain, DownClose
  <2>2. QED
    BY <1>0, <2>1 DEF UpTyped, upVars
<1>16. QED
  BY <1>1, <1>2, <1>3, <1>4, <1>5, <1>6, <1>7, <1>8, <1>9, <1>10, <1>11,
     <1>12, <1>13, <1>14, <1>15, <1>a DEF Next, UpStep

\* What a connection and a thread are made of.
LEMMA HopFacts ==
  ASSUME HopTyped, NEW c \in Conns
  PROVE  /\ net[c].fwd \in Seq(WireRecs)
         /\ net[c].back \in Seq(Replies \cup {ErrorRec})
         /\ {net[c].up, net[c].fin, net[c].dead, net[c].torn} \subseteq BOOLEAN
         /\ down[c].w \in Writers
         /\ down[c].hand \in HopRecs \cup {NoRec}
         /\ down[c].pc = "put" => down[c].hand \in HopRecs
         /\ conn = c => upc \in {"put", "flush", "loop", "read", "ack", "close", "stop"}
<1>1. NoConn # c
  BY TcpAssumption
<1>2. QED
  BY <1>1 DEF HopTyped, NetTyped, Links, DownTyped, UpTyped

\* A writer that is in a session has not seen its end.
LEMMA WriterFacts ==
  ASSUME NEW w \in Writers
  PROVE  /\ w.srec \in Sessions \cup {NoRec} /\ w.seqnum \in Nat
         /\ w.reply \in Replies \cup {NoRec}
         /\ w.srec # NoRec => w.srec \in Sessions /\ w.ended = FALSE
         /\ DOMAIN w = {"srec", "seqnum", "ended", "reply"}
<1>1. CASE w = FreshWriter
  BY <1>1 DEF FreshWriter
<1>2. CASE w # FreshWriter
  <2>1. w \in [srec : Sessions, seqnum : Nat, ended : {FALSE},
               reply : Replies \cup {NoRec}]
    BY <1>2 DEF Writers
  <2>2. QED
    BY <2>1
<1>3. QED
  BY <1>1, <1>2

\* A writer in a session, after any of its fields has been set.
LEMMA WriterSet ==
  ASSUME NEW w \in Writers, NEW s \in Sessions, NEW n \in Nat,
         NEW r \in Replies \cup {NoRec}
  PROVE  /\ [w EXCEPT !.srec = s, !.seqnum = n, !.ended = FALSE] \in Writers
         /\ [w EXCEPT !.srec = s, !.seqnum = n, !.ended = FALSE].reply = w.reply
         /\ w.srec # NoRec => [w EXCEPT !.seqnum = n] \in Writers
         /\ [w EXCEPT !.seqnum = n].reply = w.reply
         /\ w.srec # NoRec => [w EXCEPT !.reply = r] \in Writers
         /\ [w EXCEPT !.reply = r].reply = r
<1>1. CASE w = FreshWriter
  BY <1>1 DEF Writers, FreshWriter
<1>2. CASE w # FreshWriter
  BY <1>2 DEF Writers
<1>3. QED
  BY <1>1, <1>2

\* A record that is not refused leaves the base class in a state of its type,
\* and makes a reply if it is a sync request.
LEMMA WrittenTyped ==
  ASSUME NEW w \in Writers, NEW rec \in HopRecs, ~Refuses(w, rec)
  PROVE  /\ Written(w, rec) \in Writers
         /\ rec.chan = "sync" => Written(w, rec).reply \in Replies
         /\ rec.chan # "sync" => Written(w, rec).reply = w.reply
<1>1. CASE rec \in Sessions
  <2>1. IsSession(rec) /\ rec.chan = "session"
    BY <1>1 DEF Sessions, SessionRec, IsSession
  <2>2. CASE StartsSession(w, rec)
    <3>1. Written(w, rec) = [w EXCEPT !.srec = rec, !.seqnum = 0, !.ended = FALSE]
      <4>1. Written(w, rec) = Started(w, rec)
        BY <2>1, <2>2 DEF Written
      <4>2. QED
        BY <4>1 DEF Started
    <3>2. Written(w, rec) \in Writers
      <4>1. 0 \in Nat /\ NoRec \in Replies \cup {NoRec}
        OBVIOUS
      <4>2. [w EXCEPT !.srec = rec, !.seqnum = 0, !.ended = FALSE] \in Writers
        BY <1>1, <4>1, WriterSet
      <4>3. QED
        BY <3>1, <4>2
    <3>3. QED
      BY <2>1, <3>1, <3>2, WriterFacts
  <2>3. CASE ~StartsSession(w, rec)
    <3>1. Written(w, rec) = w
      BY <2>1, <2>3 DEF Written
    <3>2. QED
      BY <2>1, <3>1
  <2>4. QED
    BY <2>2, <2>3
<1>2. ASSUME rec \in Events \/ rec = SyncRequest
      PROVE  /\ ~IsSession(rec) /\ w.srec # NoRec
             /\ w.srec \in Sessions /\ w.seqnum \in Nat /\ w.ended = FALSE
             /\ w.reply \in Replies \cup {NoRec}
  <2>1. ~IsSession(rec)
    BY <1>2 DEF Events, EventRec, SyncRequest, IsSession
  <2>2. w.srec # NoRec
    BY <2>1 DEF Refuses
  <2>3. QED
    BY <2>1, <2>2, WriterFacts
<1>3. CASE rec \in Events
  <2>1. rec.chan = "event" /\ rec.seq \in Nat
    BY <1>3, TcpAssumption DEF Events, EventRec
  <2>2. Written(w, rec) = [w EXCEPT !.seqnum = rec.seq + 1]
    BY <1>2, <1>3, <2>1 DEF Written, StartsSession, Numbered
  <2>3. QED
    <3>1. rec.seq + 1 \in Nat /\ w.srec \in Sessions /\ w.srec # NoRec
          /\ w.reply \in Replies \cup {NoRec}
      BY <1>2, <1>3, <2>1
    <3>2. /\ [w EXCEPT !.seqnum = rec.seq + 1] \in Writers
          /\ [w EXCEPT !.seqnum = rec.seq + 1].reply = w.reply
      BY <3>1, WriterSet
    <3>3. QED
      BY <2>1, <2>2, <3>2
<1>4. CASE rec = SyncRequest
  <2>1. rec.chan = "sync"
    BY <1>4 DEF SyncRequest
  <2>2. Written(w, rec) = [w EXCEPT !.reply = SyncReply(w)]
    BY <1>2, <1>4, <2>1 DEF Written, StartsSession
  <2>3. SyncReply(w) \in Replies
    BY <1>2, <1>4, TcpAssumption
    DEF SyncReply, Replies, Sessions, SessionRec
  <2>4. QED
    <3>1. /\ w.srec \in Sessions /\ w.srec # NoRec /\ 0 \in Nat
          /\ SyncReply(w) \in Replies \cup {NoRec}
      BY <1>2, <1>4, <2>3
    <3>2. /\ [w EXCEPT !.reply = SyncReply(w)] \in Writers
          /\ [w EXCEPT !.reply = SyncReply(w)].reply = SyncReply(w)
      BY <3>1, WriterSet
    <3>3. QED
      BY <2>1, <2>2, <2>3, <3>2
<1>5. QED
  BY <1>1, <1>3, <1>4 DEF HopRecs

\* A connection, after any of its fields has been set.
LEMMA LinkSet ==
  ASSUME NEW l \in Links, NEW f \in Seq(WireRecs),
         NEW b \in Seq(Replies \cup {ErrorRec}), NEW x \in BOOLEAN
  PROVE  /\ [l EXCEPT !.fwd = f] \in Links /\ [l EXCEPT !.back = b] \in Links
         /\ [l EXCEPT !.up = x] \in Links /\ [l EXCEPT !.fin = x] \in Links
         /\ [l EXCEPT !.dead = x] \in Links /\ [l EXCEPT !.torn = x] \in Links
BY DEF Links

\* What is garbled is no record that was sent.
LEMMA NotGarbled == \A rec \in HopRecs : rec # GarbledRec
<1>1. \A rec \in HopRecs : rec.chan \in {"session", "event", "sync"}
  BY DEF HopRecs, Sessions, Events, SessionRec, EventRec, SyncRequest
<1>2. GarbledRec.chan = "garbled"
  BY DEF GarbledRec
<1>3. QED
  BY <1>1, <1>2

\* A connection carries the records that are written to it, or garbled ones.
LEMMA WireFacts ==
  ASSUME HopTyped, conn \in Conns
  PROVE  /\ obuf \in Seq(WireRecs) /\ HopRecs \subseteq WireRecs
         /\ obuf # <<>> => /\ OnWire \in WireRecs
                           /\ ~net[conn].torn => OnWire = Head(obuf)
                           /\ net[conn].torn => OnWire = GarbledRec
                           /\ Head(obuf) \in HopRecs
<1>1. obuf \in Seq(HopRecs) /\ HopRecs \subseteq WireRecs
  BY DEF HopTyped, UpTyped, WireRecs
<1>2. obuf \in Seq(WireRecs)
  BY <1>1
<1>3. obuf # <<>> => Head(obuf) \in HopRecs
  BY <1>1
<1>4. obuf # <<>> => OnWire \in WireRecs
  BY <1>1, <1>3 DEF OnWire, WireRecs
<1>5. QED
  BY <1>1, <1>2, <1>3, <1>4 DEF OnWire

\* A connection keeps its type.
LEMMA NetTypedStep ==
  ASSUME HopTyped, Next
  PROVE  NetTyped'
<1>0. /\ NetTyped /\ conn \in Conns \cup {NoConn} /\ obuf \in Seq(HopRecs)
      /\ (conn = NoConn <=> upc \in {"start", "open"})
      /\ <<>> \in Seq(WireRecs) /\ <<>> \in Seq(Replies \cup {ErrorRec})
  BY DEF HopTyped, UpTyped
<1>a. ASSUME NEW c \in Conns, NEW l \in Links, net' = [net EXCEPT ![c] = l]
      PROVE  NetTyped'
  BY <1>0, <1>a DEF NetTyped
<1>b. ASSUME NEW c \in Conns
      PROVE  /\ net[c] \in Links /\ net[c].fwd \in Seq(WireRecs)
             /\ net[c].back \in Seq(Replies \cup {ErrorRec})
             /\ net[c].dead \in BOOLEAN /\ net[c].up \in BOOLEAN
             /\ net[c].torn \in BOOLEAN
  BY <1>0 DEF NetTyped, Links
<1>1. ASSUME NEW c \in Conns, Connect(c) PROVE NetTyped'
  <2>1. [NoNet EXCEPT !.up = TRUE] \in Links
    BY <1>0 DEF NoNet, Links
  <2>2. net' = [net EXCEPT ![c] = [NoNet EXCEPT !.up = TRUE]]
    BY <1>1 DEF Connect
  <2>3. QED
    BY <1>a, <2>1, <2>2
<1>2. CASE Flush
  <2>1. conn \in Conns /\ obuf # <<>>
    BY <1>0, <1>2 DEF Flush
  <2>2. PICK rec \in WireRecs : rec = OnWire
    BY <2>1, WireFacts
  <2>3. Append(net[conn].fwd, rec) \in Seq(WireRecs)
    BY <1>b, <2>1
  <2>4. PICK d \in BOOLEAN : d = (down[conn].pc = "off")
    OBVIOUS
  <2>5. net' = [net EXCEPT ![conn] = [[net[conn] EXCEPT
                  !.fwd = Append(net[conn].fwd, rec)] EXCEPT !.dead = d]]
    BY <1>0, <1>2, <2>1, <2>2, <2>4 DEF Flush, NetTyped, Links
  <2>6. [[net[conn] EXCEPT !.fwd = Append(net[conn].fwd, rec)]
          EXCEPT !.dead = d] \in Links
    BY <1>b, <2>1, <2>3, LinkSet
  <2>7. QED
    BY <1>a, <2>1, <2>5, <2>6
<1>c. CASE FlushWait \/ Stop
  <2>1. conn \in Conns
    BY <1>0, <1>c DEF FlushWait, Stop
  <2>2. PICK x \in BOOLEAN :
          x = IF FlushWait THEN TRUE
              ELSE net[conn].torn \/ (upc = "flush" /\ obuf # <<>> /\ Len(obuf) < OutCap)
    BY <1>b, <2>1
  <2>3. net' = [net EXCEPT ![conn] = [net[conn] EXCEPT !.torn = x]]
    BY <1>c, <2>2 DEF FlushWait, Stop
  <2>4. [net[conn] EXCEPT !.torn = x] \in Links
    BY <1>0, <1>b, <2>1, LinkSet
  <2>5. QED
    BY <1>a, <2>1, <2>3, <2>4
<1>3. ASSUME net' = CloseUp(conn), conn \in Conns PROVE NetTyped'
  <2>1. PICK d \in BOOLEAN : d = (net[conn].dead \/ net[conn].back # <<>>)
    BY <1>b, <1>3
  <2>2. net' = [net EXCEPT ![conn] = [[[net[conn] EXCEPT !.up = FALSE]
                  EXCEPT !.back = <<>>] EXCEPT !.dead = d]]
    BY <1>0, <1>3, <2>1 DEF CloseUp, NetTyped, Links
  <2>3. [[[net[conn] EXCEPT !.up = FALSE] EXCEPT !.back = <<>>] EXCEPT !.dead = d]
          \in Links
    BY <1>0, <1>b, <1>3, LinkSet
  <2>4. QED
    BY <1>a, <1>3, <2>2, <2>3
<1>4. CASE Close \/ Kill
  <2>1. net' = CloseUp(conn) /\ conn \in Conns
    BY <1>0, <1>4 DEF Close, Kill, Flushed
  <2>2. QED
    BY <1>3, <2>1
<1>5. ASSUME NEW c \in Conns, DownRead(c) \/ DownReadGarbled(c) \/ Drain(c)
      PROVE  NetTyped'
  <2>1. Tail(net[c].fwd) \in Seq(WireRecs)
    BY <1>b, <1>5 DEF DownRead, DownReadGarbled, Garbled, Drain
  <2>2. net' = [net EXCEPT ![c] = [net[c] EXCEPT !.fwd = Tail(net[c].fwd)]]
    BY <1>5 DEF DownRead, DownReadGarbled, Drain
  <2>3. [net[c] EXCEPT !.fwd = Tail(net[c].fwd)] \in Links
    BY <1>b, <2>1, LinkSet
  <2>4. QED
    BY <1>a, <2>2, <2>3
<1>6. ASSUME NEW c \in Conns, NEW rec \in Replies \cup {ErrorRec}
      PROVE  Sent(c, rec) \in [Conns -> Links]
  <2>1. PICK b \in Seq(Replies \cup {ErrorRec}) :
          b = IF net[c].up THEN Append(net[c].back, rec) ELSE net[c].back
    <3>1. Append(net[c].back, rec) \in Seq(Replies \cup {ErrorRec})
      BY <1>b, <1>6
    <3>2. QED
      BY <1>b, <3>1
  <2>2. PICK d \in BOOLEAN : d = ~net[c].up
    OBVIOUS
  <2>3. Sent(c, rec) = [net EXCEPT ![c] = [[net[c] EXCEPT !.back = b]
                                             EXCEPT !.dead = d]]
    BY <1>0, <2>1, <2>2 DEF Sent, NetTyped, Links
  <2>4. [[net[c] EXCEPT !.back = b] EXCEPT !.dead = d] \in Links
    BY <1>0, <1>b, LinkSet
  <2>5. QED
    BY <1>0, <2>3, <2>4 DEF NetTyped
<1>7. ASSUME NEW c \in Conns, DownAck(c) PROVE NetTyped'
  <2>1. down[c].w \in Writers /\ down[c].w.reply # NoRec
    BY <1>7 DEF HopTyped, DownTyped, DownAck
  <2>2. down[c].w.reply \in Replies
    BY <2>1, WriterFacts
  <2>3. QED
    BY <1>0, <1>6, <1>7, <2>2 DEF DownAck, NetTyped
<1>8. ASSUME NEW c \in Conns, DownError(c) PROVE NetTyped'
  <2>1. PICK n \in [Conns -> Links] : n = Sent(c, ErrorRec)
    BY <1>6
  <2>2. [n EXCEPT ![c] = [n[c] EXCEPT !.fin = TRUE]] \in [Conns -> Links]
    BY <1>0, LinkSet
  <2>3. net' \in {net, [n EXCEPT ![c] = [n[c] EXCEPT !.fin = TRUE]]}
    BY <1>8, <2>1 DEF DownError
  <2>4. QED
    BY <1>0, <2>2, <2>3 DEF NetTyped
<1>9. ASSUME DownEnds PROVE NetTyped'
  <2>1. ASSUME NEW k \in Conns
        PROVE  [net[k] EXCEPT !.fwd = <<>>, !.fin = TRUE,
                              !.dead = net[k].dead \/ net[k].fwd # <<>>] \in Links
    <3>1. PICK d \in BOOLEAN : d = (net[k].dead \/ net[k].fwd # <<>>)
      BY <1>b
    <3>2. [net[k] EXCEPT !.fwd = <<>>, !.fin = TRUE, !.dead = d] \in Links
      BY <1>0, <1>b DEF Links
    <3>3. QED
      BY <3>1, <3>2
  <2>2. net' = [k \in Conns |-> IF down[k].pc = "off" THEN net[k] ELSE
                  [net[k] EXCEPT !.fwd = <<>>, !.fin = TRUE,
                                 !.dead = net[k].dead \/ net[k].fwd # <<>>]]
    BY <1>9 DEF DownEnds
  <2>3. QED
    BY <1>0, <1>b, <2>1, <2>2 DEF NetTyped
<1>10. ASSUME NEW c \in Conns, DownGivesUp(c) \/ DownClose(c) \/ Break(c)
       PROVE  NetTyped'
  <2>1. CASE DownGivesUp(c)
    <3>1. net' = [net EXCEPT ![c] = [[net[c] EXCEPT !.fwd = <<>>] EXCEPT !.fin = TRUE]]
      BY <1>0, <2>1 DEF DownGivesUp, NetTyped, Links
    <3>2. [[net[c] EXCEPT !.fwd = <<>>] EXCEPT !.fin = TRUE] \in Links
      BY <1>0, <1>b, LinkSet
    <3>3. QED
      BY <1>a, <3>1, <3>2
  <2>2. CASE DownClose(c)
    <3>1. PICK d \in BOOLEAN : d = (net[c].dead \/ net[c].fwd # <<>>)
      BY <1>b
    <3>2. net' = [net EXCEPT ![c] = [[net[c] EXCEPT !.fin = TRUE] EXCEPT !.dead = d]]
      BY <1>0, <2>2, <3>1 DEF DownClose, NetTyped, Links
    <3>3. [[net[c] EXCEPT !.fin = TRUE] EXCEPT !.dead = d] \in Links
      BY <1>0, <1>b, LinkSet
    <3>4. QED
      BY <1>a, <3>2, <3>3
  <2>3. CASE Break(c)
    <3>1. net' = [net EXCEPT ![c] = [[[net[c] EXCEPT !.fwd = <<>>]
                    EXCEPT !.back = <<>>] EXCEPT !.dead = TRUE]]
      BY <1>0, <2>3 DEF Break, NetTyped, Links
    <3>2. [[[net[c] EXCEPT !.fwd = <<>>] EXCEPT !.back = <<>>] EXCEPT !.dead = TRUE]
            \in Links
      BY <1>0, <1>b, LinkSet
    <3>3. QED
      BY <1>a, <3>1, <3>2
  <2>4. QED
    BY <1>10, <2>1, <2>2, <2>3
<1>11. ASSUME NEW c \in Conns, DownKilled(c) PROVE NetTyped'
  BY <1>9, <1>11 DEF DownKilled
<1>12. CASE DownStop
  BY <1>9, <1>12 DEF DownStop
<1>13. ASSUME UNCHANGED net PROVE NetTyped'
  BY <1>0, <1>13 DEF NetTyped
<1>14. ASSUME NEW c \in Conns,
              Accept(c) \/ DownReadThrows(c) \/ DownPut(c) \/ DownAckThrows(c)
                \/ DownPutThrows(c)
       PROVE  NetTyped'
  BY <1>13, <1>14 DEF Accept, DownReadThrows, DownPut, DownAckThrows,
     DownPutThrows
<1>15. CASE ReadSession \/ PutRecord \/ PutSyncDiode \/ PutSyncThrows \/ BeginFlush
              \/ FlushThrows \/ Notice \/ Look \/ ReadNext \/ Acknowledge
  BY <1>13, <1>15 DEF ReadSession, PutRecord, PutSyncDiode, PutSyncThrows,
     BeginFlush, FlushThrows, Notice, Look, ReadNext, Acknowledge
<1>16. QED
  BY <1>1, <1>2, <1>4, <1>5, <1>7, <1>8, <1>10, <1>11, <1>12, <1>14, <1>15, <1>c
  DEF Next, UpStep, DownStep

\* What a thread of the destination's may be.
Threads == [pc : {"off", "queued", "read", "put", "ack", "error", "drain"},
            hand : HopRecs \cup {NoRec}, w : Writers]

\* Threads have their types when one of them changes to a state that has.
LEMMA ThreadTyped ==
  ASSUME DownTyped, NEW c \in Conns, NEW d \in Threads, down' = [down EXCEPT ![c] = d],
         d.pc = "put" => d.hand \in HopRecs, d.pc = "ack" => d.w.reply # NoRec
  PROVE  DownTyped'
<1>1. down \in [Conns -> Threads]
  BY DEF DownTyped, Threads
<1>2. /\ down' \in [Conns -> Threads] /\ down'[c] = d
      /\ \A k \in Conns \ {c} : down'[k] = down[k]
  BY <1>1
<1>3. /\ \A k \in Conns : down'[k].pc = "put" => down'[k].hand \in HopRecs
      /\ \A k \in Conns : down'[k].pc = "ack" => down'[k].w.reply # NoRec
  BY <1>2 DEF DownTyped
<1>4. QED
  BY <1>2, <1>3 DEF DownTyped, Threads

\* A thread keeps its type.
LEMMA DownTypedStep ==
  ASSUME HopTyped, Next
  PROVE  DownTyped'
<1>0. DownTyped /\ NetTyped /\ NoThread.w \in Writers
  BY DEF HopTyped, NoThread, Writers
<1>1. ASSUME NEW c \in Conns, Connect(c) PROVE DownTyped'
  BY <1>0, <1>1 DEF Connect, DownTyped, NoThread
<1>2. ASSUME NEW c \in Conns,
             Accept(c) \/ DownReadThrows(c) \/ DownPutThrows(c) \/ DownAckThrows(c)
               \/ DownError(c) \/ DownGivesUp(c) \/ DownClose(c)
      PROVE  DownTyped'
  <2>1. CASE Accept(c) \/ DownError(c) \/ DownGivesUp(c) \/ DownClose(c)
    BY <1>0, <2>1 DEF Accept, DownError, DownGivesUp, DownClose, DownTyped, NoThread
  <2>2. CASE DownReadThrows(c) \/ DownPutThrows(c) \/ DownAckThrows(c)
    BY <1>0, <2>2 DEF DownReadThrows, DownPutThrows, DownAckThrows, DownTyped, NoThread
  <2>3. QED
    BY <1>2, <2>1, <2>2
<1>3. ASSUME NEW c \in Conns, DownRead(c) PROVE DownTyped'
  <2>1. Head(net[c].fwd) \in HopRecs
    <3>1. net[c].fwd \in Seq(WireRecs) /\ net[c].fwd # <<>>
      BY <1>0, <1>3 DEF NetTyped, Links, DownRead
    <3>2. Head(net[c].fwd) \in WireRecs /\ Head(net[c].fwd) # GarbledRec
      BY <1>3, <3>1 DEF DownRead, Garbled
    <3>3. QED
      BY <3>2 DEF WireRecs
  <2>2. QED
    BY <1>0, <1>3, <2>1 DEF DownRead, DownTyped
<1>4. ASSUME NEW c \in Conns, DownPut(c) PROVE DownTyped'
  <2>1. down[c].w \in Writers /\ down[c].hand \in HopRecs
    BY <1>0, <1>4 DEF DownTyped, DownPut
  <2>2. PICK w2 : w2 = Written(down[c].w, down[c].hand)
    OBVIOUS
  <2>3. w2 \in Writers /\ (down[c].hand.chan = "sync" => w2.reply \in Replies)
    BY <1>4, <2>1, <2>2, WrittenTyped DEF DownPut
  <2>4. \A r \in Replies : r # NoRec
    BY DEF Replies, NoRec
  <2>5. PICK p : p = IF down[c].hand.chan = "sync" THEN "ack" ELSE "read"
    OBVIOUS
  <2>6. PICK d : d = [down[c] EXCEPT !.pc = p, !.w = w2]
    OBVIOUS
  <2>7. /\ d \in Threads /\ d.pc = p /\ d.w = w2 /\ p \in {"ack", "read"}
        /\ p = "ack" => w2.reply # NoRec
    BY <1>0, <2>3, <2>4, <2>5, <2>6 DEF DownTyped, Threads
  <2>8. down' = [down EXCEPT ![c] = d]
    BY <1>4, <2>2, <2>5, <2>6 DEF DownPut
  <2>9. QED
    BY <1>0, <2>7, <2>8, ThreadTyped
<1>5. ASSUME NEW c \in Conns, DownAck(c) PROVE DownTyped'
  <2>1. down[c].w \in Writers
    BY <1>0 DEF DownTyped
  <2>2. Replied(down[c].w) \in Writers
    <3>1. down[c].w # FreshWriter
      BY <1>0, <1>5 DEF DownTyped, DownAck, FreshWriter
    <3>2. down[c].w \in [srec : Sessions, seqnum : Nat, ended : {FALSE},
                         reply : Replies \cup {NoRec}]
      BY <2>1, <3>1 DEF Writers
    <3>3. QED
      BY <3>2 DEF Writers, Replied
  <2>3. PICK w2 \in Writers : w2 = Replied(down[c].w)
    BY <2>2
  <2>4. PICK d : d = [down[c] EXCEPT !.pc = "read", !.w = w2, !.hand = NoRec]
    OBVIOUS
  <2>5. d \in Threads /\ d.pc = "read"
    BY <1>0, <2>4 DEF DownTyped, Threads
  <2>6. down' = [down EXCEPT ![c] = d]
    BY <1>5, <2>3, <2>4 DEF DownAck
  <2>7. QED
    BY <1>0, <2>5, <2>6, ThreadTyped
<1>6. ASSUME DownEnds PROVE DownTyped'
  BY <1>0, <1>6 DEF DownEnds, DownTyped, NoThread
<1>7. ASSUME NEW c \in Conns, DownKilled(c) PROVE DownTyped'
  BY <1>6, <1>7 DEF DownKilled
<1>8. CASE DownStop
  BY <1>6, <1>8 DEF DownStop
<1>9. ASSUME UNCHANGED down PROVE DownTyped'
  BY <1>0, <1>9 DEF DownTyped
<1>10. ASSUME NEW c \in Conns, DownReadGarbled(c) \/ Drain(c) \/ Break(c)
       PROVE  DownTyped'
  BY <1>9, <1>10 DEF DownReadGarbled, Drain, Break, downVars
<1>11. CASE ReadSession \/ PutRecord \/ PutSyncDiode \/ PutSyncThrows \/ BeginFlush
              \/ Flush \/ FlushWait \/ FlushThrows \/ Close \/ Notice \/ Look
              \/ ReadNext \/ Acknowledge \/ Stop \/ Kill
  BY <1>9, <1>11 DEF ReadSession, PutRecord, PutSyncDiode, PutSyncThrows,
     BeginFlush, Flush, FlushWait, FlushThrows, Close, Notice, Look, ReadNext,
     Acknowledge, Stop, Kill, downVars
<1>12. QED
  BY <1>1, <1>2, <1>3, <1>4, <1>5, <1>7, <1>8, <1>10, <1>11
  DEF Next, UpStep, DownStep

\* All types.
LEMMA HopTypedStep ==
  ASSUME HopTyped, Next
  PROVE  HopTyped'
<1>1. faults' \in 0..MaxFaults
  <2>1. faults' = faults \/ (faults < MaxFaults /\ faults' = faults + 1)
    BY DEF Next, UpStep, ReadSession, Connect, PutRecord, PutSyncDiode,
       PutSyncThrows, BeginFlush, Flush, FlushWait, FlushThrows, Close, Notice,
       Look, ReadNext, Acknowledge, Stop, Kill, DownStop, DownStep, Accept,
       DownRead, DownReadGarbled, DownReadThrows, DownPut, DownAck, DownAckThrows,
       DownError, DownKilled, DownGivesUp, Drain, DownClose, DownPutThrows, Break
  <2>2. QED
    BY <2>1, TcpAssumption DEF HopTyped
<1>2. killed' \subseteq {"down", "stopped"}
  <2>1. killed' \in {killed} \cup {killed \cup {p} : p \in {"down", "stopped"}}
    BY DEF Next, UpStep, ReadSession, Connect, PutRecord, PutSyncDiode,
       PutSyncThrows, BeginFlush, Flush, FlushWait, FlushThrows, Close, Notice,
       Look, ReadNext, Acknowledge, Stop, Kill, DownStop, DownStep, Accept,
       DownRead, DownReadGarbled, DownReadThrows, DownPut, DownAck, DownAckThrows,
       DownError, DownKilled, DownGivesUp, Drain, DownClose, DownPutThrows, Break
  <2>2. QED
    BY <2>1 DEF HopTyped
<1>3. waited' \in BOOLEAN
  <2>1. waited' = waited \/ waited' = diode
    BY DEF Next, UpStep, ReadSession, Connect, PutRecord, PutSyncDiode,
       PutSyncThrows, BeginFlush, Flush, FlushWait, FlushThrows, Close, Notice,
       Look, ReadNext, Acknowledge, Stop, Kill, DownStop, DownStep, Accept,
       DownRead, DownReadGarbled, DownReadThrows, DownPut, DownAck, DownAckThrows,
       DownError, DownKilled, DownGivesUp, Drain, DownClose, DownPutThrows, Break
  <2>2. QED
    BY <2>1 DEF HopTyped, UpTyped
<1>4. QED
  BY <1>1, <1>2, <1>3, UpTypedStep, NetTypedStep, DownTypedStep DEF HopTyped
-----------------------------------------------------------------------------
(* Error records.                                                           *)

\* Sending a record adds it to what is on its way back, and nothing else.
LEMMA SentFacts ==
  ASSUME HopTyped, NEW c \in Conns, NEW rec \in Replies \cup {ErrorRec},
         NEW k \in Conns
  PROVE  /\ Sent(c, rec)[k].fwd = net[k].fwd /\ Sent(c, rec)[k].up = net[k].up
         /\ Sent(c, rec)[k].fin = net[k].fin /\ Sent(c, rec)[k].torn = net[k].torn
         /\ k # c => Sent(c, rec)[k] = net[k]
         /\ k = c => Sent(c, rec)[k].dead = ~net[k].up
         /\ ToSet(Sent(c, rec)[k].back) \subseteq ToSet(net[k].back) \cup {rec}
<1>1. /\ net \in [Conns -> Links] /\ net[c] \in Links
      /\ net[c].back \in Seq(Replies \cup {ErrorRec})
  BY DEF HopTyped, NetTyped, Links
<1>2. PICK b : b = IF net[c].up THEN Append(net[c].back, rec) ELSE net[c].back
  OBVIOUS
<1>3. Sent(c, rec) = [net EXCEPT ![c].back = b, ![c].dead = ~net[c].up]
  BY <1>2 DEF Sent
<1>4. ToSet(b) \subseteq ToSet(net[c].back) \cup {rec}
  BY <1>1, <1>2 DEF ToSet
<1>5. Sent(c, rec)[k].back = IF k = c THEN b ELSE net[k].back
  BY <1>1, <1>3 DEF Links
<1>6. QED
  BY <1>1, <1>3, <1>4, <1>5 DEF Links

\* When upstream closes a connection, the others stay as they are.
LEMMA CloseFacts ==
  ASSUME HopTyped, conn \in Conns, NEW c \in Conns
  PROVE  /\ CloseUp(conn)[c].fwd = net[c].fwd
         /\ CloseUp(conn)[c].fin = net[c].fin /\ CloseUp(conn)[c].torn = net[c].torn
         /\ c # conn => CloseUp(conn)[c] = net[c]
         /\ c = conn => ~CloseUp(conn)[c].up
         /\ net[c].dead => CloseUp(conn)[c].dead
<1>1. net \in [Conns -> Links] /\ net[c] \in Links
  BY DEF HopTyped, NetTyped
<1>2. PICK d \in BOOLEAN : d = (net[conn].dead \/ net[conn].back # <<>>)
  BY DEF HopTyped, NetTyped, Links
<1>3. CloseUp(conn) = [net EXCEPT ![conn].up = FALSE, ![conn].back = <<>>,
                                  ![conn].dead = d]
  BY <1>2 DEF CloseUp
<1>4. QED
  BY <1>1, <1>2, <1>3 DEF Links

\* The records of a row that grows or shrinks.
LEMMA RowSets ==
  ASSUME NEW S, NEW q \in Seq(S), NEW x \in S
  PROVE  /\ ToSet(Append(q, x)) = ToSet(q) \cup {x}
         /\ q # <<>> => ToSet(q) = {Head(q)} \cup ToSet(Tail(q))
<1>1. ToSet(Append(q, x)) = ToSet(q) \cup {x}
  <2>1. PICK t : t = Append(q, x)
    OBVIOUS
  <2>2. /\ Len(q) \in Nat /\ DOMAIN t = 1..(Len(q) + 1) /\ DOMAIN q = 1..Len(q)
        /\ \A i \in 1..Len(q) : t[i] = q[i]
        /\ t[Len(q) + 1] = x
    BY <2>1
  <2>3. PICK dom : dom = 1..Len(q)
    OBVIOUS
  <2>4. PICK n : n = Len(q) + 1
    OBVIOUS
  <2>5. DOMAIN t = dom \cup {n}
    BY <2>2, <2>3, <2>4
  <2>6. {t[i] : i \in dom \cup {n}} = {q[i] : i \in dom} \cup {x}
    BY <2>2, <2>3, <2>4
  <2>7. QED
    BY <2>1, <2>2, <2>3, <2>5, <2>6 DEF ToSet
<1>2. ASSUME q # <<>> PROVE ToSet(q) = {Head(q)} \cup ToSet(Tail(q))
  <2>1. /\ Len(q) \in Nat /\ Len(q) > 0 /\ Head(q) = q[1]
        /\ Len(Tail(q)) = Len(q) - 1 /\ DOMAIN Tail(q) = 1..(Len(q) - 1)
        /\ DOMAIN q = 1..Len(q)
        /\ \A i \in 1..(Len(q) - 1) : Tail(q)[i] = q[i + 1]
    BY <1>2
  <2>2. ASSUME NEW e \in ToSet(q) PROVE e \in {Head(q)} \cup ToSet(Tail(q))
    <3>1. PICK i \in 1..Len(q) : e = q[i]
      BY <2>1 DEF ToSet
    <3>2. CASE i = 1
      BY <2>1, <3>1, <3>2
    <3>3. CASE i # 1
      <4>1. i - 1 \in 1..(Len(q) - 1) /\ (i - 1) + 1 = i
        BY <2>1, <3>3
      <4>2. e = Tail(q)[i - 1]
        BY <2>1, <3>1, <4>1
      <4>3. QED
        BY <2>1, <4>1, <4>2 DEF ToSet
    <3>4. QED
      BY <3>2, <3>3
  <2>3. {Head(q)} \cup ToSet(Tail(q)) \subseteq ToSet(q)
    <3>1. 1 \in DOMAIN q /\ \A i \in 1..(Len(q) - 1) : i + 1 \in DOMAIN q
      BY <2>1
    <3>2. \A e \in ToSet(Tail(q)) : \E i \in 1..(Len(q) - 1) : e = Tail(q)[i]
      BY <2>1 DEF ToSet
    <3>3. \A i \in DOMAIN q : q[i] \in ToSet(q)
      BY DEF ToSet
    <3>4. ToSet(Tail(q)) \subseteq ToSet(q)
      BY <2>1, <3>1, <3>2, <3>3
    <3>5. QED
      BY <2>1, <3>1, <3>3, <3>4
  <2>4. QED
    BY <2>2, <2>3
<1>3. QED
  BY <1>1, <1>2

\* A connection's records may be shortened by its thread, and may grow by what
\* upstream writes to it.
LEMMA GarbledStays ==
  ASSUME HopTyped, NEW c \in Conns, net[c].fwd # <<>>
  PROVE  GarbledRec \in ToSet(Tail(net[c].fwd)) => GarbledRec \in ToSet(net[c].fwd)
<1>1. PICK q \in Seq(WireRecs) : q = net[c].fwd
  BY HopFacts
<1>2. q # <<>> => ToSet(q) = {Head(q)} \cup ToSet(Tail(q))
  BY RowSets DEF WireRecs
<1>3. QED
  BY <1>1, <1>2

\* An error record stays guarded by a thread that drains its connection.
LEMMA ErrorStep ==
  ASSUME HopTyped, NEW c \in Conns, Guarded(c), Next
  PROVE  Guarded(c)'
<1>0. /\ conn \in Conns \cup {NoConn}
      /\ (conn = NoConn <=> upc \in {"start", "open"})
      /\ net \in [Conns -> Links] /\ net[c] \in Links
      /\ \A k \in Conns : down[k].pc \in {"off", "queued", "read", "put", "ack",
                                          "error", "drain"}
  BY DEF HopTyped, UpTyped, NetTyped, DownTyped
<1>a. ASSUME diode' = diode, killed \subseteq killed',
             net'[c].up = net[c].up, net'[c].back = net[c].back,
             net[c].torn => net'[c].torn,
             GarbledRec \in ToSet(net'[c].fwd) =>
               GarbledRec \in ToSet(net[c].fwd) \/ net'[c].torn,
             down[c].pc = "drain" /\ ~net[c].dead =>
               down'[c].pc = "drain" /\ ~net'[c].dead
      PROVE  Guarded(c)'
  BY <1>a DEF Guarded
<1>b. ASSUME diode' = diode, net'[c] = net[c], killed \subseteq killed',
             down[c].pc = "drain" => down'[c].pc = "drain"
      PROVE  Guarded(c)'
  BY <1>a, <1>b
<1>1. ASSUME NEW k \in Conns, Connect(k) PROVE Guarded(c)'
  <2>1. CASE c = k
    BY <1>0, <1>1, <2>1 DEF Connect, NoNet, Guarded, ToSet
  <2>2. CASE c # k
    BY <1>0, <1>1, <1>b, <2>2 DEF Connect, HopTyped, DownTyped
  <2>3. QED
    BY <2>1, <2>2
<1>2. CASE Flush
  <2>1. /\ diode' = diode /\ killed' = killed /\ down' = down
        /\ conn \in Conns /\ obuf # <<>>
        /\ net' = [net EXCEPT ![conn].fwd = Append(net[conn].fwd, OnWire),
                              ![conn].dead = down[conn].pc = "off"]
    BY <1>0, <1>2 DEF Flush, downVars
  <2>2. CASE c = conn
    <3>1. /\ net'[c].fwd = Append(net[c].fwd, OnWire)
          /\ net'[c].dead = (down[c].pc = "off")
          /\ net'[c].up = net[c].up /\ net'[c].back = net[c].back
          /\ net'[c].torn = net[c].torn
      BY <1>0, <2>1, <2>2 DEF Links
    <3>2. PICK rec \in WireRecs : rec = OnWire
      BY <2>1, WireFacts
    <3>3. net[c].fwd \in Seq(WireRecs)
      BY <1>0 DEF Links
    <3>4. ToSet(net'[c].fwd) = ToSet(net[c].fwd) \cup {rec}
      BY <3>1, <3>2, <3>3, RowSets
    <3>5. rec = GarbledRec => net'[c].torn
      <4>1. ~net[c].torn => rec \in HopRecs
        BY <2>1, <2>2, <3>2, WireFacts
      <4>2. QED
        BY <3>1, <4>1, NotGarbled
    <3>6. QED
      BY <1>a, <2>1, <3>1, <3>4, <3>5
  <2>3. CASE c # conn
    BY <1>0, <1>b, <2>1, <2>3
  <2>4. QED
    BY <2>2, <2>3
<1>c. CASE FlushWait \/ Stop
  <2>1. /\ diode' = diode /\ killed' = killed /\ down' = down /\ conn \in Conns
        /\ \E x : net' = [net EXCEPT ![conn].torn = x]
        /\ net[conn].torn => net'[conn].torn
    BY <1>0, <1>c DEF FlushWait, Stop, downVars, Links
  <2>2. /\ net'[c].up = net[c].up /\ net'[c].back = net[c].back
        /\ net'[c].fwd = net[c].fwd /\ net'[c].dead = net[c].dead
        /\ net[c].torn => net'[c].torn
    BY <1>0, <2>1 DEF Links
  <2>3. QED
    BY <1>a, <2>1, <2>2
<1>3. CASE Close \/ Kill
  <2>1. /\ net' = CloseUp(conn) /\ conn \in Conns /\ down' = down /\ diode' = diode
        /\ killed' = killed
    BY <1>0, <1>3 DEF Close, Kill, Flushed, downVars
  <2>2. CASE c = conn
    BY <2>1, <2>2, CloseFacts DEF Guarded
  <2>3. CASE c # conn
    BY <1>b, <2>1, <2>3, CloseFacts
  <2>4. QED
    BY <2>2, <2>3
<1>4. ASSUME NEW k \in Conns, DownRead(k) \/ DownReadGarbled(k) \/ Drain(k)
      PROVE  Guarded(c)'
  <2>1. /\ net' = [net EXCEPT ![k].fwd = Tail(net[k].fwd)] /\ net[k].fwd # <<>>
        /\ diode' = diode /\ killed' = killed
    BY <1>4 DEF DownRead, DownReadGarbled, Garbled, Drain
  <2>2. down[c].pc = "drain" => down'[c].pc = "drain"
    BY <1>4 DEF DownRead, DownReadGarbled, Drain, downVars, HopTyped, DownTyped
  <2>3. /\ net'[c].up = net[c].up /\ net'[c].back = net[c].back
        /\ net'[c].torn = net[c].torn /\ net'[c].dead = net[c].dead
        /\ net'[c].fwd = IF c = k THEN Tail(net[c].fwd) ELSE net[c].fwd
    BY <1>0, <2>1 DEF Links
  <2>4. GarbledRec \in ToSet(net'[c].fwd) => GarbledRec \in ToSet(net[c].fwd)
    BY <2>1, <2>3, GarbledStays
  <2>5. QED
    BY <1>a, <2>1, <2>2, <2>3, <2>4
<1>5. ASSUME NEW k \in Conns, DownAck(k) PROVE Guarded(c)'
  <2>1. /\ diode' = diode /\ killed' = killed /\ down[k].pc = "ack"
        /\ net' = IF diode THEN net ELSE Sent(k, down[k].w.reply)
    BY <1>5 DEF DownAck
  <2>2. CASE diode
    BY <2>1, <2>2 DEF Guarded
  <2>3. CASE ~diode
    <3>1. /\ net' = Sent(k, down[k].w.reply)
          /\ down[k].w \in Writers /\ down[k].w.reply # NoRec
      BY <2>1, <2>3 DEF HopTyped, DownTyped
    <3>2. down[k].w.reply \in Replies /\ down[k].w.reply # ErrorRec
      <4>1. down[k].w.reply \in Replies
        BY <3>1, WriterFacts
      <4>2. QED
        BY <4>1 DEF Replies, ErrorRec
    <3>3. CASE c = k
      <4>1. /\ net'[c].up = net[c].up /\ net'[c].torn = net[c].torn
            /\ net'[c].fwd = net[c].fwd
            /\ ToSet(net'[c].back) \subseteq ToSet(net[c].back) \cup {down[k].w.reply}
        BY <3>1, <3>2, <3>3, SentFacts
      <4>2. ErrorRec \in ToSet(net'[c].back) => ErrorRec \in ToSet(net[c].back)
        BY <3>2, <4>1
      <4>3. down[c].pc # "drain"
        BY <2>1, <3>3
      <4>4. QED
        BY <2>1, <4>1, <4>2, <4>3 DEF Guarded
    <3>4. CASE c # k
      <4>1. net'[c] = net[c]
        BY <3>1, <3>2, <3>4, SentFacts
      <4>2. down'[c] = down[c]
        BY <1>5, <3>4 DEF DownAck, HopTyped, DownTyped
      <4>3. QED
        BY <1>b, <2>1, <4>1, <4>2
    <3>5. QED
      BY <3>3, <3>4
  <2>4. QED
    BY <2>2, <2>3
<1>6. ASSUME NEW k \in Conns, DownError(k) PROVE Guarded(c)'
  <2>1. /\ diode' = diode /\ killed' = killed /\ down[k].pc = "error"
        /\ down' = [down EXCEPT ![k].pc = "drain"]
        /\ net' = IF diode THEN net ELSE [Sent(k, ErrorRec) EXCEPT ![k].fin = TRUE]
    BY <1>6 DEF DownError
  <2>2. CASE diode
    BY <2>1, <2>2 DEF Guarded
  <2>3. CASE ~diode
    <3>1. PICK s : s = Sent(k, ErrorRec)
      OBVIOUS
    <3>2. /\ s[c].fwd = net[c].fwd /\ s[c].up = net[c].up /\ s[c].torn = net[c].torn
          /\ c # k => s[c] = net[c]
          /\ c = k => s[c].dead = ~net[c].up
      BY <3>1, SentFacts
    <3>3. DOMAIN s = Conns /\ \A i \in Conns : DOMAIN s[i] = DOMAIN net[i]
      BY <1>0, <3>1 DEF Sent
    <3>4. net' = [s EXCEPT ![k].fin = TRUE]
      BY <2>1, <2>3, <3>1
    <3>5. /\ net'[c].fwd = s[c].fwd /\ net'[c].up = s[c].up
          /\ net'[c].torn = s[c].torn /\ net'[c].dead = s[c].dead
          /\ c # k => net'[c] = s[c]
      BY <1>0, <3>3, <3>4 DEF Links
    <3>6. CASE c = k
      <4>1. down'[c].pc = "drain"
        BY <2>1, <3>6 DEF HopTyped, DownTyped
      <4>2. net'[c].up => ~net'[c].dead
        BY <3>2, <3>5, <3>6
      <4>3. QED
        BY <3>2, <3>5, <4>1, <4>2 DEF Guarded
    <3>7. CASE c # k
      <4>1. down'[c] = down[c]
        BY <2>1, <3>7 DEF HopTyped, DownTyped
      <4>2. QED
        BY <1>b, <2>1, <3>2, <3>5, <3>7, <4>1
    <3>8. QED
      BY <3>6, <3>7
  <2>4. QED
    BY <2>2, <2>3
<1>7. ASSUME NEW k \in Conns, DownClose(k) PROVE Guarded(c)'
  <2>1. /\ diode' = diode /\ killed' = killed /\ Drained(k)
        /\ down' = [down EXCEPT ![k] = NoThread]
        /\ \E d : net' = [net EXCEPT ![k].fin = TRUE, ![k].dead = d]
    BY <1>7 DEF DownClose
  <2>2. /\ net'[c].fwd = net[c].fwd /\ net'[c].up = net[c].up
        /\ net'[c].torn = net[c].torn /\ net'[c].back = net[c].back
        /\ c # k => net'[c] = net[c]
    BY <1>0, <2>1 DEF Links
  <2>3. CASE c = k
    <3>1. ASSUME ~diode, Garbled(c) PROVE net[c].torn
      <4>1. PICK q \in Seq(WireRecs) : q = net[c].fwd
        BY HopFacts
      <4>2. q # <<>> => ToSet(q) = {Head(q)} \cup ToSet(Tail(q))
        BY RowSets DEF WireRecs
      <4>3. GarbledRec \in ToSet(q)
        BY <3>1, <4>1, <4>2 DEF Garbled
      <4>4. QED
        BY <4>1, <4>3 DEF Guarded
    <3>2. ~diode => net[c].dead \/ ~net[c].up \/ net[c].torn
      BY <2>1, <2>3, <3>1 DEF Drained, AtEnd
    <3>3. QED
      BY <2>1, <2>2, <3>2 DEF Guarded
  <2>4. CASE c # k
    BY <1>b, <2>1, <2>2, <2>4 DEF HopTyped, DownTyped
  <2>5. QED
    BY <2>3, <2>4
<1>8. ASSUME DownEnds, diode' = diode, {"down", "stopped"} \cap killed' # {}
      PROVE  Guarded(c)'
  <2>1. net'[c] = IF down[c].pc = "off" THEN net[c] ELSE
                    [net[c] EXCEPT !.fwd = <<>>, !.fin = TRUE,
                                   !.dead = net[c].dead \/ net[c].fwd # <<>>]
    BY <1>8 DEF DownEnds
  <2>2. net'[c].torn = net[c].torn
    BY <1>0, <2>1 DEF Links
  <2>3. GarbledRec \in ToSet(net'[c].fwd) => GarbledRec \in ToSet(net[c].fwd)
    BY <1>0, <2>1 DEF Links, ToSet
  <2>4. QED
    BY <1>8, <2>2, <2>3 DEF Guarded
<1>9. ASSUME NEW k \in Conns, DownKilled(k) \/ DownStop PROVE Guarded(c)'
  <2>1. /\ DownEnds /\ diode' = diode
        /\ killed' \in {killed \cup {"down"}, killed \cup {"stopped"}}
    BY <1>9 DEF DownKilled, DownStop
  <2>2. QED
    BY <1>8, <2>1
<1>10. ASSUME NEW k \in Conns, DownGivesUp(k) PROVE Guarded(c)'
  <2>1. /\ diode /\ diode' = diode
        /\ net' = [net EXCEPT ![k].fwd = <<>>, ![k].fin = TRUE]
    BY <1>10 DEF DownGivesUp
  <2>2. /\ net'[c].torn = net[c].torn
        /\ net'[c].fwd = IF c = k THEN <<>> ELSE net[c].fwd
    BY <1>0, <2>1 DEF Links
  <2>3. ToSet(<<>>) = {}
    BY DEF ToSet
  <2>4. QED
    BY <2>1, <2>2, <2>3 DEF Guarded
<1>11. ASSUME NEW k \in Conns, Break(k) PROVE Guarded(c)'
  <2>1. CASE c = k
    <3>1. /\ net'[c].fwd = <<>> /\ net'[c].back = <<>>
      BY <1>0, <1>11, <2>1 DEF Break, Links
    <3>2. ToSet(<<>>) = {}
      BY DEF ToSet
    <3>3. QED
      BY <3>1, <3>2 DEF Guarded
  <2>2. CASE c # k
    BY <1>0, <1>11, <1>b, <2>2 DEF Break, downVars
  <2>3. QED
    BY <2>1, <2>2
<1>12. ASSUME NEW k \in Conns,
              Accept(k) \/ DownReadThrows(k) \/ DownPut(k) \/ DownAckThrows(k)
                \/ DownPutThrows(k)
       PROVE  Guarded(c)'
  <2>1. net' = net /\ diode' = diode /\ killed' = killed
    BY <1>12 DEF Accept, DownReadThrows, DownPut, DownAckThrows, DownPutThrows
  <2>2. down[c].pc = "drain" => down'[c].pc = "drain"
    BY <1>12 DEF Accept, DownReadThrows, DownPut, DownAckThrows, DownPutThrows,
       HopTyped, DownTyped
  <2>3. QED
    BY <1>b, <2>1, <2>2
<1>13. CASE ReadSession \/ PutRecord \/ PutSyncDiode \/ PutSyncThrows \/ BeginFlush
              \/ FlushThrows \/ Notice \/ Look \/ ReadNext \/ Acknowledge
  BY <1>13, <1>b DEF ReadSession, PutRecord, PutSyncDiode, PutSyncThrows,
     BeginFlush, FlushThrows, Notice, Look, ReadNext, Acknowledge, downVars
<1>14. QED
  BY <1>1, <1>2, <1>3, <1>4, <1>5, <1>6, <1>7, <1>9, <1>10, <1>11,
     <1>12, <1>13, <1>c DEF Next, UpStep, DownStep
-----------------------------------------------------------------------------
(* Sessions on a connection.                                                *)

\* Whatever follows the record in hand also follows the session that downstream
\* is in once it has taken that record.
LEMMA PutAtLeast ==
  ASSUME NEW w \in Writers, NEW rec \in HopRecs, ~Refuses(w, rec),
         Follows(w.srec, rec)
  PROVE  /\ AtLeast(rec, Written(w, rec).srec)
         /\ rec.chan \in {"session", "event"} => Written(w, rec).srec.ts = rec.ts
<1>1. CASE rec \in Sessions
  <2>1. IsSession(rec) /\ rec.chan = "session"
    BY <1>1 DEF Sessions, SessionRec, IsSession
  <2>2. CASE StartsSession(w, rec)
    <3>1. Written(w, rec) = Started(w, rec)
      BY <2>1, <2>2 DEF Written
    <3>2. DOMAIN w = {"srec", "seqnum", "ended", "reply"}
      BY WriterFacts
    <3>3. Written(w, rec).srec = rec
      BY <3>1, <3>2 DEF Started
    <3>4. QED
      BY <3>3 DEF AtLeast
  <2>3. CASE ~StartsSession(w, rec)
    <3>1. Written(w, rec) = w
      BY <2>1, <2>3 DEF Written
    <3>2. w.srec = rec
      BY <2>1, <2>3 DEF StartsSession, Refuses
    <3>3. QED
      BY <3>1, <3>2 DEF AtLeast
  <2>4. QED
    BY <2>2, <2>3
<1>2. CASE rec \in Events
  <2>1. IsEvent(rec) /\ rec.chan = "event" /\ ~IsSession(rec)
    BY <1>2 DEF Events, EventRec, IsEvent, IsSession
  <2>2. Written(w, rec) = Numbered(w, rec)
    BY <2>1 DEF Written, StartsSession
  <2>3. DOMAIN w = {"srec", "seqnum", "ended", "reply"}
    BY WriterFacts
  <2>4. Written(w, rec).srec = w.srec
    BY <2>2, <2>3 DEF Numbered
  <2>5. w.srec.chan \in {"session", "event"} /\ w.srec.ts = rec.ts
    BY <2>1 DEF Follows
  <2>6. QED
    BY <2>4, <2>5 DEF AtLeast, Follows
<1>3. CASE rec = SyncRequest
  <2>1. rec.chan = "sync"
    BY <1>3 DEF SyncRequest
  <2>2. QED
    BY <2>1 DEF AtLeast, Follows
<1>4. QED
  BY <1>1, <1>2, <1>3 DEF HopRecs

\* A connection that nobody writes to or reads from stays in order, also when
\* upstream leaves it or finds it dead.
LEMMA UnderSame ==
  ASSUME NEW c \in Conns, UnderSession(c), down'[c] = down[c],
         net'[c].fwd = net[c].fwd,
         (conn' = c /\ ~net'[c].dead /\ ~net'[c].torn) =>
           /\ conn = c /\ ~net[c].dead /\ ~net[c].torn /\ obuf' = obuf
           /\ upc' \in {"put", "flush"} =>
                upc \in {"put", "flush"} /\ hand' = hand
           /\ upc' \in {"loop", "read"} =>
                upc \in {"loop", "read"} /\ batch' = batch /\ pos' = pos
  PROVE  UnderSession(c)'
<1>1. PICK t : t = Taken(c)
  OBVIOUS
<1>2. Taken(c)' = t
  BY <1>1 DEF Taken
<1>3. PICK sent : sent = LastOf(t, net[c].fwd)
  OBVIOUS
<1>4. LastOf(t, net'[c].fwd) = sent
  BY <1>3
<1>5. ASSUME down[c].pc \in {"queued", "read", "put", "ack"}
      PROVE  /\ down[c].pc = "put" => Follows(down[c].w.srec, down[c].hand)
             /\ RowFollows(t, net[c].fwd)
             /\ conn = c /\ ~net[c].dead /\ ~net[c].torn =>
                /\ RowFollows(sent, obuf)
                /\ upc \in {"put", "flush"} => Follows(LastOf(sent, obuf), hand)
                /\ upc \in {"loop", "read"} /\ batch <= Batches =>
                     Follows(LastOf(sent, obuf), Source(batch)[pos + 1])
  BY <1>1, <1>3, <1>5 DEF UnderSession
<1>6. ASSUME down'[c].pc \in {"queued", "read", "put", "ack"}
      PROVE  /\ down'[c].pc = "put" => Follows(down'[c].w.srec, down'[c].hand)
             /\ RowFollows(t, net'[c].fwd)
             /\ conn' = c /\ ~net'[c].dead /\ ~net'[c].torn =>
                /\ RowFollows(sent, obuf')
                /\ upc' \in {"put", "flush"} => Follows(LastOf(sent, obuf'), hand')
                /\ upc' \in {"loop", "read"} /\ batch' <= Batches =>
                     Follows(LastOf(sent, obuf'), Source(batch')[pos' + 1])
  BY <1>5, <1>6
<1>7. QED
  BY <1>2, <1>4, <1>6 DEF UnderSession

\* Upstream adds the record it has in hand to its buffer.
LEMMA UnderPut ==
  ASSUME HopTyped, NEW c \in Conns, UnderSession(c), PutRecord \/ PutSyncThrows
  PROVE  UnderSession(c)'
<1>1. /\ upc \in {"put", "flush"} /\ obuf' = Append(obuf, hand)
      /\ conn' = conn /\ net' = net /\ down' = down /\ batch' = batch /\ pos' = pos
      /\ upc' \in {"loop", "close"} /\ (upc' = "loop" => hand.chan # "sync")
  BY DEF PutRecord, PutSyncThrows, Room, downVars
<1>2. CASE conn = c /\ ~net[c].dead /\ ~net[c].torn
  <2>1. PICK t : t = Taken(c)
    OBVIOUS
  <2>2. Taken(c)' = t
    BY <1>1, <2>1 DEF Taken
  <2>3. PICK sent : sent = LastOf(t, net[c].fwd)
    OBVIOUS
  <2>4. LastOf(t, net'[c].fwd) = sent
    BY <1>1, <2>3
  <2>5. /\ batch \in 1..Batches /\ pos \in 1..(MaxSeq + 3)
        /\ hand = Source(batch)[pos] /\ obuf \in Seq(HopRecs) /\ MaxSeq \in Nat
    BY <1>1, TcpAssumption DEF HopTyped, UpTyped
  <2>6. hand \in HopRecs
    BY <2>5, SourceFacts
  <2>7. ASSUME down[c].pc \in {"queued", "read", "put", "ack"}
        PROVE  /\ RowFollows(sent, obuf') /\ LastOf(sent, obuf') = hand
    <3>1. RowFollows(sent, obuf) /\ Follows(LastOf(sent, obuf), hand)
      BY <1>1, <1>2, <2>1, <2>3, <2>7 DEF UnderSession
    <3>2. QED
      BY <1>1, <2>5, <2>6, <3>1, RowAppend
  <2>8. ASSUME upc' = "loop" PROVE Follows(hand, Source(batch')[pos' + 1])
    <3>1. pos \in 1..(MaxSeq + 2)
      BY <1>1, <2>5, <2>8, SourceFacts DEF SyncRequest
    <3>2. QED
      BY <1>1, <2>5, <3>1, SourceFollows
  <2>9. /\ down[c].pc \in {"queued", "read", "put", "ack"} =>
             /\ down[c].pc = "put" => Follows(down[c].w.srec, down[c].hand)
             /\ RowFollows(t, net[c].fwd)
    BY <2>1 DEF UnderSession
  <2>10. QED
    BY <1>1, <2>2, <2>4, <2>7, <2>8, <2>9 DEF UnderSession
<1>3. CASE ~(conn = c /\ ~net[c].dead /\ ~net[c].torn)
  BY <1>1, <1>3, UnderSame
<1>4. QED
  BY <1>2, <1>3

\* The first record in the buffer goes to the connection.
LEMMA UnderFlush ==
  ASSUME HopTyped, NEW c \in Conns, UnderSession(c), Flush
  PROVE  UnderSession(c)'
<1>1. /\ conn \in Conns /\ obuf # <<>> /\ ~net[conn].dead
      /\ net' = [net EXCEPT ![conn].fwd = Append(net[conn].fwd, OnWire),
                            ![conn].dead = down[conn].pc = "off"]
      /\ obuf' = Tail(obuf)
      /\ UNCHANGED <<upc, batch, pos, hand, conn, down>>
  BY DEF Flush, HopTyped, UpTyped, downVars
<1>2. /\ net \in [Conns -> Links] /\ net[c] \in Links /\ obuf \in Seq(WireRecs)
      /\ net[c].fwd \in Seq(WireRecs)
  BY <1>1, WireFacts DEF HopTyped, NetTyped, Links
<1>a. CASE conn = c /\ net[c].torn
  <2>1. OnWire = GarbledRec
    BY <1>1, <1>a, WireFacts
  <2>2. net'[c].fwd = Append(net[c].fwd, GarbledRec) /\ net'[c].torn
    BY <1>1, <1>2, <1>a, <2>1 DEF Links
  <2>3. PICK t : t = Taken(c)
    OBVIOUS
  <2>4. Taken(c)' = t
    BY <1>1, <2>3 DEF Taken
  <2>5. GarbledRec \in WireRecs /\ \A prev : Follows(prev, GarbledRec)
    BY DEF WireRecs, GarbledRec, Follows, IsEvent
  <2>6. ASSUME RowFollows(t, net[c].fwd) PROVE RowFollows(t, net'[c].fwd)
    BY <1>2, <2>2, <2>5, <2>6, RowAppend
  <2>7. QED
    BY <1>1, <2>2, <2>3, <2>4, <2>6 DEF UnderSession
<1>3. CASE conn = c /\ ~net[c].torn
  <2>1. PICK t : t = Taken(c)
    OBVIOUS
  <2>2. Taken(c)' = t
    BY <1>1, <2>1 DEF Taken
  <2>3. PICK sent : sent = LastOf(t, net[c].fwd)
    OBVIOUS
  <2>4. net'[c].fwd = Append(net[c].fwd, Head(obuf))
    BY <1>1, <1>2, <1>3, WireFacts DEF Links
  <2>5. PICK new : new = LastOf(t, net'[c].fwd)
    OBVIOUS
  <2>6. ASSUME down[c].pc \in {"queued", "read", "put", "ack"}
        PROVE  /\ RowFollows(t, net'[c].fwd) /\ RowFollows(new, obuf')
               /\ LastOf(new, obuf') = LastOf(sent, obuf)
    <3>1. RowFollows(t, net[c].fwd) /\ RowFollows(sent, obuf)
      BY <1>1, <1>3, <2>1, <2>3, <2>6 DEF UnderSession
    <3>2. QED
      BY <1>1, <1>2, <2>3, <2>4, <2>5, <3>1, RowMove
  <2>7. down[c].pc \in {"queued", "read", "put", "ack"} =>
          /\ down[c].pc = "put" => Follows(down[c].w.srec, down[c].hand)
          /\ upc \in {"put", "flush"} => Follows(LastOf(sent, obuf), hand)
          /\ upc \in {"loop", "read"} /\ batch <= Batches =>
               Follows(LastOf(sent, obuf), Source(batch)[pos + 1])
    BY <1>1, <1>3, <2>1, <2>3 DEF UnderSession
  <2>8. QED
    BY <1>1, <2>2, <2>5, <2>6, <2>7 DEF UnderSession
<1>4. CASE conn # c
  <2>1. net'[c] = net[c]
    BY <1>1, <1>2, <1>4
  <2>2. QED
    BY <1>1, <1>4, <2>1, UnderSame
<1>5. QED
  BY <1>3, <1>4, <1>a

\* Upstream reads a record from its source, or goes on to the next batch.
LEMMA UnderRead ==
  ASSUME HopTyped, NEW c \in Conns, UnderSession(c), ReadNext \/ Acknowledge
  PROVE  UnderSession(c)'
<1>1. /\ UNCHANGED <<conn, obuf, net, down>>
      /\ \/ /\ upc = "read" /\ upc' = "put" /\ batch <= Batches
            /\ hand' = Source(batch)[pos + 1]
         \/ upc = "ack" /\ upc' = "loop" /\ batch' = batch + 1 /\ pos' = 0
  BY DEF ReadNext, Acknowledge, downVars
<1>2. CASE conn = c /\ ~net[c].dead /\ ~net[c].torn
  <2>1. PICK t : t = Taken(c)
    OBVIOUS
  <2>2. Taken(c)' = t
    BY <1>1, <2>1 DEF Taken
  <2>3. PICK last : last = LastOf(LastOf(t, net[c].fwd), obuf)
    OBVIOUS
  <2>4. LastOf(LastOf(t, net'[c].fwd), obuf') = last
    BY <1>1, <2>3
  <2>5. down[c].pc \in {"queued", "read", "put", "ack"} =>
          /\ down[c].pc = "put" => Follows(down[c].w.srec, down[c].hand)
          /\ RowFollows(t, net[c].fwd)
          /\ RowFollows(LastOf(t, net[c].fwd), obuf)
          /\ upc \in {"loop", "read"} /\ batch <= Batches =>
               Follows(last, Source(batch)[pos + 1])
    BY <1>2, <2>1, <2>3 DEF UnderSession
  <2>6. ASSUME upc' = "loop", batch' <= Batches
        PROVE  Follows(last, Source(batch')[pos' + 1])
    <3>1. batch' \in 1..Batches /\ pos' = 0
      BY <1>1, <2>6, TcpAssumption DEF HopTyped, UpTyped
    <3>2. Source(batch')[pos' + 1] = SessionRec(SrcId, batch', "d")
      BY <3>1, SourceFacts
    <3>3. QED
      BY <3>2, FirstFollows
  <2>7. QED
    BY <1>1, <2>2, <2>4, <2>5, <2>6 DEF UnderSession
<1>3. CASE ~(conn = c /\ ~net[c].dead /\ ~net[c].torn)
  BY <1>1, <1>3, UnderSame
<1>4. QED
  BY <1>2, <1>3

\* A new connection carries nothing, and upstream has a session record in hand.
LEMMA UnderConnect ==
  ASSUME HopTyped, NEW c \in Conns, UnderSession(c), NEW k \in Conns, Connect(k)
  PROVE  UnderSession(c)'
<1>1. /\ conn' = k /\ obuf' = <<>> /\ upc = "open" /\ upc' = "put"
      /\ net' = [net EXCEPT ![k] = [NoNet EXCEPT !.up = TRUE]]
      /\ down' = [down EXCEPT ![k] = [NoThread EXCEPT !.pc = "queued"]]
      /\ hand' = hand
  BY DEF Connect
<1>2. Conns = DOMAIN net /\ Conns = DOMAIN down
  BY DEF HopTyped, NetTyped, DownTyped
<1>3. CASE c = k
  <2>1. /\ down'[c].pc = "queued" /\ down'[c].w.srec = NoRec
        /\ net'[c].fwd = <<>>
    BY <1>1, <1>2, <1>3 DEF NoThread, FreshWriter, NoNet
  <2>2. Taken(c)' = NoRec
    BY <2>1 DEF Taken
  <2>3. hand = SessionRec(SrcId, batch, "d")
    <3>1. batch \in 1..Batches /\ hand = Source(batch)[1]
      BY <1>1 DEF HopTyped, UpTyped
    <3>2. QED
      BY <3>1, SourceFacts
  <2>4. Follows(NoRec, hand')
    BY <1>1, <2>3, FirstFollows
  <2>5. RowFollows(NoRec, <<>>) /\ LastOf(NoRec, <<>>) = NoRec
    BY DEF RowFollows, LastOf
  <2>6. QED
    BY <1>1, <2>1, <2>2, <2>4, <2>5 DEF UnderSession
<1>4. CASE c # k
  BY <1>1, <1>2, <1>4, UnderSame
<1>5. QED
  BY <1>3, <1>4

\* Downstream takes the next record off the connection.
LEMMA UnderTake ==
  ASSUME HopTyped, NEW c \in Conns, UnderSession(c), DownRead(c)
  PROVE  UnderSession(c)'
<1>1. /\ down[c].pc = "read" /\ net[c].fwd # <<>>
      /\ UNCHANGED <<upc, batch, pos, hand, conn, obuf>>
  BY DEF DownRead, upVars
<1>2. /\ net \in [Conns -> Links] /\ net[c] \in Links /\ net[c].fwd \in Seq(WireRecs)
  BY DEF HopTyped, NetTyped, Links
<1>3. /\ net'[c].fwd = Tail(net[c].fwd) /\ net'[c].dead = net[c].dead
      /\ net'[c].torn = net[c].torn
  BY <1>2 DEF DownRead, Links
<1>4. /\ down'[c].pc = "put" /\ down'[c].hand = Head(net[c].fwd)
      /\ down'[c].w = down[c].w
  BY DEF DownRead, HopTyped, DownTyped
<1>5. PICK srec : srec = down[c].w.srec
  OBVIOUS
<1>6. PICK first : first = Head(net[c].fwd)
  OBVIOUS
<1>7. Taken(c) = srec /\ Taken(c)' = first
  BY <1>1, <1>4, <1>5, <1>6 DEF Taken
<1>8. /\ RowFollows(srec, net[c].fwd)
      /\ conn = c /\ ~net[c].dead /\ ~net[c].torn =>
           LET sent == LastOf(srec, net[c].fwd) IN
           /\ RowFollows(sent, obuf)
           /\ upc \in {"put", "flush"} => Follows(LastOf(sent, obuf), hand)
           /\ upc \in {"loop", "read"} /\ batch <= Batches =>
                Follows(LastOf(sent, obuf), Source(batch)[pos + 1])
  BY <1>1, <1>7 DEF UnderSession
<1>9. /\ Follows(srec, first) /\ RowFollows(first, net'[c].fwd)
      /\ LastOf(first, net'[c].fwd) = LastOf(srec, net[c].fwd)
  BY <1>1, <1>2, <1>3, <1>6, <1>8, RowHead
<1>10. QED
  BY <1>1, <1>3, <1>4, <1>5, <1>6, <1>7, <1>8, <1>9 DEF UnderSession

\* Octets that are dropped leave no event behind that has lost its session.
LEMMA UnderDrop ==
  ASSUME HopTyped, NEW c \in Conns, UnderSession(c), Guarded(c), DownReadGarbled(c)
  PROVE  UnderSession(c)'
<1>1. /\ down[c].pc = "read" /\ net[c].fwd # <<>> /\ Head(net[c].fwd) = GarbledRec
      /\ UNCHANGED <<conn, obuf, down>>
  BY DEF DownReadGarbled, Garbled, upVars, downVars
<1>2. /\ net \in [Conns -> Links] /\ net[c] \in Links /\ net[c].fwd \in Seq(WireRecs)
  BY DEF HopTyped, NetTyped, Links
<1>3. /\ net'[c].fwd = Tail(net[c].fwd) /\ net'[c].torn = net[c].torn
  BY <1>2 DEF DownReadGarbled, Links
<1>4. net'[c].torn
  <2>1. PICK q \in Seq(WireRecs) : q = net[c].fwd
    BY <1>2
  <2>2. q # <<>> => ToSet(q) = {Head(q)} \cup ToSet(Tail(q))
    BY RowSets DEF WireRecs
  <2>3. QED
    BY <1>1, <1>3, <2>1, <2>2 DEF Guarded
<1>5. PICK t : t = Taken(c)
  OBVIOUS
<1>6. Taken(c)' = t /\ RowFollows(t, net[c].fwd)
  BY <1>1, <1>5 DEF Taken, UnderSession
<1>7. RowFollows(GarbledRec, net'[c].fwd)
  BY <1>1, <1>2, <1>3, <1>6, RowHead
<1>8. AtLeast(GarbledRec, t)
  BY DEF AtLeast, Follows, GarbledRec
<1>9. net'[c].fwd \in Seq(WireRecs)
  BY <1>1, <1>2, <1>3
<1>10. RowFollows(t, net'[c].fwd)
  BY <1>7, <1>8, <1>9, RowSwap
<1>11. QED
  BY <1>1, <1>4, <1>6, <1>10 DEF UnderSession

\* Downstream has stored a record, and is in its session now.
LEMMA UnderStore ==
  ASSUME HopTyped, NEW c \in Conns, UnderSession(c), DownPut(c)
  PROVE  UnderSession(c)'
<1>1. /\ down[c].pc = "put" /\ ~Refuses(down[c].w, down[c].hand)
      /\ UNCHANGED <<upc, batch, pos, hand, conn, obuf, net>>
  BY DEF DownPut, upVars
<1>2. /\ net[c].fwd \in Seq(WireRecs) /\ HopRecs \subseteq WireRecs
      /\ obuf \in Seq(WireRecs)
      /\ down[c].w \in Writers /\ down[c].hand \in HopRecs
  <2>1. obuf \in Seq(HopRecs) /\ HopRecs \subseteq WireRecs
    BY DEF HopTyped, UpTyped, WireRecs
  <2>2. obuf \in Seq(WireRecs)
    BY <2>1
  <2>3. QED
    BY <1>1, <2>1, <2>2, HopFacts
<1>3. PICK w2 : w2 = Written(down[c].w, down[c].hand)
  OBVIOUS
<1>4. down'[c].pc \in {"read", "ack"} /\ down'[c].w = w2
  BY <1>3 DEF DownPut, HopTyped, DownTyped
<1>5. PICK t : t = down[c].hand
  OBVIOUS
<1>6. PICK srec : srec = w2.srec
  OBVIOUS
<1>7. Taken(c) = t /\ Taken(c)' = srec
  BY <1>1, <1>4, <1>5, <1>6 DEF Taken
<1>8. /\ Follows(down[c].w.srec, down[c].hand)
      /\ RowFollows(t, net[c].fwd)
      /\ conn = c /\ ~net[c].dead /\ ~net[c].torn =>
           LET sent == LastOf(t, net[c].fwd) IN
           /\ RowFollows(sent, obuf)
           /\ upc \in {"put", "flush"} => Follows(LastOf(sent, obuf), hand)
           /\ upc \in {"loop", "read"} /\ batch <= Batches =>
                Follows(LastOf(sent, obuf), Source(batch)[pos + 1])
  BY <1>1, <1>7 DEF UnderSession
<1>9. AtLeast(t, srec)
  BY <1>1, <1>2, <1>3, <1>5, <1>6, <1>8, PutAtLeast
<1>10. PICK old : old = LastOf(t, net[c].fwd)
  OBVIOUS
<1>11. PICK new : new = LastOf(srec, net[c].fwd)
  OBVIOUS
<1>12. RowFollows(srec, net[c].fwd) /\ AtLeast(old, new)
  BY <1>2, <1>8, <1>9, <1>10, <1>11, RowSwap
<1>13. ASSUME conn = c, ~net[c].dead, ~net[c].torn
       PROVE  /\ RowFollows(new, obuf)
              /\ upc \in {"put", "flush"} => Follows(LastOf(new, obuf), hand)
              /\ upc \in {"loop", "read"} /\ batch <= Batches =>
                   Follows(LastOf(new, obuf), Source(batch)[pos + 1])
  <2>1. /\ RowFollows(old, obuf)
        /\ upc \in {"put", "flush"} => Follows(LastOf(old, obuf), hand)
        /\ upc \in {"loop", "read"} /\ batch <= Batches =>
             Follows(LastOf(old, obuf), Source(batch)[pos + 1])
    BY <1>8, <1>10, <1>13
  <2>2. RowFollows(new, obuf) /\ AtLeast(LastOf(old, obuf), LastOf(new, obuf))
    BY <1>2, <1>12, <2>1, RowSwap
  <2>3. upc \in {"put", "flush"} => hand \in HopRecs
    BY SourceFacts DEF HopTyped, UpTyped
  <2>4. upc \in {"loop", "read"} /\ batch <= Batches => Source(batch)[pos + 1] \in HopRecs
    <3>1. upc \in {"loop", "read"} /\ batch <= Batches =>
            batch \in 1..Batches /\ pos + 1 \in 1..(MaxSeq + 3)
      BY TcpAssumption DEF HopTyped, UpTyped
    <3>2. QED
      BY <3>1, SourceFacts
  <2>5. QED
    BY <1>2, <2>1, <2>2, <2>3, <2>4 DEF AtLeast
<1>14. LastOf(srec, net'[c].fwd) = new
  BY <1>1, <1>11
<1>15. QED
  BY <1>1, <1>4, <1>7, <1>12, <1>13, <1>14 DEF UnderSession

\* Every step leaves every connection in order.
LEMMA UnderStep ==
  ASSUME HopTyped, NEW c \in Conns, UnderSession(c), Guarded(c), Next
  PROVE  UnderSession(c)'
<1>0. /\ net \in [Conns -> Links] /\ net[c] \in Links /\ Conns = DOMAIN down
      /\ conn \in Conns \cup {NoConn} /\ NoConn \notin Conns
      /\ (conn = NoConn <=> upc \in {"start", "open"})
  BY TcpAssumption DEF HopTyped, NetTyped, DownTyped, UpTyped
<1>a. ASSUME down'[c].pc \notin {"queued", "read", "put", "ack"}
      PROVE  UnderSession(c)'
  BY <1>a DEF UnderSession
<1>b. ASSUME UNCHANGED <<upVars, net>>, down'[c] = down[c]
      PROVE  UnderSession(c)'
  BY <1>b, UnderSame DEF upVars
<1>1. CASE ReadSession
  BY <1>0, <1>1, UnderSame DEF ReadSession, downVars
<1>2. ASSUME NEW k \in Conns, Connect(k) PROVE UnderSession(c)'
  BY <1>2, UnderConnect
<1>3. CASE PutRecord \/ PutSyncThrows
  BY <1>3, UnderPut
<1>4. CASE PutSyncDiode \/ BeginFlush \/ FlushThrows \/ Notice \/ Look
  BY <1>4, UnderSame DEF PutSyncDiode, BeginFlush, FlushThrows, Notice, Look,
     downVars
<1>c. CASE FlushWait \/ Stop
  <2>1. /\ conn \in Conns /\ conn' = conn /\ obuf' = obuf /\ hand' = hand
        /\ batch' = batch /\ pos' = pos /\ down' = down
        /\ upc' = "stop" \/ (upc' = upc /\ net'[conn].torn)
        /\ \E x : net' = [net EXCEPT ![conn].torn = x]
        /\ net[conn].torn => net'[conn].torn
    <3>1. CASE FlushWait
      BY <1>0, <3>1 DEF FlushWait, upVars, downVars, Links
    <3>2. CASE Stop
      <4>1. PICK x : x = (net[conn].torn \/ (upc = "flush" /\ obuf # <<>>
                                              /\ Len(obuf) < OutCap))
        OBVIOUS
      <4>2. net' = [net EXCEPT ![conn].torn = x] /\ conn \in Conns
            /\ (net[conn].torn => x)
        BY <1>0, <3>2, <4>1 DEF Stop
      <4>3. net[conn].torn => net'[conn].torn
        BY <1>0, <4>2 DEF Links
      <4>4. QED
        BY <3>2, <4>2, <4>3 DEF Stop, downVars
    <3>3. QED
      BY <1>c, <3>1, <3>2
  <2>2. /\ net'[c].fwd = net[c].fwd /\ net'[c].dead = net[c].dead
        /\ net[c].torn => net'[c].torn
        /\ c # conn => net'[c] = net[c]
    BY <1>0, <2>1 DEF Links
  <2>3. QED
    BY <2>1, <2>2, UnderSame
<1>d. ASSUME NEW k \in Conns, DownReadGarbled(k) PROVE UnderSession(c)'
  <2>1. CASE k = c
    BY <1>d, <2>1, UnderDrop
  <2>2. CASE k # c
    BY <1>0, <1>d, <2>2, UnderSame DEF DownReadGarbled, upVars, downVars
  <2>3. QED
    BY <2>1, <2>2
<1>5. CASE Flush
  BY <1>5, UnderFlush
<1>6. CASE Close \/ Kill
  <2>1. /\ net' = CloseUp(conn) /\ conn \in Conns /\ conn' = NoConn /\ down' = down
    BY <1>0, <1>6 DEF Close, Kill, Flushed, downVars
  <2>2. QED
    BY <1>0, <2>1, CloseFacts, UnderSame
<1>7. CASE ReadNext \/ Acknowledge
  BY <1>7, UnderRead
<1>8. ASSUME NEW k \in Conns, DownRead(k) PROVE UnderSession(c)'
  <2>1. CASE k = c
    BY <1>8, <2>1, UnderTake
  <2>2. CASE k # c
    BY <1>0, <1>8, <2>2, UnderSame DEF DownRead, upVars
  <2>3. QED
    BY <2>1, <2>2
<1>9. ASSUME NEW k \in Conns, DownPut(k) PROVE UnderSession(c)'
  <2>1. CASE k = c
    BY <1>9, <2>1, UnderStore
  <2>2. CASE k # c
    BY <1>0, <1>9, <1>b, <2>2 DEF DownPut
  <2>3. QED
    BY <2>1, <2>2
<1>10. ASSUME NEW k \in Conns,
              DownReadThrows(k) \/ DownAckThrows(k) \/ DownPutThrows(k)
       PROVE  UnderSession(c)'
  <2>1. CASE k = c
    BY <1>0, <1>10, <1>a, <2>1 DEF DownReadThrows, DownAckThrows, DownPutThrows,
       HopTyped, DownTyped
  <2>2. CASE k # c
    BY <1>0, <1>10, <1>b, <2>2 DEF DownReadThrows, DownAckThrows, DownPutThrows
  <2>3. QED
    BY <2>1, <2>2
<1>11. ASSUME NEW k \in Conns, DownError(k) \/ DownGivesUp(k) \/ DownClose(k)
       PROVE  UnderSession(c)'
  <2>1. CASE k = c
    BY <1>0, <1>11, <1>a, <2>1 DEF DownError, DownGivesUp, DownClose, NoThread,
       HopTyped, DownTyped
  <2>2. CASE k # c
    <3>1. down'[c] = down[c] /\ UNCHANGED upVars
      BY <1>0, <1>11, <2>2 DEF DownError, DownGivesUp, DownClose
    <3>2. net'[c] = net[c]
      <4>1. CASE DownError(k)
        <5>1. net' \in {net, [Sent(k, ErrorRec) EXCEPT ![k].fin = TRUE]}
          BY <4>1 DEF DownError
        <5>2. Sent(k, ErrorRec)[c] = net[c]
          BY <2>2, SentFacts
        <5>3. DOMAIN Sent(k, ErrorRec) = Conns
          BY <1>0 DEF Sent
        <5>4. QED
          BY <2>2, <5>1, <5>2, <5>3
      <4>2. CASE DownGivesUp(k) \/ DownClose(k)
        BY <1>0, <2>2, <4>2 DEF DownGivesUp, DownClose
      <4>3. QED
        BY <1>11, <4>1, <4>2
    <3>3. QED
      BY <3>1, <3>2, UnderSame DEF upVars
  <2>3. QED
    BY <2>1, <2>2
<1>12. ASSUME NEW k \in Conns, DownAck(k) PROVE UnderSession(c)'
  <2>1. UNCHANGED upVars
    BY <1>12 DEF DownAck
  <2>2. net' = net \/ (~diode /\ net' = Sent(k, down[k].w.reply))
    BY <1>12 DEF DownAck
  <2>3. down[k].w.reply \in Replies
    <3>1. down[k].w \in Writers /\ down[k].w.reply # NoRec
      BY <1>12 DEF DownAck, HopTyped, DownTyped
    <3>2. QED
      BY <3>1, WriterFacts
  <2>4. CASE k = c
    <3>1. /\ net'[c].fwd = net[c].fwd /\ (~net'[c].dead => ~net[c].dead)
          /\ net'[c].torn = net[c].torn
      BY <1>12, <2>2, <2>3, <2>4, SentFacts DEF DownAck
    <3>2. /\ down[c].pc = "ack" /\ down'[c].pc = "read"
          /\ down'[c].w.srec = down[c].w.srec
      <4>1. DOMAIN down[c].w = {"srec", "seqnum", "ended", "reply"}
        BY WriterFacts, HopFacts
      <4>2. Replied(down[c].w).srec = down[c].w.srec
        BY <4>1 DEF Replied
      <4>3. QED
        BY <1>12, <2>4, <4>2 DEF DownAck, HopTyped, DownTyped
    <3>3. PICK t : t = Taken(c)
      OBVIOUS
    <3>4. Taken(c)' = t
      BY <3>2, <3>3 DEF Taken
    <3>5. PICK sent : sent = LastOf(t, net[c].fwd)
      OBVIOUS
    <3>6. LastOf(t, net'[c].fwd) = sent
      BY <3>1, <3>5
    <3>7. /\ RowFollows(t, net[c].fwd)
          /\ conn = c /\ ~net[c].dead /\ ~net[c].torn =>
               /\ RowFollows(sent, obuf)
               /\ upc \in {"put", "flush"} => Follows(LastOf(sent, obuf), hand)
               /\ upc \in {"loop", "read"} /\ batch <= Batches =>
                    Follows(LastOf(sent, obuf), Source(batch)[pos + 1])
      BY <3>2, <3>3, <3>5 DEF UnderSession
    <3>8. QED
      BY <2>1, <3>1, <3>2, <3>4, <3>6, <3>7 DEF UnderSession, upVars
  <2>5. CASE k # c
    <3>1. net'[c] = net[c]
      BY <2>2, <2>3, <2>5, SentFacts
    <3>2. down'[c] = down[c]
      BY <1>0, <1>12, <2>5 DEF DownAck
    <3>3. QED
      BY <2>1, <3>1, <3>2, UnderSame DEF upVars
  <2>6. QED
    BY <2>4, <2>5
<1>13. ASSUME NEW k \in Conns, Accept(k) PROVE UnderSession(c)'
  <2>1. CASE k = c
    <3>1. /\ UNCHANGED <<upVars, net>>
          /\ down[c].pc = "queued" /\ down'[c].pc = "read"
          /\ down'[c].w = down[c].w
      BY <1>0, <1>13, <2>1 DEF Accept, HopTyped, DownTyped
    <3>2. PICK t : t = Taken(c)
      OBVIOUS
    <3>3. Taken(c)' = t
      BY <3>1, <3>2 DEF Taken
    <3>4. PICK sent : sent = LastOf(t, net[c].fwd)
      OBVIOUS
    <3>5. LastOf(t, net'[c].fwd) = sent
      BY <3>1, <3>4
    <3>6. /\ RowFollows(t, net[c].fwd)
          /\ conn = c /\ ~net[c].dead /\ ~net[c].torn =>
               /\ RowFollows(sent, obuf)
               /\ upc \in {"put", "flush"} => Follows(LastOf(sent, obuf), hand)
               /\ upc \in {"loop", "read"} /\ batch <= Batches =>
                    Follows(LastOf(sent, obuf), Source(batch)[pos + 1])
      BY <3>1, <3>2, <3>4 DEF UnderSession
    <3>7. QED
      BY <3>1, <3>3, <3>5, <3>6 DEF UnderSession, upVars
  <2>2. CASE k # c
    BY <1>0, <1>13, <1>b, <2>2 DEF Accept
  <2>3. QED
    BY <2>1, <2>2
<1>14. ASSUME NEW k \in Conns, Drain(k) PROVE UnderSession(c)'
  <2>1. CASE k = c
    BY <1>14, <1>a, <2>1 DEF Drain
  <2>2. CASE k # c
    BY <1>0, <1>14, <2>2, UnderSame DEF Drain, upVars
  <2>3. QED
    BY <2>1, <2>2
<1>15. ASSUME DownEnds PROVE UnderSession(c)'
  BY <1>15, <1>a DEF DownEnds, NoThread
<1>16. ASSUME NEW k \in Conns, DownKilled(k) PROVE UnderSession(c)'
  BY <1>15, <1>16 DEF DownKilled
<1>17. CASE DownStop
  BY <1>15, <1>17 DEF DownStop
<1>18. ASSUME NEW k \in Conns, Break(k) PROVE UnderSession(c)'
  <2>1. CASE k = c
    <3>1. net'[c].fwd = <<>> /\ net'[c].dead /\ UNCHANGED <<upVars, down>>
      BY <1>0, <1>18, <2>1 DEF Break, Links, downVars
    <3>2. ASSUME NEW t PROVE RowFollows(t, <<>>)
      BY DEF RowFollows
    <3>3. RowFollows(Taken(c)', net'[c].fwd)
      BY <3>1, <3>2
    <3>4. QED
      BY <3>1, <3>3 DEF UnderSession
  <2>2. CASE k # c
    BY <1>0, <1>18, <2>2, UnderSame DEF Break, upVars, downVars
  <2>3. QED
    BY <2>1, <2>2
<1>19. QED
  BY <1>1, <1>2, <1>3, <1>4, <1>5, <1>6, <1>7, <1>8, <1>9, <1>10, <1>11,
     <1>12, <1>13, <1>14, <1>16, <1>17, <1>18, <1>c, <1>d
  DEF Next, UpStep, DownStep

-----------------------------------------------------------------------------
(* What is stored, and what is lost.                                        *)

\* Nothing but the destination's writers stores anything, and they store each
\* record under the session that it follows.
LEMMA StoredStep ==
  ASSUME HopTyped, NothingMisattributed, \A c \in Conns : UnderSession(c), Next
  PROVE  NothingMisattributed'
<1>1. ASSUME NEW c \in Conns, DownPut(c) \/ DownPutThrows(c)
      PROVE  NothingMisattributed'
  <2>1. PICK rec : rec = down[c].hand
    OBVIOUS
  <2>2. PICK ts : ts = Written(down[c].w, rec).srec.ts
    OBVIOUS
  <2>3. /\ down[c].pc = "put"
        /\ db' # db => /\ ~Refuses(down[c].w, rec)
                       /\ rec.chan \in {"session", "event"}
                       /\ db' = db \cup {[ts |-> ts, rec |-> rec]}
    BY <1>1, <2>1, <2>2 DEF DownPut, DownPutThrows
  <2>4. /\ down[c].w \in Writers /\ rec \in HopRecs
        /\ Follows(down[c].w.srec, rec)
    BY <2>1, <2>3, HopFacts DEF UnderSession
  <2>5. db' # db => ts = rec.ts
    BY <2>2, <2>3, <2>4, PutAtLeast
  <2>6. QED
    BY <2>3, <2>5 DEF NothingMisattributed
<1>2. CASE db' = db
  BY <1>2 DEF NothingMisattributed
<1>3. UNCHANGED db \/ \E c \in Conns : DownPut(c) \/ DownPutThrows(c)
  BY DEF Next, UpStep, DownStep, Stop, Kill, DownStop, Break, ReadSession,
     Connect, PutRecord, PutSyncDiode, PutSyncThrows, BeginFlush, Flush,
     FlushWait, FlushThrows, Close, Notice, Look, ReadNext, Acknowledge, Accept,
     DownRead, DownReadGarbled, DownReadThrows, DownAck, DownAckThrows, DownError,
     DownKilled, DownGivesUp, Drain, DownClose, downVars
<1>4. QED
  BY <1>1, <1>2, <1>3

\* A session or event record that follows the session in force is not refused.
LEMMA NotRefused ==
  ASSUME NEW w \in Writers, NEW rec \in Sessions \cup Events, Follows(w.srec, rec)
  PROVE  ~Refuses(w, rec)
<1>1. CASE rec \in Sessions
  <2>1. PICK b \in 1..Batches : rec = SessionRec(SrcId, b, "d")
    BY <1>1 DEF Sessions
  <2>2. IsSession(rec) /\ ~IsEvent(rec) /\ rec.src = SrcId
    BY <2>1 DEF SessionRec, IsSession, IsEvent
  <2>3. ASSUME w.srec # NoRec, SameTs(w.srec, rec) PROVE w.srec = rec
    <3>1. w.srec \in Sessions
      BY <2>3, WriterFacts
    <3>2. PICK k \in 1..Batches : w.srec = SessionRec(SrcId, k, "d")
      BY <3>1 DEF Sessions
    <3>3. w.srec.ts = k /\ rec.ts = b
      BY <2>1, <3>2 DEF SessionRec
    <3>4. k = b
      BY <2>3, <3>3 DEF SameTs
    <3>5. QED
      BY <2>1, <3>2, <3>4
  <2>4. QED
    BY <2>2, <2>3 DEF Refuses
<1>2. CASE rec \in Events
  <2>1. IsEvent(rec) /\ ~IsSession(rec)
    BY <1>2 DEF Events, EventRec, IsEvent, IsSession
  <2>2. w.srec # NoRec
    BY <2>1 DEF Follows, NoRec
  <2>3. w.ended = FALSE
    BY <2>2, WriterFacts
  <2>4. QED
    BY <2>1, <2>2, <2>3 DEF Refuses
<1>3. QED
  BY <1>1, <1>2

\* Stored, or on upstream's connection.
Safe(e) == Document(e) \in db \/ OnItsWay(e)

\* A step that changes neither upstream nor its connection loses nothing.
LEMMA LosslessSame ==
  ASSUME HopTyped, Lossless, UNCHANGED <<diode, waited, upVars>>,
         faults' = 0 => faults = 0,
         db \subseteq db',
         conn \in Conns => net'[conn] = net[conn] /\ down'[conn] = down[conn]
  PROVE  Lossless'
<1>1. ASSUME diode, faults' = 0, ~waited PROVE Lossless'
  <2>1. /\ upc \notin {"close", "stop"}
        /\ upc \in {"start", "open"} => batch = 1
        /\ conn # NoConn => Intact(conn)
        /\ PutArrives
    BY <1>1 DEF Lossless, upVars
  <2>2. conn \in Conns \cup {NoConn} /\ (conn = NoConn <=> upc \in {"start", "open"})
    BY DEF HopTyped, UpTyped
  <2>3. UNCHANGED <<upc, batch, pos, hand, conn, obuf>>
    BY DEF upVars
  <2>4. conn' # NoConn => Intact(conn)'
    BY <2>1, <2>2, <2>3 DEF Intact
  <2>5. PutArrives'
    <3>1. CASE conn = NoConn
      <4>1. batch = 1 /\ pos <= 1 /\ NumberPut' <= 1 /\ NumberPut' \in Nat
        BY <2>1, <2>2, <2>3, <3>1, TcpAssumption DEF HopTyped, UpTyped, NumberPut
      <4>2. QED
        BY <2>3, <4>1, TcpAssumption DEF PutArrives
    <3>2. CASE conn \in Conns
      <4>1. NumberPut' = NumberPut
        BY <2>3 DEF NumberPut
      <4>2. ASSUME NEW e, Safe(e) PROVE Safe(e)'
        BY <2>3, <3>2, <4>2 DEF Safe, OnItsWay, Document
      <4>3. QED
        BY <2>1, <2>3, <4>1, <4>2 DEF PutArrives, Safe
    <3>3. QED
      BY <2>2, <3>1, <3>2
  <2>6. QED
    BY <2>1, <2>3, <2>4, <2>5 DEF Lossless
<1>2. QED
  BY <1>1 DEF Lossless

\* Upstream puts what it reads on its connection, which nothing disturbs.
LEMMA LosslessUp ==
  ASSUME HopTyped, UpTyped', Lossless, UpStep \/ ReadNext, diode, faults = 0,
         ~waited, ~waited'
  PROVE  Lossless'
<1>0. /\ upc \notin {"close", "stop"}
      /\ upc \in {"start", "open"} => batch = 1
      /\ conn # NoConn => Intact(conn)
      /\ \A b \in 1..batch : \A n \in 0..MaxSeq :
           (b < batch \/ n + 2 <= NumberPut) => Safe(EventRec(b, n))
  BY DEF Lossless, PutArrives, Safe
<1>1. /\ Batches \in Nat /\ MaxSeq \in Nat /\ NoConn \notin Conns
      /\ batch \in 1..(Batches + 1) /\ pos \in 0..(MaxSeq + 3)
      /\ conn \in Conns \cup {NoConn} /\ (conn = NoConn <=> upc \in {"start", "open"})
      /\ upc = "start" => pos = 0
      /\ upc = "open" => pos = 1
      /\ upc \in {"put", "flush"} => pos > 0 /\ batch <= Batches
      /\ obuf \in Seq(HopRecs) /\ net \in [Conns -> Links]
      /\ \A c \in Conns : net[c].fwd \in Seq(WireRecs)
  BY TcpAssumption, HopFacts DEF HopTyped, UpTyped, NetTyped
\* The batch, the place in it and the connection remain, and so does the rest.
<1>a. ASSUME upc' \notin {"start", "open", "close", "stop"}, conn' = conn,
             conn \in Conns, Intact(conn)', batch' = batch, NumberPut' = NumberPut,
             \A e : Safe(e) => Safe(e)'
      PROVE  Lossless'
  <2>1. PutArrives'
    BY <1>0, <1>a DEF PutArrives, Safe
  <2>2. QED
    BY <1>a, <2>1 DEF Lossless
<1>2. CASE ReadSession
  <2>1. /\ upc = "start" /\ upc' = "open" /\ batch' = batch /\ conn' = conn
        /\ pos' = 1
    BY <1>2 DEF ReadSession
  <2>2. batch' = 1 /\ NumberPut' = 1
    BY <1>0, <2>1 DEF NumberPut
  <2>3. PutArrives'
    BY <1>1, <2>2 DEF PutArrives
  <2>4. QED
    BY <1>1, <2>1, <2>2, <2>3 DEF Lossless
<1>3. ASSUME NEW c \in Conns, Connect(c) PROVE Lossless'
  <2>1. /\ upc = "open" /\ upc' = "put" /\ batch' = batch /\ conn' = c
        /\ pos' = pos /\ obuf' = <<>>
        /\ net' = [net EXCEPT ![c] = [NoNet EXCEPT !.up = TRUE]]
        /\ down' = [down EXCEPT ![c] = [NoThread EXCEPT !.pc = "queued"]]
    BY <1>3 DEF Connect
  <2>2. batch' = 1 /\ NumberPut' = 0
    BY <1>0, <1>1, <2>1 DEF NumberPut
  <2>3. PutArrives'
    BY <1>1, <2>2 DEF PutArrives
  <2>4. Intact(c)'
    <3>1. /\ net'[c].up /\ ~net'[c].dead /\ ~net'[c].torn /\ ~net'[c].fin
          /\ net'[c].back = <<>> /\ net'[c].fwd = <<>>
      BY <1>1, <2>1 DEF NoNet
    <3>2. down'[c].pc = "queued"
      BY <2>1 DEF NoThread, HopTyped, DownTyped
    <3>3. ToSet(<<>>) = {}
      BY DEF ToSet
    <3>4. QED
      BY <2>1, <3>1, <3>2, <3>3 DEF Intact
  <2>5. QED
    BY <2>1, <2>2, <2>3, <2>4 DEF Lossless
<1>4. CASE PutRecord
  <2>1. /\ upc \in {"put", "flush"} /\ upc' = "loop" /\ conn' = conn
        /\ batch' = batch /\ pos' = pos /\ hand.chan # "sync"
        /\ obuf' = Append(obuf, hand) /\ net' = net /\ down' = down /\ db' = db
    BY <1>4 DEF PutRecord, Room, downVars
  <2>2. conn \in Conns /\ batch \in 1..Batches /\ hand = Source(batch)[pos]
    BY <1>1, <2>1 DEF HopTyped, UpTyped
  <2>3. hand \in HopRecs /\ pos \in 1..(MaxSeq + 3) /\ NumberPut = pos - 1
    <3>1. pos \in 1..(MaxSeq + 3)
      BY <1>1, <2>1, TcpAssumption
    <3>2. hand \in HopRecs
      BY <2>2, <3>1, SourceFacts
    <3>3. NumberPut = pos - 1
      BY <2>1 DEF NumberPut
    <3>4. QED
      BY <3>1, <3>2, <3>3
  <2>4. ToSet(obuf') = ToSet(obuf) \cup {hand}
    BY <1>1, <2>1, <2>3, RowSets
  <2>5. ASSUME NEW e, Safe(e) \/ e = hand PROVE Safe(e)'
    BY <2>1, <2>4, <2>5 DEF Safe, OnItsWay, Document
  <2>6. Intact(conn)'
    <3>1. hand # SyncRequest /\ hand # GarbledRec
      <4>1. \A r \in HopRecs : r # GarbledRec
        BY NotGarbled
      <4>2. QED
        BY <2>1, <2>3, <4>1 DEF SyncRequest
    <3>2. QED
      BY <1>0, <1>1, <2>1, <2>2, <2>4, <3>1 DEF Intact
  <2>7. ASSUME NEW b \in 1..batch, NEW n \in 0..MaxSeq,
               b < batch \/ n + 2 <= pos
        PROVE  Safe(EventRec(b, n))'
    <3>1. CASE b < batch \/ n + 2 <= pos - 1
      BY <1>0, <2>3, <2>5, <3>1
    <3>2. CASE b = batch /\ n + 2 = pos
      <4>1. pos \in 2..(MaxSeq + 2) /\ pos - 2 = n
        BY <1>1, <3>2
      <4>2. hand = EventRec(b, n)
        BY <2>2, <3>2, <4>1, SourceFacts
      <4>3. QED
        BY <2>5, <4>2
    <3>3. QED
      BY <1>1, <2>7, <3>1, <3>2
  <2>8. NumberPut' = pos
    BY <2>1 DEF NumberPut
  <2>9. PutArrives'
    BY <2>1, <2>7, <2>8 DEF PutArrives, Safe
  <2>10. QED
    BY <2>1, <2>6, <2>9 DEF Lossless
<1>5. CASE PutSyncDiode
  <2>1. /\ upc = "put" /\ upc' = "ack" /\ conn' = conn /\ batch' = batch
        /\ pos' = pos /\ obuf' = obuf /\ net' = net /\ down' = down /\ db' = db
    BY <1>5 DEF PutSyncDiode, downVars
  <2>2. pos = MaxSeq + 3
    BY <2>1 DEF UpTyped
  <2>3. ASSUME NEW b \in 1..batch, NEW n \in 0..MaxSeq
        PROVE  Safe(EventRec(b, n))'
    <3>1. NumberPut = MaxSeq + 2 /\ n + 2 <= MaxSeq + 2
      BY <1>1, <2>1, <2>2 DEF NumberPut
    <3>2. Safe(EventRec(b, n))
      BY <1>0, <3>1
    <3>3. QED
      BY <2>1, <3>2 DEF Safe, OnItsWay, Document
  <2>4. PutArrives'
    BY <2>1, <2>3 DEF PutArrives, Safe
  <2>5. QED
    BY <1>0, <2>1, <2>4 DEF Lossless, Intact
<1>6. CASE BeginFlush
  <2>1. /\ upc = "put" /\ upc' = "flush" /\ conn' = conn /\ batch' = batch
        /\ pos' = pos /\ obuf' = obuf /\ net' = net /\ down' = down /\ db' = db
    BY <1>6 DEF BeginFlush, downVars
  <2>2. NumberPut' = NumberPut /\ \A e : Safe(e) => Safe(e)'
    BY <2>1 DEF NumberPut, Safe, OnItsWay, Document
  <2>3. conn \in Conns /\ Intact(conn)'
    BY <1>0, <1>1, <2>1 DEF Intact
  <2>4. QED
    BY <1>a, <2>1, <2>2, <2>3
<1>7. CASE Flush
  <2>1. /\ upc = "flush" /\ upc' = upc /\ conn' = conn /\ batch' = batch
        /\ pos' = pos /\ down' = down /\ db' = db
        /\ obuf # <<>> /\ obuf' = Tail(obuf)
        /\ net' = [net EXCEPT ![conn].fwd = Append(net[conn].fwd, OnWire),
                              ![conn].dead = down[conn].pc = "off"]
    BY <1>0, <1>7 DEF Flush, downVars
  <2>2. conn \in Conns /\ Intact(conn) /\ net[conn] \in Links
    BY <1>0, <1>1, <2>1
  <2>a. OnWire = Head(obuf)
    BY <2>1, <2>2, WireFacts DEF Intact
  <2>3. /\ net'[conn].fwd = Append(net[conn].fwd, Head(obuf))
        /\ net'[conn].up = net[conn].up /\ net'[conn].fin = net[conn].fin
        /\ net'[conn].back = net[conn].back /\ net'[conn].torn = net[conn].torn
        /\ net'[conn].dead = (down[conn].pc = "off")
    BY <1>1, <2>1, <2>2, <2>a DEF Links
  <2>4. obuf \in Seq(WireRecs) /\ Head(obuf) \in WireRecs
    BY <2>1, <2>2, WireFacts
  <2>b. net[conn].fwd \in Seq(WireRecs)
    BY <2>2 DEF Links
  <2>c. ToSet(Append(net[conn].fwd, Head(obuf))) = ToSet(net[conn].fwd) \cup {Head(obuf)}
    BY <2>4, <2>b, RowSets
  <2>d. ToSet(obuf) = {Head(obuf)} \cup ToSet(Tail(obuf))
    BY <2>1, <2>4, RowSets
  <2>5. /\ ToSet(net'[conn].fwd) = ToSet(net[conn].fwd) \cup {Head(obuf)}
        /\ ToSet(obuf) = {Head(obuf)} \cup ToSet(obuf')
    BY <2>1, <2>3, <2>c, <2>d, Zenon
  <2>6. Intact(conn)'
    BY <2>1, <2>2, <2>3, <2>5 DEF Intact
  <2>7. NumberPut' = NumberPut
    BY <2>1 DEF NumberPut
  <2>8. ASSUME NEW e, Safe(e) PROVE Safe(e)'
    BY <2>1, <2>5, <2>8 DEF Safe, OnItsWay, Document
  <2>9. QED
    BY <1>a, <2>1, <2>2, <2>6, <2>7, <2>8
<1>8. CASE ReadNext
  <2>1. /\ upc = "read" /\ upc' = "put" /\ conn' = conn /\ batch' = batch
        /\ pos' = pos + 1 /\ obuf' = obuf /\ net' = net /\ down' = down /\ db' = db
    BY <1>8 DEF ReadNext, downVars
  <2>2. NumberPut' = NumberPut
    BY <1>1, <2>1 DEF NumberPut
  <2>3. conn \in Conns /\ Intact(conn)'
    BY <1>0, <1>1, <2>1 DEF Intact
  <2>4. \A e : Safe(e) => Safe(e)'
    BY <2>1 DEF Safe, OnItsWay, Document
  <2>5. QED
    BY <1>a, <2>1, <2>2, <2>3, <2>4
<1>9. CASE Acknowledge
  <2>1. /\ upc = "ack" /\ upc' = "loop" /\ conn' = conn /\ batch' = batch + 1
        /\ pos' = 0 /\ obuf' = obuf /\ net' = net /\ down' = down /\ db' = db
    BY <1>9 DEF Acknowledge, downVars
  <2>2. pos = MaxSeq + 3 /\ NumberPut = pos /\ NumberPut' = 0
    BY <2>1 DEF HopTyped, UpTyped, NumberPut
  <2>3. ASSUME NEW b \in 1..(batch + 1), NEW n \in 0..MaxSeq,
               b < batch + 1 \/ n + 2 <= 0
        PROVE  Safe(EventRec(b, n))'
    <3>1. b \in 1..batch /\ n + 2 <= NumberPut
      BY <1>1, <2>2, <2>3
    <3>2. Safe(EventRec(b, n))
      BY <1>0, <3>1
    <3>3. QED
      BY <2>1, <3>2 DEF Safe, OnItsWay, Document
  <2>4. PutArrives'
    BY <2>1, <2>2, <2>3 DEF PutArrives, Safe
  <2>5. QED
    BY <1>0, <2>1, <2>4 DEF Lossless, Intact
<1>b. CASE Look
  <2>1. /\ upc = "loop" /\ upc' = "read" /\ conn' = conn /\ batch' = batch
        /\ pos' = pos /\ obuf' = obuf /\ net' = net /\ down' = down /\ db' = db
    BY <1>b DEF Look, downVars
  <2>2. NumberPut' = NumberPut /\ \A e : Safe(e) => Safe(e)'
    BY <2>1 DEF NumberPut, Safe, OnItsWay, Document
  <2>3. conn \in Conns /\ Intact(conn)'
    BY <1>0, <1>1, <2>1 DEF Intact
  <2>4. QED
    BY <1>a, <2>1, <2>2, <2>3
\* What cannot happen.
<1>c. ~FlushWait
  BY DEF FlushWait
<1>10. ~PutSyncThrows /\ ~Close
  BY <1>0 DEF PutSyncThrows, Close, Flushed
<1>11. ~FlushThrows /\ ~Notice
  <2>1. upc \in {"flush", "loop"} => Intact(conn)
    BY <1>0, <1>1
  <2>2. QED
    BY <2>1 DEF FlushThrows, Notice, Readable, Intact
<1>12. QED
  BY <1>2, <1>3, <1>4, <1>5, <1>6, <1>7, <1>8, <1>9, <1>10, <1>11, <1>b, <1>c
  DEF UpStep

\* The thread at the far end of an intact connection takes what is on it and
\* stores it.
LEMMA LosslessDown ==
  ASSUME HopTyped, Lossless, diode, faults = 0, ~waited, conn \in Conns,
         UnderSession(conn),
         Accept(conn) \/ DownRead(conn) \/ DownPut(conn)
  PROVE  Lossless'
<1>0. /\ upc \notin {"start", "open", "close", "stop"} /\ Intact(conn)
      /\ \A b \in 1..batch : \A n \in 0..MaxSeq :
           (b < batch \/ n + 2 <= NumberPut) => Safe(EventRec(b, n))
      /\ net[conn] \in Links /\ net[conn].fwd \in Seq(WireRecs)
  BY TcpAssumption, HopFacts DEF Lossless, PutArrives, Safe, HopTyped, UpTyped, NetTyped
<1>1. UNCHANGED <<upc, batch, pos, hand, conn, obuf, diode>>
  BY DEF Accept, DownRead, DownPut, upVars
<1>2. NumberPut' = NumberPut
  BY <1>1 DEF NumberPut
<1>a. ASSUME Intact(conn)', \A e : Safe(e) => Safe(e)' PROVE Lossless'
  <2>1. PutArrives'
    BY <1>0, <1>1, <1>2, <1>a DEF PutArrives, Safe
  <2>2. QED
    BY <1>0, <1>1, <1>a, <2>1 DEF Lossless
<1>3. CASE Accept(conn)
  <2>1. /\ down[conn].pc = "queued" /\ down'[conn].pc = "read" /\ net' = net
        /\ db' = db
    BY <1>3 DEF Accept, HopTyped, DownTyped
  <2>2. Intact(conn)'
    BY <1>0, <1>1, <2>1 DEF Intact
  <2>3. \A e : Safe(e) => Safe(e)'
    BY <1>1, <2>1 DEF Safe, OnItsWay, Document
  <2>4. QED
    BY <1>a, <2>2, <2>3
<1>4. CASE DownRead(conn)
  <2>1. /\ down[conn].pc = "read" /\ net[conn].fwd # <<>> /\ db' = db
        /\ down' = [down EXCEPT ![conn].pc = "put", ![conn].hand = Head(net[conn].fwd)]
        /\ net' = [net EXCEPT ![conn].fwd = Tail(net[conn].fwd)]
    BY <1>4 DEF DownRead
  <2>2. down'[conn].pc = "put" /\ down'[conn].hand = Head(net[conn].fwd)
    BY <2>1 DEF HopTyped, DownTyped
  <2>3. /\ net'[conn].fwd = Tail(net[conn].fwd)
        /\ net'[conn].up = net[conn].up /\ net'[conn].fin = net[conn].fin
        /\ net'[conn].back = net[conn].back /\ net'[conn].dead = net[conn].dead
        /\ net'[conn].torn = net[conn].torn
    BY <1>0, <2>1 DEF Links, HopTyped, NetTyped
  <2>4. ToSet(net[conn].fwd) = {Head(net[conn].fwd)} \cup ToSet(net'[conn].fwd)
    <3>1. PICK q \in Seq(WireRecs) : q = net[conn].fwd
      BY <1>0
    <3>2. q # <<>> => ToSet(q) = {Head(q)} \cup ToSet(Tail(q))
      BY RowSets DEF WireRecs
    <3>3. QED
      BY <2>1, <2>3, <3>1, <3>2
  <2>5. Intact(conn)'
    BY <1>0, <1>1, <2>2, <2>3, <2>4 DEF Intact
  <2>6. \A e : Safe(e) => Safe(e)'
    BY <1>1, <2>1, <2>2, <2>4 DEF Safe, OnItsWay, Document
  <2>7. QED
    BY <1>a, <2>5, <2>6
<1>5. CASE DownPut(conn)
  <2>1. PICK rec : rec = down[conn].hand
    OBVIOUS
  <2>2. /\ down[conn].pc = "put" /\ rec \in HopRecs /\ rec # SyncRequest
        /\ down[conn].w \in Writers /\ Follows(down[conn].w.srec, rec)
        /\ ~Refuses(down[conn].w, rec)
    BY <1>0, <1>5, <2>1, HopFacts DEF DownPut, UnderSession, Intact
  <2>3. rec.chan \in {"session", "event"} /\ rec.chan # "sync"
    BY <2>2 DEF HopRecs, Sessions, Events, SessionRec, EventRec
  <2>4. Written(down[conn].w, rec).srec.ts = rec.ts
    BY <2>2, <2>3, PutAtLeast
  <2>5. db' = db \cup {Document(rec)}
    BY <1>5, <2>1, <2>3, <2>4 DEF DownPut, Document
  <2>6. net' = net /\ down'[conn].pc = "read"
    BY <1>5, <2>1, <2>3 DEF DownPut, HopTyped, DownTyped
  <2>7. Intact(conn)'
    BY <1>0, <1>1, <2>6 DEF Intact
  <2>8. ASSUME NEW e, Safe(e) PROVE Safe(e)'
    <3>1. CASE e = rec
      BY <2>5, <3>1 DEF Safe, Document
    <3>2. CASE e # rec
      <4>1. \/ Document(e) \in db
            \/ e \in ToSet(obuf) \/ e \in ToSet(net[conn].fwd)
        BY <2>1, <2>8, <3>2 DEF Safe, OnItsWay
      <4>2. QED
        BY <1>1, <2>5, <2>6, <4>1 DEF Safe, OnItsWay, Document
    <3>3. QED
      BY <3>1, <3>2
  <2>9. QED
    BY <1>a, <2>7, <2>8
<1>6. QED
  BY <1>3, <1>4, <1>5

\* Only a fault or a wait makes a diode lose what was put on it.
LEMMA LosslessStep ==
  ASSUME HopTyped, HopTyped', \A c \in Conns : UnderSession(c), Lossless, Next
  PROVE  Lossless'
<1>0. /\ faults \in Nat /\ faults' \in Nat /\ Conns = DOMAIN down
      /\ Conns = DOMAIN net
  BY TcpAssumption DEF HopTyped, DownTyped, NetTyped
<1>a. ASSUME diode, faults = 0, ~waited, conn \in Conns
      PROVE  Intact(conn)
  BY <1>a, TcpAssumption DEF Lossless
<1> SUFFICES ASSUME diode', faults' = 0, ~waited' PROVE Lossless'
  BY DEF Lossless
<1>1. CASE UpStep \/ ReadNext
  <2>1. diode' = diode /\ faults' = faults /\ waited' \in {waited, diode}
    BY <1>1 DEF UpStep, ReadSession, Connect, PutRecord, PutSyncDiode,
       PutSyncThrows, BeginFlush, Flush, FlushWait, FlushThrows, Close, Notice,
       Look, ReadNext, Acknowledge
  <2>2. diode /\ faults = 0 /\ ~waited
    BY <2>1
  <2>3. QED
    BY <1>1, <2>2, LosslessUp DEF HopTyped
<1>2. ~Stop /\ ~Kill /\ ~DownStop /\ \A c \in Conns : ~Break(c)
  <2>1. faults' # faults + 1
    BY <1>0
  <2>2. QED
    BY <2>1 DEF Stop, Kill, DownStop, Break
<1>3. ASSUME NEW k \in Conns,
             \/ Accept(k) \/ DownRead(k) \/ DownReadGarbled(k) \/ DownReadThrows(k)
             \/ DownPut(k) \/ DownAck(k) \/ DownAckThrows(k) \/ DownError(k)
             \/ DownGivesUp(k) \/ Drain(k) \/ DownClose(k)
      PROVE  Lossless'
  <2>1. UNCHANGED <<diode, waited, upVars, faults>> /\ db \subseteq db'
    BY <1>3 DEF Accept, DownRead, DownReadGarbled, DownReadThrows, DownPut,
       DownAck, DownAckThrows, DownError, DownGivesUp, Drain, DownClose, downVars
  <2>2. CASE k = conn
    <3>1. Intact(k) /\ diode /\ faults = 0 /\ ~waited
      BY <1>a, <2>1, <2>2
    <3>a. ~Garbled(k)
      <4>1. PICK q \in Seq(WireRecs) : q = net[k].fwd
        BY HopFacts
      <4>2. q # <<>> => ToSet(q) = {Head(q)} \cup ToSet(Tail(q))
        BY RowSets DEF WireRecs
      <4>3. GarbledRec \notin ToSet(q)
        BY <3>1, <4>1 DEF Intact
      <4>4. QED
        BY <4>1, <4>2, <4>3 DEF Garbled
    <3>2. ~DownReadThrows(k) /\ ~DownReadGarbled(k)
      BY <3>1, <3>a DEF Intact, DownReadThrows, DownReadGarbled, AtEnd
    <3>3. /\ ~DownAck(k) /\ ~DownAckThrows(k) /\ ~DownError(k)
          /\ ~DownGivesUp(k) /\ ~Drain(k) /\ ~DownClose(k)
      BY <3>1 DEF Intact, DownAck, DownAckThrows, DownError, DownGivesUp,
         Drain, DownClose
    <3>4. QED
      BY <1>3, <2>2, <3>1, <3>2, <3>3, LosslessDown
  <2>3. CASE k # conn
    <3>1. conn \in Conns => down'[conn] = down[conn]
      BY <1>0, <1>3, <2>3 DEF Accept, DownRead, DownReadGarbled, DownReadThrows,
         DownPut, DownAck, DownAckThrows, DownError, DownGivesUp, Drain, DownClose,
         downVars
    <3>2. ASSUME conn \in Conns PROVE net'[conn] = net[conn]
      <4>1. CASE DownAck(k) \/ DownError(k)
        <5>1. net' = net
          BY <2>1, <4>1 DEF DownAck, DownError
        <5>2. QED
          BY <5>1
      <4>2. CASE \/ DownRead(k) \/ DownReadGarbled(k) \/ DownGivesUp(k) \/ Drain(k)
                 \/ DownClose(k)
        BY <1>0, <2>3, <3>2, <4>2 DEF DownRead, DownReadGarbled, DownGivesUp, Drain,
           DownClose
      <4>3. CASE \/ Accept(k) \/ DownReadThrows(k) \/ DownPut(k)
                 \/ DownAckThrows(k)
        BY <4>3 DEF Accept, DownReadThrows, DownPut, DownAckThrows
      <4>4. QED
        BY <1>3, <4>1, <4>2, <4>3
    <3>3. QED
      BY <2>1, <3>1, <3>2, LosslessSame
  <2>4. QED
    BY <2>2, <2>3
<1>4. ASSUME NEW k \in Conns, DownKilled(k) PROVE Lossless'
  BY <1>4 DEF DownKilled
<1>5. ASSUME NEW k \in Conns, DownPutThrows(k) PROVE Lossless'
  <2>1. Refuses(down[k].w, down[k].hand) /\ db' = db /\ faults' = faults
    <3>1. faults' # faults + 1
      BY <1>0
    <3>2. QED
      BY <1>5, <3>1 DEF DownPutThrows
  <2>a. /\ down[k].pc = "put" /\ UNCHANGED <<diode, waited, upVars, net>>
        /\ down' = [down EXCEPT ![k].pc = "error", ![k].hand = NoRec]
    BY <1>5 DEF DownPutThrows
  <2>2. CASE k = conn
    <3>1. /\ Intact(k) /\ down[k].w \in Writers /\ down[k].hand \in HopRecs
          /\ down[k].hand # SyncRequest
          /\ Follows(down[k].w.srec, down[k].hand)
      BY <1>a, <2>1, <2>2, <2>a, HopFacts DEF Intact, UnderSession
    <3>2. down[k].hand \in Sessions \cup Events
      BY <3>1 DEF HopRecs
    <3>3. QED
      BY <2>1, <3>1, <3>2, NotRefused
  <2>3. CASE k # conn
    BY <1>0, <2>1, <2>3, <2>a, LosslessSame
  <2>4. QED
    BY <2>2, <2>3
<1>6. QED
  BY <1>1, <1>2, <1>3, <1>4, <1>5 DEF Next, DownStep

-----------------------------------------------------------------------------
(* The theorems.                                                            *)

\* Both programs have just been started and have no connection.
LEMMA HopInit ==
  ASSUME Init PROVE HInv
<1>1. Batches \in Nat \ {0} /\ MaxSeq \in Nat /\ MaxFaults \in Nat
      /\ NoConn \notin Conns
  BY TcpAssumption
<1>2. UpTyped
  BY <1>1 DEF Init, UpTyped
<1>3. NetTyped
  <2>1. NoNet \in Links
    BY DEF NoNet, Links
  <2>2. QED
    BY <2>1 DEF Init, NetTyped
<1>4. DownTyped
  BY DEF Init, DownTyped, NoThread, Writers
<1>a. waited \in BOOLEAN
  BY DEF Init
<1>5. HopTyped /\ NothingMisattributed
  <2>1. killed = {} /\ faults = 0 /\ db = {}
    BY DEF Init
  <2>2. QED
    BY <1>1, <1>2, <1>3, <1>4, <1>a, <2>1 DEF HopTyped, NothingMisattributed
<1>6. ASSUME NEW c \in Conns PROVE Guarded(c)
  <2>1. net[c].fwd = <<>> /\ ~net[c].up
    BY DEF Init, NoNet
  <2>2. ToSet(<<>>) = {}
    BY DEF ToSet
  <2>3. QED
    BY <2>1, <2>2 DEF Guarded
<1>7. \A c \in Conns : UnderSession(c)
  BY DEF Init, NoThread, UnderSession
<1>8. Lossless
  <2>1. PutArrives
    BY <1>1 DEF Init, PutArrives, NumberPut
  <2>2. QED
    BY <2>1 DEF Init, Lossless
<1>9. QED
  BY <1>5, <1>6, <1>7, <1>8 DEF HInv

\* The inductive invariant of the hop.
THEOREM HopInductive == FairSpec => []HInv
<1>1. Init => HInv
  BY HopInit
<1>2. HInv /\ [Next]_vars => HInv'
  <2>1. ASSUME HInv, Next PROVE HInv'
    <3>1. /\ HopTyped /\ NothingMisattributed
          /\ \A c \in Conns : Guarded(c) /\ UnderSession(c)
          /\ Lossless
      BY <2>1 DEF HInv
    <3>2. HopTyped'
      BY <2>1, <3>1, HopTypedStep
    <3>3. NothingMisattributed'
      BY <2>1, <3>1, StoredStep
    <3>4. ASSUME NEW c \in Conns PROVE Guarded(c)'
      BY <2>1, <3>1, ErrorStep
    <3>5. ASSUME NEW c \in Conns PROVE UnderSession(c)'
      BY <2>1, <3>1, UnderStep
    <3>6. Lossless'
      BY <2>1, <3>1, <3>2, LosslessStep
    <3>7. QED
      BY <3>2, <3>3, <3>4, <3>5, <3>6 DEF HInv
  <2>2. ASSUME HInv, UNCHANGED vars PROVE HInv'
    <3>1. UNCHANGED <<diode, waited, upc, batch, pos, hand, usw, conn, obuf, net,
                      down, db, killed, faults>>
      BY <2>2 DEF vars, upVars, downVars
    <3>2. HopTyped' /\ NothingMisattributed'
      BY <2>2, <3>1 DEF HInv, HopTyped, UpTyped, NetTyped, DownTyped,
         NothingMisattributed
    <3>3. ASSUME NEW c \in Conns PROVE Guarded(c)' /\ UnderSession(c)'
      BY <2>2, <3>1 DEF HInv, Guarded, UnderSession, Taken
    <3>4. Lossless'
      BY <2>2, <3>1 DEF HInv, Lossless, Intact, PutArrives, NumberPut, OnItsWay,
         Document
    <3>5. QED
      BY <3>2, <3>3, <3>4 DEF HInv
  <2>3. QED
    BY <2>1, <2>2
<1>3. QED
  BY <1>1, <1>2, PTL DEF FairSpec

\* A stored record is under the session that produced it, whatever connections
\* break and however far the thread of an old one lags behind.
THEOREM StoredUnderSession == FairSpec => []NothingMisattributed
<1>1. HInv => NothingMisattributed
  BY DEF HInv
<1>2. QED
  BY <1>1, HopInductive, PTL

\* What upstream's source has deleted on the strength of the reply that the
\* endpoint makes for a diode is stored or on its way until something fails or a
\* write has to wait for room.
THEOREM DiodeLossless == FairSpec => []DiodeLosesOnlyToFaults
<1>1. HInv => DiodeLosesOnlyToFaults
  <2>1. SUFFICES ASSUME HInv, diode, faults = 0, ~waited,
                        NEW b \in 1..(batch - 1), NEW n \in 0..MaxSeq
                 PROVE  Document(EventRec(b, n)) \in db \/ InTransit(EventRec(b, n))
    BY DEF DiodeLosesOnlyToFaults, SentOrStored
  <2>2. HopTyped /\ Lossless /\ batch \in Nat
    BY <2>1, TcpAssumption DEF HInv, HopTyped, UpTyped
  <2>3. b \in 1..batch /\ b < batch
    BY <2>1, <2>2
  <2>4. conn \in Conns
    BY <2>1, <2>2, <2>3 DEF Lossless, HopTyped, UpTyped
  <2>5. Document(EventRec(b, n)) \in db \/ OnItsWay(EventRec(b, n))
    BY <2>1, <2>2, <2>3 DEF Lossless, PutArrives
  <2>6. QED
    BY <2>4, <2>5 DEF OnItsWay, InTransit
<1>2. QED
  BY <1>1, HopInductive, PTL

\* While upstream has the connection open, and it was not torn, the error record
\* that downstream has sent it is not overtaken by a reset.
THEOREM ErrorHeard == FairSpec => []ErrorNotOvertaken
<1>1. HInv => ErrorNotOvertaken
  BY DEF HInv, Guarded, ErrorNotOvertaken
<1>2. QED
  BY <1>1, HopInductive, PTL
=============================================================================
