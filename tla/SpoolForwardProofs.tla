------------------------- MODULE SpoolForwardProofs -------------------------
(***************************************************************************)
(* Proofs about SpoolForward, for every value of its constants: the        *)
(* invariant IInv is inductive, so the system is type correct, and loses   *)
(* no event that was in a spoolfile in time, whatever faults, kills and    *)
(* restarts occur.                                                         *)
(***************************************************************************)
EXTENDS SpoolForward, SequenceTheorems, WellFoundedInduction, TLAPS

-----------------------------------------------------------------------------
(* Arithmetic of directory listings.                                        *)

\* filestore_scanner's first_filenum exists: a set of numbers has a least one.
LEMMA MinExists ==
  ASSUME NEW S \in SUBSET Nat, S # {}
  PROVE  \E n \in S : \A m \in S : n <= m
<1>1. PICK n \in S : \A m \in S : ~(<<m, n>> \in OpToRel(<, Nat))
  BY NatLessThanWellFounded, WFMin, Zenon
<1>2. \A m \in S : m < n => <<m, n>> \in OpToRel(<, Nat)
  BY DEF OpToRel
<1>3. \A m \in S : ~(m < n)
  BY <1>1, <1>2, Zenon
<1>4. QED
  BY <1>3

\* A set of numbers with a bound has a largest one.
LEMMA MaxExists ==
  ASSUME NEW N \in Nat, NEW S \in SUBSET (0..N), S # {}
  PROVE  \E n \in S : \A m \in S : m <= n
<1> DEFINE R == {N - n : n \in S}
<1>1. \A n \in S : N - n \in Nat /\ N - n \in R
  OBVIOUS
<1>2. R \in SUBSET Nat /\ R # {}
  <2>1. R \in SUBSET Nat
    BY <1>1
  <2>2. R # {}
    BY <1>1
  <2>3. QED
    BY <2>1, <2>2
<1>3. PICK r \in R : \A q \in R : r <= q
  BY <1>2, MinExists
<1>4. PICK n \in S : r = N - n
  BY <1>3
<1>5. \A m \in S : N - n <= N - m
  BY <1>1, <1>3, <1>4
<1>6. QED
  BY <1>5

\* What filestore_scanner reports: the oldest file is in the directory, and
\* the next number is one above the newest, or zero when there is none.
LEMMA ScannerFacts ==
  ASSUME dir \subseteq FileNums
  PROVE  /\ dir # {} => FirstFilenum \in dir /\ \A m \in dir : FirstFilenum <= m
         /\ NextFilenum \in Nat
         /\ \A m \in dir : m < NextFilenum
         /\ NextFilenum > 0 => NextFilenum - 1 \in dir
<1>1. dir \in SUBSET Nat /\ dir \in SUBSET (0..MaxFile) /\ MaxFile \in Nat
  BY MaxFileAssumption DEF FileNums
<1>2. ASSUME dir # {}
      PROVE FirstFilenum \in dir /\ \A m \in dir : FirstFilenum <= m
  <2>1. \E n \in dir : \A m \in dir : n <= m
    BY <1>1, <1>2, MinExists
  <2>2. QED
    BY <2>1 DEF FirstFilenum
<1>3. CASE dir = {}
  BY <1>2, <1>3 DEF NextFilenum
<1>4. CASE dir # {}
  <2> DEFINE top == CHOOSE n \in dir : \A m \in dir : m <= n
  <2>1. \E n \in dir : \A m \in dir : m <= n
    BY <1>1, <1>4, MaxExists
  <2>2. top \in dir /\ \A m \in dir : m <= top
    BY <2>1
  <2>3. NextFilenum = top + 1
    BY <1>4 DEF NextFilenum
  <2> HIDE DEF top
  <2>4. QED
    BY <1>1, <1>2, <2>2, <2>3
<1>5. QED
  BY <1>3, <1>4

-----------------------------------------------------------------------------
(* Records.                                                                 *)

\* What every record in a spoolfile has.
LEMMA RecordFacts ==
  ASSUME NEW r \in SpoolRecs
  PROVE  /\ r.ts \in Times
         /\ r.chan \in {"session", "event", "end", "signature"}
         /\ r # NoRec /\ r # SyncRequest
         /\ IsSession(r) => r \in SessionRecs
         /\ IsEvent(r) => r \in EventRecs /\ r.seq \in 0..MaxSeq
BY DEF SpoolRecs, SessionRecs, EventRecs, Session, SessionRec, EventRec, EndRec,
       SignatureRec, NoRec, SyncRequest, IsSession, IsEvent, Times

\* A session record names its source and its session.
LEMMA SessionFacts ==
  ASSUME NEW r \in SessionRecs
  PROVE  /\ r \in SpoolRecs /\ r.chan = "session" /\ IsSession(r)
         /\ r.src = SrcId /\ r.ts \in Times /\ r = Session(r.ts)
BY DEF SpoolRecs, SessionRecs, Session, SessionRec, IsSession

\* Writing a spoolfile record leaves the base class's state well typed.
LEMMA WrittenType ==
  ASSUME NEW w \in WriterState, NEW r \in SpoolRecs
  PROVE  Written(w, r) \in WriterState
<1>1. /\ w.srec \in SessionRecs \cup {NoRec} /\ w.seqnum \in 0..(MaxSeq + 1)
      /\ w.ended \in BOOLEAN /\ w.reply \in Replies \cup {NoRec}
      /\ MaxSeq \in Nat
  BY WriterAssumption DEF WriterState
<1>2. /\ r.chan \in {"session", "event", "end", "signature"}
      /\ IsEvent(r) => r.seq + 1 \in 0..(MaxSeq + 1)
      /\ IsSession(r) => r \in SessionRecs
      /\ 0 \in 0..(MaxSeq + 1)
  BY <1>1, RecordFacts
<1>3. CASE StartsSession(w, r)
  <2>1. Written(w, r) = [w EXCEPT !.srec = r, !.seqnum = 0, !.ended = FALSE]
    BY <1>3 DEF Written, Numbered, Started, StartsSession, IsSession
  <2>2. QED
    BY <1>1, <1>2, <1>3, <2>1 DEF WriterState, StartsSession
<1>4. CASE ~StartsSession(w, r) /\ IsEvent(r)
  <2>1. Written(w, r) = [w EXCEPT !.seqnum = r.seq + 1]
    BY <1>4 DEF Written, Numbered, IsEvent
  <2>2. QED
    BY <1>1, <1>2, <1>4, <2>1 DEF WriterState
<1>5. CASE ~StartsSession(w, r) /\ ~IsEvent(r)
  <2>1. Written(w, r) \in {w, [w EXCEPT !.ended = TRUE]}
    BY <1>2, <1>5 DEF Written, Numbered, IsEvent
  <2>2. QED
    BY <1>1, <2>1 DEF WriterState
<1>6. QED
  BY <1>3, <1>4, <1>5

\* The base class's state stays what it is declared to be, and its session
\* record changes only to the record written.
LEMMA WrittenFacts ==
  ASSUME NEW w \in WriterState, NEW r \in SpoolRecs \cup {SyncRequest},
         ~Refuses(w, r)
  PROVE  /\ Written(w, r) \in WriterState
         /\ Written(w, r).srec = IF StartsSession(w, r) THEN r ELSE w.srec
         /\ Written(w, r).srec # NoRec
         /\ IsSession(r) => Written(w, r).srec.ts = r.ts
         /\ r = SyncRequest => Written(w, r).reply \in Replies
<1>1. /\ w.srec \in SessionRecs \cup {NoRec} /\ w.seqnum \in 0..(MaxSeq + 1)
      /\ w.ended \in BOOLEAN /\ w.reply \in Replies \cup {NoRec}
      /\ MaxSeq \in Nat
  BY WriterAssumption DEF WriterState
<1>2. CASE r = SyncRequest
  <2>1. w.srec \in SessionRecs
    BY <1>1, <1>2 DEF Refuses, SyncRequest, IsSession
  <2>2. w.srec # NoRec /\ w.srec.src = SrcId /\ w.srec.ts \in Times
    BY <2>1, SessionFacts, RecordFacts
  <2>3. Written(w, r) = [w EXCEPT !.reply = SyncReply(w)]
    BY <1>2 DEF Written, Numbered, SyncRequest, StartsSession, IsSession
  <2>4. SyncReply(w) \in Replies
    BY <1>1, <2>2 DEF SyncReply, Replies
  <2>5. ~StartsSession(w, r) /\ ~IsSession(r)
    BY <1>2 DEF SyncRequest, StartsSession, IsSession
  <2>6. QED
    BY <1>1, <2>2, <2>3, <2>4, <2>5 DEF WriterState
<1>3. CASE r \in SpoolRecs /\ StartsSession(w, r)
  <2>1. r \in SessionRecs /\ r # NoRec /\ r # SyncRequest
    BY <1>3, RecordFacts DEF StartsSession
  <2>2. Written(w, r) = [w EXCEPT !.srec = r, !.seqnum = 0, !.ended = FALSE]
    BY <1>3 DEF Written, Numbered, Started, StartsSession, IsSession
  <2>3. 0 \in 0..(MaxSeq + 1)
    BY <1>1
  <2>4. Written(w, r) \in WriterState /\ Written(w, r).srec = r
    BY <1>1, <2>1, <2>2, <2>3 DEF WriterState
  <2>5. QED
    BY <1>3, <2>1, <2>4
<1>4. CASE r \in SpoolRecs /\ ~StartsSession(w, r)
  <2>1. /\ r.chan \in {"session", "event", "end", "signature"} /\ r # SyncRequest
        /\ r.chan = "event" => r.seq \in 0..MaxSeq
        /\ r # NoRec
    BY <1>4, RecordFacts DEF IsEvent
  <2>2. w.srec # NoRec
    BY <1>4 DEF Refuses, StartsSession
  <2>3. IsSession(r) => w.srec.ts = r.ts
    BY <1>4, <2>2 DEF StartsSession, SameTs
  <2>4. Written(w, r) \in {[w EXCEPT !.ended = TRUE], w, [w EXCEPT !.seqnum = r.seq + 1]}
        /\ (r.chan # "event" => Written(w, r) \in {[w EXCEPT !.ended = TRUE], w})
    BY <1>4, <2>1 DEF Written, Numbered
  <2>5. r.chan = "event" => r.seq + 1 \in 0..(MaxSeq + 1)
    BY <1>1, <2>1
  <2>6. CASE r.chan = "event"
    BY <1>1, <1>4, <2>1, <2>2, <2>3, <2>4, <2>5, <2>6 DEF WriterState
  <2>7. CASE r.chan # "event"
    BY <1>1, <1>4, <2>1, <2>2, <2>3, <2>4, <2>7 DEF WriterState
  <2>8. QED
    BY <2>6, <2>7
<1>5. QED
  BY <1>2, <1>3, <1>4
-----------------------------------------------------------------------------
(* Writes through the buffer.                                               *)

Extends(k, k2) == Len(k) <= Len(k2) /\ \A i \in 1..Len(k) : k2[i] = k[i]

\* Contents k, buffer b and the records being written make up, in this order,
\* the beginning of a spoolfile of session t.
Shape(k, b, recs, t) ==
  /\ \A i \in 1..Len(k) : k[i].ts = t
  /\ \A i \in 1..Len(b) : b[i].ts = t
  /\ \A i \in 1..Len(recs) : recs[i].ts = t
  /\ Len(k) > 0 => IsSession(k[1])
  /\ Len(k) = 0 /\ Len(b) > 0 => IsSession(b[1])
  /\ Len(k) = 0 /\ Len(b) = 0 => Len(recs) > 0 /\ IsSession(recs[1])

\* A sync request and its reply leave the session of the writer alone.
LEMMA SyncFacts ==
  ASSUME WriterTypeOK, Sync \/ ReadReply
  PROVE  ssw' \in WriterState /\ ssw'.srec = ssw.srec
<1>1. ssw \in WriterState
  BY DEF WriterTypeOK
<1>2. CASE Sync
  <2>1. ssw' = Written(ssw, SyncRequest) /\ ~Refuses(ssw, SyncRequest)
    BY <1>2 DEF Sync
  <2>2. ~StartsSession(ssw, SyncRequest)
    BY DEF StartsSession, IsSession, SyncRequest
  <2>3. QED
    BY <1>1, <2>1, <2>2, WrittenFacts
<1>3. CASE ReadReply
  BY <1>1, <1>3 DEF ReadReply, Replied, WriterState
<1>4. QED
  BY <1>2, <1>3

\* Appending records to a file keeps what was there.
LEMMA AppendFacts ==
  ASSUME NEW k \in Seq(SpoolRecs), NEW recs \in Seq(SpoolRecs)
  PROVE  k \o recs \in Seq(SpoolRecs) /\ Extends(k, k \o recs)
BY ConcatProperties, LenProperties DEF Extends

\* However much of it is flushed, a write keeps the order of the records.
LEMMA BufferedFacts ==
  ASSUME NEW k \in Seq(SpoolRecs), NEW b \in Seq(SpoolRecs),
         NEW recs \in Seq(SpoolRecs), NEW j \in 0..Len(b \o recs)
  PROVE  LET all == b \o recs
             k2 == k \o SubSeq(all, 1, j)
             b2 == SubSeq(all, j + 1, Len(all))
         IN  /\ SubSeq(all, 1, j) \in Seq(SpoolRecs)
             /\ b2 \in Seq(SpoolRecs)
             /\ \A t : Shape(k, b, recs, t) => OneSession(k2, b2, t)
<1> DEFINE all == b \o recs
           out == SubSeq(all, 1, j)
           k2 == k \o out
           b2 == SubSeq(all, j + 1, Len(all))
<1>1. /\ all \in Seq(SpoolRecs) /\ Len(all) = Len(b) + Len(recs)
      /\ \A i \in 1..Len(all) : all[i] = IF i <= Len(b) THEN b[i] ELSE recs[i - Len(b)]
      /\ Len(b) \in Nat /\ Len(recs) \in Nat /\ Len(k) \in Nat /\ Len(all) \in Nat
  BY ConcatProperties, LenProperties
<1>2. \A i \in 1..Len(all) : all[i] \in SpoolRecs
  BY <1>1, ElementOfSeq
<1> HIDE DEF all
<1>3. /\ out \in Seq(SpoolRecs) /\ Len(out) = j
      /\ \A i \in 1..j : out[i] = all[i]
  <2>1. 1 \in Int /\ j \in Int /\ j \in Nat /\ \A i \in 1..j : all[i] \in SpoolRecs
    BY <1>1, <1>2 DEF all
  <2>2. /\ out \in Seq(SpoolRecs) /\ Len(out) = IF 1 <= j THEN j - 1 + 1 ELSE 0
        /\ \A i \in 1..(j - 1 + 1) : out[i] = all[1 + i - 1]
    BY <2>1, SubSeqProperties
  <2>3. QED
    BY <2>2, <1>1 DEF all
<1>4. /\ b2 \in Seq(SpoolRecs) /\ Len(b2) = Len(all) - j
      /\ \A i \in 1..(Len(all) - j) : b2[i] = all[i + j]
  <2>1. \A i \in (j + 1)..Len(all) : all[i] \in SpoolRecs
    BY <1>1, <1>2 DEF all
  <2>2. /\ b2 \in Seq(SpoolRecs)
        /\ Len(b2) = IF j + 1 <= Len(all) THEN Len(all) - (j + 1) + 1 ELSE 0
        /\ \A i \in 1..(Len(all) - (j + 1) + 1) : b2[i] = all[j + 1 + i - 1]
    BY <1>1, <2>1, SubSeqProperties
  <2>3. /\ Len(all) \in Nat /\ j \in Nat /\ j <= Len(all)
    BY <1>1 DEF all
  <2>4. /\ Len(all) - (j + 1) + 1 = Len(all) - j
        /\ \A i \in 1..(Len(all) - j) : j + 1 + i - 1 = i + j
    BY <2>3
  <2>5. Len(b2) = Len(all) - j
    <3>1. PICK n, l : n = Len(all) /\ l = Len(b2)
      OBVIOUS
    <3>2. n \in Nat /\ j \in Nat /\ j <= n
      BY <2>3, <3>1
    <3>3. l = IF j + 1 <= n THEN n - (j + 1) + 1 ELSE 0
      BY <2>2, <3>1
    <3>4. l = n - j
      BY ONLY <3>2, <3>3
    <3>5. QED
      BY <3>1, <3>4
  <2>6. QED
    BY <2>2, <2>4, <2>5
<1>5. /\ Len(k2) = Len(k) + j
      /\ \A i \in 1..(Len(k) + j) : k2[i] = IF i <= Len(k) THEN k[i] ELSE out[i - Len(k)]
  BY <1>3, ConcatProperties
<1>6. ASSUME NEW t, Shape(k, b, recs, t)
      PROVE  OneSession(k2, b2, t)
  <2>1. \A i \in 1..Len(all) : all[i].ts = t
    <3> SUFFICES ASSUME NEW i \in 1..Len(all) PROVE all[i].ts = t
      OBVIOUS
    <3>1. CASE i <= Len(b)
      BY <1>1, <1>6, <3>1 DEF Shape
    <3>2. CASE ~(i <= Len(b))
      <4>1. i - Len(b) \in 1..Len(recs)
        BY <1>1, <3>2
      <4>2. QED
        BY <1>1, <1>6, <3>2, <4>1 DEF Shape
    <3>3. QED
      BY <3>1, <3>2
  <2>2. j <= Len(all) /\ j \in Nat
    BY <1>1 DEF all
  <2>3. Len(k) = 0 => Len(all) > 0 /\ IsSession(all[1])
    <3>1. CASE Len(b) > 0
      BY <1>1, <1>6, <3>1 DEF Shape
    <3>2. CASE Len(b) = 0
      BY <1>1, <1>6, <3>2 DEF Shape
    <3>3. QED
      BY <1>1, <3>1, <3>2
  <2> HIDE DEF k2, b2, out
  <2>4. \A i \in 1..Len(k2) : k2[i].ts = t
    <3> SUFFICES ASSUME NEW i \in 1..Len(k2) PROVE k2[i].ts = t
      OBVIOUS
    <3>1. CASE i <= Len(k)
      <4>1. i \in 1..Len(k) /\ i \in 1..(Len(k) + j)
        BY <1>1, <1>5, <2>2, <3>1
      <4>2. k2[i] = k[i]
        BY <1>5, <3>1, <4>1
      <4>3. QED
        BY <1>6, <4>1, <4>2 DEF Shape
    <3>2. CASE ~(i <= Len(k))
      <4>1. i - Len(k) \in 1..j /\ i - Len(k) \in 1..Len(all)
        BY <1>1, <1>5, <2>2, <3>2
      <4>2. QED
        BY <1>1, <1>3, <1>5, <2>1, <2>2, <3>2, <4>1
    <3>3. QED
      BY <3>1, <3>2
  <2>5. \A i \in 1..Len(b2) : b2[i].ts = t
    <3> SUFFICES ASSUME NEW i \in 1..Len(b2) PROVE b2[i].ts = t
      OBVIOUS
    <3>1. i + j \in 1..Len(all) /\ i \in 1..(Len(all) - j)
      BY <1>1, <1>4, <2>2
    <3>2. QED
      BY <1>4, <2>1, <3>1
  <2>6. Len(k2) > 0 => IsSession(k2[1])
    <3>1. CASE Len(k) > 0
      BY <1>1, <1>5, <1>6, <2>2, <3>1 DEF Shape
    <3>2. CASE Len(k) = 0
      BY <1>1, <1>3, <1>5, <2>2, <2>3, <3>2
    <3>3. QED
      BY <1>1, <3>1, <3>2
  <2>7. Len(k2) = 0 => Len(b2) > 0 /\ IsSession(b2[1])
    <3>1. SUFFICES ASSUME Len(k2) = 0 PROVE Len(b2) > 0 /\ IsSession(b2[1])
      OBVIOUS
    <3>2. j = 0 /\ Len(k) = 0
      BY <1>1, <1>5, <2>2, <3>1
    <3>3. Len(b2) = Len(all) /\ Len(all) > 0 /\ 1 \in 1..(Len(all) - j) /\ 1 + j = 1
      BY <1>1, <1>4, <2>3, <3>2
    <3>4. b2[1] = all[1]
      BY <1>4, <3>3
    <3>5. QED
      BY <2>3, <3>2, <3>3, <3>4
  <2>8. QED
    BY <2>4, <2>5, <2>6, <2>7 DEF OneSession
<1>7. QED
  BY <1>3, <1>4, <1>6 DEF all
-----------------------------------------------------------------------------
(* Steps of the writer.                                                     *)

\* The records horace-capture writes in a session are of that session.
LEMMA NextRecsFacts ==
  ASSUME IInv, NEW rec \in NextRecs, ~Refuses(ssw, rec)
  PROVE  /\ rec \in SpoolRecs /\ ~IsSession(rec) /\ rec # NoRec
         /\ rec.ts = clock /\ clock \in Times
         /\ IsEvent(rec) => rec \in EventRecs
         /\ ssw.srec # NoRec
<1>1. rec \in {EndRec(clock), SignatureRec(clock), EventRec(clock, ssw.seqnum)}
      /\ (rec = EventRec(clock, ssw.seqnum) => rec \in ControlRecs \/ ssw.seqnum <= MaxSeq)
  BY DEF NextRecs, ControlRecs
<1>2. rec.chan # "session" /\ rec.ts = clock
      /\ rec.chan \in {"end", "signature", "event"}
  BY <1>1 DEF EndRec, SignatureRec, EventRec
<1>3. ssw.srec # NoRec
  BY <1>2 DEF Refuses, IsSession
<1>4. ssw.srec \in SessionRecs /\ clock \in Times
  BY <1>3, SessionFacts DEF IInv, STypeOK, TypeOK, WriterTypeOK, WriterState, Contents
<1>5. ssw.seqnum \in 0..(MaxSeq + 1) /\ MaxSeq \in Nat
  BY WriterAssumption DEF IInv, STypeOK, TypeOK, WriterTypeOK, WriterState
<1>6. CASE rec \in {EndRec(clock), SignatureRec(clock)}
  <2>1. rec \in SpoolRecs /\ ~IsEvent(rec)
    BY <1>4, <1>6 DEF SpoolRecs, EndRec, SignatureRec, IsEvent
  <2>2. QED
    BY <1>2, <1>3, <1>4, <2>1, RecordFacts DEF IsSession
<1>7. CASE rec = EventRec(clock, ssw.seqnum) /\ ssw.seqnum <= MaxSeq
  <2>1. rec \in EventRecs /\ rec \in SpoolRecs
    BY <1>4, <1>5, <1>7 DEF SpoolRecs, EventRecs
  <2>2. QED
    BY <1>2, <1>3, <1>4, <2>1, RecordFacts DEF IsSession
<1>8. rec \in ControlRecs => rec \in {EndRec(clock), SignatureRec(clock)}
  BY DEF ControlRecs
<1>9. QED
  BY <1>1, <1>6, <1>7, <1>8

\* The writer touches its directory in two ways: it appends to the file it has
\* open, or creates the file with the next number.
Extend(recs) == cur # NoFile /\ AppendTo(cur, recs)
Create == wpc = "create" /\ nextNum \in FileNums /\ CreateFile(nextNum)
StoreStep == \/ UNCHANGED storeVars
             \/ \E recs \in Seq(SpoolRecs) : Extend(recs)
             \/ Create

\* Flushing, in whole or in part, as an append with known results.
LEMMA WriteFacts ==
  ASSUME IInv, cur # NoFile, NEW recs \in Seq(SpoolRecs), Buffered(cur, buf, recs)
  PROVE  /\ \E out \in Seq(SpoolRecs) : Extend(out)
         /\ buf' \in Seq(SpoolRecs)
         /\ \A t : Shape(kern[cur], buf, recs, t) => OneSession(kern'[cur], buf', t)
<1> DEFINE all == buf \o recs
<1>1. PICK j \in {0} \cup Len(buf)..Len(all) :
        AppendTo(cur, SubSeq(all, 1, j)) /\ buf' = SubSeq(all, j + 1, Len(all))
  BY DEF Buffered
<1>2. /\ buf \in Seq(SpoolRecs) /\ cur \in FileNums
      /\ kern \in [FileNums -> Seq(SpoolRecs)] /\ kern[cur] \in Seq(SpoolRecs)
  BY DEF IInv, STypeOK, TypeOK, StoreTypeOK, WriterTypeOK
<1>3. j \in 0..Len(all)
  BY <1>2, ConcatProperties, LenProperties
<1>4. kern'[cur] = kern[cur] \o SubSeq(all, 1, j)
  BY <1>1, <1>2 DEF AppendTo
<1>5. /\ SubSeq(all, 1, j) \in Seq(SpoolRecs)
      /\ SubSeq(all, j + 1, Len(all)) \in Seq(SpoolRecs)
      /\ \A t : Shape(kern[cur], buf, recs, t) =>
              OneSession(kern[cur] \o SubSeq(all, 1, j), SubSeq(all, j + 1, Len(all)), t)
  BY <1>2, <1>3, BufferedFacts
<1>6. QED
  BY <1>1, <1>4, <1>5 DEF Extend

\* ~file_octet_writer moves the rest of a session's records into its file.
LEMMA FlushFacts ==
  ASSUME IInv, cur # NoFile, FlushAll(cur)
  PROVE  /\ \E out \in Seq(SpoolRecs) : Extend(out)
         /\ \A t : OneSession(kern[cur], buf, t) => OneSession(kern'[cur], <<>>, t)
<1>1. /\ buf \in Seq(SpoolRecs) /\ cur \in FileNums
      /\ kern \in [FileNums -> Seq(SpoolRecs)] /\ kern[cur] \in Seq(SpoolRecs)
  BY DEF IInv, STypeOK, TypeOK, StoreTypeOK, WriterTypeOK
<1>2. AppendTo(cur, buf) /\ kern'[cur] = kern[cur] \o buf
  BY <1>1 DEF FlushAll, AppendTo
<1> DEFINE k == kern[cur]
<1>3. /\ Len(k \o buf) = Len(k) + Len(buf) /\ Len(k) \in Nat /\ Len(buf) \in Nat
      /\ \A i \in 1..(Len(k) + Len(buf)) :
           (k \o buf)[i] = IF i <= Len(k) THEN k[i] ELSE buf[i - Len(k)]
  BY <1>1, ConcatProperties, LenProperties
<1> HIDE DEF k
<1>4. ASSUME NEW t, OneSession(k, buf, t)
      PROVE  OneSession(k \o buf, <<>>, t)
  <2>1. ASSUME NEW i \in 1..Len(k \o buf)
        PROVE  (k \o buf)[i].ts = t
    <3>1. CASE i <= Len(k)
      BY <1>3, <1>4, <3>1 DEF OneSession
    <3>2. CASE ~(i <= Len(k))
      <4>1. i - Len(k) \in 1..Len(buf)
        BY <1>3, <3>2
      <4>2. QED
        BY <1>3, <1>4, <3>2, <4>1 DEF OneSession
    <3>3. QED
      BY <3>1, <3>2
  <2>2. Len(k \o buf) > 0 /\ IsSession((k \o buf)[1])
    <3>1. CASE Len(k) > 0
      BY <1>3, <1>4, <3>1 DEF OneSession
    <3>2. CASE Len(k) = 0
      <4>1. Len(buf) > 0 /\ IsSession(buf[1])
        BY <1>4, <3>2 DEF OneSession
      <4>2. (k \o buf)[1] = buf[1 - Len(k)] /\ Len(k \o buf) > 0
        BY <1>3, <3>2, <4>1
      <4>3. (k \o buf)[1] = buf[1]
        BY <3>2, <4>2
      <4>4. QED
        BY <4>1, <4>2, <4>3, Zenon
    <3>3. Len(k) > 0 \/ Len(k) = 0
      BY <1>1, LenProperties DEF k
    <3>4. QED
      BY <3>1, <3>2, <3>3, Zenon
  <2>3. Len(<<>>) = 0
    OBVIOUS
  <2>4. QED
    BY <1>3, <2>1, <2>2, <2>3 DEF OneSession
<1>5. QED
  BY <1>1, <1>2, <1>4 DEF Extend, k

\* How each writer step changes the directory.
LEMMA WriterStoreStep ==
  ASSUME IInv, WriterNext
  PROVE  StoreStep
<1>1. ASSUME NEW rec, BeginSpoolfile(rec)
      PROVE  UNCHANGED storeVars
  BY <1>1 DEF BeginSpoolfile
<1>2. ASSUME NEW rec \in NextRecs, WriteInPlace(rec)
      PROVE  \E recs \in Seq(SpoolRecs) : Extend(recs)
  <2>1. cur # NoFile /\ Buffered(cur, buf, <<rec>>) /\ rec \in SpoolRecs
    BY <1>2, NextRecsFacts DEF WriteInPlace, NeedsSpoolfile
  <2>2. <<rec>> \in Seq(SpoolRecs)
    BY <2>1
  <2>3. QED
    BY <2>1, <2>2, WriteFacts
<1>3. CASE CreateSpoolfile
  BY <1>3, MaxFileAssumption
     DEF CreateSpoolfile, StoreStep, Create, FileNums, IInv, STypeOK, TypeOK, WriterTypeOK
<1>4. CASE CloseOld
  BY <1>4, FlushFacts DEF CloseOld, StoreStep
<1>5. CASE WriteHeader
  <2>1. cur # NoFile /\ ssw.srec \in SpoolRecs /\ pend \in SpoolRecs
    BY <1>5, SessionFacts
       DEF WriteHeader, IInv, SpoolNumbering, WriterNumbering, Contents, NoFile, STypeOK, TypeOK,
           WriterTypeOK, WriterState
  <2>2. /\ <<ssw.srec>> \in Seq(SpoolRecs)
        /\ <<ssw.srec>> \o <<pend>> \in Seq(SpoolRecs)
        /\ <<ssw.srec>> \o <<>> \in Seq(SpoolRecs)
    BY <2>1, ConcatProperties
  <2>3. \E recs \in Seq(SpoolRecs) : Buffered(cur, buf, recs)
    BY <1>5, <2>2 DEF WriteHeader
  <2>4. QED
    BY <2>1, <2>3, WriteFacts DEF StoreStep
<1>6. CASE Destroy
  BY <1>6, FlushFacts DEF Destroy, StoreStep
<1>7. CASE Open \/ CreateThrows \/ Poll \/ Sync \/ ReadReply \/ Kill
  BY <1>7 DEF Open, CreateThrows, Poll, Sync, ReadReply, Kill, StoreStep
<1>8. QED
  BY <1>1, <1>2, <1>3, <1>4, <1>5, <1>6, <1>7
     DEF WriterNext, WriteSession, WriteRecord, StoreStep

\* What a directory looks like after such a step: existing files keep their
\* names, what they contain and where they were sealed, and a file that was
\* not there has no contents unless it has a name.
LEMMA StoreGrows ==
  ASSUME IInv, StoreStep
  PROVE  /\ StoreTypeOK'
         /\ dir \subseteq dir'
         /\ \A n \in FileNums : sealed[n] # Unsealed => sealed'[n] = sealed[n]
         /\ \A n \in FileNums : sealed'[n] <= Len(kern'[n])
         /\ \A n \in FileNums : (\E m \in dir : n <= m) => Extends(kern[n], kern'[n])
<1>1. /\ dir \subseteq FileNums /\ kern \in [FileNums -> Seq(SpoolRecs)]
      /\ sealed \in [FileNums -> Nat \cup {Unsealed}] /\ changed \in BOOLEAN
      /\ cur \in FileNums \cup {NoFile} /\ nextNum \in Nat
      /\ \A n \in FileNums : sealed[n] <= Len(kern[n])
      /\ \A n \in FileNums : sealed[n] # Unsealed <=> \E m \in dir : n < m
      /\ \A n \in FileNums : kern[n] \in Seq(SpoolRecs) /\ Len(kern[n]) \in Nat
  BY LenProperties
     DEF IInv, STypeOK, TypeOK, StoreTypeOK, WriterTypeOK, SpoolNumbering, WriterNumbering
<1>2. CASE UNCHANGED storeVars
  BY <1>1, <1>2 DEF storeVars, StoreTypeOK, Extends
<1>3. CASE \E recs \in Seq(SpoolRecs) : Extend(recs)
  <2>1. PICK recs \in Seq(SpoolRecs) : cur # NoFile /\ AppendTo(cur, recs)
    BY <1>3 DEF Extend
  <2>2. /\ cur \in FileNums /\ kern' = [kern EXCEPT ![cur] = kern[cur] \o recs]
        /\ dir' = dir /\ sealed' = sealed /\ changed' \in BOOLEAN
    BY <1>1, <2>1 DEF AppendTo
  <2>3. kern[cur] \o recs \in Seq(SpoolRecs) /\ Extends(kern[cur], kern[cur] \o recs)
    BY <1>1, <2>2, AppendFacts
  <2>4. \A n \in FileNums : Extends(kern[n], kern'[n]) /\ kern'[n] \in Seq(SpoolRecs)
    BY <1>1, <2>2, <2>3 DEF Extends
  <2>5. \A n \in FileNums : Len(kern[n]) <= Len(kern'[n]) /\ Len(kern'[n]) \in Nat
    BY <2>4, LenProperties DEF Extends
  <2>6. kern' \in [FileNums -> Seq(SpoolRecs)]
    BY <1>1, <2>2, <2>3
  <2>7. \A n \in FileNums : sealed[n] <= Len(kern'[n])
    <3> SUFFICES ASSUME NEW n \in FileNums PROVE sealed[n] <= Len(kern'[n])
      OBVIOUS
    <3>1. sealed[n] \in Int /\ sealed[n] <= Len(kern[n]) /\ Len(kern[n]) \in Nat
      BY <1>1 DEF Unsealed
    <3>2. QED
      BY <2>5, <3>1
  <2>8. QED
    BY <1>1, <2>2, <2>4, <2>6, <2>7 DEF StoreTypeOK
<1>4. CASE Create
  <2>1. /\ nextNum \in FileNums
        /\ dir' = dir \cup {nextNum} /\ kern' = [kern EXCEPT ![nextNum] = <<>>]
        /\ changed' = TRUE
        /\ sealed' = IF nextNum = 0 THEN sealed
                     ELSE [sealed EXCEPT ![nextNum - 1] = Len(kern[nextNum - 1])]
    BY <1>4 DEF Create, CreateFile
  <2>2. (\A m \in dir : m < nextNum) /\ (nextNum > 0 => nextNum - 1 \in dir)
    BY <1>4 DEF Create, IInv, SpoolNumbering, WriterNumbering
  <2>3. nextNum > 0 => nextNum - 1 \in FileNums /\ sealed[nextNum - 1] = Unsealed
    <3>1. SUFFICES ASSUME nextNum > 0
                   PROVE  nextNum - 1 \in FileNums /\ sealed[nextNum - 1] = Unsealed
      OBVIOUS
    <3>2. ~ \E m \in dir : nextNum - 1 < m
      BY <1>1, <2>2 DEF FileNums
    <3>3. QED
      BY <1>1, <2>2, <3>1, <3>2
  <2>4. sealed[nextNum] = Unsealed
    <3>1. ~ \E m \in dir : nextNum < m
      BY <1>1, <2>2 DEF FileNums
    <3>2. QED
      BY <1>1, <2>1, <3>1
  <2>5. kern' \in [FileNums -> Seq(SpoolRecs)] /\ sealed' \in [FileNums -> Nat \cup {Unsealed}]
    BY <1>1, <2>1, <2>3
  <2>6. \A n \in FileNums : sealed[n] # Unsealed => sealed'[n] = sealed[n]
    BY <1>1, <2>1, <2>3
  <2>7. \A n \in FileNums : sealed'[n] <= Len(kern'[n])
    <3> SUFFICES ASSUME NEW n \in FileNums PROVE sealed'[n] <= Len(kern'[n])
      OBVIOUS
    <3>1. CASE n = nextNum
      <4>1. kern'[n] = <<>> /\ sealed'[n] = Unsealed
        BY <1>1, <2>1, <2>3, <2>4, <3>1 DEF FileNums
      <4>2. Len(kern'[n]) = 0
        BY <4>1
      <4>3. QED
        BY <4>1, <4>2 DEF Unsealed
    <3>2. CASE n # nextNum /\ nextNum > 0 /\ n = nextNum - 1
      <4>1. kern'[n] = kern[n] /\ sealed'[n] = Len(kern[n])
        BY <1>1, <2>1, <2>3, <3>2
      <4>2. QED
        BY <1>1, <4>1
    <3>3. CASE n # nextNum /\ ~(nextNum > 0 /\ n = nextNum - 1)
      <4>1. kern'[n] = kern[n] /\ sealed'[n] = sealed[n]
        BY <1>1, <2>1, <2>3, <3>3
      <4>2. QED
        BY <1>1, <4>1
    <3>4. QED
      BY <3>1, <3>2, <3>3
  <2>8. \A n \in FileNums : (\E m \in dir : n <= m) => Extends(kern[n], kern'[n])
    <3> SUFFICES ASSUME NEW n \in FileNums, NEW m \in dir, n <= m
                 PROVE  Extends(kern[n], kern'[n])
      OBVIOUS
    <3>1. n # nextNum
      BY <1>1, <2>2 DEF FileNums
    <3>2. QED
      BY <1>1, <2>1, <3>1 DEF Extends
  <2>9. QED
    BY <1>1, <2>1, <2>5, <2>6, <2>7, <2>8 DEF StoreTypeOK
<1>5. QED
  BY <1>2, <1>3, <1>4 DEF StoreStep

\* Types of the writer's own variables are kept.
LEMMA WriterTypeStep ==
  ASSUME IInv, WriterNext
  PROVE  WriterTypeOK'
<1>1. /\ WriterTypeOK /\ dir \subseteq FileNums
      /\ {MaxTime, MaxSeq, HeaderSize, RecordSize} \subseteq Nat
      /\ SpaceAnswers \subseteq BOOLEAN
  BY WriterAssumption DEF IInv, STypeOK, TypeOK, StoreTypeOK
<1>2. FreshWriter \in WriterState /\ NoFile \in FileNums \cup {NoFile}
      /\ <<>> \in Seq(SpoolRecs)
  <2>1. 0 \in 0..(MaxSeq + 1)
    BY <1>1
  <2>2. QED
    BY <2>1 DEF FreshWriter, WriterState
<1>3. CASE Open
  BY <1>1, <1>2, <1>3, ScannerFacts DEF Open, WriterTypeOK
<1>4. CASE WriteSession
  <2> DEFINE rec == Session(clock + 1)
  <2>1. clock + 1 \in Times /\ clock + 1 \in 0..MaxTime
    BY <1>1, <1>4 DEF WriteSession, Times, WriterTypeOK
  <2>2. rec \in SessionRecs /\ rec \in SpoolRecs
    BY <2>1 DEF SessionRecs, SpoolRecs
  <2>3. ssw' \in WriterState
    <3>1. 0 \in 0..(MaxSeq + 1)
      BY <1>1
    <3>2. ssw' = ssw \/ ssw' = [ssw EXCEPT !.srec = rec, !.seqnum = 0, !.ended = FALSE]
      BY <1>4 DEF WriteSession, BeginSpoolfile, Started
    <3> HIDE DEF rec
    <3>3. QED
      BY <1>1, <2>2, <3>1, <3>2 DEF WriterTypeOK, WriterState
  <2>4. QED
    BY <1>1, <1>4, <2>1, <2>2, <2>3 DEF WriteSession, BeginSpoolfile, WriterTypeOK
<1>5. ASSUME NEW rec \in NextRecs, WriteInPlace(rec)
      PROVE  WriterTypeOK'
  <2>1. rec \in SpoolRecs /\ (IsEvent(rec) => rec \in EventRecs) /\ ssw \in WriterState
        /\ ~Refuses(ssw, rec)
    BY <1>1, <1>5, NextRecsFacts DEF WriteInPlace, WriterTypeOK
  <2>2. ssw' \in WriterState
    BY <1>5, <2>1, WrittenFacts DEF WriteInPlace
  <2>3. accepted' \subseteq EventRecs
    BY <1>1, <1>5, <2>1 DEF WriteInPlace, Accept, WriterTypeOK
  <2>4. used' \in Nat
    BY <1>1, <1>5 DEF WriteInPlace, WriterTypeOK, SizeOf
  <2>5. buf' \in Seq(SpoolRecs)
    <3>1. cur # NoFile /\ Buffered(cur, buf, <<rec>>) /\ <<rec>> \in Seq(SpoolRecs)
      BY <1>5, <2>1 DEF WriteInPlace, NeedsSpoolfile
    <3>2. QED
      BY <3>1, WriteFacts
  <2>6. QED
    BY <1>1, <1>5, <2>2, <2>3, <2>4, <2>5 DEF WriteInPlace, WriterTypeOK
<1>6. ASSUME NEW rec \in NextRecs, BeginSpoolfile(rec), UNCHANGED clock
      PROVE  WriterTypeOK'
  <2>1. rec \in SpoolRecs /\ ~IsSession(rec)
    BY <1>6, NextRecsFacts DEF BeginSpoolfile
  <2>2. ssw' = ssw
    BY <1>6, <2>1 DEF BeginSpoolfile, StartsSession
  <2>3. QED
    BY <1>1, <1>6, <2>1, <2>2 DEF BeginSpoolfile, WriterTypeOK
<1>7. CASE CreateSpoolfile \/ CreateThrows \/ Poll
  BY <1>1, <1>7 DEF CreateSpoolfile, CreateThrows, Poll, WriterTypeOK
<1>8. CASE CloseOld
  <2>1. nextNum - 1 \in FileNums
    BY <1>1, <1>8 DEF CloseOld, IInv, SpoolNumbering, WriterNumbering
  <2>2. QED
    BY <1>1, <1>2, <1>8, <2>1 DEF CloseOld, WriterTypeOK
<1>9. CASE WriteHeader
  <2>1. cur # NoFile /\ ssw.srec \in SpoolRecs /\ pend \in SpoolRecs
    BY <1>9, SessionFacts
       DEF WriteHeader, IInv, SpoolNumbering, WriterNumbering, Contents, NoFile, STypeOK, TypeOK,
           WriterTypeOK, WriterState
  <2>2. /\ <<ssw.srec>> \in Seq(SpoolRecs)
        /\ <<ssw.srec>> \o <<pend>> \in Seq(SpoolRecs)
        /\ <<ssw.srec>> \o <<>> \in Seq(SpoolRecs)
    BY <2>1, ConcatProperties
  <2>3. \E recs \in Seq(SpoolRecs) : Buffered(cur, buf, recs)
    BY <1>9, <2>2 DEF WriteHeader
  <2>4. buf' \in Seq(SpoolRecs)
    BY <2>1, <2>3, WriteFacts
  <2>5. used' \in Nat
    <3>1. Len(<<>>) = 0 /\ Len(<<pend>>) = 1
      OBVIOUS
    <3>2. QED
      BY <1>1, <1>9, <3>1 DEF WriteHeader
  <2>6. IsEvent(pend) => pend \in EventRecs
    BY <2>1, RecordFacts
  <2>7. Written(ssw, pend) \in WriterState
    BY <1>1, <2>1, WrittenType DEF WriterTypeOK
  <2>8. ssw' = ssw \/ ssw' = Written(ssw, pend)
    BY <1>9 DEF WriteHeader
  <2>9. accepted' \subseteq EventRecs
    BY <1>1, <1>9, <2>6 DEF WriteHeader, Accept, WriterTypeOK
  <2>10. QED
    BY <1>1, <1>9, <2>4, <2>5, <2>7, <2>8, <2>9 DEF WriteHeader, WriterTypeOK
<1>10. CASE Destroy \/ Kill
  <2>1. Closed /\ kills' \in Nat
    BY <1>1, <1>10 DEF Destroy, Kill, WriterTypeOK
  <2>2. QED
    BY <1>1, <1>2, <2>1 DEF Closed, WriterTypeOK
<1>11. CASE Sync \/ ReadReply
  BY <1>1, <1>11, SyncFacts DEF Sync, ReadReply, WriterTypeOK
<1>12. QED
  BY <1>3, <1>4, <1>5, <1>6, <1>7, <1>8, <1>9, <1>10, <1>11
     DEF WriterNext, WriteRecord

\* The numbering of spoolfiles is kept.
LEMMA SpoolNumberingStep ==
  ASSUME IInv, StoreStep
  PROVE  SpoolNumbering'
<1>1. /\ dir \subseteq FileNums /\ kern \in [FileNums -> Seq(SpoolRecs)]
      /\ sealed \in [FileNums -> Nat \cup {Unsealed}]
      /\ cur \in FileNums \cup {NoFile} /\ nextNum \in Nat
      /\ \A n \in FileNums : n \in Nat /\ Len(kern[n]) \in Nat
  BY LenProperties DEF IInv, STypeOK, TypeOK, StoreTypeOK, WriterTypeOK, FileNums
<1>2. SpoolNumbering /\ WriterNumbering
  BY DEF IInv
<1>3. \A n \in FileNums : sealed'[n] <= Len(kern'[n])
  BY StoreGrows
<1>4. CASE UNCHANGED storeVars
  BY <1>2, <1>4 DEF storeVars, SpoolNumbering
<1>5. CASE \E recs \in Seq(SpoolRecs) : Extend(recs)
  <2>1. PICK recs \in Seq(SpoolRecs) : cur # NoFile /\ AppendTo(cur, recs)
    BY <1>5 DEF Extend
  <2>2. /\ dir' = dir /\ sealed' = sealed
        /\ \A n \in FileNums : n # cur => kern'[n] = kern[n]
    BY <1>1, <2>1 DEF AppendTo
  <2>3. \A n \in FileNums : kern'[n] # <<>> => \E m \in dir : n <= m
    BY <1>2, <2>1, <2>2 DEF SpoolNumbering, WriterNumbering
  <2>4. QED
    BY <1>2, <1>3, <2>2, <2>3 DEF SpoolNumbering
<1>6. CASE Create
  <2>1. /\ nextNum \in FileNums
        /\ dir' = dir \cup {nextNum} /\ kern' = [kern EXCEPT ![nextNum] = <<>>]
        /\ sealed' = IF nextNum = 0 THEN sealed
                     ELSE [sealed EXCEPT ![nextNum - 1] = Len(kern[nextNum - 1])]
    BY <1>6 DEF Create, CreateFile
  <2>2. (\A m \in dir : m < nextNum) /\ (nextNum > 0 => nextNum - 1 \in dir)
    BY <1>2, <1>6 DEF Create, WriterNumbering
  <2>3. ASSUME NEW n \in FileNums
        PROVE  sealed'[n] # Unsealed <=> \E m \in dir' : n < m
    <3>1. CASE n < nextNum - 1
      <4>1. nextNum - 1 \in dir /\ n \in Nat /\ nextNum - 1 \in dir'
        BY <1>1, <2>1, <2>2, <3>1
      <4>2. sealed[n] # Unsealed
        BY <1>2, <3>1, <4>1 DEF SpoolNumbering
      <4>3. sealed'[n] = sealed[n]
        BY <1>1, <2>1, <3>1, <4>1
      <4>4. QED
        BY <3>1, <4>1, <4>2, <4>3
    <3>2. CASE n = nextNum - 1
      <4>1. nextNum # 0 /\ n < nextNum /\ nextNum \in dir'
        BY <1>1, <2>1, <3>2
      <4>2. sealed'[n] = Len(kern[n]) /\ Len(kern[n]) \in Nat
        BY <1>1, <2>1, <3>2, <4>1
      <4>3. QED
        BY <4>1, <4>2 DEF Unsealed
    <3>3. CASE n >= nextNum
      <4>1. \A m \in dir' : ~(n < m)
        BY <1>1, <2>1, <2>2, <3>3 DEF FileNums
      <4>2. sealed[n] = Unsealed
        <5>1. ~ \E m \in dir : n < m
          BY <2>1, <4>1
        <5>2. QED
          BY <1>2, <5>1 DEF SpoolNumbering
      <4>3. sealed'[n] = sealed[n]
        BY <1>1, <2>1, <3>3
      <4>4. QED
        BY <4>1, <4>2, <4>3
    <3>4. QED
      BY <1>1, <3>1, <3>2, <3>3
  <2>4. ASSUME NEW n \in FileNums, kern'[n] # <<>>
        PROVE  \E m \in dir' : n <= m
    <3>1. kern[n] # <<>>
      BY <1>1, <2>1, <2>4
    <3>2. QED
      BY <1>2, <2>1, <3>1 DEF SpoolNumbering
  <2>5. QED
    BY <1>3, <2>3, <2>4 DEF SpoolNumbering
<1>7. QED
  BY <1>4, <1>5, <1>6 DEF StoreStep

\* The writer's place in the numbering is kept.
LEMMA WriterNumberingStep ==
  ASSUME IInv, WriterNext
  PROVE  WriterNumbering'
<1>1. /\ dir \subseteq FileNums /\ kern \in [FileNums -> Seq(SpoolRecs)]
      /\ cur \in FileNums \cup {NoFile} /\ nextNum \in Nat
      /\ \A n \in FileNums : n \in Nat
      /\ WriterNumbering
  BY DEF IInv, STypeOK, TypeOK, StoreTypeOK, WriterTypeOK, FileNums
<1>2. CASE Open
  <2>1. /\ dir' = dir /\ wpc' = "idle" /\ cur' = cur /\ nextNum' = NextFilenum
        /\ cur = NoFile
    BY <1>1, <1>2 DEF Open, storeVars, WriterNumbering
  <2>2. (\A m \in dir : m < NextFilenum) /\ (NextFilenum > 0 => NextFilenum - 1 \in dir)
    BY <1>1, ScannerFacts
  <2>3. QED
    BY <2>1, <2>2 DEF WriterNumbering
<1>3. ASSUME NEW rec, BeginSpoolfile(rec)
      PROVE  WriterNumbering'
  BY <1>1, <1>3 DEF BeginSpoolfile, storeVars, WriterNumbering
<1>4. ASSUME NEW rec, WriteInPlace(rec)
      PROVE  WriterNumbering'
  <2>1. dir' = dir
    BY <1>4 DEF WriteInPlace, Buffered, AppendTo
  <2>2. QED
    BY <1>1, <1>4, <2>1 DEF WriteInPlace, WriterNumbering
<1>5. CASE CreateSpoolfile
  <2>1. /\ dir' = dir \cup {nextNum} /\ kern' = [kern EXCEPT ![nextNum] = <<>>]
        /\ nextNum' = nextNum + 1 /\ wpc = "create" /\ wpc' = "close" /\ cur' = cur
        /\ nextNum \in FileNums
    BY <1>1, <1>5 DEF CreateSpoolfile, CreateFile, FileNums
  <2>2. kern'[nextNum] = <<>> /\ nextNum' - 1 = nextNum
    BY <1>1, <2>1
  <2>3. cur # NoFile => \E m \in dir : cur <= m
    BY <1>1 DEF WriterNumbering
  <2>4. \A m \in dir : m < nextNum
    BY <1>1, <2>1 DEF WriterNumbering
  <2>5. cur < nextNum
    BY <1>1, <2>3, <2>4 DEF NoFile, FileNums
  <2>6. \A m \in dir' : m < nextNum'
    BY <1>1, <2>1, <2>4 DEF FileNums
  <2>7. QED
    BY <1>1, <2>1, <2>2, <2>3, <2>5, <2>6 DEF WriterNumbering
<1>6. CASE CreateThrows
  BY <1>1, <1>6 DEF CreateThrows, storeVars, WriterNumbering
<1>7. CASE CloseOld
  <2>1. dir' = dir /\ nextNum' = nextNum /\ wpc = "close" /\ wpc' = "header"
        /\ cur' = nextNum - 1 /\ buf' = <<>>
    BY <1>7 DEF CloseOld, FlushAll, AppendTo, storeVars
  <2>2. cur < nextNum - 1 /\ nextNum > 0 /\ kern[nextNum - 1] = <<>>
        /\ nextNum - 1 \in dir /\ \A m \in dir : m < nextNum
    BY <1>1, <2>1 DEF WriterNumbering
  <2>3. kern'[nextNum - 1] = kern[nextNum - 1]
    BY <1>1, <1>7, <2>2 DEF CloseOld, FlushAll, AppendTo, storeVars
  <2>4. nextNum - 1 \in Nat /\ nextNum - 1 # NoFile
    BY <1>1, <2>2 DEF NoFile
  <2>5. QED
    BY <2>1, <2>2, <2>3, <2>4 DEF WriterNumbering
<1>8. CASE WriteHeader
  <2>1. dir' = dir /\ nextNum' = nextNum /\ cur' = cur
        /\ wpc = "header" /\ wpc' \in {"idle", "overfull"}
    BY <1>8 DEF WriteHeader, Buffered, AppendTo
  <2>2. QED
    BY <1>1, <2>1 DEF WriterNumbering
<1>9. CASE Poll \/ Sync \/ ReadReply
  BY <1>1, <1>9 DEF Poll, Sync, ReadReply, storeVars, WriterNumbering
<1>10. CASE Destroy \/ Kill
  <2>1. wpc' = "off" /\ cur' = NoFile
    BY <1>10 DEF Destroy, Kill, Closed
  <2>2. QED
    BY <2>1 DEF WriterNumbering
<1>11. QED
  BY <1>2, <1>3, <1>4, <1>5, <1>6, <1>7, <1>8, <1>9, <1>10
     DEF WriterNext, WriteSession, WriteRecord

\* If nothing but the open file changes, or a new file appears, and the open
\* file holds one session, then every file does.
LEMMA ContainedFacts ==
  ASSUME IInv, StoreTypeOK',
         \A n \in FileNums : \/ kern'[n] = kern[n] \/ kern'[n] = <<>>
                             \/ \E b, t : OneSession(kern'[n], b, t)
  PROVE  SelfContained'
<1> SUFFICES ASSUME NEW n \in FileNums, kern'[n] # <<>>
             PROVE  /\ IsSession(kern'[n][1])
                    /\ \A i \in 1..Len(kern'[n]) : SameTs(kern'[n][i], kern'[n][1])
  BY DEF SelfContained
<1>1. CASE kern'[n] = kern[n]
  BY <1>1 DEF IInv, Contents, SelfContained
<1>2. CASE \E b, t : OneSession(kern'[n], b, t)
  <2>1. PICK b, t : OneSession(kern'[n], b, t)
    BY <1>2
  <2>2. kern'[n] \in Seq(SpoolRecs) /\ Len(kern'[n]) > 0
    <3>1. kern'[n] \in Seq(SpoolRecs)
      BY DEF StoreTypeOK
    <3>2. QED
      BY <3>1, EmptySeq, LenProperties
  <2>3. 1 \in 1..Len(kern'[n])
    BY <2>2, LenProperties
  <2>4. QED
    BY <2>1, <2>2, <2>3 DEF OneSession, SameTs
<1>3. QED
  BY <1>1, <1>2

\* A record of the session in force does not change which session that is.
LEMMA WrittenKeepsSession ==
  ASSUME NEW w \in WriterState, NEW r \in SpoolRecs, ~StartsSession(w, r)
  PROVE  Written(w, r).srec = w.srec
<1>1. r.chan \in {"session", "event", "end", "signature"}
  BY RecordFacts
<1>2. Written(w, r) \in {[w EXCEPT !.ended = TRUE], w, [w EXCEPT !.seqnum = r.seq + 1]}
  BY <1>1 DEF Written, Numbered
<1>3. QED
  BY <1>2 DEF WriterState

\* Every spoolfile still holds one session, and starts with its record.
LEMMA WriterContentsStep ==
  ASSUME IInv, WriterNext
  PROVE  Contents'
<1> DEFINE OpenFile == cur # NoFile /\ wpc # "header" =>
             \E t \in Times : OneSession(kern[cur], buf, t) /\ (wpc = "idle" => t = clock)
           InForce == ssw.srec # NoRec => ssw.srec.ts = clock
           Pending == wpc \in {"create", "close", "header"} =>
             ssw.srec # NoRec /\ pend # NoRec /\ pend.ts = clock
<1>1. /\ SelfContained /\ OpenFile /\ InForce /\ Pending
      /\ ssw \in WriterState /\ buf \in Seq(SpoolRecs)
      /\ kern \in [FileNums -> Seq(SpoolRecs)] /\ cur \in FileNums \cup {NoFile}
      /\ nextNum \in Nat /\ clock \in 0..MaxTime /\ MaxTime \in Nat
      /\ WriterNumbering
  BY WriterAssumption
     DEF IInv, Contents, STypeOK, TypeOK, StoreTypeOK, WriterTypeOK
<1>2. StoreTypeOK'
  BY WriterStoreStep, StoreGrows
<1>3. SUFFICES SelfContained' /\ OpenFile' /\ InForce' /\ Pending'
  BY DEF Contents
<1>4. ASSUME UNCHANGED storeVars
      PROVE  SelfContained'
  BY <1>1, <1>4 DEF SelfContained, storeVars
<1>5. FreshWriter.srec = NoRec
  BY DEF FreshWriter
<1>6. CASE Open
  BY <1>1, <1>4, <1>5, <1>6 DEF Open, WriterNumbering
<1>7. CASE WriteSession
  <2> DEFINE rec == Session(clock + 1)
  <2>1. clock + 1 \in Times /\ clock' = clock + 1 /\ BeginSpoolfile(rec)
    BY <1>1, <1>7 DEF WriteSession, Times
  <2>2. rec \in SessionRecs /\ rec.ts = clock + 1 /\ rec # NoRec /\ IsSession(rec)
    BY <2>1 DEF SessionRecs, Session, SessionRec, NoRec, IsSession
  <2> HIDE DEF rec
  <2>3. StartsSession(ssw, rec)
    BY <1>1, <2>2 DEF StartsSession, SameTs
  <2>4. ssw' = [ssw EXCEPT !.srec = rec, !.seqnum = 0, !.ended = FALSE]
    BY <2>1, <2>3 DEF BeginSpoolfile, Started
  <2>5. ssw'.srec = rec
    BY <1>1, <2>4 DEF WriterState
  <2>6. QED
    BY <1>1, <1>4, <2>1, <2>2, <2>5 DEF BeginSpoolfile, storeVars
<1>8. ASSUME NEW rec \in NextRecs, BeginSpoolfile(rec), UNCHANGED clock
      PROVE  SelfContained' /\ OpenFile' /\ InForce' /\ Pending'
  <2>1. rec # NoRec /\ rec.ts = clock /\ ~IsSession(rec) /\ ssw.srec # NoRec
    BY <1>8, NextRecsFacts DEF BeginSpoolfile
  <2>2. ssw' = ssw
    BY <1>8, <2>1 DEF BeginSpoolfile, StartsSession
  <2>3. QED
    BY <1>1, <1>4, <1>8, <2>1, <2>2 DEF BeginSpoolfile, storeVars
<1>9. ASSUME NEW rec \in NextRecs, WriteInPlace(rec)
      PROVE  SelfContained' /\ OpenFile' /\ InForce' /\ Pending'
  <2>1. /\ cur # NoFile /\ Buffered(cur, buf, <<rec>>) /\ wpc = "idle"
        /\ ~StartsSession(ssw, rec) /\ UNCHANGED <<cur, wpc, clock>>
        /\ ssw' = Written(ssw, rec)
    BY <1>9 DEF WriteInPlace, NeedsSpoolfile
  <2>2. rec \in SpoolRecs /\ rec.ts = clock /\ clock \in Times
    BY <1>9, NextRecsFacts DEF WriteInPlace
  <2>3. OneSession(kern[cur], buf, clock)
    BY <1>1, <2>1
  <2>4. <<rec>> \in Seq(SpoolRecs) /\ \A i \in 1..Len(<<rec>>) : <<rec>>[i].ts = clock
    BY <2>2
  <2>5. Shape(kern[cur], buf, <<rec>>, clock)
    BY <2>3, <2>4 DEF Shape, OneSession
  <2>6. OneSession(kern'[cur], buf', clock)
    BY <2>1, <2>4, <2>5, WriteFacts
  <2>7. \A n \in FileNums : n # cur => kern'[n] = kern[n]
    BY <1>1, <2>1 DEF Buffered, AppendTo
  <2>8. SelfContained'
    BY <1>2, <2>6, <2>7, ContainedFacts
  <2>9. OpenFile'
    BY <2>1, <2>2, <2>6
  <2>10. InForce'
    BY <1>1, <2>1, <2>2, WrittenKeepsSession
  <2>11. QED
    BY <2>1, <2>8, <2>9, <2>10
<1>10. CASE CreateSpoolfile
  <2>1. /\ dir' = dir \cup {nextNum} /\ kern' = [kern EXCEPT ![nextNum] = <<>>]
        /\ wpc = "create" /\ wpc' = "close" /\ UNCHANGED <<ssw, cur, buf, pend, clock>>
    BY <1>10 DEF CreateSpoolfile, CreateFile
  <2>2. \A n \in FileNums : kern'[n] = kern[n] \/ kern'[n] = <<>>
    BY <1>1, <2>1
  <2>3. SelfContained'
    BY <1>2, <2>2, ContainedFacts
  <2>4. cur # NoFile => cur # nextNum
    <3>1. (\A m \in dir : m < nextNum) /\ (cur # NoFile => \E m \in dir : cur <= m)
      BY <1>1, <2>1 DEF WriterNumbering
    <3>2. \A m \in dir : m \in Nat
      BY DEF IInv, STypeOK, TypeOK, StoreTypeOK, FileNums
    <3>3. QED
      BY <1>1, <3>1, <3>2
  <2>5. OpenFile'
    BY <1>1, <2>1, <2>4
  <2>6. QED
    BY <1>1, <2>1, <2>3, <2>5
<1>11. CASE CreateThrows \/ Poll
  BY <1>1, <1>4, <1>11 DEF CreateThrows, Poll, storeVars
<1>12. ASSUME IF cur = NoFile THEN UNCHANGED storeVars ELSE FlushAll(cur), wpc # "header"
       PROVE  SelfContained'
  <2>1. CASE cur = NoFile
    BY <1>4, <1>12, <2>1
  <2>2. CASE cur # NoFile
    <3>1. PICK t \in Times : OneSession(kern[cur], buf, t)
      BY <1>1, <1>12, <2>2
    <3>2. OneSession(kern'[cur], <<>>, t)
      BY <1>12, <2>2, <3>1, FlushFacts
    <3>3. \A n \in FileNums : n # cur => kern'[n] = kern[n]
      BY <1>1, <1>12, <2>2 DEF FlushAll, AppendTo
    <3>4. QED
      BY <1>2, <3>2, <3>3, ContainedFacts
  <2>3. QED
    BY <2>1, <2>2
<1>13. CASE CloseOld
  <2>1. SelfContained'
    BY <1>12, <1>13 DEF CloseOld
  <2>2. QED
    BY <1>1, <1>13, <2>1 DEF CloseOld
<1>14. CASE WriteHeader
  <2> DEFINE hdr == ssw.srec
  <2>1. /\ cur # NoFile /\ cur \in FileNums /\ kern[cur] = <<>> /\ buf = <<>>
        /\ hdr # NoRec /\ hdr.ts = clock /\ pend.ts = clock /\ pend # NoRec
        /\ UNCHANGED <<cur, clock>> /\ wpc' \in {"idle", "overfull"}
    BY <1>1, <1>14 DEF WriteHeader, WriterNumbering, NoFile
  <2>2. hdr \in SpoolRecs /\ pend \in SpoolRecs /\ IsSession(hdr) /\ clock \in Times
    BY <1>1, <2>1, SessionFacts
       DEF WriterState, IInv, STypeOK, TypeOK, WriterTypeOK
  <2>3. ~StartsSession(ssw, pend)
    BY <2>1 DEF StartsSession, SameTs
  <2>4. Written(ssw, pend).srec = hdr
    BY <1>1, <2>2, <2>3, WrittenKeepsSession
  <2>5. ssw'.srec = hdr
    BY <1>14, <2>4 DEF WriteHeader
  <2>6. PICK recs \in {<<hdr>>, <<hdr>> \o <<>>, <<hdr>> \o <<pend>>} :
          Buffered(cur, buf, recs)
    BY <1>14 DEF WriteHeader
  <2> HIDE DEF hdr
  <2>7. /\ <<hdr>> \in Seq(SpoolRecs) /\ <<>> \in Seq(SpoolRecs)
        /\ <<pend>> \in Seq(SpoolRecs)
    BY <2>2
  <2>8. /\ recs \in Seq(SpoolRecs) /\ Len(recs) > 0
        /\ recs[1] = hdr /\ \A i \in 1..Len(recs) : recs[i].ts = clock
    <3>1. CASE recs = <<hdr>>
      BY <2>1, <2>2, <3>1
    <3>2. CASE recs = <<hdr>> \o <<>>
      <4>1. recs = <<hdr>>
        BY <2>7, <3>2, ConcatEmptySeq, Zenon
      <4>2. QED
        BY <3>1, <4>1
    <3>3. CASE recs = <<hdr>> \o <<pend>>
      <4>1. /\ recs \in Seq(SpoolRecs) /\ Len(recs) = 2
            /\ recs[1] = hdr /\ recs[2] = pend
        <5>1. Len(<<hdr>>) = 1 /\ Len(<<pend>>) = 1 /\ <<hdr>>[1] = hdr /\ <<pend>>[1] = pend
          OBVIOUS
        <5>2. QED
          BY <2>7, <3>3, <5>1, ConcatProperties
      <4>2. QED
        BY <2>1, <4>1
    <3>4. QED
      BY <2>6, <3>1, <3>2, <3>3
  <2>9. Shape(kern[cur], buf, recs, clock)
    BY <2>1, <2>2, <2>8 DEF Shape
  <2>10. OneSession(kern'[cur], buf', clock)
    BY <2>1, <2>6, <2>8, <2>9, WriteFacts
  <2>11. \A n \in FileNums : n # cur => kern'[n] = kern[n]
    BY <1>1, <2>1, <2>6 DEF Buffered, AppendTo
  <2>12. SelfContained'
    BY <1>2, <2>10, <2>11, ContainedFacts
  <2>13. OpenFile'
    BY <2>1, <2>2, <2>10
  <2>14. QED
    BY <2>1, <2>5, <2>12, <2>13
<1>15. CASE Destroy
  <2>1. SelfContained'
    BY <1>12, <1>15 DEF Destroy
  <2>2. QED
    BY <1>5, <1>15, <2>1 DEF Destroy, Closed
<1>16. CASE Kill
  BY <1>4, <1>5, <1>16 DEF Kill, Closed
<1>17. CASE Sync \/ ReadReply
  <2>1. ssw'.srec = ssw.srec
    BY <1>17, SyncFacts DEF IInv, STypeOK, TypeOK
  <2>2. QED
    BY <1>1, <1>4, <1>17, <2>1 DEF Sync, ReadReply, storeVars
<1>18. QED
  BY <1>6, <1>7, <1>8, <1>9, <1>10, <1>11, <1>13, <1>14, <1>15, <1>16, <1>17
     DEF WriterNext, WriteRecord

-----------------------------------------------------------------------------
(* What the writer's steps leave to the reader.                             *)

\* All that has been read of a spoolfile stays what it was, and an end that
\* has been seen stays the end.
LEMMA ReaderUnderWriter ==
  ASSUME IInv, StoreStep, UNCHANGED forwardVars
  PROVE  ForwardTypeOK' /\ ReaderPlace' /\ ReaderSession' /\ Forwarded'
<1>1. /\ UNCHANGED <<fpc, at, rfile, rnext, scanned, rpos, rts, rseq, awaiting,
                     hand, dst, db, faults, restarts>>
      /\ ForwardTypeOK /\ ReaderPlace /\ ReaderSession /\ Forwarded
      /\ dir \subseteq FileNums /\ rfile \in FileNums \cup {NoFile} /\ rpos \in Nat
      /\ \A n \in FileNums : n \in Nat /\ Len(kern[n]) \in Nat
  BY LenProperties
     DEF forwardVars, readerVars, IInv, STypeOK, TypeOK, StoreTypeOK,
         ForwardTypeOK, FileNums
<1>2. /\ dir \subseteq dir'
      /\ \A n \in FileNums : Len(kern'[n]) \in Nat
      /\ \A n \in FileNums : sealed[n] # Unsealed => sealed'[n] = sealed[n]
      /\ \A n \in FileNums : (\E m \in dir : n <= m) => Extends(kern[n], kern'[n])
  BY StoreGrows, LenProperties DEF StoreTypeOK
<1>3. rfile = NoFile => rpos = 0
  BY <1>1 DEF ReaderPlace
<1>4. ASSUME rfile # NoFile
      PROVE  Extends(kern[rfile], kern'[rfile])
             /\ (awaiting => sealed'[rfile] = sealed[rfile])
  <2>1. rfile \in dir \/ rfile + 1 \in dir
    BY <1>1, <1>4 DEF ReaderPlace
  <2>2. awaiting => \E m \in dir : rfile < m
    BY <1>1, <1>4 DEF ReaderPlace
  <2>3. awaiting => sealed[rfile] # Unsealed
    BY <1>1, <1>4, <2>2 DEF IInv, SpoolNumbering
  <2>4. QED
    BY <1>1, <1>2, <1>4, <2>1, <2>3
<1>5. ForwardTypeOK'
  BY <1>1 DEF ForwardTypeOK
<1>6. ReaderPlace'
  <2>1. CASE rfile = NoFile
    BY <1>1, <2>1 DEF ReaderPlace
  <2>2. CASE rfile # NoFile
    <3>1. rpos <= Len(kern'[rfile])
      BY <1>1, <1>2, <1>4, <2>2 DEF ReaderPlace, Extends
    <3>2. QED
      BY <1>1, <1>2, <1>4, <2>2, <3>1 DEF ReaderPlace
  <2>3. QED
    BY <2>1, <2>2
<1>7. \A i \in 1..rpos : kern'[rfile][i] = kern[rfile][i]
  BY <1>1, <1>3, <1>4 DEF Extends, ReaderPlace
<1>8. ReaderSession'
  BY <1>1, <1>7 DEF ReaderSession
<1>9. Forwarded'
  BY <1>1, <1>7 DEF Forwarded, Document, IsEvent
<1>10. QED
  BY <1>5, <1>6, <1>8, <1>9

\* A spoolfile that has gone is sealed, and gains no timely event.
LEMMA TimelyUnderWriter ==
  ASSUME IInv, StoreStep, UNCHANGED db
  PROVE  NoTimelyLoss'
<1>1. /\ dir \subseteq FileNums /\ kern \in [FileNums -> Seq(SpoolRecs)]
      /\ sealed \in [FileNums -> Nat \cup {Unsealed}]
      /\ cur \in FileNums \cup {NoFile} /\ nextNum \in Nat
      /\ \A n \in FileNums : n \in Nat /\ Len(kern[n]) \in Nat
      /\ SpoolNumbering /\ WriterNumbering /\ NoTimelyLoss
  BY LenProperties DEF IInv, STypeOK, TypeOK, StoreTypeOK, WriterTypeOK, FileNums
<1>2. /\ dir \subseteq dir'
      /\ \A n \in FileNums : sealed[n] # Unsealed => sealed'[n] = sealed[n]
      /\ \A n \in FileNums : sealed'[n] <= Len(kern'[n])
      /\ \A n \in FileNums : (\E m \in dir : n <= m) => Extends(kern[n], kern'[n])
      /\ sealed' \in [FileNums -> Nat \cup {Unsealed}]
  BY StoreGrows DEF StoreTypeOK
<1>3. SUFFICES ASSUME NEW n \in FileNums \ dir', NEW e \in TimelyEvents(n)'
               PROVE  Document(e) \in db
  BY DEF NoTimelyLoss, Document
<1>4. n \notin dir /\ n \in FileNums
  BY <1>2
<1>5. PICK i \in 1..(IF sealed'[n] = Unsealed THEN Len(kern'[n]) ELSE sealed'[n]) :
        e = kern'[n][i] /\ IsEvent(kern'[n][i])
  BY DEF TimelyEvents, EventsUpTo
<1>6. kern'[n] = <<>> \/ \E m \in dir : n <= m
  <2>1. CASE UNCHANGED storeVars
    BY <1>1, <1>4, <2>1 DEF storeVars, SpoolNumbering
  <2>2. CASE \E recs \in Seq(SpoolRecs) : Extend(recs)
    BY <1>1, <1>4, <2>2 DEF Extend, AppendTo, SpoolNumbering, WriterNumbering
  <2>3. CASE Create
    BY <1>1, <1>4, <2>3 DEF Create, CreateFile, SpoolNumbering
  <2>4. QED
    BY <2>1, <2>2, <2>3 DEF StoreStep
<1>7. ASSUME kern'[n] = <<>> PROVE FALSE
  <2>1. Len(kern'[n]) = 0
    BY <1>7
  <2>2. QED
    BY <1>2, <1>4, <1>5, <2>1
<1>8. PICK m \in dir : n < m
  BY <1>1, <1>4, <1>6, <1>7
<1>9. /\ sealed[n] # Unsealed /\ sealed'[n] = sealed[n]
      /\ Extends(kern[n], kern'[n]) /\ sealed[n] <= Len(kern[n])
  BY <1>1, <1>2, <1>4, <1>8 DEF SpoolNumbering
<1>10. i \in 1..sealed[n] /\ i \in 1..Len(kern[n])
  BY <1>1, <1>4, <1>5, <1>9
<1>11. e = kern[n][i] /\ IsEvent(kern[n][i])
  BY <1>5, <1>9, <1>10 DEF Extends
<1>12. e \in TimelyEvents(n)
  BY <1>9, <1>10, <1>11 DEF TimelyEvents, EventsUpTo
<1>13. QED
  BY <1>1, <1>4, <1>12 DEF NoTimelyLoss

-----------------------------------------------------------------------------
(* Steps of the forwarder.                                                  *)

\* What the forwarder has in hand is a sync request or the record read last.
LEMMA HandFacts ==
  ASSUME IInv, fpc \in {"make", "put"}
  PROVE  /\ rfile \in FileNums /\ rfile \in dir /\ rpos \in Nat
         /\ \/ hand = SyncRequest /\ awaiting
            \/ /\ hand \in SpoolRecs /\ rpos \in 1..Len(kern[rfile])
               /\ hand = kern[rfile][rpos]
<1>1. /\ ForwardTypeOK /\ ReaderPlace /\ ReaderSession
      /\ kern \in [FileNums -> Seq(SpoolRecs)]
  BY DEF IInv, STypeOK, TypeOK, StoreTypeOK
<1>2. rfile # NoFile /\ rfile \in FileNums /\ rfile \in dir /\ rpos \in Nat
      /\ rpos <= Len(kern[rfile])
  BY <1>1 DEF ForwardTypeOK, ReaderPlace
<1>3. kern[rfile] \in Seq(SpoolRecs) /\ Len(kern[rfile]) \in Nat
  BY <1>1, <1>2, LenProperties
<1>4. hand = SyncRequest => awaiting
  BY <1>1 DEF ReaderPlace
<1>5. hand # SyncRequest => rpos > 0 /\ hand = kern[rfile][rpos]
  BY <1>1 DEF ReaderSession
<1>6. hand # SyncRequest => rpos \in 1..Len(kern[rfile])
  BY <1>2, <1>3, <1>5
<1>7. hand # SyncRequest => hand \in SpoolRecs
  BY <1>3, <1>5, <1>6, ElementOfSeq
<1>8. QED
  BY <1>2, <1>4, <1>5, <1>6, <1>7

\* Every record of the file being read is of the session its first one names.
LEMMA FileFacts ==
  ASSUME IInv, rfile \in FileNums, NEW i \in 1..Len(kern[rfile])
  PROVE  /\ kern[rfile][i] \in SpoolRecs
         /\ kern[rfile][i].ts = kern[rfile][1].ts
         /\ IsSession(kern[rfile][1]) /\ ~IsEvent(kern[rfile][1])
<1>1. kern[rfile] \in Seq(SpoolRecs) /\ SelfContained
  BY DEF IInv, STypeOK, TypeOK, StoreTypeOK, Contents
<1>2. kern[rfile] # <<>>
  BY <1>1, EmptySeq
<1>3. kern[rfile][i] \in SpoolRecs
  BY <1>1, ElementOfSeq
<1>4. QED
  BY <1>1, <1>2, <1>3 DEF SelfContained, SameTs, IsSession, IsEvent

\* Documents are made of spoolfile records and the session being written.
LEMMA DocumentFacts ==
  ASSUME NEW w \in WriterState, w.srec # NoRec,
         NEW r \in SpoolRecs \cup {SyncRequest}
  PROVE  Documents(w, r) \subseteq [ts : Times, rec : SpoolRecs]
<1>1. w.srec.ts \in Times
  BY SessionFacts DEF WriterState
<1>2. CASE r = SyncRequest
  BY <1>2 DEF Documents, SyncRequest
<1>3. CASE r \in SpoolRecs
  BY <1>1, <1>3 DEF Documents
<1>4. QED
  BY <1>2, <1>3

\* The forwarder changes the directory by deleting the file it has read, and
\* nothing the writer holds; documents are only added.
LEMMA ForwardFrame ==
  ASSUME ForwardNext, changed \in BOOLEAN
  PROVE  /\ UNCHANGED <<kern, sealed, writerVars>>
         /\ changed' \in BOOLEAN
         /\ Unlink \/ UNCHANGED dir
         /\ db \subseteq db'
<1>1. CASE Scan \/ ScanEmpty \/ OpenSpoolfile \/ OpenThrows \/ ReadRecord \/ ReadNothing
  BY <1>1 DEF Scan, ScanEmpty, OpenSpoolfile, OpenThrows, ReadRecord, ReadNothing,
              storeVars
<1>2. CASE SeeSuccessor \/ SeeNoSuccessor \/ Wake \/ ReadEnd \/ NotASession
  BY <1>2 DEF SeeSuccessor, SeeNoSuccessor, Wake, ReadEnd, NotASession, storeVars
<1>3. CASE PutSession \/ PutRecord \/ PutSync \/ PutThrows
  BY <1>3 DEF PutSession, PutRecord, PutSync, PutThrows, storeVars
<1>4. CASE Unlink \/ Advance \/ Start \/ Stop
  BY <1>4 DEF Unlink, Advance, Start, Stop, storeVars
<1>5. QED
  BY <1>1, <1>2, <1>3, <1>4 DEF ForwardNext, ForwardStep

\* After an exception there is no reader to speak of.
LEMMA RetryFacts ==
  ASSUME IInv, Retry
  PROVE  /\ rfile' = NoFile /\ rpos' = 0 /\ at' = "read" /\ fpc' = "start"
         /\ hand' = NoRec /\ dst' = FreshWriter /\ scanned' = scanned
         /\ restarts' = restarts /\ awaiting' = FALSE
         /\ rnext' \in Nat /\ rts' \in 0..MaxTime /\ rseq' \in 0..(MaxSeq + 1)
<1>1. ForwardTypeOK /\ ReaderPlace /\ {MaxTime, MaxSeq} \subseteq Nat
  BY WriterAssumption DEF IInv, STypeOK
<1>2. CASE rfile = NoFile
  BY <1>1, <1>2 DEF Retry, ForwardTypeOK, ReaderPlace
<1>3. CASE rfile # NoFile
  <2>1. rnext - 1 \in Nat
    BY <1>1, <1>3 DEF ForwardTypeOK, ReaderPlace, FileNums
  <2>2. 0 \in 0..MaxTime /\ 0 \in 0..(MaxSeq + 1)
    BY <1>1
  <2>3. QED
    BY <1>1, <1>3, <2>1, <2>2 DEF Retry
<1>4. QED
  BY <1>2, <1>3

\* Types of the forwarder's variables are kept.
LEMMA ForwardTypeStep ==
  ASSUME IInv, ForwardNext
  PROVE  ForwardTypeOK'
<1>1. /\ ForwardTypeOK /\ ReaderPlace /\ dir \subseteq FileNums
      /\ {MaxTime, MaxSeq} \subseteq Nat
      /\ \A n \in FileNums : n \in Nat
      /\ FreshWriter \in WriterState /\ FreshWriter.srec = NoRec
      /\ 0 \in 0..MaxTime /\ 0 \in 0..(MaxSeq + 1)
  <2>1. 0 \in 0..MaxTime /\ 0 \in 0..(MaxSeq + 1) /\ {MaxTime, MaxSeq} \subseteq Nat
    BY WriterAssumption
  <2>2. FreshWriter \in WriterState /\ FreshWriter.srec = NoRec
    BY <2>1 DEF FreshWriter, WriterState
  <2>3. QED
    BY <2>1, <2>2 DEF IInv, STypeOK, TypeOK, StoreTypeOK, FileNums
<1>2. CASE Scan
  BY <1>1, <1>2, ScannerFacts DEF Scan, ForwardTypeOK
<1>3. CASE OpenSpoolfile
  BY <1>1, <1>3 DEF OpenSpoolfile, ForwardTypeOK
<1>4. CASE OpenThrows
  BY <1>1, <1>4 DEF OpenThrows, ForwardTypeOK
<1>5. CASE ScanEmpty \/ ReadNothing \/ SeeSuccessor \/ SeeNoSuccessor \/ Wake
  BY <1>1, <1>5
     DEF ScanEmpty, ReadNothing, SeeSuccessor, SeeNoSuccessor, Wake, ForwardTypeOK
<1>6. CASE ReadRecord
  <2> DEFINE rec == kern[rfile][rpos + 1]
  <2>1. /\ rfile \in FileNums /\ rpos \in Nat /\ rpos < Len(kern[rfile])
        /\ Observe(rec) /\ Return(rec) /\ rpos' = rpos + 1 /\ at' = "read"
        /\ UNCHANGED <<rfile, rnext, scanned, awaiting, dst, db, faults, restarts>>
    BY <1>1, <1>6 DEF ReadRecord, ForwardTypeOK
  <2>2. Len(kern[rfile]) \in Nat
    BY <2>1, LenProperties DEF IInv, STypeOK, TypeOK, StoreTypeOK
  <2>3. rec \in SpoolRecs
    BY <2>1, <2>2, FileFacts
  <2> HIDE DEF rec
  <2>4. rec.ts \in 0..MaxTime /\ (IsEvent(rec) => rec.seq + 1 \in 0..(MaxSeq + 1))
    BY <1>1, <2>3, RecordFacts DEF Times
  <2>5. rts' \in 0..MaxTime /\ rseq' \in 0..(MaxSeq + 1)
    BY <1>1, <2>1, <2>4 DEF Observe, ForwardTypeOK
  <2>6. QED
    BY <1>1, <2>1, <2>3, <2>5 DEF Return, ForwardTypeOK
<1>7. CASE ReadEnd
  BY <1>1, <1>7 DEF ReadEnd, Return, ForwardTypeOK
<1>8. CASE NotASession
  BY <1>1, <1>8, RetryFacts DEF NotASession, ForwardTypeOK
<1>9. ASSUME fpc \in {"make", "put"}, NEW w \in WriterState, ~Refuses(w, hand)
      PROVE  /\ Written(w, hand) \in WriterState
             /\ Documents(Written(w, hand), hand) \subseteq [ts : Times, rec : SpoolRecs]
             /\ hand = SyncRequest => Written(w, hand).reply \in Replies
  BY <1>9, HandFacts, WrittenFacts, DocumentFacts
<1>10. CASE PutSession
  BY <1>1, <1>9, <1>10 DEF PutSession, ForwardTypeOK, readerVars
<1>11. CASE PutRecord
  BY <1>1, <1>9, <1>11 DEF PutRecord, ForwardTypeOK, readerVars
<1>12. CASE PutSync
  <2>1. hand = SyncRequest /\ dst \in WriterState
    <3>1. hand \in SpoolRecs => hand.chan # "sync"
      BY RecordFacts
    <3>2. QED
      BY <1>1, <1>12, <3>1, HandFacts DEF PutSync, ForwardTypeOK
  <2>2. Written(dst, hand) \in WriterState /\ Written(dst, hand).reply \in Replies
    BY <1>9, <1>12, <2>1 DEF PutSync
  <2>3. Replied(Written(dst, hand)) \in WriterState
    BY <2>2 DEF Replied, WriterState
  <2>4. QED
    BY <1>1, <1>12, <2>2, <2>3 DEF PutSync, ForwardTypeOK, readerVars
<1>13. CASE PutThrows
  <2> DEFINE w == IF fpc = "make" THEN FreshWriter ELSE dst
  <2>1. w \in WriterState /\ fpc \in {"make", "put"} /\ ~Refuses(w, hand) /\ Retry
        /\ faults' = faults + 1
        /\ db' \in {db, db \cup Documents(Written(w, hand), hand)}
    BY <1>1, <1>13 DEF PutThrows, ForwardTypeOK
  <2> HIDE DEF w
  <2>2. db' \subseteq [ts : Times, rec : SpoolRecs]
    BY <1>1, <1>9, <2>1 DEF ForwardTypeOK
  <2>3. QED
    BY <1>1, <2>1, <2>2, RetryFacts DEF ForwardTypeOK
<1>14. CASE Unlink
  BY <1>1, <1>14 DEF Unlink, ForwardTypeOK, readerVars
<1>15. CASE Advance
  <2>1. /\ rfile' \in FileNums /\ rpos' = 0 /\ at' = "read" /\ rnext' \in Nat
        /\ awaiting' = FALSE /\ fpc' = "loop"
        /\ UNCHANGED <<scanned, rts, rseq, hand, dst, db, faults, restarts>>
    BY <1>1, <1>15 DEF Advance, ForwardTypeOK
  <2>2. QED
    BY <1>1, <2>1 DEF ForwardTypeOK
<1>16. CASE Start
  BY <1>1, <1>16 DEF Start, ForwardTypeOK, readerVars
<1>17. CASE Stop
  <2>1. /\ rfile' = NoFile /\ rpos' = 0 /\ at' = "read" /\ rnext' = 0
        /\ awaiting' = FALSE /\ fpc' = "down" /\ scanned' = FALSE
        /\ rts' = 0 /\ rseq' = 0 /\ hand' = NoRec /\ dst' = FreshWriter
        /\ restarts' \in Nat /\ UNCHANGED <<db, faults>>
    BY <1>1, <1>17 DEF Stop, ForwardTypeOK
  <2>2. QED
    BY <1>1, <2>1 DEF ForwardTypeOK
<1>18. QED
  BY <1>2, <1>3, <1>4, <1>5, <1>6, <1>7, <1>8, <1>10, <1>11, <1>12, <1>13,
     <1>14, <1>15, <1>16, <1>17
     DEF ForwardNext, ForwardStep

\* The reader stays in a file that is there, until it has read it up to a
\* point no further record will be read from.
LEMMA ReaderPlaceStep ==
  ASSUME IInv, ForwardNext
  PROVE  ReaderPlace'
<1>1. /\ ForwardTypeOK /\ ReaderPlace /\ dir \subseteq FileNums
      /\ \A n \in FileNums : n \in Nat /\ n # NoFile /\ Len(kern[n]) \in Nat
                             /\ sealed[n] <= Len(kern[n])
      /\ sealed \in [FileNums -> Nat \cup {Unsealed}]
      /\ rpos \in Nat /\ rfile \in FileNums \cup {NoFile}
  BY LenProperties
     DEF IInv, STypeOK, TypeOK, StoreTypeOK, FileNums, NoFile, SpoolNumbering,
         ForwardTypeOK
<1>2. ASSUME UNCHANGED <<dir, kern, sealed>>, rfile' = NoFile, rpos' = 0,
             at' = "read", fpc' \in {"start", "down"}, awaiting' = FALSE
      PROVE  ReaderPlace'
  BY <1>2 DEF ReaderPlace
<1>3. CASE Scan \/ ScanEmpty \/ OpenThrows
  BY <1>1, <1>3 DEF Scan, ScanEmpty, OpenThrows, ReaderPlace, storeVars, Reading
<1>4. CASE OpenSpoolfile
  BY <1>1, <1>4 DEF OpenSpoolfile, ReaderPlace, storeVars, Reading
<1>5. CASE ReadRecord
  <2>1. rfile \in FileNums /\ rpos < Len(kern[rfile]) /\ rpos' = rpos + 1
        /\ hand' = kern[rfile][rpos + 1] /\ Reading /\ ~awaiting /\ at' = "read"
        /\ fpc' = (IF fpc = "loop" THEN "put" ELSE "make")
        /\ UNCHANGED <<dir, kern, sealed, rfile, rnext, awaiting>>
    BY <1>1, <1>5 DEF ReadRecord, Return, storeVars
  <2>2. rpos + 1 \in 1..Len(kern[rfile])
    BY <1>1, <2>1
  <2>3. hand' # SyncRequest
    BY <2>1, <2>2, FileFacts, RecordFacts
  <2>4. fpc' = "make" => rpos' <= 1
    BY <1>1, <2>1 DEF ReaderPlace, Reading
  <2>5. QED
    BY <1>1, <2>1, <2>2, <2>3, <2>4 DEF ReaderPlace, Reading
<1>6. CASE ReadNothing \/ SeeNoSuccessor \/ Wake
  BY <1>1, <1>6
     DEF ReadNothing, SeeNoSuccessor, Wake, ReaderPlace, storeVars, Reading
<1>7. CASE SeeSuccessor
  BY <1>1, <1>7 DEF SeeSuccessor, Successor, ReaderPlace, storeVars, Reading
<1>8. CASE ReadEnd
  <2>1. rfile # NoFile /\ Reading /\ at = "last" /\ rpos = Len(kern[rfile])
        /\ awaiting' = TRUE /\ at' = "read"
        /\ fpc' = (IF fpc = "loop" THEN "put" ELSE "make")
        /\ UNCHANGED <<dir, kern, sealed, rfile, rnext, rpos>>
    BY <1>1, <1>8 DEF ReadEnd, Return, ReaderPlace, storeVars
  <2>2. rpos >= sealed[rfile]
    BY <1>1, <2>1
  <2>3. QED
    BY <1>1, <2>1, <2>2 DEF ReaderPlace, Reading
<1>9. CASE NotASession \/ PutThrows
  BY <1>2, <1>9, RetryFacts DEF NotASession, PutThrows, storeVars
<1>10. CASE PutSession \/ PutRecord
  BY <1>1, <1>10 DEF PutSession, PutRecord, ReaderPlace, storeVars, readerVars
<1>11. CASE PutSync
  <2>1. awaiting
    <3>1. hand \in SpoolRecs => hand.chan # "sync"
      BY RecordFacts
    <3>2. QED
      BY <1>11, <3>1, HandFacts DEF PutSync
  <2>2. QED
    BY <1>1, <1>11, <2>1 DEF PutSync, ReaderPlace, storeVars, readerVars
<1>12. CASE Unlink
  BY <1>1, <1>12 DEF Unlink, ReaderPlace, readerVars
<1>13. CASE Advance
  BY <1>1, <1>13 DEF Advance, Successor, ReaderPlace, storeVars
<1>14. CASE Start
  BY <1>1, <1>14 DEF Start, ReaderPlace, readerVars
<1>15. CASE Stop
  BY <1>2, <1>15 DEF Stop, storeVars
<1>16. QED
  BY <1>3, <1>4, <1>5, <1>6, <1>7, <1>8, <1>9, <1>10, <1>11, <1>12, <1>13,
     <1>14, <1>15
     DEF ForwardNext, ForwardStep

\* The reader and the destination stay in the session of the file being read.
LEMMA ReaderSessionStep ==
  ASSUME IInv, ForwardNext
  PROVE  ReaderSession'
<1>1. /\ ForwardTypeOK /\ ReaderPlace /\ ReaderSession
      /\ \A n \in FileNums : n # NoFile /\ Len(kern[n]) \in Nat
      /\ rpos \in Nat /\ rfile \in FileNums \cup {NoFile} /\ dst \in WriterState
  BY LenProperties
     DEF IInv, STypeOK, TypeOK, StoreTypeOK, FileNums, NoFile, ForwardTypeOK
<1>2. ASSUME rpos' = 0, fpc' \in {"start", "down"}
      PROVE  ReaderSession'
  BY <1>2 DEF ReaderSession
<1>3. CASE Scan \/ ScanEmpty \/ OpenThrows \/ OpenSpoolfile
  <2>1. rpos' = 0 /\ fpc' \in {"start", "down"}
    BY <1>1, <1>3
       DEF Scan, ScanEmpty, OpenThrows, OpenSpoolfile, ReaderPlace
  <2>2. QED
    BY <1>2, <2>1
<1>4. CASE ReadRecord
  <2> DEFINE rec == kern[rfile][rpos + 1]
  <2>1. /\ rfile \in FileNums /\ rpos < Len(kern[rfile]) /\ rpos' = rpos + 1
        /\ hand' = rec /\ Observe(rec) /\ fpc \in {"start", "loop"}
        /\ fpc' = (IF fpc = "loop" THEN "put" ELSE "make")
        /\ UNCHANGED <<kern, rfile, dst>>
    BY <1>1, <1>4 DEF ReadRecord, Return, storeVars, Reading
  <2>2. rpos + 1 \in 1..Len(kern[rfile])
    BY <1>1, <2>1
  <2>3. rec.ts = kern[rfile][1].ts /\ IsSession(kern[rfile][1])
    BY <2>1, <2>2, FileFacts
  <2>4. rpos = 0 => IsSession(rec)
    BY <2>3
  <2>5. rpos > 0 => rts = rec.ts
    BY <1>1, <2>3 DEF ReaderSession
  <2> HIDE DEF rec
  <2>6. rts' = rec.ts /\ (~IsSession(rec) => rts' = rts)
    BY <1>1, <2>1, <2>4, <2>5 DEF Observe
  <2>7. rts' = kern'[rfile'][1].ts
    BY <2>1, <2>3, <2>6
  <2>8. rpos' > 0 /\ hand' = kern'[rfile'][rpos']
    BY <1>1, <2>1 DEF rec
  <2>9. QED
    BY <1>1, <2>1, <2>6, <2>7, <2>8 DEF ReaderSession
<1>5. CASE ReadNothing \/ SeeSuccessor \/ SeeNoSuccessor \/ Wake
  BY <1>1, <1>5
     DEF ReadNothing, SeeSuccessor, SeeNoSuccessor, Wake, ReaderSession, storeVars,
         Reading
<1>6. CASE ReadEnd
  <2>1. ~IsSession(SyncRequest)
    BY DEF IsSession, SyncRequest
  <2>2. QED
    BY <1>1, <1>6, <2>1 DEF ReadEnd, Return, ReaderSession, storeVars, Reading
<1>7. CASE NotASession \/ PutThrows
  BY <1>2, <1>7, RetryFacts DEF NotASession, PutThrows
<1>8. ASSUME fpc \in {"make", "put"}, hand \in SpoolRecs
      PROVE  hand.ts = rts /\ rpos > 0
  <2>1. rfile \in FileNums /\ rpos \in 1..Len(kern[rfile]) /\ hand = kern[rfile][rpos]
    BY <1>8, HandFacts, RecordFacts
  <2>2. hand.ts = kern[rfile][1].ts
    BY <2>1, FileFacts
  <2>3. QED
    BY <1>1, <2>1, <2>2 DEF ReaderSession
<1>9. CASE PutSession
  <2>1. hand \in SpoolRecs /\ IsSession(hand) /\ fpc = "make"
    BY <1>9, HandFacts DEF PutSession, IsSession, SyncRequest
  <2>2. FreshWriter \in WriterState
    <3>1. 0 \in 0..(MaxSeq + 1)
      BY WriterAssumption
    <3>2. QED
      BY <3>1 DEF FreshWriter, WriterState
  <2>3. dst'.srec # NoRec /\ dst'.srec.ts = hand.ts
    BY <1>9, <2>1, <2>2, WrittenFacts DEF PutSession
  <2>4. QED
    BY <1>1, <1>8, <1>9, <2>1, <2>3
       DEF PutSession, ReaderSession, storeVars, readerVars
<1>10. CASE PutRecord
  <2>1. hand \in SpoolRecs /\ fpc = "put"
    BY <1>10, HandFacts DEF PutRecord, SyncRequest
  <2>2. dst'.srec # NoRec /\ (IsSession(hand) => dst'.srec.ts = hand.ts)
    BY <1>1, <1>10, <2>1, WrittenFacts DEF PutRecord
  <2>3. ~IsSession(hand) => dst'.srec = dst.srec
    BY <1>1, <1>10, <2>1, WrittenKeepsSession DEF PutRecord, StartsSession
  <2>4. dst'.srec.ts = rts
    BY <1>1, <1>8, <2>1, <2>2, <2>3 DEF ReaderSession
  <2>5. QED
    BY <1>1, <1>10, <2>2, <2>4 DEF PutRecord, ReaderSession, storeVars, readerVars
<1>11. CASE PutSync
  <2>1. hand = SyncRequest /\ fpc = "put"
    <3>1. hand \in SpoolRecs => hand.chan # "sync"
      BY RecordFacts
    <3>2. QED
      BY <1>11, <3>1, HandFacts DEF PutSync
  <2>2. Written(dst, hand) = [dst EXCEPT !.reply = SyncReply(dst)]
    BY <2>1 DEF Written, Numbered, SyncRequest, StartsSession, IsSession
  <2>3. dst'.srec = dst.srec
    BY <1>1, <1>11, <2>2 DEF PutSync, Replied, WriterState
  <2>4. ~IsSession(hand)
    BY <2>1 DEF IsSession, SyncRequest
  <2>5. QED
    BY <1>1, <1>11, <2>1, <2>3, <2>4
       DEF PutSync, ReaderSession, storeVars, readerVars
<1>12. CASE Unlink
  BY <1>1, <1>12 DEF Unlink, ReaderSession, readerVars
<1>13. CASE Advance
  BY <1>1, <1>13 DEF Advance, ReaderSession, storeVars
<1>14. CASE Start
  BY <1>1, <1>2, <1>14 DEF Start, ReaderPlace, readerVars
<1>15. CASE Stop
  BY <1>2, <1>15 DEF Stop
<1>16. QED
  BY <1>3, <1>4, <1>5, <1>6, <1>7, <1>9, <1>10, <1>11, <1>12, <1>13, <1>14, <1>15
     DEF ForwardNext, ForwardStep

\* What has been read of a spoolfile is in the destination, or in hand.
LEMMA ForwardedStep ==
  ASSUME IInv, ForwardNext
  PROVE  Forwarded'
<1>1. /\ ForwardTypeOK /\ ReaderPlace /\ ReaderSession /\ Forwarded
      /\ \A n \in FileNums : n # NoFile /\ Len(kern[n]) \in Nat
      /\ rpos \in Nat /\ rfile \in FileNums \cup {NoFile} /\ dst \in WriterState
  BY LenProperties
     DEF IInv, STypeOK, TypeOK, StoreTypeOK, FileNums, NoFile, ForwardTypeOK
<1>2. ASSUME rpos' = 0
      PROVE  Forwarded'
  BY <1>2 DEF Forwarded
<1>3. ASSUME UNCHANGED <<kern, rfile, rpos>>, db \subseteq db', fpc # "put"
      PROVE  Forwarded'
  BY <1>1, <1>3 DEF Forwarded, Document, IsEvent
<1>4. db \subseteq db' /\ UNCHANGED kern
  BY ForwardFrame DEF IInv, STypeOK, TypeOK, StoreTypeOK
<1>5. CASE Scan \/ ScanEmpty \/ OpenThrows \/ ReadNothing \/ SeeSuccessor
           \/ SeeNoSuccessor \/ Wake \/ ReadEnd
  BY <1>3, <1>4, <1>5
     DEF Scan, ScanEmpty, OpenThrows, ReadNothing, SeeSuccessor, SeeNoSuccessor,
         Wake, ReadEnd, Reading
<1>6. CASE OpenSpoolfile \/ Advance \/ Stop
  BY <1>2, <1>6 DEF OpenSpoolfile, Advance, Stop
<1>7. CASE NotASession \/ PutThrows
  BY <1>2, <1>7, RetryFacts DEF NotASession, PutThrows
<1>8. CASE PutSession \/ Unlink \/ Start
  BY <1>3, <1>4, <1>8 DEF PutSession, Unlink, Start, readerVars
<1>9. CASE ReadRecord
  <2> DEFINE rec == kern[rfile][rpos + 1]
  <2>1. /\ rfile \in FileNums /\ rpos < Len(kern[rfile]) /\ rpos' = rpos + 1
        /\ hand' = rec /\ fpc \in {"start", "loop"}
        /\ fpc' = (IF fpc = "loop" THEN "put" ELSE "make")
        /\ rfile' = rfile /\ db' = db
    BY <1>1, <1>9 DEF ReadRecord, Return, Reading
  <2>2. 1 \in 1..Len(kern[rfile])
    BY <1>1, <2>1
  <2>3. fpc = "start" => rpos = 0 /\ ~IsEvent(rec)
    BY <1>1, <2>1, <2>2, FileFacts DEF ReaderPlace
  <2> SUFFICES ASSUME NEW i \in 1..rpos', IsEvent(kern'[rfile'][i])
               PROVE  \/ Document(kern'[rfile'][i]) \in db'
                      \/ fpc' = "put" /\ hand' = kern'[rfile'][i]
    BY DEF Forwarded, Document, IsEvent
  <2>4. CASE i \in 1..rpos
    BY <1>1, <1>4, <2>1, <2>4 DEF Forwarded
  <2>5. CASE i = rpos + 1
    BY <1>4, <2>1, <2>3, <2>5
  <2>6. QED
    BY <1>1, <2>1, <2>4, <2>5
<1>10. CASE PutRecord
  <2>1. hand \in SpoolRecs /\ fpc = "put" /\ rpos > 0
        /\ rfile \in FileNums /\ rpos \in 1..Len(kern[rfile]) /\ hand = kern[rfile][rpos]
    BY <1>10, HandFacts DEF PutRecord, SyncRequest
  <2>2. hand.ts = rts
    BY <1>1, <2>1, FileFacts DEF ReaderSession
  <2>3. UNCHANGED <<rfile, rpos>> /\ db' = db \cup Documents(Written(dst, hand), hand)
    BY <1>10 DEF PutRecord, readerVars
  <2>4. ASSUME IsEvent(hand)
        PROVE  Document(hand) \in db'
    <3>1. ~IsSession(hand)
      BY <2>4 DEF IsEvent, IsSession
    <3>2. Written(dst, hand).srec = dst.srec /\ dst.srec.ts = rts
      BY <1>1, <2>1, <3>1, WrittenKeepsSession DEF StartsSession, ReaderSession
    <3>3. Documents(Written(dst, hand), hand) = {[ts |-> hand.ts, rec |-> hand]}
      BY <2>2, <2>4, <3>2 DEF Documents, IsEvent
    <3>4. QED
      BY <2>3, <3>3 DEF Document
  <2> SUFFICES ASSUME NEW i \in 1..rpos, IsEvent(kern[rfile][i])
               PROVE  Document(kern[rfile][i]) \in db'
    BY <1>4, <2>3 DEF Forwarded, Document, IsEvent
  <2>5. Document(kern[rfile][i]) \in db \/ hand = kern[rfile][i]
    BY <1>1 DEF Forwarded
  <2>6. QED
    BY <1>4, <2>4, <2>5
<1>11. CASE PutSync
  <2>1. ~IsEvent(hand)
    BY <1>11 DEF PutSync, IsEvent
  <2>2. UNCHANGED <<rfile, rpos, db>>
    BY <1>11 DEF PutSync, readerVars
  <2> SUFFICES ASSUME NEW i \in 1..rpos, IsEvent(kern[rfile][i])
               PROVE  Document(kern[rfile][i]) \in db
    BY <1>4, <2>2 DEF Forwarded, Document, IsEvent
  <2>3. QED
    BY <1>1, <2>1 DEF Forwarded
<1>12. QED
  BY <1>5, <1>6, <1>7, <1>8, <1>9, <1>10, <1>11 DEF ForwardNext, ForwardStep

\* Deleting the file that has been read keeps the numbering, because its
\* successor exists, and loses nothing, because it was read to its end.
LEMMA UnlinkStep ==
  ASSUME IInv, Unlink
  PROVE  StoreTypeOK' /\ SpoolNumbering' /\ WriterNumbering' /\ NoTimelyLoss'
<1>1. /\ dir \subseteq FileNums /\ sealed \in [FileNums -> Nat \cup {Unsealed}]
      /\ \A n \in FileNums : n \in Nat
      /\ rpos \in Nat /\ rfile \in FileNums \cup {NoFile} /\ nextNum \in Nat
      /\ cur \in FileNums \cup {NoFile}
      /\ StoreTypeOK /\ SpoolNumbering /\ WriterNumbering /\ NoTimelyLoss
      /\ ReaderPlace /\ Forwarded
  BY DEF IInv, STypeOK, TypeOK, StoreTypeOK, WriterTypeOK, ForwardTypeOK, FileNums
<1>2. /\ rfile \in FileNums /\ rfile + 1 \in dir /\ rpos >= sealed[rfile]
      /\ fpc = "ack"
  BY <1>1 DEF Unlink, AckMatches, ReaderPlace
<1>3. /\ dir' \in {dir, dir \ {rfile}}
      /\ UNCHANGED <<kern, sealed, changed, writerVars, db>>
  BY DEF Unlink
<1>4. UNCHANGED <<wpc, cur, buf, nextNum>>
  BY <1>3 DEF writerVars
<1>5. /\ dir' \subseteq dir /\ rfile + 1 \in dir'
      /\ \A n \in dir : n # rfile => n \in dir'
  BY <1>1, <1>2, <1>3
<1>6. ASSUME NEW n \in FileNums, NEW m \in dir, n <= m, n = m => n # rfile
      PROVE  \E q \in dir' : n <= q /\ (n < m => n < q)
  <2>1. CASE m = rfile
    BY <1>1, <1>2, <1>5, <1>6, <2>1
  <2>2. CASE m # rfile
    BY <1>5, <1>6, <2>2
  <2>3. QED
    BY <2>1, <2>2
<1>7. ASSUME NEW n \in FileNums, NEW m \in dir, n <= m
      PROVE  \E q \in dir' : n <= q
  <2>1. CASE m = rfile
    BY <1>1, <1>2, <1>5, <1>7, <2>1
  <2>2. CASE m # rfile
    BY <1>5, <1>7, <2>2
  <2>3. QED
    BY <2>1, <2>2
<1>8. StoreTypeOK'
  BY <1>1, <1>3, <1>5 DEF StoreTypeOK
<1>9. SpoolNumbering'
  <2>1. ASSUME NEW n \in FileNums
        PROVE  (\E m \in dir' : n < m) <=> (\E m \in dir : n < m)
    BY <1>1, <1>5, <1>6, <2>1
  <2>2. QED
    BY <1>1, <1>3, <1>7, <2>1 DEF SpoolNumbering
<1>10. WriterNumbering'
  <2>1. ASSUME wpc \notin {"off", "thrown"}
        PROVE  /\ \A m \in dir' : m < nextNum
               /\ nextNum > 0 => nextNum - 1 \in dir'
    <3>1. (\A m \in dir : m < nextNum) /\ (nextNum > 0 => nextNum - 1 \in dir)
      BY <1>1, <2>1 DEF WriterNumbering
    <3>2. rfile # nextNum - 1
      BY <1>1, <1>2, <3>1
    <3>3. QED
      BY <1>5, <3>1, <3>2
  <2>2. cur # NoFile => \E m \in dir' : cur <= m
    BY <1>1, <1>7 DEF WriterNumbering
  <2>3. QED
    BY <1>1, <1>3, <1>4, <2>1, <2>2 DEF WriterNumbering
<1>11. NoTimelyLoss'
  <2> SUFFICES ASSUME NEW n \in FileNums \ dir', NEW e \in TimelyEvents(n)
               PROVE  Document(e) \in db
    BY <1>3 DEF NoTimelyLoss, TimelyEvents, EventsUpTo, Document, IsEvent
  <2>1. CASE n \notin dir
    BY <1>1, <2>1 DEF NoTimelyLoss
  <2>2. CASE n \in dir
    <3>1. n = rfile
      BY <1>5, <2>2
    <3>2. sealed[n] # Unsealed
      BY <1>1, <1>2, <3>1 DEF SpoolNumbering
    <3>3. PICK i \in 1..sealed[n] : e = kern[n][i] /\ IsEvent(kern[n][i])
      BY <3>2 DEF TimelyEvents, EventsUpTo
    <3>4. i \in 1..rpos
      BY <1>1, <1>2, <3>1, <3>2, <3>3
    <3>5. QED
      BY <1>1, <1>2, <3>1, <3>3, <3>4 DEF Forwarded
  <2>3. QED
    BY <2>1, <2>2
<1>12. QED
  BY <1>8, <1>9, <1>10, <1>11

-----------------------------------------------------------------------------
(* The theorems.                                                            *)

\* The invariant holds to begin with.
LEMMA InitIInv ==
  ASSUME SInit
  PROVE  IInv
<1>1. /\ \A n \in FileNums : kern[n] = <<>> /\ sealed[n] = Unsealed
      /\ dir = {} /\ StoreTypeOK
  BY EmptySeq DEF SInit, StoreInit, StoreTypeOK
<1>2. 0 \in 0..(MaxSeq + 1) /\ 0 \in 0..MaxTime
  BY WriterAssumption
<1>3. FreshWriter \in WriterState
  BY <1>2 DEF FreshWriter, WriterState
<1>4. WriterTypeOK
  BY <1>2, <1>3, EmptySeq DEF SInit, WriterInit, WriterTypeOK
<1>5. ForwardTypeOK
  BY <1>2, <1>3 DEF SInit, ForwardInit, ForwardTypeOK
<1>6. \A n \in FileNums : n \in Int
  BY MaxFileAssumption DEF FileNums
<1>7. SpoolNumbering /\ WriterNumbering
  <2>1. Len(<<>>) = 0 /\ Unsealed <= 0
    BY DEF Unsealed
  <2>2. SpoolNumbering
    BY <1>1, <2>1 DEF SpoolNumbering
  <2>3. WriterNumbering
    BY DEF SInit, WriterInit, WriterNumbering
  <2>4. QED
    BY <2>2, <2>3
<1>8. Contents
  BY <1>1 DEF SInit, WriterInit, FreshWriter, Contents, SelfContained
<1>9. ReaderPlace /\ ReaderSession /\ Forwarded
  BY DEF SInit, ForwardInit, ReaderPlace, ReaderSession, Forwarded
<1>10. NoTimelyLoss
  <2>1. \A n \in FileNums : TimelyEvents(n) = {}
    <3>1. \A n \in FileNums : Len(kern[n]) = 0
      BY <1>1
    <3>2. QED
      BY <1>1, <3>1 DEF TimelyEvents, EventsUpTo
  <2>2. QED
    BY <2>1 DEF NoTimelyLoss
<1>11. QED
  BY <1>1, <1>4, <1>5, <1>7, <1>8, <1>9, <1>10 DEF IInv, STypeOK, TypeOK

\* Every step of either process keeps it.
LEMMA NextIInv ==
  ASSUME IInv, [SNext]_allVars
  PROVE  IInv'
<1>1. CASE WriterNext /\ UNCHANGED forwardVars
  <2>1. StoreStep /\ StoreTypeOK' /\ WriterTypeOK'
    BY <1>1, WriterStoreStep, StoreGrows, WriterTypeStep
  <2>2. SpoolNumbering' /\ WriterNumbering' /\ Contents'
    BY <1>1, <2>1, SpoolNumberingStep, WriterNumberingStep, WriterContentsStep
  <2>3. ForwardTypeOK' /\ ReaderPlace' /\ ReaderSession' /\ Forwarded'
    BY <1>1, <2>1, ReaderUnderWriter
  <2>4. NoTimelyLoss'
    BY <1>1, <2>1, TimelyUnderWriter DEF forwardVars
  <2>5. QED
    BY <2>1, <2>2, <2>3, <2>4 DEF IInv, STypeOK, TypeOK
<1>2. CASE ForwardNext
  <2>1. /\ UNCHANGED <<kern, sealed, writerVars>> /\ changed' \in BOOLEAN
        /\ Unlink \/ UNCHANGED dir
        /\ db \subseteq db'
    BY <1>2, ForwardFrame DEF IInv, STypeOK, TypeOK, StoreTypeOK
  <2>2. ForwardTypeOK' /\ ReaderPlace' /\ ReaderSession' /\ Forwarded'
    BY <1>2, ForwardTypeStep, ReaderPlaceStep, ReaderSessionStep, ForwardedStep
  <2>3. WriterTypeOK' /\ Contents'
    BY <2>1
       DEF IInv, STypeOK, TypeOK, WriterTypeOK, writerVars, Contents, SelfContained
  <2>4. StoreTypeOK' /\ SpoolNumbering' /\ WriterNumbering' /\ NoTimelyLoss'
    <3>1. CASE Unlink
      BY <3>1, UnlinkStep
    <3>2. CASE UNCHANGED dir
      <4>1. StoreTypeOK' /\ SpoolNumbering' /\ WriterNumbering'
        BY <2>1, <3>2
           DEF IInv, STypeOK, TypeOK, StoreTypeOK, SpoolNumbering, WriterNumbering,
               writerVars
      <4>2. NoTimelyLoss'
        BY <2>1, <3>2
           DEF IInv, NoTimelyLoss, TimelyEvents, EventsUpTo, Document, IsEvent
      <4>3. QED
        BY <4>1, <4>2
    <3>3. QED
      BY <2>1, <3>1, <3>2
  <2>5. QED
    BY <2>2, <2>3, <2>4 DEF IInv, STypeOK, TypeOK
<1>3. CASE UNCHANGED allVars
  <2>1. UNCHANGED <<storeVars, writerVars, forwardVars>>
    BY <1>3 DEF allVars
  <2>2. StoreTypeOK' /\ SpoolNumbering' /\ WriterNumbering'
    BY <2>1 DEF storeVars, writerVars, IInv, STypeOK, TypeOK, StoreTypeOK,
                SpoolNumbering, WriterNumbering
  <2>3. WriterTypeOK' /\ Contents'
    BY <2>1 DEF storeVars, writerVars, IInv, STypeOK, TypeOK, WriterTypeOK,
                Contents, SelfContained
  <2>4. ForwardTypeOK' /\ ReaderPlace' /\ ReaderSession' /\ Forwarded'
    BY <2>1 DEF storeVars, forwardVars, readerVars, IInv, STypeOK, ForwardTypeOK,
                ReaderPlace, ReaderSession, Forwarded, Document, IsEvent
  <2>5. NoTimelyLoss'
    BY <2>1 DEF storeVars, forwardVars, IInv, NoTimelyLoss, TimelyEvents,
                EventsUpTo, Document, IsEvent
  <2>6. QED
    BY <2>2, <2>3, <2>4, <2>5 DEF IInv, STypeOK, TypeOK
<1>4. QED
  BY <1>1, <1>2, <1>3 DEF SNext

\* IInv is an invariant of the composed system.
THEOREM Inductive == SSpec => []IInv
<1>1. SInit => IInv
  BY InitIInv
<1>2. IInv /\ [SNext]_allVars => IInv'
  BY NextIInv
<1>3. QED
  BY <1>1, <1>2, PTL DEF SSpec

\* All variables of the writer, the directory, the reader and the destination
\* keep their types, whatever the bounds on files, sessions and faults.
THEOREM TypeCorrect == SSpec => []STypeOK
<1>1. IInv => STypeOK
  BY DEF IInv
<1>2. QED
  BY <1>1, Inductive, PTL

\* Every spoolfile begins with a session record and holds one session, however
\* the writer is stopped, killed and restarted, so that a reader can start at
\* whichever file is the oldest.
THEOREM SpoolfilesSelfContained == SSpec => []SelfContained
<1>1. IInv => SelfContained
  BY DEF IInv, Contents
<1>2. QED
  BY <1>1, Inductive, PTL

\* A new spoolfile never takes a number that has been used, so that nothing is
\* overwritten and no reader meets a file it has read.
THEOREM FreshNumbers == SSpec => []NumbersNeverReused
<1>1. IInv => NumbersNeverReused
  <2> SUFFICES ASSUME IInv, wpc = "create", NEW n \in FileNums, n >= nextNum
               PROVE  n \notin dir /\ kern[n] = <<>>
    BY DEF NumbersNeverReused
  <2>1. \A m \in dir : m < nextNum
    BY DEF IInv, WriterNumbering
  <2>2. \A m \in dir : m \in Nat
    BY DEF IInv, STypeOK, TypeOK, StoreTypeOK, FileNums
  <2>3. n \in Nat /\ nextNum \in Nat
    BY DEF IInv, STypeOK, TypeOK, WriterTypeOK, FileNums
  <2>4. \A m \in dir : ~(n <= m)
    BY <2>1, <2>2, <2>3
  <2>5. QED
    BY <2>3, <2>4 DEF IInv, SpoolNumbering
<1>2. QED
  BY <1>1, Inductive, PTL

\* A spoolfile is deleted only when every event that was in it before its
\* successor was created is in the destination, under its own session.
THEOREM Safety == SSpec => []NoTimelyLoss
<1>1. IInv => NoTimelyLoss
  BY DEF IInv
<1>2. QED
  BY <1>1, Inductive, PTL
=============================================================================
