--------------------------- MODULE ComponentProofs ---------------------------
(***************************************************************************)
(* Proofs about components that do their work by themselves, for any       *)
(* number of sources, sessions, events and processes: what a session       *)
(* writer's sync reply claims, and who has the name of a unix socket.      *)
(***************************************************************************)
EXTENDS SimpleSessionWriter, UnixSocket, NtpClient, FiniteSetTheorems, TLAPS

-----------------------------------------------------------------------------
(* SimpleSessionWriter.                                                     *)

\* A writer that has been given nothing.
LEMMA FreshBase ==
  /\ FreshWriter \in BaseStates
  /\ FreshWriter.seqnum = 0 /\ FreshWriter.reply = NoRec
<1>1. 0 \in 0..(MaxSeq + 1)
  BY WriterAssumption
<1>2. QED
  BY <1>1 DEF FreshWriter, BaseStates

\* A record that is written leaves the base class in a state of its type, with
\* a reply that claims no more than it has recorded.
LEMMA WriteCovers ==
  ASSUME ReplyInv, NEW rec \in Records, Write(rec)
  PROVE  ReplyInv'
<1>1. /\ MaxSeq \in Nat /\ ~Refuses(ssw, rec) /\ ssw' = Written(ssw, rec)
      /\ broken' = broken
      /\ handled' = IF IsEvent(rec)
                    THEN handled \cup {[ts |-> ssw.srec.ts, seq |-> rec.seq]}
                    ELSE handled
  BY WriterAssumption DEF Write, Handle
<1>2. TypeOK /\ ReplyCoversHandledEvents /\ NumberCovers
  BY DEF ReplyInv
<1>3. PICK w : w = ssw
  OBVIOUS
<1>4. /\ w \in BaseStates /\ DOMAIN w = {"srec", "seqnum", "ended", "reply"}
      /\ w.seqnum \in 0..(MaxSeq + 1) /\ w.srec \in SessionRecs \cup {NoRec}
      /\ handled \subseteq [ts : Times, seq : 0..MaxSeq] /\ broken \in BOOLEAN
      /\ w.seqnum > 0 =>
           w.srec # NoRec /\ [ts |-> w.srec.ts, seq |-> w.seqnum - 1] \in handled
      /\ (w.reply # NoRec /\ w.reply.seq > 0) =>
           [ts |-> w.reply.ts, seq |-> w.reply.seq - 1] \in handled
  <2>1. w \in BaseStates
    BY <1>2, <1>3 DEF TypeOK
  <2>2. /\ DOMAIN w = {"srec", "seqnum", "ended", "reply"}
        /\ w.seqnum \in 0..(MaxSeq + 1) /\ w.srec \in SessionRecs \cup {NoRec}
    BY <2>1 DEF BaseStates
  <2>3. QED
    BY <1>2, <1>3, <2>1, <2>2 DEF TypeOK, ReplyCoversHandledEvents, NumberCovers
<1>5. w.srec # NoRec =>
        /\ w.srec \in SessionRecs
        /\ w.srec.ts \in Times /\ w.srec.src = SrcId
  BY <1>4 DEF SessionRecs, SessionRec
\* The kinds of record in turn.
<1>6. CASE IsSession(rec)
  <2>1. rec \in SessionRecs /\ rec.chan = "session"
    BY <1>1, <1>6 DEF SessionRecs, Records, IsSession, SessionRec, EventRec, EndRec,
       SignatureRec, SyncRequest, Refuses
  <2>2. CASE StartsSession(w, rec)
    <3>1. ssw' = [w EXCEPT !.srec = rec, !.seqnum = 0, !.ended = FALSE]
      <4>1. Written(w, rec) = Started(w, rec)
        BY <2>1, <2>2 DEF Written
      <4>2. QED
        BY <1>1, <1>3, <4>1 DEF Started
    <3>2. handled' = handled /\ 0 \in 0..(MaxSeq + 1)
      BY <1>1, <2>1 DEF IsEvent
    <3>3. TypeOK'
      <4>1. [w EXCEPT !.srec = rec, !.seqnum = 0, !.ended = FALSE] \in BaseStates
        BY <1>4, <2>1, <3>2 DEF BaseStates
      <4>2. QED
        BY <1>1, <1>4, <3>1, <3>2, <4>1 DEF TypeOK
    <3>4. ssw'.seqnum = 0 /\ ssw'.reply = w.reply
      BY <1>4, <3>1
    <3>5. QED
      BY <1>4, <3>2, <3>3, <3>4 DEF ReplyInv, ReplyCoversHandledEvents, NumberCovers
  <2>3. CASE ~StartsSession(w, rec)
    <3>1. Written(w, rec) = w
      BY <2>1, <2>3 DEF Written
    <3>2. ssw' = ssw /\ handled' = handled
      BY <1>1, <1>3, <2>1, <3>1 DEF IsEvent
    <3>3. QED
      BY <1>1, <1>2, <3>2 DEF ReplyInv, TypeOK, ReplyCoversHandledEvents, NumberCovers
  <2>4. QED
    BY <2>2, <2>3
<1>7. CASE IsEvent(rec)
  <2>1. rec.chan = "event" /\ ~IsSession(rec) /\ rec.seq \in 0..MaxSeq
    BY <1>1, <1>7 DEF Records, IsEvent, IsSession, SessionRec, EventRec, EndRec,
       SignatureRec, SyncRequest
  <2>2. w.srec # NoRec
    BY <1>1, <1>3, <2>1 DEF Refuses
  <2>3. ssw' = [w EXCEPT !.seqnum = rec.seq + 1]
    <3>1. Written(w, rec) = Numbered(w, rec)
      BY <2>1 DEF Written, StartsSession
    <3>2. QED
      BY <1>1, <1>3, <3>1 DEF Numbered
  <2>4. rec.seq + 1 \in 0..(MaxSeq + 1) /\ (rec.seq + 1) - 1 = rec.seq
    BY <1>1, <2>1
  <2>5. /\ handled' = handled \cup {[ts |-> w.srec.ts, seq |-> rec.seq]}
        /\ [ts |-> w.srec.ts, seq |-> rec.seq] \in [ts : Times, seq : 0..MaxSeq]
    BY <1>1, <1>3, <1>5, <1>7, <2>1, <2>2
  <2>6. /\ ssw'.srec = w.srec /\ ssw'.seqnum = rec.seq + 1 /\ ssw'.reply = w.reply
    BY <1>4, <2>3
  <2>7. TypeOK'
    <3>1. [w EXCEPT !.seqnum = rec.seq + 1] \in BaseStates
      BY <1>4, <2>4 DEF BaseStates
    <3>2. QED
      BY <1>1, <1>4, <2>3, <2>5, <3>1 DEF TypeOK
  <2>8. NumberCovers'
    BY <2>2, <2>4, <2>5, <2>6 DEF NumberCovers
  <2>9. ReplyCoversHandledEvents'
    BY <1>4, <2>5, <2>6 DEF ReplyCoversHandledEvents
  <2>10. QED
    BY <2>7, <2>8, <2>9 DEF ReplyInv
<1>8. CASE rec.chan = "sync"
  <2>1. ~IsSession(rec) /\ ~IsEvent(rec)
    BY <1>8 DEF IsSession, IsEvent
  <2>2. w.srec # NoRec
    BY <1>1, <1>3, <2>1 DEF Refuses
  <2>3. ssw' = [w EXCEPT !.reply = SyncReply(w)] /\ handled' = handled
    <3>1. Written(w, rec) = [w EXCEPT !.reply = SyncReply(w)]
      BY <1>8, <2>1 DEF Written, StartsSession
    <3>2. QED
      BY <1>1, <1>3, <2>1, <3>1
  <2>4. /\ SyncReply(w) \in SyncReplies
        /\ SyncReply(w).ts = w.srec.ts /\ SyncReply(w).seq = w.seqnum
    BY <1>4, <1>5, <2>2 DEF SyncReply, SyncReplies
  <2>5. /\ ssw'.srec = w.srec /\ ssw'.seqnum = w.seqnum
        /\ ssw'.reply = SyncReply(w)
    BY <1>4, <2>3
  <2>6. TypeOK'
    <3>1. [w EXCEPT !.reply = SyncReply(w)] \in BaseStates
      BY <1>4, <2>4 DEF BaseStates
    <3>2. QED
      BY <1>1, <1>4, <2>3, <3>1 DEF TypeOK
  <2>7. NumberCovers' /\ ReplyCoversHandledEvents'
    BY <1>4, <2>3, <2>4, <2>5 DEF NumberCovers, ReplyCoversHandledEvents
  <2>8. QED
    BY <2>6, <2>7 DEF ReplyInv
<1>9. CASE ~IsSession(rec) /\ ~IsEvent(rec) /\ rec.chan # "sync"
  <2>1. ssw' \in {w, [w EXCEPT !.ended = TRUE]} /\ handled' = handled
    BY <1>1, <1>3, <1>9 DEF Written, StartsSession, IsEvent
  <2>2. /\ ssw'.srec = w.srec /\ ssw'.seqnum = w.seqnum /\ ssw'.reply = w.reply
    BY <1>4, <2>1
  <2>3. TypeOK'
    <3>1. [w EXCEPT !.ended = TRUE] \in BaseStates
      BY <1>4 DEF BaseStates
    <3>2. QED
      BY <1>1, <1>4, <2>1, <3>1 DEF TypeOK
  <2>4. NumberCovers' /\ ReplyCoversHandledEvents'
    BY <1>4, <2>1, <2>2 DEF NumberCovers, ReplyCoversHandledEvents
  <2>5. QED
    BY <2>3, <2>4 DEF ReplyInv
<1>10. QED
  BY <1>6, <1>7, <1>8, <1>9

\* The inductive invariant: the next sequence number, and the reply made from
\* it, claim only events that were handled in the session that they name.
THEOREM ReplyInductive == Spec => []ReplyInv
<1>1. Init => ReplyInv
  <2>1. SUFFICES ASSUME Init PROVE ReplyInv
    OBVIOUS
  <2>2. ssw = FreshWriter /\ broken = FALSE /\ handled = {}
    BY <2>1 DEF Init
  <2>3. ssw \in BaseStates /\ ssw.seqnum = 0 /\ ssw.reply = NoRec
    BY <2>2, FreshBase
  <2>4. TypeOK
    BY <2>2, <2>3 DEF TypeOK
  <2>5. ReplyCoversHandledEvents /\ NumberCovers
    BY <2>3 DEF ReplyCoversHandledEvents, NumberCovers
  <2>6. QED
    BY <2>4, <2>5 DEF ReplyInv
<1>2. ReplyInv /\ [Next]_vars => ReplyInv'
  <2>1. ASSUME ReplyInv, NEW rec \in Records, WriteThrows(rec)
        PROVE  ReplyInv'
    <3>1. PICK w : w = ssw
      OBVIOUS
    <3>2. ssw' \in {w, [w EXCEPT !.srec = rec, !.seqnum = 0, !.ended = FALSE]}
          /\ handled' = handled /\ broken' = TRUE
      BY <2>1, <3>1 DEF WriteThrows, Thrown, Started
    <3>3. ssw' # w => rec \in SessionRecs
      <4>1. ssw' # w => ~Refuses(w, rec) /\ IsSession(rec)
        BY <2>1, <3>1 DEF WriteThrows, Thrown, StartsSession
      <4>2. QED
        BY <4>1 DEF SessionRecs, Records, IsSession, SessionRec, EventRec, EndRec,
           SignatureRec, SyncRequest, Refuses
    <3>4. w \in BaseStates /\ 0 \in 0..(MaxSeq + 1)
      BY <2>1, <3>1, WriterAssumption DEF ReplyInv, TypeOK
    <3>5. ssw'.reply = w.reply /\ (ssw' # w => ssw'.seqnum = 0)
      <4>1. DOMAIN w = {"srec", "seqnum", "ended", "reply"}
        BY <3>4 DEF BaseStates
      <4>2. QED
        BY <3>2, <4>1
    <3>6. ssw' \in BaseStates
      <4>1. rec \in SessionRecs =>
              [w EXCEPT !.srec = rec, !.seqnum = 0, !.ended = FALSE] \in BaseStates
        BY <3>4 DEF BaseStates
      <4>2. QED
        BY <3>2, <3>3, <3>4, <4>1
    <3>7. TypeOK'
      BY <2>1, <3>2, <3>6 DEF ReplyInv, TypeOK
    <3>8. NumberCovers' /\ ReplyCoversHandledEvents'
      BY <2>1, <3>1, <3>2, <3>5 DEF ReplyInv, NumberCovers, ReplyCoversHandledEvents
    <3>9. QED
      BY <3>7, <3>8 DEF ReplyInv
  <2>2. ASSUME ReplyInv, Read PROVE ReplyInv'
    <3>1. /\ ssw' = [ssw EXCEPT !.reply = NoRec] /\ handled' = handled
          /\ broken' = broken
      BY <2>2 DEF Read, Replied
    <3>2. ssw'.reply = NoRec /\ ssw'.seqnum = ssw.seqnum /\ ssw'.srec = ssw.srec
      <4>1. ssw \in BaseStates
        BY <2>2 DEF ReplyInv, TypeOK
      <4>2. DOMAIN ssw = {"srec", "seqnum", "ended", "reply"}
        BY <4>1 DEF BaseStates
      <4>3. QED
        BY <3>1, <4>2
    <3>3. TypeOK'
      <4>1. [ssw EXCEPT !.reply = NoRec] \in BaseStates
        BY <2>2 DEF ReplyInv, TypeOK, BaseStates
      <4>2. QED
        BY <2>2, <3>1, <4>1 DEF ReplyInv, TypeOK
    <3>4. NumberCovers' /\ ReplyCoversHandledEvents'
      BY <2>2, <3>1, <3>2 DEF ReplyInv, NumberCovers, ReplyCoversHandledEvents
    <3>5. QED
      BY <3>3, <3>4 DEF ReplyInv
  <2>3. ASSUME Replace PROVE ReplyInv'
    <3>1. ssw' = FreshWriter /\ broken' = FALSE /\ handled' = {}
      BY <2>3 DEF Replace
    <3>2. ssw' \in BaseStates /\ ssw'.seqnum = 0 /\ ssw'.reply = NoRec
      BY <3>1, FreshBase
    <3>3. TypeOK'
      BY <3>1, <3>2 DEF TypeOK
    <3>4. ReplyCoversHandledEvents' /\ NumberCovers'
      BY <3>2 DEF ReplyCoversHandledEvents, NumberCovers
    <3>5. QED
      BY <3>3, <3>4 DEF ReplyInv
  <2>4. ASSUME ReplyInv, UNCHANGED vars PROVE ReplyInv'
    BY <2>4 DEF vars, ReplyInv, TypeOK, ReplyCoversHandledEvents, NumberCovers
  <2>5. QED
    BY <2>1, <2>2, <2>3, <2>4, WriteCovers DEF Next
<1>3. QED
  BY <1>1, <1>2, PTL DEF Spec

\* A sync reply never claims an event that the derived class was not given.
THEOREM ReplyCovers == Spec => []ReplyCoversHandledEvents
<1>1. ReplyInv => ReplyCoversHandledEvents
  BY DEF ReplyInv
<1>2. QED
  BY <1>1, ReplyInductive, PTL

-----------------------------------------------------------------------------
(* UnixSocket.                                                              *)

\* The inductive invariant: who may have the pathname, or be connected to the
\* one who has it, while no two processes start or stop at the same time.
THEOREM UnixInductive == UnixSpec => []UnixInv
<1>1. UnixStart => UnixInv
  BY CaptorAssumption DEF UnixStart, UnixInv, UnixTyped, CapturingIsHeard,
     OneAtATime, Changing
<1>2. UnixInv /\ [UnixNext]_unixVars => UnixInv'
  <2>0. ASSUME UnixInv, NEW c \in Captors,
               \/ StartCaptor(c) \/ Look(c) \/ Try(c) \/ UnlinkStale(c)
               \/ BindSocket(c) \/ BindSocketThrows(c)
               \/ UnlinkOwn(c) \/ CloseOwn(c) \/ KillCaptor(c)
        PROVE  UnixInv'
    <3>1. UnixTyped /\ CapturingIsHeard /\ OneAtATime
      BY <2>0 DEF UnixInv
    <3>2. UnixTyped'
      BY <2>0, <3>1 DEF UnixTyped, StartCaptor, Look, Try, TryThen, UnlinkStale,
         BindSocket, BindSocketThrows, UnlinkOwn, CloseOwn, KillCaptor, Moves,
         MeetsAnother
    <3>3. raced => raced'
      BY <2>0 DEF StartCaptor, Look, Try, UnlinkStale, BindSocket,
         BindSocketThrows, UnlinkOwn, CloseOwn, KillCaptor, MeetsAnother
    <3>4. ASSUME ~raced' PROVE CapturingIsHeard' /\ OneAtATime'
      <4>1. ~raced
        BY <3>3, <3>4
      <4>2. /\ \A x, y \in Captors : Changing(x) /\ Changing(y) => x = y
            /\ named \in Captors => spc[named] = "capturing"
            /\ \A x \in Captors : spc[x] = "unlinking" => named = "stale"
            /\ \A x \in connected : spc[x] = "binding" /\ named # "none"
            /\ \A x \in Captors : spc[x] = "capturing" => named = x /\ x \notin connected
            /\ "none" \notin Captors /\ "stale" \notin Captors
        BY <3>1, <4>1, CaptorAssumption DEF OneAtATime, CapturingIsHeard
      <4>3. CASE StartCaptor(c) \/ UnlinkOwn(c)
        <5>1. \A x \in Captors : Changing(x) => x = c
          BY <3>4, <4>3 DEF StartCaptor, UnlinkOwn, MeetsAnother
        <5>2. QED
          BY <3>1, <4>2, <4>3, <5>1 DEF StartCaptor, UnlinkOwn, Moves, UnixTyped,
             OneAtATime, CapturingIsHeard, Changing
      <4>4. CASE Look(c) \/ Try(c)
        BY <3>1, <4>2, <4>4 DEF Look, Try, TryThen, Moves, UnixTyped, OneAtATime,
           CapturingIsHeard, Changing
      <4>5. CASE UnlinkStale(c) \/ BindSocket(c)
        BY <3>1, <4>2, <4>5 DEF UnlinkStale, BindSocket, Moves, UnixTyped,
           OneAtATime, CapturingIsHeard, Changing
      <4>6. CASE BindSocketThrows(c) \/ CloseOwn(c) \/ KillCaptor(c)
        BY <3>1, <4>2, <4>6 DEF BindSocketThrows, CloseOwn, KillCaptor, Moves,
           UnixTyped, OneAtATime, CapturingIsHeard, Changing
      <4>7. QED
        BY <2>0, <4>3, <4>4, <4>5, <4>6
    <3>5. CapturingIsHeard' /\ OneAtATime'
      BY <3>4 DEF CapturingIsHeard, OneAtATime
    <3>6. QED
      BY <3>2, <3>5 DEF UnixInv
  <2>1. ASSUME UnixInv, UNCHANGED unixVars PROVE UnixInv'
    BY <2>1 DEF unixVars, UnixInv, UnixTyped, CapturingIsHeard, OneAtATime, Changing
  <2>2. QED
    BY <2>0, <2>1 DEF UnixNext
<1>3. QED
  BY <1>1, <1>2, PTL DEF UnixSpec

\* A process that captures hears what is sent to the pathname.
THEOREM CaptureHeard == UnixSpec => []CapturingIsHeard
<1>1. UnixInv => CapturingIsHeard
  BY DEF UnixInv
<1>2. QED
  BY <1>1, UnixInductive, PTL

-----------------------------------------------------------------------------
(* NtpClient.                                                               *)

\* A response is two fragments, and complete with both of them only.
LEMMA FragmentFacts ==
  ASSUME NEW s, NEW a, NEW r, r = PeerReq(s, a)
  PROVE  /\ FragmentsOf(r) = {Fragment(r, 0), Fragment(r, 1)}
         /\ \A d \in FragmentsOf(r) : d.opcode = 2 /\ d.seq = s /\ d.assoc = a
         /\ \A F \in SUBSET FragmentsOf(r) :
              Complete(F) => F = FragmentsOf(r) /\ F # Null
<1>1. r.opcode = 2 /\ r.seq = s /\ r.assoc = a
  BY DEF PeerReq
<1>2. FragmentsOf(r) = {Fragment(r, 0), Fragment(r, 1)}
  BY <1>1 DEF FragmentsOf
<1>3. /\ Fragment(r, 0).offset = 0 /\ Fragment(r, 0).more
      /\ Fragment(r, 1).offset = 1 /\ Fragment(r, 0) # Fragment(r, 1)
  <2>1. Fragment(r, 0).offset = 0 /\ Fragment(r, 1).offset = 1
    BY DEF Fragment
  <2>2. Fragment(r, 0).more = (0 = 0)
    BY DEF Fragment
  <2>3. Fragment(r, 0).more
    BY <2>2, Zenon
  <2>4. Fragment(r, 0) # Fragment(r, 1)
    BY <2>1
  <2>5. QED
    BY <2>1, <2>3, <2>4, Zenon
<1>4. \A d \in FragmentsOf(r) : d.opcode = 2 /\ d.seq = s /\ d.assoc = a
  <2>1. ASSUME NEW o PROVE Fragment(r, o).opcode = 2 /\ Fragment(r, o).seq = s
                           /\ Fragment(r, o).assoc = a
    BY <1>1 DEF Fragment
  <2>2. QED
    BY <1>2, <2>1
<1>5. ASSUME NEW F \in SUBSET FragmentsOf(r), Complete(F)
      PROVE  F = FragmentsOf(r) /\ F # Null
  <2>1. \E f \in F : f.offset = 0
    BY <1>5 DEF Complete
  <2>2. Fragment(r, 0) \in F
    BY <1>2, <1>3, <2>1
  <2>3. \E f \in F : f.offset = 1
    BY <1>3, <1>5, <2>2 DEF Complete
  <2>4. Fragment(r, 1) \in F
    BY <1>2, <1>3, <2>3
  <2>5. QED
    BY <1>2, <2>2, <2>4 DEF Null
<1>6. QED
  BY <1>2, <1>4, <1>5

\* Every request is known by its place.
LEMMA RequestFacts ==
  ASSUME NtpTyped, Traced, NEW n \in DOMAIN requests
  PROVE  /\ n \in 1..Len(requests) /\ n \in DOMAIN responses
         /\ requests[n] = PeerReq(n + 1, requests[n].assoc)
         /\ requests[n] \in ToSet(requests)
         /\ requests[n].assoc \in DOMAIN peers /\ requests[n].assoc \in Nat
<1>1. n \in 1..Len(requests) /\ n \in DOMAIN responses
  BY DEF NtpTyped
<1>2. requests[n] \in [opcode : {2}, seq : Nat, assoc : Nat]
  <2>1. requests \in Seq([opcode : {2}, seq : Nat, assoc : Nat])
    BY DEF NtpTyped
  <2>2. PICK S : S = [opcode : {2}, seq : Nat, assoc : Nat]
    OBVIOUS
  <2>3. requests \in Seq(S)
    BY <2>1, <2>2
  <2>4. requests[n] \in S
    BY <1>1, <2>3
  <2>5. QED
    BY <2>2, <2>4
<1>3. requests[n].seq = n + 1 /\ requests[n].assoc \in DOMAIN peers
  BY DEF Traced
<1>4. requests[n] \in ToSet(requests)
  BY DEF ToSet
<1>5. QED
  BY <1>1, <1>2, <1>3, <1>4 DEF PeerReq

\* A datagram that is on its way to the client belongs to at most one request,
\* and is a fragment of its response.
LEMMA RequestOfFacts ==
  ASSUME NtpTyped, Traced, NEW d \in answers
  PROVE  /\ \A n, m \in RequestOf(d) : n = m
         /\ \A n \in RequestOf(d) :
              n \in DOMAIN requests /\ d \in FragmentsOf(requests[n])
<1>1. ASSUME NEW n \in RequestOf(d)
      PROVE  /\ n \in DOMAIN requests /\ d.opcode = 2 /\ d.seq = n + 1
             /\ n \in Nat /\ d.assoc = requests[n].assoc
  <2>1. n \in DOMAIN requests /\ n \in Nat /\ RespondsTo(d, requests[n])
    BY DEF RequestOf, NtpTyped
  <2>2. requests[n].opcode = 2 /\ requests[n].seq = n + 1
    BY <2>1, RequestFacts DEF PeerReq
  <2>3. QED
    BY <2>1, <2>2 DEF RespondsTo
<1>2. ASSUME NEW n \in RequestOf(d) PROVE d \in FragmentsOf(requests[n])
  <2>1. PICK r \in {ListReq(1)} \cup ToSet(requests) : d \in FragmentsOf(r)
    BY DEF Traced
  <2>2. r # ListReq(1)
    <3>1. ASSUME r = ListReq(1) PROVE FALSE
      <4>1. d = Fragment(r, 1)
        BY <2>1, <3>1 DEF FragmentsOf, ListReq
      <4>2. d.opcode = 1
        BY <3>1, <4>1 DEF Fragment, ListReq
      <4>3. QED
        BY <1>1, <4>2
    <3>2. QED
      BY <3>1
  <2>3. PICK m \in DOMAIN requests : r = requests[m]
    BY <2>1, <2>2 DEF ToSet
  <2>4. r = PeerReq(m + 1, requests[m].assoc) /\ m \in Nat
    BY <2>3, RequestFacts
  <2>5. d.seq = m + 1
    BY <2>1, <2>4, FragmentFacts
  <2>6. m = n
    BY <1>1, <2>4, <2>5
  <2>7. QED
    BY <2>1, <2>3, <2>6
<1>3. QED
  BY <1>1, <1>2

\* A new request is one more for its association and none for the others.
LEMMA AskedOnceMore ==
  ASSUME NtpTyped, NEW s \in Nat, NEW a \in Nat, NEW b,
         requests' = Append(requests, PeerReq(s, a))
  PROVE  /\ TimesAsked(b) \in Nat
         /\ TimesAsked(b)' = TimesAsked(b) + (IF a = b THEN 1 ELSE 0)
<1> DEFINE old == {n \in DOMAIN requests : requests[n].assoc = b}
           new == {n \in DOMAIN requests' : requests'[n].assoc = b}
<1>1. /\ Len(requests) \in Nat /\ DOMAIN requests = 1..Len(requests)
      /\ DOMAIN requests' = 1..(Len(requests) + 1)
      /\ \A n \in 1..Len(requests) : requests'[n] = requests[n]
      /\ requests'[Len(requests) + 1] = PeerReq(s, a)
  BY DEF NtpTyped, PeerReq
<1>2. IsFiniteSet(old) /\ Len(requests) + 1 \notin old
  <2>1. IsFiniteSet(1..Len(requests))
    BY <1>1, FS_Interval
  <2>2. old \subseteq 1..Len(requests)
    BY <1>1
  <2>3. QED
    BY <1>1, <2>1, <2>2, FS_Subset
<1>3. new = IF a = b THEN old \cup {Len(requests) + 1} ELSE old
  <2>1. PeerReq(s, a).assoc = a
    BY DEF PeerReq
  <2>2. 1..(Len(requests) + 1) = 1..Len(requests) \cup {Len(requests) + 1}
    BY <1>1
  <2>3. QED
    BY <1>1, <2>1, <2>2
<1> HIDE DEF old, new
<1>4. /\ Cardinality(old) \in Nat
      /\ Cardinality(new) = Cardinality(old) + (IF a = b THEN 1 ELSE 0)
  <2>1. PICK x : x = Len(requests) + 1
    OBVIOUS
  <2>2. Cardinality(old) \in Nat
    BY <1>2, FS_CardinalityType
  <2>3. Cardinality(old \cup {x}) = Cardinality(old) + 1
    BY <1>2, <2>1, FS_AddElement
  <2>4. QED
    BY <1>3, <2>1, <2>2, <2>3
<1>5. QED
  BY <1>4 DEF TimesAsked, old, new

\* What is in the network may change, and a record may be finished, without
\* the client's having anything new.
LEMMA NtpQuiet ==
  ASSUME NtpInv, npc' \in {npc, "idle"},
         UNCHANGED <<tries, seqnum, requests, responses, peers, todo>>,
         asked' \subseteq {ListReq(1)} \cup ToSet(requests),
         \A d \in answers' :
            \E r \in {ListReq(1)} \cup ToSet(requests) : d \in FragmentsOf(r)
  PROVE  NtpInv'
<1>1. NtpTyped /\ Traced /\ AskedEachRound /\ PeersSound
  BY DEF NtpInv
<1>2. NtpTyped'
  BY <1>1 DEF NtpTyped
<1>3. Traced'
  BY <1>1 DEF Traced
<1>4. AskedEachRound'
  BY <1>1 DEF AskedEachRound, TimesAsked, Missing, Asking, Current
<1>5. PeersSound'
  BY <1>1 DEF PeersSound, Missing
<1>6. QED
  BY <1>2, <1>3, <1>4, <1>5 DEF NtpInv

\* A new client has asked for nothing but the list.
LEMMA NtpBegins ==
  ASSUME NtpTyped, BeginRead
  PROVE  NtpInv'
<1>1. /\ npc' = "list" /\ tries' = 1 /\ seqnum' = 2
      /\ requests' = <<>> /\ responses' = <<>> /\ DOMAIN peers' = {0}
      /\ asked' = {ListReq(1)} /\ answers' = {} /\ todo' = todo
  BY DEF BeginRead
<1>2. DOMAIN requests' = {} /\ DOMAIN responses' = {} /\ ToSet(requests') = {}
  BY <1>1 DEF ToSet
<1>3. Traced'
  BY <1>1, <1>2 DEF Traced
<1>4. AskedEachRound'
  BY <1>1 DEF AskedEachRound
<1>5. PeersSound'
  <2>1. Assocs \cap DOMAIN peers' = {}
    BY <1>1, NtpAssumption
  <2>2. QED
    BY <1>1, <1>2, <2>1 DEF PeersSound
<1>6. NtpTyped'
  <2>1. todo' \subseteq Nat /\ DOMAIN peers' \subseteq Nat
    BY <1>1 DEF NtpTyped
  <2>2. Len(responses') = 0 /\ Len(requests') = 0
    BY <1>1
  <2>3. /\ requests' \in Seq([opcode : {2}, seq : Nat, assoc : Nat])
        /\ responses' \in Seq(SUBSET [opcode : {2}, seq : Nat, assoc : Nat,
                                     offset : {0, 1}, more : BOOLEAN])
    BY <1>1
  <2>4. QED
    BY <1>1, <2>1, <2>2, <2>3 DEF NtpTyped
<1>7. QED
  BY <1>3, <1>4, <1>5, <1>6 DEF NtpInv

LEMMA NtpStarts ==
  ASSUME NtpStart
  PROVE  NtpInv
<1>1. /\ npc = "idle" /\ tries = 0 /\ seqnum = 1
      /\ requests = <<>> /\ responses = <<>> /\ DOMAIN peers = {0}
      /\ asked = {} /\ answers = {} /\ todo = {}
  BY DEF NtpStart
<1>2. DOMAIN requests = {} /\ DOMAIN responses = {}
  BY <1>1
<1>3. Traced
  BY <1>1, <1>2 DEF Traced
<1>4. AskedEachRound
  BY <1>1 DEF AskedEachRound
<1>5. PeersSound
  <2>1. Assocs \cap DOMAIN peers = {}
    BY <1>1, NtpAssumption
  <2>2. QED
    BY <1>1, <1>2, <2>1 DEF PeersSound
<1>6. NtpTyped
  <2>1. /\ requests \in Seq([opcode : {2}, seq : Nat, assoc : Nat])
        /\ responses \in Seq(SUBSET [opcode : {2}, seq : Nat, assoc : Nat,
                                    offset : {0, 1}, more : BOOLEAN])
    BY <1>1
  <2>2. QED
    BY <1>1, <2>1 DEF NtpTyped
<1>7. QED
  BY <1>3, <1>4, <1>5, <1>6 DEF NtpInv

\* A client without requests has not asked for anybody.
LEMMA NobodyAsked ==
  ASSUME NEW b, requests = <<>>
  PROVE  TimesAsked(b) = 0
<1>1. {n \in DOMAIN requests : requests[n].assoc = b} = {}
  OBVIOUS
<1>2. QED
  BY <1>1, FS_EmptySet DEF TimesAsked

\* The list is taken, or given up.
LEMMA NtpListed ==
  ASSUME NtpInv, ReceiveList \/ ListTimeout
  PROVE  NtpInv'
<1>1. /\ npc = "list" /\ requests = <<>> /\ responses = <<>> /\ DOMAIN peers = {0}
      /\ Len(requests) = 0 /\ seqnum = 2
      /\ requests' = requests /\ responses' = responses /\ seqnum' = seqnum
      /\ tries \in Nat /\ todo \subseteq Nat
  <2>1. npc = "list" /\ requests' = requests /\ responses' = responses /\ seqnum' = seqnum
    BY DEF ReceiveList, ListTimeout
  <2>2. /\ requests = <<>> /\ DOMAIN peers = {0} /\ Len(responses) = Len(requests)
        /\ seqnum = Len(requests) + 2 /\ tries \in Nat /\ todo \subseteq Nat
        /\ responses \in Seq(SUBSET [opcode : {2}, seq : Nat, assoc : Nat,
                                     offset : {0, 1}, more : BOOLEAN])
    BY <2>1 DEF NtpInv, NtpTyped
  <2>3. responses = <<>>
    BY <2>2
  <2>4. QED
    BY <2>1, <2>2, <2>3
<1>2. DOMAIN requests' = {} /\ DOMAIN responses' = {} /\ ToSet(requests') = {}
  BY <1>1 DEF ToSet
<1>3. /\ requests' \in Seq([opcode : {2}, seq : Nat, assoc : Nat])
      /\ responses' \in Seq(SUBSET [opcode : {2}, seq : Nat, assoc : Nat,
                                    offset : {0, 1}, more : BOOLEAN])
      /\ Len(responses') = Len(requests')
  BY <1>1
<1>4. TimesAsked(0)' = 0 /\ \A b : TimesAsked(b)' = 0
  <2>1. \A b : {n \in DOMAIN requests' : requests'[n].assoc = b} = {}
    BY <1>2
  <2>2. QED
    BY <2>1, FS_EmptySet DEF TimesAsked
<1>5. 1 \in 1..Rounds /\ Assocs \subseteq Nat
  BY NtpAssumption
<1>6. asked \subseteq {ListReq(1)}
  <2>1. ToSet(requests) = {}
    BY <1>1 DEF ToSet
  <2>2. QED
    BY <2>1 DEF NtpInv, Traced
<1>7. \A d \in answers : \E r \in {ListReq(1)} \cup ToSet(requests) : d \in FragmentsOf(r)
  BY DEF NtpInv, Traced
<1>8. CASE ReceiveList
  <2>1. /\ npc' = "round" /\ tries' = 1 /\ todo' = Assocs \cup {0} /\ asked' = asked
        /\ DOMAIN peers' = Assocs \cup {0} /\ answers' \subseteq answers
        /\ \A a \in DOMAIN peers' : peers'[a] = Null
    BY <1>8 DEF ReceiveList, Received
  <2>2. NtpTyped'
    BY <1>1, <1>3, <1>5, <2>1 DEF NtpTyped
  <2>3. Traced'
    BY <1>1, <1>2, <1>6, <1>7, <2>1 DEF Traced
  <2>4. AskedEachRound'
    BY <1>4, <1>5, <2>1 DEF AskedEachRound, Missing
  <2>5. PeersSound'
    BY <1>2, <2>1 DEF PeersSound
  <2>6. QED
    BY <2>2, <2>3, <2>4, <2>5 DEF NtpInv
<1>9. CASE ListTimeout
  <2>1. /\ \/ /\ npc' = "list" /\ tries' = tries + 1 /\ asked' = asked \cup {ListReq(1)}
              /\ todo' = todo
           \/ npc' = "round" /\ tries' = 1 /\ todo' = {0} /\ asked' = asked
        /\ peers' = peers /\ answers' = answers
    BY <1>1, <1>9 DEF ListTimeout
  <2>2. NtpTyped'
    <3>1. /\ DOMAIN peers' = {0} /\ seqnum' = 2 /\ Len(requests') = 0
          /\ tries' \in Nat /\ npc' \in {"list", "round"}
      <4>1. tries' = tries + 1 \/ tries' = 1
        BY <2>1
      <4>2. QED
        BY <1>1, <2>1, <4>1
    <3>2. todo' \subseteq Nat /\ (npc' = "round" => todo' = {0})
      <4>1. todo' \in {todo, {0}}
        BY <2>1
      <4>2. npc' = "round" => todo' = {0}
        BY <2>1
      <4>3. todo \subseteq Nat
        BY <1>1, Zenon
      <4>4. QED
        BY <4>1, <4>2, <4>3
    <3>3. QED
      BY <1>1, <1>3, <3>1, <3>2 DEF NtpTyped
  <2>3. Traced'
    BY <1>1, <1>2, <1>6, <1>7, <2>1 DEF Traced
  <2>4. AskedEachRound'
    <3>1. CASE npc' = "list"
      BY <3>1 DEF AskedEachRound
    <3>2. CASE npc' = "round" /\ tries' = 1 /\ todo' = {0}
      <4>1. Missing' \subseteq todo'
        BY <1>1, <2>1, <3>2 DEF Missing
      <4>2. QED
        BY <1>4, <1>5, <3>2, <4>1 DEF AskedEachRound
    <3>3. QED
      BY <2>1, <3>1, <3>2
  <2>5. PeersSound'
    <3>1. Assocs \cap DOMAIN peers' = {}
      BY <1>1, <2>1, NtpAssumption
    <3>2. QED
      BY <1>2, <2>1, <3>1 DEF PeersSound
  <2>6. QED
    BY <2>2, <2>3, <2>4, <2>5 DEF NtpInv
<1>10. QED
  BY <1>8, <1>9

\* Where the client stands says nothing of what it has asked and heard.
LEMMA HeardKept ==
  ASSUME NtpInv, npc' # "crashed",
         UNCHANGED <<requests, responses, peers, asked, answers>>
  PROVE  /\ Traced' /\ PeersSound' /\ Missing' = Missing
         /\ \A b : TimesAsked(b)' = TimesAsked(b)
<1>1. Traced'
  BY DEF NtpInv, Traced
<1>2. PeersSound'
  BY DEF NtpInv, PeersSound
<1>3. Missing' = Missing /\ \A b : TimesAsked(b)' = TimesAsked(b)
  BY DEF Missing, TimesAsked
<1>4. QED
  BY <1>1, <1>2, <1>3

\* One association more, or less, to go through.
LEMMA NtpRounds ==
  ASSUME NtpInv, SkipPeer \/ NextRound \/ PeerTimeout \/ BuildCrashes
  PROVE  NtpInv'
<1>1. /\ UNCHANGED <<seqnum, requests, responses, peers, asked, answers>>
      /\ npc \in {"round", "peer", "build"}
  BY DEF SkipPeer, NextRound, PeerTimeout, BuildCrashes
<1>2. /\ tries \in Nat /\ todo \subseteq Nat /\ DOMAIN peers \subseteq Nat
      /\ (npc \in {"round", "peer"} => tries \in 1..Rounds /\ todo \subseteq DOMAIN peers)
      /\ Rounds \in Nat
  BY NtpAssumption DEF NtpInv, NtpTyped, AskedEachRound
<1>3. ASSUME npc' \in {"round", "build", "crashed"}, tries' \in Nat, todo' \subseteq Nat,
             npc' = "round" => todo' \subseteq DOMAIN peers
      PROVE  NtpTyped'
  BY <1>1, <1>3 DEF NtpInv, NtpTyped
<1>4. Missing' = Missing /\ \A b : TimesAsked(b)' = TimesAsked(b)
  BY <1>1 DEF Missing, TimesAsked
<1>5. ASSUME npc = "round" PROVE \A b \in Missing :
        TimesAsked(b) = IF b \in todo THEN tries - 1 ELSE tries
  BY <1>5 DEF NtpInv, AskedEachRound
<1>6. CASE SkipPeer
  <2>1. PICK a \in todo \ Missing : todo' = todo \ {a}
    BY <1>6 DEF SkipPeer
  <2>2. npc = "round" /\ npc' = npc /\ tries' = tries
    BY <1>6 DEF SkipPeer
  <2>3. AskedEachRound'
    BY <1>2, <1>4, <1>5, <2>1, <2>2 DEF AskedEachRound
  <2>4. NtpTyped'
    BY <1>2, <1>3, <2>1, <2>2
  <2>5. QED
    BY <1>1, <2>2, <2>3, <2>4, HeardKept DEF NtpInv
<1>7. CASE NextRound
  <2>1. /\ npc = "round" /\ todo = {}
        /\ \/ /\ npc' = npc /\ tries' = tries + 1 /\ tries < Rounds /\ todo' = DOMAIN peers
           \/ /\ npc' = "build" /\ tries' = tries /\ todo' = todo
              /\ ~(Missing # {} /\ tries < Rounds)
    BY <1>7 DEF NextRound
  <2>2. NtpTyped'
    BY <1>2, <1>3, <2>1
  <2>3. AskedEachRound'
    <3>1. \A b \in Missing : TimesAsked(b) = tries
      BY <1>5, <2>1
    <3>2. CASE /\ npc' = npc /\ tries' = tries + 1 /\ tries < Rounds
               /\ todo' = DOMAIN peers
      <4>1. Missing' \subseteq todo'
        BY <1>4, <3>2 DEF Missing
      <4>2. tries' - 1 = tries /\ tries' \in 1..Rounds
        BY <1>2, <3>2, <2>1
      <4>3. QED
        BY <1>4, <2>1, <3>1, <3>2, <4>1, <4>2 DEF AskedEachRound
    <3>3. CASE npc' = "build" /\ tries' = tries /\ ~(Missing # {} /\ tries < Rounds)
      <4>1. Missing = {} \/ tries = Rounds
        BY <1>2, <2>1, <3>3
      <4>2. QED
        BY <1>4, <3>1, <3>3, <4>1 DEF AskedEachRound
    <3>4. QED
      BY <2>1, <3>2, <3>3
  <2>4. QED
    BY <1>1, <2>1, <2>2, <2>3, HeardKept DEF NtpInv
<1>8. CASE PeerTimeout
  <2>1. /\ npc = "peer" /\ npc' = "round" /\ todo' = todo \ {Asking} /\ tries' = tries
    BY <1>8 DEF PeerTimeout
  <2>2. NtpTyped'
    BY <1>2, <1>3, <2>1
  <2>3. \A b \in Missing : TimesAsked(b) =
          IF b \in todo /\ b # Asking THEN tries - 1 ELSE tries
    BY <2>1 DEF NtpInv, AskedEachRound
  <2>4. AskedEachRound'
    BY <1>2, <1>4, <2>1, <2>3 DEF AskedEachRound
  <2>5. QED
    BY <1>1, <2>1, <2>2, <2>4, HeardKept DEF NtpInv
<1>9. CASE BuildCrashes
  <2>1. /\ npc = "build" /\ npc' = "crashed" /\ todo' = todo /\ tries' = tries
        /\ Missing # {}
    BY <1>9 DEF BuildCrashes
  <2>2. NtpTyped'
    BY <1>2, <1>3, <2>1
  <2>3. \A b \in Missing : TimesAsked(b) = Rounds
    BY <2>1 DEF NtpInv, AskedEachRound
  <2>4. AskedEachRound'
    BY <1>4, <2>1, <2>3 DEF AskedEachRound
  <2>5. Traced'
    BY <1>1 DEF NtpInv, Traced
  <2>6. PeersSound'
    <3>1. PICK b \in Missing : TimesAsked(b)' = Rounds
      BY <1>4, <2>1, <2>3
    <3>2. Cardinality({n \in DOMAIN requests' : requests'[n].assoc = b}) = Rounds
      BY <3>1 DEF TimesAsked
    <3>3. b \in Missing'
      BY <1>4, <3>1
    <3>4. QED
      BY <1>1, <3>2, <3>3 DEF NtpInv, PeersSound
  <2>7. QED
    BY <2>2, <2>4, <2>5, <2>6 DEF NtpInv
<1>10. QED
  BY <1>6, <1>7, <1>8, <1>9

\* An association is asked once more, with the next sequence number.
LEMMA NtpAsks ==
  ASSUME NtpInv, AskPeer
  PROVE  NtpInv'
<1> DEFINE Req == [opcode : {2}, seq : Nat, assoc : Nat]
           Frag == [opcode : {2}, seq : Nat, assoc : Nat, offset : {0, 1}, more : BOOLEAN]
<1>1. PICK a \in Missing :
        /\ ComesNext(a)
        /\ requests' = Append(requests, PeerReq(seqnum, a))
        /\ asked' = asked \cup {PeerReq(seqnum, a)}
  BY DEF AskPeer
<1>2. /\ npc = "round" /\ npc' = "peer" /\ seqnum' = seqnum + 1 /\ tries' = tries
      /\ responses' = Append(responses, {}) /\ peers' = peers /\ todo' = todo
      /\ answers' = answers
  BY DEF AskPeer
<1>3. /\ requests \in Seq(Req) /\ responses \in Seq(SUBSET Frag)
      /\ Len(responses) = Len(requests) /\ seqnum = Len(requests) + 2
      /\ seqnum \in Nat /\ tries \in Nat /\ DOMAIN peers \subseteq Nat
      /\ todo \subseteq Nat /\ todo \subseteq DOMAIN peers
  BY <1>2 DEF NtpInv, NtpTyped
<1>4. a \in DOMAIN peers /\ a \in Nat /\ a \in todo
  BY <1>1, <1>3 DEF Missing, ComesNext
<1>5. PeerReq(seqnum, a) \in Req /\ PeerReq(seqnum, a).assoc = a
      /\ PeerReq(seqnum, a).seq = seqnum
  BY <1>3, <1>4 DEF PeerReq
<1>6. PICK n : n = Len(requests)
  OBVIOUS
<1> HIDE DEF Req, Frag
<1>7. /\ requests' \in Seq(Req) /\ Len(requests') = n + 1 /\ n \in Nat
      /\ requests' # <<>>
      /\ \A i \in 1..n : requests'[i] = requests[i]
      /\ requests'[n + 1] = PeerReq(seqnum, a)
  BY <1>1, <1>3, <1>5, <1>6
<1>8. /\ responses' \in Seq(SUBSET Frag) /\ Len(responses') = n + 1
      /\ \A i \in 1..n : responses'[i] = responses[i]
      /\ responses'[n + 1] = {}
  BY <1>2, <1>3, <1>6
<1>9. /\ DOMAIN requests = 1..n /\ DOMAIN responses = 1..n
      /\ DOMAIN requests' = 1..(n + 1) /\ DOMAIN responses' = 1..(n + 1)
      /\ 1..(n + 1) = 1..n \cup {n + 1}
  BY <1>3, <1>6, <1>7, <1>8
<1>10. ToSet(requests') = ToSet(requests) \cup {PeerReq(seqnum, a)}
  BY <1>7, <1>9 DEF ToSet
<1>11. NtpTyped'
  <2>1. seqnum' = Len(requests') + 2 /\ seqnum' \in Nat
    BY <1>2, <1>3, <1>6, <1>7
  <2>2. QED
    BY <1>2, <1>3, <1>7, <1>8, <2>1 DEF NtpTyped, Req, Frag
<1>12. Traced'
  <2>1. ASSUME NEW i \in 1..n
        PROVE  /\ requests'[i].seq = i + 1 /\ requests'[i].assoc \in DOMAIN peers'
               /\ responses'[i] \subseteq FragmentsOf(requests'[i])
    BY <1>2, <1>7, <1>8, <1>9 DEF NtpInv, Traced
  <2>2. /\ requests'[n + 1].seq = (n + 1) + 1 /\ requests'[n + 1].assoc \in DOMAIN peers'
        /\ responses'[n + 1] \subseteq FragmentsOf(requests'[n + 1])
    BY <1>2, <1>3, <1>4, <1>5, <1>6, <1>7, <1>8
  <2>3. asked' \subseteq {ListReq(1)} \cup ToSet(requests')
    BY <1>1, <1>10 DEF NtpInv, Traced
  <2>4. \A d \in answers' :
          \E r \in {ListReq(1)} \cup ToSet(requests') : d \in FragmentsOf(r)
    BY <1>2, <1>10 DEF NtpInv, Traced
  <2>5. QED
    BY <1>9, <2>1, <2>2, <2>3, <2>4 DEF Traced
<1>13. AskedEachRound'
  <2>1. tries \in 1..Rounds /\ \A b \in Missing :
          TimesAsked(b) = IF b \in todo THEN tries - 1 ELSE tries
    BY <1>2 DEF NtpInv, AskedEachRound
  <2>2. Missing' = Missing
    BY <1>2 DEF Missing
  <2>3. Asking' = a
    BY <1>5, <1>7 DEF Asking, Current
  <2>4. ASSUME NEW b \in Missing
        PROVE  TimesAsked(b)' = IF b \in todo /\ b # a THEN tries - 1 ELSE tries
    <3>1. TimesAsked(b) \in Nat
          /\ TimesAsked(b)' = TimesAsked(b) + (IF a = b THEN 1 ELSE 0)
      BY <1>1, <1>3, <1>4, AskedOnceMore DEF NtpInv
    <3>2. QED
      BY <1>3, <1>4, <2>1, <3>1
  <2>5. QED
    BY <1>2, <2>1, <2>2, <2>3, <2>4 DEF AskedEachRound
<1>14. PeersSound'
  <2>1. ASSUME NEW b \in Assocs \cap DOMAIN peers', peers'[b] # Null
        PROVE  \E i \in DOMAIN requests' :
                  requests'[i].assoc = b /\ peers'[b] = FragmentsOf(requests'[i])
    BY <1>2, <1>7, <1>9, <2>1 DEF NtpInv, PeersSound
  <2>2. ASSUME NEW i \in DOMAIN responses', Complete(responses'[i])
        PROVE  peers'[requests'[i].assoc] # Null
    <3>1. i # n + 1
      BY <1>8, <2>2 DEF Complete
    <3>2. i \in 1..n
      BY <1>9, <3>1
    <3>3. QED
      BY <1>2, <1>7, <1>8, <1>9, <2>2, <3>2 DEF NtpInv, PeersSound
  <2>3. QED
    BY <1>2, <2>1, <2>2 DEF PeersSound
<1>15. QED
  BY <1>11, <1>12, <1>13, <1>14 DEF NtpInv

\* A fragment is a record of the kinds of values the reader expects.
LEMMA FragmentType ==
  ASSUME NEW s \in Nat, NEW a \in Nat, NEW d \in FragmentsOf(PeerReq(s, a))
  PROVE  d \in [opcode : {2}, seq : Nat, assoc : Nat, offset : {0, 1}, more : BOOLEAN]
<1>1. PICK o \in {0, 1} : d = Fragment(PeerReq(s, a), o)
  BY FragmentFacts
<1>2. PeerReq(s, a).opcode = 2 /\ PeerReq(s, a).seq = s /\ PeerReq(s, a).assoc = a
  BY DEF PeerReq
<1>3. (o = 0) \in BOOLEAN
  OBVIOUS
<1>4. PICK more \in BOOLEAN : more = (o = 0)
  BY <1>3, Zenon
<1>5. d = [opcode |-> 2, seq |-> s, assoc |-> a, offset |-> o, more |-> more]
  BY <1>1, <1>2, <1>4, Zenon DEF Fragment
<1>6. QED
  BY <1>5

\* A fragment joins the others of its request, and may complete a peer.
LEMMA FragmentJoins ==
  ASSUME NtpInv, NEW d \in answers, Len(responses) = Len(requests),
         responses' = [n \in DOMAIN responses |->
            IF n \in RequestOf(d) THEN responses[n] \cup {d} ELSE responses[n]],
         peers' = [a \in DOMAIN peers |->
            IF \E n \in RequestOf(d) :
                  requests[n].assoc = a /\ Complete(responses'[n])
            THEN responses'[CHOOSE n \in RequestOf(d) : TRUE] ELSE peers[a]]
  PROVE  /\ DOMAIN responses' = DOMAIN requests
         /\ \A n \in DOMAIN requests :
               /\ responses'[n] \subseteq FragmentsOf(requests[n])
               /\ n \notin RequestOf(d) => responses'[n] = responses[n]
         /\ DOMAIN peers' = DOMAIN peers
         /\ \A a \in DOMAIN peers :
               \/ peers'[a] = peers[a]
               \/ \E n \in DOMAIN requests :
                     /\ requests[n].assoc = a /\ peers'[a] = FragmentsOf(requests[n])
                     /\ peers'[a] # Null
         /\ \A n \in RequestOf(d) :
               Complete(responses'[n]) => peers'[requests[n].assoc] # Null
<1>1. NtpTyped /\ Traced
  BY DEF NtpInv
<1>2. /\ \A n, m \in RequestOf(d) : n = m
      /\ \A n \in RequestOf(d) :
            n \in DOMAIN requests /\ d \in FragmentsOf(requests[n])
  BY <1>1, RequestOfFacts
<1>3. DOMAIN requests = DOMAIN responses
  BY <1>1 DEF NtpTyped
<1>4. \A n \in DOMAIN requests : responses[n] \subseteq FragmentsOf(requests[n])
  BY <1>1 DEF Traced
<1>5. \A n \in DOMAIN requests :
         /\ responses'[n] \subseteq FragmentsOf(requests[n])
         /\ n \notin RequestOf(d) => responses'[n] = responses[n]
  BY <1>2, <1>3, <1>4
<1>6. ASSUME NEW n \in DOMAIN requests, Complete(responses'[n])
      PROVE  responses'[n] = FragmentsOf(requests[n]) /\ responses'[n] # Null
  <2>1. requests[n] = PeerReq(n + 1, requests[n].assoc)
    BY <1>1, RequestFacts
  <2>2. responses'[n] \in SUBSET FragmentsOf(requests[n])
    BY <1>5
  <2>3. PICK F : F = responses'[n]
    OBVIOUS
  <2>4. PICK r : r = requests[n]
    OBVIOUS
  <2>5. r = PeerReq(n + 1, r.assoc) /\ F \in SUBSET FragmentsOf(r)
    BY <2>1, <2>2, <2>3, <2>4, Zenon
  <2>6. Complete(F)
    BY <1>6, <2>3, Zenon
  <2>7. F = FragmentsOf(r) /\ F # Null
    BY <2>5, <2>6, FragmentFacts
  <2>8. QED
    BY <2>3, <2>4, <2>7, Zenon
<1>7. ASSUME NEW n \in RequestOf(d) PROVE (CHOOSE m \in RequestOf(d) : TRUE) = n
  <2>1. (CHOOSE m \in RequestOf(d) : TRUE) \in RequestOf(d)
    OBVIOUS
  <2>2. QED
    BY <1>2, <2>1
<1>8. ASSUME NEW n \in RequestOf(d), Complete(responses'[n])
      PROVE  /\ requests[n].assoc \in DOMAIN peers
             /\ peers'[requests[n].assoc] = responses'[n]
  <2>1. requests[n].assoc \in DOMAIN peers
    BY <1>1, <1>2, RequestFacts
  <2>2. peers'[requests[n].assoc] = responses'[CHOOSE m \in RequestOf(d) : TRUE]
    BY <1>8, <2>1
  <2>3. QED
    BY <1>7, <2>1, <2>2
<1>9. ASSUME NEW a \in DOMAIN peers, peers'[a] # peers[a]
      PROVE  \E n \in DOMAIN requests :
                /\ requests[n].assoc = a /\ peers'[a] = FragmentsOf(requests[n])
                /\ peers'[a] # Null
  <2>1. PICK n \in RequestOf(d) : requests[n].assoc = a /\ Complete(responses'[n])
    BY <1>9
  <2>2. n \in DOMAIN requests /\ peers'[a] = responses'[n]
    BY <1>2, <1>8, <2>1
  <2>3. QED
    BY <1>6, <2>1, <2>2
<1>10. QED
  BY <1>2, <1>3, <1>5, <1>6, <1>8, <1>9

LEMMA NtpHears ==
  ASSUME NtpInv, ReceiveFragment
  PROVE  NtpInv'
<1> DEFINE Frag == [opcode : {2}, seq : Nat, assoc : Nat, offset : {0, 1}, more : BOOLEAN]
<1>1. PICK d \in answers :
        /\ Received(d)
        /\ responses' = [n \in DOMAIN responses |->
              IF n \in RequestOf(d) THEN responses[n] \cup {d} ELSE responses[n]]
        /\ peers' = [a \in DOMAIN peers |->
              IF \E n \in RequestOf(d) :
                    requests[n].assoc = a /\ Complete(responses'[n])
              THEN responses'[CHOOSE n \in RequestOf(d) : TRUE] ELSE peers[a]]
  BY DEF ReceiveFragment
<1>2. /\ npc = "peer" /\ requests' = requests /\ tries' = tries /\ seqnum' = seqnum
      /\ asked' = asked /\ answers' \subseteq answers
      /\ \/ npc' = "round" /\ todo' = todo \ {Asking}
         \/ npc' = "peer" /\ todo' = todo
  BY <1>1 DEF ReceiveFragment, Received
<1>3. /\ requests \in Seq([opcode : {2}, seq : Nat, assoc : Nat])
      /\ responses \in Seq(SUBSET Frag) /\ Len(responses) = Len(requests)
      /\ seqnum = Len(requests) + 2 /\ requests # <<>>
      /\ seqnum \in Nat /\ tries \in Nat /\ DOMAIN peers \subseteq Nat
      /\ todo \subseteq Nat /\ todo \subseteq DOMAIN peers
      /\ NtpTyped /\ Traced
  BY <1>2 DEF NtpInv, NtpTyped
<1>4. /\ DOMAIN responses' = DOMAIN requests
      /\ \A n \in DOMAIN requests :
            /\ responses'[n] \subseteq FragmentsOf(requests[n])
            /\ n \notin RequestOf(d) => responses'[n] = responses[n]
      /\ DOMAIN peers' = DOMAIN peers
      /\ \A a \in DOMAIN peers :
            \/ peers'[a] = peers[a]
            \/ \E n \in DOMAIN requests :
                  /\ requests[n].assoc = a /\ peers'[a] = FragmentsOf(requests[n])
                  /\ peers'[a] # Null
      /\ \A n \in RequestOf(d) :
            Complete(responses'[n]) => peers'[requests[n].assoc] # Null
  BY <1>1, <1>3, FragmentJoins
<1>5. todo' \subseteq todo
  BY <1>2
<1>6. NtpTyped'
  <2>1. responses' \in Seq(SUBSET Frag) /\ Len(responses') = Len(requests)
    <3>1. ASSUME NEW n \in DOMAIN requests PROVE responses'[n] \in SUBSET Frag
      <4>1. /\ requests[n] = PeerReq(n + 1, requests[n].assoc)
            /\ n + 1 \in Nat /\ requests[n].assoc \in Nat
        BY <1>3, RequestFacts
      <4>2. FragmentsOf(requests[n]) \subseteq Frag
        BY <4>1, FragmentType
      <4>3. QED
        BY <1>4, <4>2
    <3>2. PICK S : S = SUBSET Frag
      OBVIOUS
    <3>3. PICK k \in Nat : k = Len(requests) /\ DOMAIN requests = 1..k
      BY <1>3
    <3>4. responses' \in [1..k -> S]
      BY <1>1, <1>4, <3>1, <3>2, <3>3
    <3>5. responses' \in Seq(S) /\ Len(responses') = k
      BY <3>3, <3>4
    <3>6. QED
      BY <3>2, <3>3, <3>5
  <2>2. npc' \in {"round", "peer"} /\ npc' # "idle" /\ npc' # "list"
    BY <1>2
  <2>3. QED
    BY <1>2, <1>3, <1>4, <1>5, <2>1, <2>2 DEF NtpTyped
<1>7. Traced'
  BY <1>2, <1>3, <1>4 DEF Traced
<1>8. AskedEachRound'
  <2>1. tries \in 1..Rounds /\ \A b \in Missing :
          TimesAsked(b) = IF b \in todo /\ b # Asking THEN tries - 1 ELSE tries
    BY <1>2 DEF NtpInv, AskedEachRound
  <2>2. Missing' \subseteq Missing
    BY <1>4 DEF Missing
  <2>3. Asking' = Asking /\ \A b : TimesAsked(b)' = TimesAsked(b)
    BY <1>2 DEF Asking, Current, TimesAsked
  <2>4. CASE npc' = "round" /\ todo' = todo \ {Asking}
    BY <1>2, <2>1, <2>2, <2>3, <2>4 DEF AskedEachRound
  <2>5. CASE npc' = "peer" /\ todo' = todo
    BY <1>2, <2>1, <2>2, <2>3, <2>5 DEF AskedEachRound
  <2>6. QED
    BY <1>2, <2>4, <2>5
<1>9. PeersSound'
  <2>1. ASSUME NEW b \in Assocs \cap DOMAIN peers', peers'[b] # Null
        PROVE  \E n \in DOMAIN requests' :
                  requests'[n].assoc = b /\ peers'[b] = FragmentsOf(requests'[n])
    BY <1>2, <1>4, <2>1 DEF NtpInv, PeersSound
  <2>2. ASSUME NEW n \in DOMAIN responses', Complete(responses'[n])
        PROVE  peers'[requests'[n].assoc] # Null
    <3>1. CASE n \in RequestOf(d)
      BY <1>2, <1>4, <2>2, <3>1
    <3>2. CASE n \notin RequestOf(d)
      <4>1. n \in DOMAIN responses /\ Complete(responses[n])
        BY <1>3, <1>4, <2>2, <3>2
      <4>2. peers[requests[n].assoc] # Null /\ requests[n].assoc \in DOMAIN peers
        BY <1>3, <1>4, <4>1 DEF NtpInv, PeersSound, Traced
      <4>3. QED
        BY <1>2, <1>4, <4>2
    <3>3. QED
      BY <3>1, <3>2
  <2>3. npc' # "crashed"
    BY <1>2
  <2>4. QED
    BY <2>1, <2>2, <2>3 DEF PeersSound
<1>10. QED
  BY <1>6, <1>7, <1>8, <1>9 DEF NtpInv

\* Whatever the network does and wherever the client stands, NtpInv holds.
THEOREM NtpInductive == NtpSpec => []NtpInv
<1>1. NtpStart => NtpInv
  BY NtpStarts
<1>2. ASSUME NtpInv, [NtpNext]_ntpVars
      PROVE  NtpInv'
  <2>1. asked \subseteq {ListReq(1)} \cup ToSet(requests)
        /\ \A d \in answers :
              \E r \in {ListReq(1)} \cup ToSet(requests) : d \in FragmentsOf(r)
    BY <1>2 DEF NtpInv, Traced
  <2>2. CASE UNCHANGED ntpVars
    <3>1. UNCHANGED <<npc, tries, seqnum, requests, responses, peers, todo, asked, answers>>
      BY <2>2 DEF ntpVars
    <3>2. QED
      BY <1>2, <2>1, <3>1, NtpQuiet
  <2>3. CASE Answer
    <3>1. PICK r \in asked :
            asked' = asked \ {r} /\ answers' = answers \cup FragmentsOf(r)
      BY <2>3 DEF Answer
    <3>2. /\ npc' = npc
          /\ UNCHANGED <<tries, seqnum, requests, responses, peers, todo>>
      BY <2>3 DEF Answer
    <3>3. asked' \subseteq {ListReq(1)} \cup ToSet(requests)
          /\ \A d \in answers' :
                \E q \in {ListReq(1)} \cup ToSet(requests) : d \in FragmentsOf(q)
      BY <2>1, <3>1
    <3>4. QED
      BY <1>2, <3>2, <3>3, NtpQuiet
  <2>4. CASE Lose
    <3>1. /\ npc' = npc /\ asked' \subseteq asked /\ answers' \subseteq answers
          /\ UNCHANGED <<tries, seqnum, requests, responses, peers, todo>>
      BY <2>4 DEF Lose
    <3>2. asked' \subseteq {ListReq(1)} \cup ToSet(requests)
          /\ \A d \in answers' :
                \E q \in {ListReq(1)} \cup ToSet(requests) : d \in FragmentsOf(q)
      BY <2>1, <3>1
    <3>3. QED
      BY <1>2, <3>1, <3>2, NtpQuiet
  <2>5. CASE Build \/ Refused
    <3>1. npc' = "idle"
          /\ UNCHANGED <<tries, seqnum, requests, responses, peers, todo, asked, answers>>
      BY <2>5 DEF Build, Refused
    <3>2. QED
      BY <1>2, <2>1, <3>1, NtpQuiet
  <2>6. CASE BeginRead
    BY <1>2, <2>6, NtpBegins DEF NtpInv
  <2>7. CASE ReceiveList \/ ListTimeout
    BY <1>2, <2>7, NtpListed
  <2>8. CASE AskPeer
    BY <1>2, <2>8, NtpAsks
  <2>9. CASE SkipPeer \/ NextRound \/ PeerTimeout \/ BuildCrashes
    BY <1>2, <2>9, NtpRounds
  <2>10. CASE ReceiveFragment
    BY <1>2, <2>10, NtpHears
  <2>11. QED
    BY <1>2, <2>2, <2>3, <2>4, <2>5, <2>6, <2>7, <2>8, <2>9, <2>10 DEF NtpNext
<1>3. QED
  BY <1>1, <1>2, PTL DEF NtpSpec

\* What is recorded of a peer is one response to a request for that peer, and
\* the client crashes only over a peer that it has asked in every round.
THEOREM PeersAreSound == NtpSpec => []PeersSound
<1>1. NtpInv => PeersSound
  BY DEF NtpInv
<1>2. QED
  BY <1>1, NtpInductive, PTL
=============================================================================
