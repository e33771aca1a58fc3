----------------------- MODULE CapturePipelineProofs -----------------------
(***************************************************************************)
(* Proofs about CapturePipeline, for any set of event sources and all      *)
(* bounds: the records of a session form an unbroken chain, no record is   *)
(* written outside a session, capture is on while main waits, and a        *)
(* signature is of a record that precedes it and carries its number.       *)
(***************************************************************************)
EXTENDS CapturePipeline, SequenceTheorems, TLAPS

-----------------------------------------------------------------------------
(* Chains of records.                                                       *)

\* A link depends on the records before it alone.
LEMMA LinkedSame ==
  ASSUME NEW r, NEW t, NEW n \in Nat, NEW rec,
         \A k \in 1 .. n : t[k] = r[k],
         Linked(r, n, rec)
  PROVE  Linked(t, n, rec)
BY DEF Linked, NoEvent, LastEvent

\* A chain stays one when a record that fits, or that is no link, is added.
LEMMA ChainedAppend ==
  ASSUME NEW S, NEW r \in Seq(S), NEW rec \in S,
         Chained(r),
         IsEvent(rec) \/ IsEnd(rec) => Linked(r, Len(r), rec)
  PROVE  Chained(Append(r, rec))
<1> DEFINE t == Append(r, rec)
<1>1. /\ Len(r) \in Nat /\ Len(t) = Len(r) + 1
      /\ \A k \in 1 .. Len(r) : t[k] = r[k]
      /\ t[Len(r) + 1] = rec
  OBVIOUS
<1> HIDE DEF t
<1> SUFFICES ASSUME NEW i \in 1 .. Len(t), IsEvent(t[i]) \/ IsEnd(t[i])
             PROVE  Linked(t, i - 1, t[i])
  BY DEF Chained, t
<1>2. i - 1 \in Nat /\ \A k \in 1 .. (i - 1) : t[k] = r[k]
  BY <1>1
<1>3. CASE i = Len(r) + 1
  <2>1. Linked(r, i - 1, t[i])
    BY <1>1, <1>3
  <2>2. QED
    BY <1>2, <2>1, LinkedSame
<1>4. CASE i \in 1 .. Len(r)
  <2>1. Linked(r, i - 1, t[i])
    BY <1>1, <1>4 DEF Chained
  <2>2. QED
    BY <1>2, <2>1, LinkedSame
<1>5. QED
  BY <1>1, <1>3, <1>4

\* Adding a record that is no event does not change what the next must link to.
LEMMA LinkedAfterOther ==
  ASSUME NEW S, NEW r \in Seq(S), NEW rec \in S, NEW next,
         ~IsEvent(rec), Linked(r, Len(r), next)
  PROVE  Linked(Append(r, rec), Len(r) + 1, next)
<1> DEFINE t == Append(r, rec)
<1>1. /\ Len(r) \in Nat
      /\ \A k \in 1 .. Len(r) : t[k] = r[k] /\ k \in 1 .. (Len(r) + 1)
      /\ t[Len(r) + 1] = rec
      /\ \A k \in 1 .. (Len(r) + 1) : k = Len(r) + 1 \/ k \in 1 .. Len(r)
  OBVIOUS
<1> HIDE DEF t
<1>2. Linked(t, Len(r) + 1, next)
  <2>1. CASE NoEvent(r, Len(r)) /\ next.seq = 0 /\ next.prev = NoHash
    BY <1>1, <2>1 DEF Linked, NoEvent
  <2>2. CASE \E j \in 1 .. Len(r) : /\ LastEvent(r, Len(r), j)
                                    /\ next.seq = r[j].seq + 1
                                    /\ next.prev = HashOfRec(r[j])
    <3>1. PICK j \in 1 .. Len(r) : /\ LastEvent(r, Len(r), j)
                                   /\ next.seq = r[j].seq + 1
                                   /\ next.prev = HashOfRec(r[j])
      BY <2>2
    <3>2. LastEvent(t, Len(r) + 1, j) /\ t[j] = r[j] /\ j \in 1 .. (Len(r) + 1)
      BY <1>1, <3>1 DEF LastEvent
    <3>3. QED
      BY <3>1, <3>2 DEF Linked
  <2>3. QED
    BY <2>1, <2>2 DEF Linked
<1>3. QED
  BY <1>2 DEF t
-----------------------------------------------------------------------------
(* Types.                                                                   *)

\* What end_session writes are records.
LEMMA EndRecordsType ==
  ASSUME CTyped
  PROVE  EndRecords \in Seq(CaptureRecs) /\ EndRecords[1] \in CaptureRecs
<1>1. /\ seqnum \in Nat /\ hattr \in Hashes /\ clock \in Nat
      /\ HashOf("end", 0) \in Hashes
  BY CaptureAssumption DEF CTyped, Hashes, HashOf
<1>2. End(seqnum, hattr) \in CaptureRecs
  BY <1>1 DEF End, CaptureRecs
<1>3. Signature([seq |-> seqnum, of |-> HashOf("end", 0)]) \in CaptureRecs
  BY <1>1 DEF Signature, CaptureRecs
<1>4. QED
  BY <1>2, <1>3 DEF EndRecords


\* Every step of every thread keeps the types.
LEMMA TypedStep ==
  ASSUME CInv, CaptureNext
  PROVE  CTyped'
<1>1. ASSUME NEW s \in Sources, SourcePolls(s) PROVE CTyped'
  BY <1>1, CaptureAssumption DEF SourcePolls, SourceMoves, Move, CInv, CTyped,
       Signals, Nothing, NoHash, Offers, Hashes, Ended, Killed, mainVars,
       writerVars, sourceVars, signerVars
<1>2. ASSUME NEW s \in Sources, SourceReads(s) PROVE CTyped'
  BY <1>2, CaptureAssumption DEF SourceReads, Move, CInv, CTyped, Signals,
       Nothing, NoHash, Offers, Hashes, Ended, Killed, mainVars, writerVars,
       sourceVars, signerVars
<1>3. ASSUME NEW s \in Sources, SourceInterrupted(s) PROVE CTyped'
  BY <1>3, CaptureAssumption DEF SourceInterrupted, SourceMoves, Move, CInv,
       CTyped, Signals, Nothing, NoHash, Offers, Hashes, Ended, Killed,
       mainVars, writerVars, sourceVars, signerVars
<1>4. ASSUME NEW s \in Sources, SourceThrows(s) PROVE CTyped'
  BY <1>4, CaptureAssumption DEF SourceThrows, SourceMoves, Move, CInv,
       CTyped, Signals, Nothing, NoHash, Offers, Hashes, Ended, Killed,
       mainVars, writerVars, sourceVars, signerVars
<1>5. ASSUME NEW s \in Sources, WriteEvent(s) PROVE CTyped'
  <2>1. /\ seqnum \in Nat /\ hattr \in Hashes /\ held[s] \in Nat
        /\ clock \in Nat /\ NoHash \in Hashes
    BY CaptureAssumption DEF CInv, CTyped, NoHash, Hashes
  <2>2. NextEvent(s) \in CaptureRecs
    BY <2>1 DEF NextEvent, Event, CaptureRecs
  <2>3. out' \in Seq(CaptureRecs)
    BY <1>5, <2>2 DEF CInv, CTyped, WriteEvent, AppendEvent, WriteReturns, Put
  <2>4. pending' \in SUBSET Signals
    BY <1>5 DEF CInv, CTyped, WriteEvent, AppendEvent, WriteReturns, Signals
  <2>5. QED
    BY <1>5, <2>1, <2>3, <2>4 DEF CInv, CTyped, WriteEvent, AppendEvent, Move,
       mainVars, signerVars
<1>6. ASSUME NEW s \in Sources, WriteEventCrashes(s) PROVE CTyped'
  BY <1>6, CaptureAssumption DEF WriteEventCrashes, WriteCrashes, CInv,
       CTyped, Signals, Nothing, NoHash, Offers, Hashes, Ended, Killed,
       mainVars, writerVars, sourceVars, signerVars
<1>7. ASSUME NEW s \in Sources, Offer(s) PROVE CTyped'
  <2>1. /\ seqnum \in Nat /\ held[s] \in Nat /\ clock \in Nat
        /\ 0 \in 0 .. MaxEvents
    BY CaptureAssumption DEF CInv, CTyped
  <2>2. HashOf("event", held[s]) \in Hashes
    BY <2>1 DEF HashOf, Hashes
  <2>3. offered' \in Offers /\ hattr' \in Hashes /\ seqnum' \in Nat
    BY <1>7, <2>1, <2>2 DEF Offer, Offered, Offers
  <2>4. QED
    BY <1>7, <2>1, <2>3 DEF CInv, CTyped, Offer, Offered, Move, mainVars
<1>8. ASSUME SignerLocks PROVE CTyped'
  BY <1>8, CaptureAssumption DEF SignerLocks, SignerMoves, CInv, CTyped,
       Signals, Nothing, NoHash, Offers, Hashes, Ended, Killed, mainVars,
       writerVars, sourceVars, signerVars
<1>9. ASSUME SignerChecks PROVE CTyped'
  BY <1>9, CaptureAssumption DEF SignerChecks, SignerMoves, CInv, CTyped,
       Signals, Nothing, NoHash, Offers, Hashes, Ended, Killed, mainVars,
       writerVars, sourceVars, signerVars
<1>10. ASSUME SignerWaits PROVE CTyped'
  BY <1>10, CaptureAssumption DEF SignerWaits, SignerMoves, CInv, CTyped,
       Signals, Nothing, NoHash, Offers, Hashes, Ended, Killed, mainVars,
       writerVars, sourceVars, signerVars
<1>11. ASSUME SignerSleeps PROVE CTyped'
  BY <1>11, CaptureAssumption DEF SignerSleeps, SignerMoves, CInv, CTyped,
       Signals, Nothing, NoHash, Offers, Hashes, Ended, Killed, mainVars,
       writerVars, sourceVars, signerVars
<1>12. ASSUME SignerWakes PROVE CTyped'
  BY <1>12, CaptureAssumption DEF SignerWakes, SignerMoves, CInv, CTyped,
       Signals, Nothing, NoHash, Offers, Hashes, Ended, Killed, mainVars,
       writerVars, sourceVars, signerVars
<1>13. ASSUME Take PROVE CTyped'
  <2>1. NoHash \in Hashes
    BY DEF NoHash, Hashes
  <2>2. offered' \in Offers /\ taken' \in Offers
    BY <1>13, <2>1 DEF CInv, CTyped, Take, Offers
  <2>3. QED
    BY <1>13, <2>2 DEF CInv, CTyped, Take, mainVars, writerVars, sourceVars
<1>14. ASSUME Sign PROVE CTyped'
  <2>1. /\ clock \in Nat /\ taken \in Offers /\ Nothing \in Offers
    BY CaptureAssumption DEF CInv, CTyped, Nothing, NoHash, Offers, Hashes
  <2>2. Signature(taken) \in CaptureRecs
    BY <2>1 DEF Signature, CaptureRecs, Offers
  <2>3. out' \in Seq(CaptureRecs)
    BY <1>14, <2>2 DEF CInv, CTyped, Sign, WriteSignature, WriteReturns, Put
  <2>4. pending' \in SUBSET Signals
    BY <1>14 DEF CInv, CTyped, Sign, WriteSignature, WriteReturns, Signals
  <2>5. QED
    BY <1>14, <2>1, <2>3, <2>4 DEF CInv, CTyped, Sign, WriteSignature,
       mainVars, sourceVars
<1>15. ASSUME SignCrashes PROVE CTyped'
  BY <1>15, CaptureAssumption DEF SignCrashes, WriteCrashes, CInv, CTyped,
       Signals, Nothing, NoHash, Offers, Hashes, Ended, Killed, mainVars,
       writerVars, sourceVars, signerVars
<1>16. ASSUME MakeWriter PROVE CTyped'
  BY <1>16, CaptureAssumption DEF MakeWriter, Proceeds, CInv, CTyped, Signals,
       Nothing, NoHash, Offers, Hashes, Ended, Killed, mainVars, writerVars,
       sourceVars, signerVars
<1>17. ASSUME PollUnwritable PROVE CTyped'
  BY <1>17, CaptureAssumption DEF PollUnwritable, MainMoves, Proceeds, CInv,
       CTyped, Signals, Nothing, NoHash, Offers, Hashes, Ended, Killed,
       mainVars, writerVars, sourceVars, signerVars
<1>18. ASSUME NapOver PROVE CTyped'
  BY <1>18, CaptureAssumption DEF NapOver, MainMoves, Proceeds, CInv, CTyped,
       Signals, Nothing, NoHash, Offers, Hashes, Ended, Killed, mainVars,
       writerVars, sourceVars, signerVars
<1>19. ASSUME NapInterrupted PROVE CTyped'
  BY <1>19, CaptureAssumption DEF NapInterrupted, Proceeds, CInv, CTyped,
       Signals, Nothing, NoHash, Offers, Hashes, Ended, Killed, mainVars,
       writerVars, sourceVars, signerVars
<1>20. ASSUME StartSigner PROVE CTyped'
  BY <1>20, CaptureAssumption DEF StartSigner, Proceeds, CInv, CTyped,
       Signals, Nothing, NoHash, Offers, Hashes, Ended, Killed, mainVars,
       writerVars, sourceVars, signerVars
<1>21. ASSUME BeginSession PROVE CTyped'
  <2>1. clock + 1 \in 0 .. MaxSessions /\ clock + 1 \in Nat
    BY <1>21, CaptureAssumption DEF CInv, CTyped, SessionOpen,
       BeginSession, Running, Ended, Killed
  <2>2. /\ SessionRec(SrcId, clock + 1, 0) \in CaptureRecs
        /\ SessionSignature(clock + 1) \in CaptureRecs
    BY <2>1 DEF SessionRec, SessionSignature, CaptureRecs, Hashes
  <2>3. out' \in Seq(CaptureRecs)
    BY <1>21, <2>2 DEF BeginSession
  <2>4. QED
    BY <1>21, <2>1, <2>3 DEF CInv, CTyped, BeginSession, signerVars
<1>22. ASSUME BeginThrows PROVE CTyped'
  BY <1>22, CaptureAssumption DEF BeginThrows, MainMoves, Proceeds, CInv,
       CTyped, Signals, Nothing, NoHash, Offers, Hashes, Ended, Killed,
       mainVars, writerVars, sourceVars, signerVars
<1>23. ASSUME TakeSignal PROVE CTyped'
  BY <1>23, CaptureAssumption DEF TakeSignal, Proceeds, CInv, CTyped, Signals,
       Nothing, NoHash, Offers, Hashes, Ended, Killed, mainVars, writerVars,
       sourceVars, signerVars
<1>24. ASSUME JoinSources PROVE CTyped'
  BY <1>24, CaptureAssumption DEF JoinSources, MainMoves, Proceeds, CInv,
       CTyped, Signals, Nothing, NoHash, Offers, Hashes, Ended, Killed,
       mainVars, writerVars, sourceVars, signerVars
<1>25. ASSUME PassMutex PROVE CTyped'
  BY <1>25, CaptureAssumption DEF PassMutex, MainMoves, Proceeds, CInv,
       CTyped, Signals, Nothing, NoHash, Offers, Hashes, Ended, Killed,
       mainVars, writerVars, sourceVars, signerVars
<1>26. ASSUME NotifySigner PROVE CTyped'
  BY <1>26, CaptureAssumption DEF NotifySigner, Proceeds, CInv, CTyped,
       Signals, Nothing, NoHash, Offers, Hashes, Ended, Killed, mainVars,
       writerVars, sourceVars, signerVars
<1>27. ASSUME JoinSigner PROVE CTyped'
  BY <1>27, CaptureAssumption DEF JoinSigner, MainMoves, Proceeds, CInv,
       CTyped, Signals, Nothing, NoHash, Offers, Hashes, Ended, Killed,
       mainVars, writerVars, sourceVars, signerVars
<1>28. ASSUME EndSession PROVE CTyped'
  <2>1. EndRecords \in Seq(CaptureRecs) /\ NoHash \in Hashes
    BY EndRecordsType DEF CInv, NoHash, Hashes
  <2>2. out' \in Seq(CaptureRecs)
    BY <1>28, <2>1 DEF CInv, CTyped, EndSession
  <2>3. QED
    BY <1>28, <2>1, <2>2 DEF CInv, CTyped, EndSession, Proceeds, Ended,
       sourceVars, signerVars
<1>29. ASSUME EndThrows PROVE CTyped'
  <2>1. EndRecords[1] \in CaptureRecs /\ NoHash \in Hashes
    BY EndRecordsType DEF CInv, NoHash, Hashes
  <2>2. out' \in Seq(CaptureRecs)
    <3>1. out \in Seq(CaptureRecs) /\ out' \in {out, Append(out, EndRecords[1])}
      BY <1>29 DEF CInv, CTyped, EndThrows
    <3>2. QED
      BY <2>1, <3>1
  <2>3. QED
    BY <1>29, <2>1, <2>2 DEF CInv, CTyped, EndThrows, Proceeds, Ended,
       sourceVars, signerVars
<1>30. ASSUME Drain PROVE CTyped'
  <2>1. pending' \in SUBSET Signals /\ raised' \in Signals \cup {"none"}
    BY <1>30 DEF Drain, DrainTo, CInv, CTyped, Signals
  <2>2. mpc' = "make" /\ terminating' = FALSE
        /\ UNCHANGED <<clock, writerVars, sourceVars, signerVars>>
    BY <1>30 DEF Drain, DrainTo, Proceeds
  <2>3. QED
    BY <2>1, <2>2 DEF CInv, CTyped, writerVars, sourceVars, signerVars
<1>31. ASSUME Ask PROVE CTyped'
  BY <1>31, CaptureAssumption DEF Ask, CInv, CTyped, Signals, Nothing, NoHash,
       Offers, Hashes, Ended, Killed, mainVars, writerVars, sourceVars,
       signerVars
<1>32. QED
  BY <1>1, <1>2, <1>3, <1>4, <1>5, <1>6, <1>7, <1>8, <1>9, <1>10, <1>11,
       <1>12, <1>13, <1>14, <1>15, <1>16, <1>17, <1>18, <1>19, <1>20, <1>21,
       <1>22, <1>23, <1>24, <1>25, <1>26, <1>27, <1>28, <1>29, <1>30, <1>31
  DEF CaptureNext, MainStep, SourceStep, SignerStep

-----------------------------------------------------------------------------
(* Which threads are at work.                                               *)

\* Threads run only between their start and their join, and a set flag never
\* outlives the session it ended.
LEMMA PlacesStep ==
  ASSUME CInv, CaptureNext
  PROVE  Running' => Places'
<1>0. /\ Places /\ mpc \notin Ended \cup Killed
      /\ spc \in [Sources -> {"off", "loop", "read", "got", "written", "done"}]
  BY DEF CInv, CTyped, CaptureNext, Running
<1>1. ASSUME NEW s \in Sources, SourcePolls(s) PROVE Running' => Places'
  BY <1>1, <1>0 DEF SourcePolls, SourceMoves, Move, Places, AtWork, Nothing,
       Running, Ended, Killed, mainVars, writerVars, sourceVars, signerVars
<1>2. ASSUME NEW s \in Sources, SourceReads(s) PROVE Running' => Places'
  BY <1>2, <1>0 DEF SourceReads, Move, Places, AtWork, Nothing, Running,
       Ended, Killed, mainVars, writerVars, sourceVars, signerVars
<1>3. ASSUME NEW s \in Sources, SourceInterrupted(s) PROVE Running' => Places'
  BY <1>3, <1>0 DEF SourceInterrupted, SourceMoves, Move, Places, AtWork,
       Nothing, Running, Ended, Killed, mainVars, writerVars, sourceVars,
       signerVars
<1>4. ASSUME NEW s \in Sources, SourceThrows(s) PROVE Running' => Places'
  BY <1>4, <1>0 DEF SourceThrows, SourceMoves, Move, Places, AtWork, Nothing,
       Running, Ended, Killed, mainVars, writerVars, sourceVars, signerVars
<1>5. ASSUME NEW s \in Sources, WriteEvent(s) PROVE Running' => Places'
  BY <1>5, <1>0 DEF WriteEvent, AppendEvent, Move, WriteReturns, Put,
       NextEvent, Event, Places, AtWork, Nothing, Running, Ended, Killed,
       mainVars, writerVars, sourceVars, signerVars
<1>6. ASSUME NEW s \in Sources, WriteEventCrashes(s) PROVE Running' => Places'
  BY <1>6, <1>0 DEF WriteEventCrashes, WriteCrashes, Places, AtWork, Nothing,
       Running, Ended, Killed, mainVars, writerVars, sourceVars, signerVars
<1>7. ASSUME NEW s \in Sources, Offer(s) PROVE Running' => Places'
  BY <1>7, <1>0 DEF Offer, Offered, Move, Places, AtWork, Nothing, Running,
       Ended, Killed, mainVars, writerVars, sourceVars, signerVars
<1>8. ASSUME SignerLocks PROVE Running' => Places'
  BY <1>8, <1>0 DEF SignerLocks, SignerMoves, Places, AtWork, Nothing,
       Running, Ended, Killed, mainVars, writerVars, sourceVars, signerVars
<1>9. ASSUME SignerChecks PROVE Running' => Places'
  BY <1>9, <1>0 DEF SignerChecks, SignerMoves, Places, AtWork, Nothing,
       Running, Ended, Killed, mainVars, writerVars, sourceVars, signerVars
<1>10. ASSUME SignerWaits PROVE Running' => Places'
  BY <1>10, <1>0 DEF SignerWaits, SignerMoves, Places, AtWork, Nothing,
       Running, Ended, Killed, mainVars, writerVars, sourceVars, signerVars
<1>11. ASSUME SignerSleeps PROVE Running' => Places'
  BY <1>11, <1>0 DEF SignerSleeps, SignerMoves, Places, AtWork, Nothing,
       Running, Ended, Killed, mainVars, writerVars, sourceVars, signerVars
<1>12. ASSUME SignerWakes PROVE Running' => Places'
  BY <1>12, <1>0 DEF SignerWakes, SignerMoves, Places, AtWork, Nothing,
       Running, Ended, Killed, mainVars, writerVars, sourceVars, signerVars
<1>13. ASSUME Take PROVE Running' => Places'
  BY <1>13, <1>0 DEF Take, Places, AtWork, Nothing, Running, Ended, Killed,
       mainVars, writerVars, sourceVars, signerVars
<1>14. ASSUME Sign PROVE Running' => Places'
  BY <1>14, <1>0 DEF Sign, WriteSignature, WriteReturns, Put, Signature,
       Places, AtWork, Nothing, Running, Ended, Killed, mainVars, writerVars,
       sourceVars, signerVars
<1>15. ASSUME SignCrashes PROVE Running' => Places'
  BY <1>15, <1>0 DEF SignCrashes, WriteCrashes, Places, AtWork, Nothing,
       Running, Ended, Killed, mainVars, writerVars, sourceVars, signerVars
<1>16. ASSUME MakeWriter PROVE Running' => Places'
  BY <1>16, <1>0 DEF MakeWriter, Proceeds, Places, AtWork, Nothing, Running,
       Ended, Killed, mainVars, writerVars, sourceVars, signerVars
<1>17. ASSUME PollUnwritable PROVE Running' => Places'
  BY <1>17, <1>0 DEF PollUnwritable, MainMoves, Proceeds, Places, AtWork,
       Nothing, Running, Ended, Killed, mainVars, writerVars, sourceVars,
       signerVars
<1>18. ASSUME NapOver PROVE Running' => Places'
  BY <1>18, <1>0 DEF NapOver, MainMoves, Proceeds, Places, AtWork, Nothing,
       Running, Ended, Killed, mainVars, writerVars, sourceVars, signerVars
<1>19. ASSUME NapInterrupted PROVE Running' => Places'
  BY <1>19, <1>0 DEF NapInterrupted, Proceeds, Places, AtWork, Nothing,
       Running, Ended, Killed, mainVars, writerVars, sourceVars, signerVars
<1>20. ASSUME StartSigner PROVE Running' => Places'
  BY <1>20, <1>0 DEF StartSigner, Proceeds, Places, AtWork, Nothing, Running,
       Ended, Killed, mainVars, writerVars, sourceVars, signerVars
<1>21. ASSUME BeginSession PROVE Running' => Places'
  BY <1>21, <1>0 DEF BeginSession, Places, AtWork, Nothing, Running, Ended,
       Killed, mainVars, writerVars, sourceVars, signerVars
<1>22. ASSUME BeginThrows PROVE Running' => Places'
  BY <1>22, <1>0 DEF BeginThrows, MainMoves, Proceeds, Places, AtWork,
       Nothing, Running, Ended, Killed, mainVars, writerVars, sourceVars,
       signerVars
<1>23. ASSUME TakeSignal PROVE Running' => Places'
  BY <1>23, <1>0 DEF TakeSignal, Proceeds, Places, AtWork, Nothing, Running,
       Ended, Killed, mainVars, writerVars, sourceVars, signerVars
<1>24. ASSUME JoinSources PROVE Running' => Places'
  BY <1>24, <1>0 DEF JoinSources, MainMoves, Proceeds, Places, AtWork,
       Nothing, Running, Ended, Killed, mainVars, writerVars, sourceVars,
       signerVars
<1>25. ASSUME PassMutex PROVE Running' => Places'
  BY <1>25, <1>0 DEF PassMutex, MainMoves, Proceeds, Places, AtWork, Nothing,
       Running, Ended, Killed, mainVars, writerVars, sourceVars, signerVars
<1>26. ASSUME NotifySigner PROVE Running' => Places'
  BY <1>26, <1>0 DEF NotifySigner, Proceeds, Places, AtWork, Nothing, Running,
       Ended, Killed, mainVars, writerVars, sourceVars, signerVars
<1>27. ASSUME JoinSigner PROVE Running' => Places'
  BY <1>27, <1>0 DEF JoinSigner, MainMoves, Proceeds, Places, AtWork, Nothing,
       Running, Ended, Killed, mainVars, writerVars, sourceVars, signerVars
<1>28. ASSUME EndSession PROVE Running' => Places'
  BY <1>28, <1>0 DEF EndSession, Proceeds, Places, AtWork, Nothing, Running,
       Ended, Killed, mainVars, writerVars, sourceVars, signerVars
<1>29. ASSUME EndThrows PROVE Running' => Places'
  BY <1>29, <1>0 DEF EndThrows, Proceeds, Places, AtWork, Nothing, Running,
       Ended, Killed, mainVars, writerVars, sourceVars, signerVars
<1>30. ASSUME Drain PROVE Running' => Places'
  BY <1>30, <1>0 DEF Drain, DrainTo, Proceeds, Places, AtWork, Nothing,
       Running, Ended, Killed, mainVars, writerVars, sourceVars, signerVars
<1>31. ASSUME Ask PROVE Running' => Places'
  BY <1>31, <1>0 DEF Ask, Places, AtWork, Nothing, Running, Ended, Killed,
       mainVars, writerVars, sourceVars, signerVars
<1>32. QED
  BY <1>1, <1>2, <1>3, <1>4, <1>5, <1>6, <1>7, <1>8, <1>9, <1>10, <1>11,
       <1>12, <1>13, <1>14, <1>15, <1>16, <1>17, <1>18, <1>19, <1>20, <1>21,
       <1>22, <1>23, <1>24, <1>25, <1>26, <1>27, <1>28, <1>29, <1>30, <1>31
  DEF CaptureNext, MainStep, SourceStep, SignerStep

\* The mutex of new_session_writer: one source at a time is in write_event.
LEMMA OneWriterStep ==
  ASSUME CInv, CaptureNext
  PROVE  Running' => OneWriter'
<1>0. /\ OneWriter
      /\ spc \in [Sources -> {"off", "loop", "read", "got", "written", "done"}]
  BY DEF CInv, CTyped, CaptureNext, Running
<1>1. ASSUME NEW s \in Sources, SourcePolls(s) PROVE Running' => OneWriter'
  BY <1>1, <1>0 DEF SourcePolls, SourceMoves, Move, OneWriter, WriterFree,
       Running, Ended, Killed, mainVars, writerVars, sourceVars, signerVars
<1>2. ASSUME NEW s \in Sources, SourceReads(s) PROVE Running' => OneWriter'
  BY <1>2, <1>0 DEF SourceReads, Move, OneWriter, WriterFree, Running, Ended,
       Killed, mainVars, writerVars, sourceVars, signerVars
<1>3. ASSUME NEW s \in Sources, SourceInterrupted(s) PROVE Running' => OneWriter'
  BY <1>3, <1>0 DEF SourceInterrupted, SourceMoves, Move, OneWriter,
       WriterFree, Running, Ended, Killed, mainVars, writerVars, sourceVars,
       signerVars
<1>4. ASSUME NEW s \in Sources, SourceThrows(s) PROVE Running' => OneWriter'
  BY <1>4, <1>0 DEF SourceThrows, SourceMoves, Move, OneWriter, WriterFree,
       Running, Ended, Killed, mainVars, writerVars, sourceVars, signerVars
<1>5. ASSUME NEW s \in Sources, WriteEvent(s) PROVE Running' => OneWriter'
  BY <1>5, <1>0 DEF WriteEvent, AppendEvent, Move, WriteReturns, Put,
       NextEvent, Event, OneWriter, WriterFree, Running, Ended, Killed,
       mainVars, writerVars, sourceVars, signerVars
<1>6. ASSUME NEW s \in Sources, WriteEventCrashes(s) PROVE Running' => OneWriter'
  BY <1>6, <1>0 DEF WriteEventCrashes, WriteCrashes, OneWriter, WriterFree,
       Running, Ended, Killed, mainVars, writerVars, sourceVars, signerVars
<1>7. ASSUME NEW s \in Sources, Offer(s) PROVE Running' => OneWriter'
  BY <1>7, <1>0 DEF Offer, Offered, Move, OneWriter, WriterFree, Running,
       Ended, Killed, mainVars, writerVars, sourceVars, signerVars
<1>8. ASSUME SignerLocks PROVE Running' => OneWriter'
  BY <1>8, <1>0 DEF SignerLocks, SignerMoves, OneWriter, WriterFree, Running,
       Ended, Killed, mainVars, writerVars, sourceVars, signerVars
<1>9. ASSUME SignerChecks PROVE Running' => OneWriter'
  BY <1>9, <1>0 DEF SignerChecks, SignerMoves, OneWriter, WriterFree, Running,
       Ended, Killed, mainVars, writerVars, sourceVars, signerVars
<1>10. ASSUME SignerWaits PROVE Running' => OneWriter'
  BY <1>10, <1>0 DEF SignerWaits, SignerMoves, OneWriter, WriterFree, Running,
       Ended, Killed, mainVars, writerVars, sourceVars, signerVars
<1>11. ASSUME SignerSleeps PROVE Running' => OneWriter'
  BY <1>11, <1>0 DEF SignerSleeps, SignerMoves, OneWriter, WriterFree,
       Running, Ended, Killed, mainVars, writerVars, sourceVars, signerVars
<1>12. ASSUME SignerWakes PROVE Running' => OneWriter'
  BY <1>12, <1>0 DEF SignerWakes, SignerMoves, OneWriter, WriterFree, Running,
       Ended, Killed, mainVars, writerVars, sourceVars, signerVars
<1>13. ASSUME Take PROVE Running' => OneWriter'
  BY <1>13, <1>0 DEF Take, OneWriter, WriterFree, Running, Ended, Killed,
       mainVars, writerVars, sourceVars, signerVars
<1>14. ASSUME Sign PROVE Running' => OneWriter'
  BY <1>14, <1>0 DEF Sign, WriteSignature, WriteReturns, Put, Signature,
       OneWriter, WriterFree, Running, Ended, Killed, mainVars, writerVars,
       sourceVars, signerVars
<1>15. ASSUME SignCrashes PROVE Running' => OneWriter'
  BY <1>15, <1>0 DEF SignCrashes, WriteCrashes, OneWriter, WriterFree,
       Running, Ended, Killed, mainVars, writerVars, sourceVars, signerVars
<1>16. ASSUME MakeWriter PROVE Running' => OneWriter'
  BY <1>16, <1>0 DEF MakeWriter, Proceeds, OneWriter, WriterFree, Running,
       Ended, Killed, mainVars, writerVars, sourceVars, signerVars
<1>17. ASSUME PollUnwritable PROVE Running' => OneWriter'
  BY <1>17, <1>0 DEF PollUnwritable, MainMoves, Proceeds, OneWriter,
       WriterFree, Running, Ended, Killed, mainVars, writerVars, sourceVars,
       signerVars
<1>18. ASSUME NapOver PROVE Running' => OneWriter'
  BY <1>18, <1>0 DEF NapOver, MainMoves, Proceeds, OneWriter, WriterFree,
       Running, Ended, Killed, mainVars, writerVars, sourceVars, signerVars
<1>19. ASSUME NapInterrupted PROVE Running' => OneWriter'
  BY <1>19, <1>0 DEF NapInterrupted, Proceeds, OneWriter, WriterFree, Running,
       Ended, Killed, mainVars, writerVars, sourceVars, signerVars
<1>20. ASSUME StartSigner PROVE Running' => OneWriter'
  BY <1>20, <1>0 DEF StartSigner, Proceeds, OneWriter, WriterFree, Running,
       Ended, Killed, mainVars, writerVars, sourceVars, signerVars
<1>21. ASSUME BeginSession PROVE Running' => OneWriter'
  BY <1>21, <1>0 DEF BeginSession, OneWriter, WriterFree, Running, Ended,
       Killed, mainVars, writerVars, sourceVars, signerVars
<1>22. ASSUME BeginThrows PROVE Running' => OneWriter'
  BY <1>22, <1>0 DEF BeginThrows, MainMoves, Proceeds, OneWriter, WriterFree,
       Running, Ended, Killed, mainVars, writerVars, sourceVars, signerVars
<1>23. ASSUME TakeSignal PROVE Running' => OneWriter'
  BY <1>23, <1>0 DEF TakeSignal, Proceeds, OneWriter, WriterFree, Running,
       Ended, Killed, mainVars, writerVars, sourceVars, signerVars
<1>24. ASSUME JoinSources PROVE Running' => OneWriter'
  BY <1>24, <1>0 DEF JoinSources, MainMoves, Proceeds, OneWriter, WriterFree,
       Running, Ended, Killed, mainVars, writerVars, sourceVars, signerVars
<1>25. ASSUME PassMutex PROVE Running' => OneWriter'
  BY <1>25, <1>0 DEF PassMutex, MainMoves, Proceeds, OneWriter, WriterFree,
       Running, Ended, Killed, mainVars, writerVars, sourceVars, signerVars
<1>26. ASSUME NotifySigner PROVE Running' => OneWriter'
  BY <1>26, <1>0 DEF NotifySigner, Proceeds, OneWriter, WriterFree, Running,
       Ended, Killed, mainVars, writerVars, sourceVars, signerVars
<1>27. ASSUME JoinSigner PROVE Running' => OneWriter'
  BY <1>27, <1>0 DEF JoinSigner, MainMoves, Proceeds, OneWriter, WriterFree,
       Running, Ended, Killed, mainVars, writerVars, sourceVars, signerVars
<1>28. ASSUME EndSession PROVE Running' => OneWriter'
  BY <1>28, <1>0 DEF EndSession, Proceeds, OneWriter, WriterFree, Running,
       Ended, Killed, mainVars, writerVars, sourceVars, signerVars
<1>29. ASSUME EndThrows PROVE Running' => OneWriter'
  BY <1>29, <1>0 DEF EndThrows, Proceeds, OneWriter, WriterFree, Running,
       Ended, Killed, mainVars, writerVars, sourceVars, signerVars
<1>30. ASSUME Drain PROVE Running' => OneWriter'
  BY <1>30, <1>0 DEF Drain, DrainTo, Proceeds, OneWriter, WriterFree, Running,
       Ended, Killed, mainVars, writerVars, sourceVars, signerVars
<1>31. ASSUME Ask PROVE Running' => OneWriter'
  BY <1>31, <1>0 DEF Ask, OneWriter, WriterFree, Running, Ended, Killed,
       mainVars, writerVars, sourceVars, signerVars
<1>32. QED
  BY <1>1, <1>2, <1>3, <1>4, <1>5, <1>6, <1>7, <1>8, <1>9, <1>10, <1>11,
       <1>12, <1>13, <1>14, <1>15, <1>16, <1>17, <1>18, <1>19, <1>20, <1>21,
       <1>22, <1>23, <1>24, <1>25, <1>26, <1>27, <1>28, <1>29, <1>30, <1>31
  DEF CaptureNext, MainStep, SourceStep, SignerStep

-----------------------------------------------------------------------------
(* The session writer.                                                      *)

\* begin_session leaves a session open.
LEMMA SessionOpened ==
  ASSUME NEW c
  PROVE  Written(Written(FreshWriter, SessionRec(SrcId, c, 0)), SessionSignature(c))
           = OpenWriter(c, 0)
<1> DEFINE w == OpenWriter(c, 0)
<1>1. Written(FreshWriter, SessionRec(SrcId, c, 0)) = w
  BY DEF Written, StartsSession, Started, IsSession, SessionRec, FreshWriter,
         OpenWriter
<1>2. Written(w, SessionSignature(c)) = w
  <2>1. SessionSignature(c).chan = "signature"
    BY DEF SessionSignature
  <2>2. QED
    BY <2>1 DEF Written, StartsSession, IsSession
<1>3. QED
  BY <1>1, <1>2

\* In an open session, events, signatures and the end are accepted, and the
\* session stays open after events and signatures.
LEMMA OpenAccepts ==
  ASSUME NEW c, NEW n, NEW rec, rec.chan \in {"event", "end", "signature"},
         NEW w, w = OpenWriter(c, n)
  PROVE  /\ w # NoWriter /\ ~Refuses(w, rec)
         /\ rec.chan # "end" =>
              Written(w, rec) = OpenWriter(c, Written(w, rec).seqnum)
<1>1. /\ w.srec = SessionRec(SrcId, c, 0) /\ w.ended = FALSE
      /\ w.srec.chan = "session"
  BY DEF OpenWriter, FreshWriter, SessionRec
<1>2. w # NoWriter /\ w.srec # NoRec
  <2>1. NoWriter.srec.chan = "null" /\ NoRec.chan = "none"
    BY DEF NoWriter, FreshWriter, NoRec
  <2>2. QED
    BY <1>1, <2>1
<1>3. ~Refuses(w, rec)
  BY <1>1, <1>2 DEF Refuses, IsSession, IsEvent
<1>4. CASE rec.chan = "event"
  <2>1. Written(w, rec) = [w EXCEPT !.seqnum = rec.seq + 1]
    BY <1>4 DEF Written, StartsSession, IsSession, Numbered
  <2>2. QED
    BY <1>2, <1>3, <2>1 DEF FreshWriter, OpenWriter
<1>5. CASE rec.chan = "signature"
  <2>1. Written(w, rec) = w
    BY <1>5 DEF Written, StartsSession, IsSession
  <2>2. w.seqnum = n
    BY DEF FreshWriter, OpenWriter
  <2>3. QED
    BY <1>2, <1>3, <2>1, <2>2
<1>6. CASE rec.chan = "end"
  BY <1>2, <1>3, <1>6
<1>7. QED
  BY <1>4, <1>5, <1>6

\* A session is open from begin_session until end_session, and nobody has
\* written anything before that.
LEMMA SessionOpenStep ==
  ASSUME CInv, CaptureNext
  PROVE  Running' => SessionOpen'
<1>0. Places /\ SessionOpen
  BY DEF CInv, CaptureNext
<1>1. ASSUME NEW s \in Sources, SourcePolls(s) PROVE Running' => SessionOpen'
  BY <1>1, <1>0 DEF SourcePolls, SourceMoves, Move, SessionOpen, InSession,
       Running, Ended, Killed, mainVars, writerVars, sourceVars, signerVars
<1>2. ASSUME NEW s \in Sources, SourceReads(s) PROVE Running' => SessionOpen'
  BY <1>2, <1>0 DEF SourceReads, Move, SessionOpen, InSession, Running, Ended,
       Killed, mainVars, writerVars, sourceVars, signerVars
<1>3. ASSUME NEW s \in Sources, SourceInterrupted(s) PROVE Running' => SessionOpen'
  BY <1>3, <1>0 DEF SourceInterrupted, SourceMoves, Move, SessionOpen,
       InSession, Running, Ended, Killed, mainVars, writerVars, sourceVars,
       signerVars
<1>4. ASSUME NEW s \in Sources, SourceThrows(s) PROVE Running' => SessionOpen'
  BY <1>4, <1>0 DEF SourceThrows, SourceMoves, Move, SessionOpen, InSession,
       Running, Ended, Killed, mainVars, writerVars, sourceVars, signerVars
<1>5. ASSUME NEW s \in Sources, WriteEvent(s) PROVE Running' => SessionOpen'
  <2>1. mpc \in InSession /\ mpc' = mpc /\ clock' = clock
    BY <1>5, <1>0 DEF Places, AtWork, InSession, WriteEvent, AppendEvent, Move,
       mainVars
  <2>2. NextEvent(s).chan = "event" /\ sw' = Written(sw, NextEvent(s))
    BY <1>5 DEF WriteEvent, AppendEvent, WriteReturns, Put, NextEvent, Event
  <2>3. sw = OpenWriter(clock, sw.seqnum)
    BY <1>0, <2>1 DEF SessionOpen
  <2>4. sw' = OpenWriter(clock, sw'.seqnum)
    <3> DEFINE rec == NextEvent(s)
    <3>1. rec.chan \in {"event", "end", "signature"} /\ rec.chan # "end"
      BY <2>2
    <3> HIDE DEF rec
    <3>2. Written(sw, rec) = OpenWriter(clock, Written(sw, rec).seqnum)
      BY <2>3, <3>1, OpenAccepts
    <3>3. sw' = Written(sw, rec)
      BY <2>2 DEF rec
    <3>4. QED
      BY <3>2, <3>3
  <2>5. QED
    BY <2>1, <2>4 DEF SessionOpen, InSession
<1>6. ASSUME NEW s \in Sources, WriteEventCrashes(s) PROVE Running' => SessionOpen'
  BY <1>6 DEF WriteEventCrashes, WriteCrashes, Running, Killed
<1>7. ASSUME NEW s \in Sources, Offer(s) PROVE Running' => SessionOpen'
  BY <1>7, <1>0 DEF Offer, Offered, Move, Places, AtWork, SessionOpen,
     InSession, mainVars
<1>8. ASSUME SignerLocks PROVE Running' => SessionOpen'
  BY <1>8, <1>0 DEF SignerLocks, SignerMoves, SessionOpen, InSession, Running,
       Ended, Killed, mainVars, writerVars, sourceVars, signerVars
<1>9. ASSUME SignerChecks PROVE Running' => SessionOpen'
  BY <1>9, <1>0 DEF SignerChecks, SignerMoves, SessionOpen, InSession,
       Running, Ended, Killed, mainVars, writerVars, sourceVars, signerVars
<1>10. ASSUME SignerWaits PROVE Running' => SessionOpen'
  BY <1>10, <1>0 DEF SignerWaits, SignerMoves, SessionOpen, InSession,
       Running, Ended, Killed, mainVars, writerVars, sourceVars, signerVars
<1>11. ASSUME SignerSleeps PROVE Running' => SessionOpen'
  BY <1>11, <1>0 DEF SignerSleeps, SignerMoves, SessionOpen, InSession,
       Running, Ended, Killed, mainVars, writerVars, sourceVars, signerVars
<1>12. ASSUME SignerWakes PROVE Running' => SessionOpen'
  BY <1>12, <1>0 DEF SignerWakes, SignerMoves, SessionOpen, InSession,
       Running, Ended, Killed, mainVars, writerVars, sourceVars, signerVars
<1>13. ASSUME Take PROVE Running' => SessionOpen'
  BY <1>13, <1>0 DEF Take, SessionOpen, InSession, Running, Ended, Killed,
       mainVars, writerVars, sourceVars, signerVars
<1>14. ASSUME Sign PROVE Running' => SessionOpen'
  <2>1. mpc \in InSession /\ mpc' = mpc /\ clock' = clock
    BY <1>14, <1>0 DEF Places, InSession, Sign, WriteSignature, mainVars
  <2>2. Signature(taken).chan = "signature" /\ sw' = Written(sw, Signature(taken))
    BY <1>14 DEF Sign, WriteSignature, WriteReturns, Put, Signature
  <2>3. sw = OpenWriter(clock, sw.seqnum)
    BY <1>0, <2>1 DEF SessionOpen
  <2>4. sw' = OpenWriter(clock, sw'.seqnum)
    <3> DEFINE rec == Signature(taken)
    <3>1. rec.chan \in {"event", "end", "signature"} /\ rec.chan # "end"
      BY <2>2
    <3> HIDE DEF rec
    <3>2. Written(sw, rec) = OpenWriter(clock, Written(sw, rec).seqnum)
      BY <2>3, <3>1, OpenAccepts
    <3>3. sw' = Written(sw, rec)
      BY <2>2 DEF rec
    <3>4. QED
      BY <3>2, <3>3
  <2>5. QED
    BY <2>1, <2>4 DEF SessionOpen, InSession
<1>15. ASSUME SignCrashes PROVE Running' => SessionOpen'
  BY <1>15 DEF SignCrashes, WriteCrashes, Running, Killed
<1>16. ASSUME MakeWriter PROVE Running' => SessionOpen'
  BY <1>16, <1>0 DEF MakeWriter, Proceeds, SessionOpen, InSession, Running,
       Ended, Killed, mainVars, writerVars, sourceVars, signerVars
<1>17. ASSUME PollUnwritable PROVE Running' => SessionOpen'
  BY <1>17, <1>0 DEF PollUnwritable, MainMoves, Proceeds, SessionOpen,
       InSession, Running, Ended, Killed, mainVars, writerVars, sourceVars,
       signerVars
<1>18. ASSUME NapOver PROVE Running' => SessionOpen'
  BY <1>18, <1>0 DEF NapOver, MainMoves, Proceeds, SessionOpen, InSession,
       Running, Ended, Killed, mainVars, writerVars, sourceVars, signerVars
<1>19. ASSUME NapInterrupted PROVE Running' => SessionOpen'
  BY <1>19, <1>0 DEF NapInterrupted, Proceeds, SessionOpen, InSession,
       Running, Ended, Killed, mainVars, writerVars, sourceVars, signerVars
<1>20. ASSUME StartSigner PROVE Running' => SessionOpen'
  BY <1>20, <1>0 DEF StartSigner, Proceeds, SessionOpen, InSession, Running,
       Ended, Killed, mainVars, writerVars, sourceVars, signerVars
<1>21. ASSUME BeginSession PROVE Running' => SessionOpen'
  <2>1. /\ sw = FreshWriter /\ clock' = clock + 1 /\ mpc' = "wait"
        /\ sw' = Written(Written(sw, SessionRec(SrcId, clock + 1, 0)),
                         SessionSignature(clock + 1))
    BY <1>21, <1>0 DEF SessionOpen, BeginSession
  <2>2. sw' = OpenWriter(clock + 1, 0)
    BY <2>1, SessionOpened
  <2>3. sw'.seqnum = 0
    BY <2>2 DEF FreshWriter, OpenWriter
  <2>4. QED
    BY <2>1, <2>2, <2>3 DEF SessionOpen
<1>22. ASSUME BeginThrows PROVE Running' => SessionOpen'
  BY <1>22, <1>0 DEF BeginThrows, MainMoves, Proceeds, SessionOpen, InSession,
       Running, Ended, Killed, mainVars, writerVars, sourceVars, signerVars
<1>23. ASSUME TakeSignal PROVE Running' => SessionOpen'
  BY <1>23, <1>0 DEF TakeSignal, Proceeds, SessionOpen, InSession, Running,
       Ended, Killed, mainVars, writerVars, sourceVars, signerVars
<1>24. ASSUME JoinSources PROVE Running' => SessionOpen'
  BY <1>24, <1>0 DEF JoinSources, MainMoves, Proceeds, SessionOpen, InSession,
       Running, Ended, Killed, mainVars, writerVars, sourceVars, signerVars
<1>25. ASSUME PassMutex PROVE Running' => SessionOpen'
  BY <1>25, <1>0 DEF PassMutex, MainMoves, Proceeds, SessionOpen, InSession,
       Running, Ended, Killed, mainVars, writerVars, sourceVars, signerVars
<1>26. ASSUME NotifySigner PROVE Running' => SessionOpen'
  BY <1>26, <1>0 DEF NotifySigner, Proceeds, SessionOpen, InSession, Running,
       Ended, Killed, mainVars, writerVars, sourceVars, signerVars
<1>27. ASSUME JoinSigner PROVE Running' => SessionOpen'
  BY <1>27, <1>0 DEF JoinSigner, MainMoves, Proceeds, SessionOpen, InSession,
       Running, Ended, Killed, mainVars, writerVars, sourceVars, signerVars
<1>28. ASSUME EndSession PROVE Running' => SessionOpen'
  BY <1>28, <1>0 DEF EndSession, Proceeds, SessionOpen, InSession, Running,
       Ended, Killed, mainVars, writerVars, sourceVars, signerVars
<1>29. ASSUME EndThrows PROVE Running' => SessionOpen'
  BY <1>29, <1>0 DEF EndThrows, Proceeds, SessionOpen, InSession, Running,
       Ended, Killed, mainVars, writerVars, sourceVars, signerVars
<1>30. ASSUME Drain PROVE Running' => SessionOpen'
  BY <1>30, <1>0 DEF Drain, DrainTo, Proceeds, SessionOpen, InSession,
       Running, Ended, Killed, mainVars, writerVars, sourceVars, signerVars
<1>31. ASSUME Ask PROVE Running' => SessionOpen'
  BY <1>31, <1>0 DEF Ask, SessionOpen, InSession, Running, Ended, Killed,
       mainVars, writerVars, sourceVars, signerVars
<1>32. QED
  BY <1>1, <1>2, <1>3, <1>4, <1>5, <1>6, <1>7, <1>8, <1>9, <1>10, <1>11,
       <1>12, <1>13, <1>14, <1>15, <1>16, <1>17, <1>18, <1>19, <1>20, <1>21,
       <1>22, <1>23, <1>24, <1>25, <1>26, <1>27, <1>28, <1>29, <1>30, <1>31
  DEF CaptureNext, MainStep, SourceStep, SignerStep

-----------------------------------------------------------------------------
(* Number and hash for the next record.                                     *)

\* A step that leaves the records, what is kept for the next one, and the source
\* in write_event alone leaves the link alone.
LEMMA NextLinkSame ==
  ASSUME NextLink,
         mpc' \in InSession => mpc \in InSession,
         UNCHANGED <<clock, out, seqnum, hattr>>,
         \A s \in Sources : spc'[s] = "written" <=> spc[s] = "written",
         \A s \in Sources : spc[s] = "written" => held'[s] = held[s]
  PROVE  NextLink'
<1>1. WriterFree' => WriterFree
  BY DEF WriterFree
<1>2. End(seqnum, hattr)' = End(seqnum, hattr)
  BY DEF End
<1>3. QED
  BY <1>1, <1>2 DEF NextLink, Positions

\* The records that link to the last event are told by number and hash alone.
LEMMA LinkByNumber ==
  ASSUME NEW r, NEW n, NEW a, NEW b, Linked(r, n, a),
         a.seq = b.seq, a.prev = b.prev
  PROVE  Linked(r, n, b)
BY DEF Linked

\* Number and hash stay those of the last event, whichever source wrote it.
LEMMA NextLinkStep ==
  ASSUME CInv, CaptureNext
  PROVE  Running' => NextLink'
<1>0. /\ Places /\ OneWriter /\ SessionOpen /\ NextLink
      /\ spc \in [Sources -> {"off", "loop", "read", "got", "written", "done"}]
      /\ held \in [Sources -> 0 .. MaxEvents] /\ taken \in Offers
      /\ out \in Seq(CaptureRecs) /\ out' \in Seq(CaptureRecs)
      /\ clock \in Nat
  BY CaptureAssumption, TypedStep DEF CInv, CTyped, CaptureNext
<1>1. ASSUME NEW s \in Sources, SourcePolls(s) PROVE Running' => NextLink'
  BY <1>1, <1>0, NextLinkSame DEF SourcePolls, SourceMoves, Move,
       InSession, mainVars, writerVars, sourceVars, signerVars
<1>2. ASSUME NEW s \in Sources, SourceReads(s) PROVE Running' => NextLink'
  BY <1>2, <1>0, NextLinkSame DEF SourceReads, Move, InSession, mainVars,
       writerVars, sourceVars, signerVars
<1>3. ASSUME NEW s \in Sources, SourceInterrupted(s) PROVE Running' => NextLink'
  BY <1>3, <1>0, NextLinkSame DEF SourceInterrupted, SourceMoves, Move,
       InSession, mainVars, writerVars, sourceVars, signerVars
<1>4. ASSUME NEW s \in Sources, SourceThrows(s) PROVE Running' => NextLink'
  BY <1>4, <1>0, NextLinkSame DEF SourceThrows, SourceMoves, Move,
       InSession, mainVars, writerVars, sourceVars, signerVars
<1>5. ASSUME NEW s \in Sources, WriteEvent(s) PROVE Running' => NextLink'
  <2> DEFINE e == NextEvent(s)
  <2>1. /\ mpc \in InSession /\ clock' = clock /\ seqnum' = seqnum /\ held' = held
        /\ WriterFree /\ out' = Append(out, e)
        /\ spc' = [spc EXCEPT ![s] = "written"]
    BY <1>5, <1>0 DEF Places, AtWork, InSession, WriteEvent, AppendEvent, Move,
       WriteReturns, Put, mainVars
  <2>2. IsEvent(e) /\ e.ts = clock /\ e.seq = seqnum /\ e.data = held[s]
    BY DEF NextEvent, Event, IsEvent
  <2>3. /\ Len(out) \in Nat /\ Len(out') = Len(out) + 1
        /\ \A k \in 1 .. Len(out) : out'[k] = out[k]
        /\ out'[Len(out) + 1] = e
        /\ \A k \in 1 .. Len(out') : k <= Len(out) + 1 /\ k \in Nat
        /\ \A k \in 1 .. Len(out') : k = Len(out) + 1 \/ k \in 1 .. Len(out)
        /\ Len(out) + 1 \in 1 .. Len(out')
    <3> HIDE DEF e
    <3>1. out' \in Seq(CaptureRecs) /\ out \in Seq(CaptureRecs)
      BY <1>0
    <3>2. QED
      BY <2>1, <3>1
  <2> HIDE DEF e
  <2>4. LastEvent(out', Len(out'), Len(out) + 1)
    BY <2>2, <2>3 DEF LastEvent
  <2>5. \A i \in 1 .. Len(out') : IsEvent(out'[i]) => out'[i].ts = clock'
    BY <1>0, <2>1, <2>2, <2>3 DEF NextLink, Positions
  <2>6. \A t \in Sources : spc'[t] = "written" =>
          \E j \in 1 .. Len(out') : /\ LastEvent(out', Len(out'), j)
                                    /\ out'[j].seq = seqnum'
                                    /\ out'[j].data = held'[t]
    <3>1. \A t \in Sources : spc'[t] = "written" => t = s
      BY <1>0, <2>1 DEF WriterFree
    <3>2. QED
      BY <2>1, <2>2, <2>3, <2>4, <3>1
  <2>7. ~WriterFree'
    BY <1>0, <2>1 DEF WriterFree
  <2>8. QED
    BY <2>5, <2>6, <2>7 DEF NextLink, Positions
<1>6. ASSUME NEW s \in Sources, WriteEventCrashes(s) PROVE Running' => NextLink'
  BY <1>6 DEF WriteEventCrashes, WriteCrashes, Running, Killed
<1>7. ASSUME NEW s \in Sources, Offer(s) PROVE Running' => NextLink'
  <2>1. /\ mpc \in InSession /\ clock' = clock /\ out' = out
        /\ spc[s] = "written" /\ spc' = [spc EXCEPT ![s] = "loop"]
        /\ seqnum' = seqnum + 1 /\ hattr' = HashOf("event", held[s])
    BY <1>7, <1>0 DEF Places, AtWork, InSession, Offer, Offered, Move, mainVars
  <2>2. \A t \in Sources : spc'[t] # "written"
    BY <1>0, <2>1 DEF OneWriter
  <2>3. PICK j \in Positions : /\ LastEvent(out, Len(out), j)
                               /\ out[j].seq = seqnum /\ out[j].data = held[s]
    BY <1>0, <2>1 DEF NextLink
  <2>4. IsEvent(out[j]) /\ out[j].ts = clock
    BY <1>0, <2>1, <2>3 DEF NextLink, LastEvent
  <2>5. hattr' = HashOfRec(out[j])
    BY <2>1, <2>3, <2>4 DEF HashOf, HashOfRec, IsEvent, IsSession
  <2>6. Linked(out, Len(out), End(seqnum, hattr)')
    BY <2>1, <2>3, <2>5 DEF Linked, End, Positions
  <2>7. QED
    BY <1>0, <2>1, <2>2, <2>6 DEF NextLink, Positions
<1>8. ASSUME SignerLocks PROVE Running' => NextLink'
  BY <1>8, <1>0, NextLinkSame DEF SignerLocks, SignerMoves, InSession,
       mainVars, writerVars, sourceVars, signerVars
<1>9. ASSUME SignerChecks PROVE Running' => NextLink'
  BY <1>9, <1>0, NextLinkSame DEF SignerChecks, SignerMoves, InSession,
       mainVars, writerVars, sourceVars, signerVars
<1>10. ASSUME SignerWaits PROVE Running' => NextLink'
  BY <1>10, <1>0, NextLinkSame DEF SignerWaits, SignerMoves, InSession,
       mainVars, writerVars, sourceVars, signerVars
<1>11. ASSUME SignerSleeps PROVE Running' => NextLink'
  BY <1>11, <1>0, NextLinkSame DEF SignerSleeps, SignerMoves, InSession,
       mainVars, writerVars, sourceVars, signerVars
<1>12. ASSUME SignerWakes PROVE Running' => NextLink'
  BY <1>12, <1>0, NextLinkSame DEF SignerWakes, SignerMoves, InSession,
       mainVars, writerVars, sourceVars, signerVars
<1>13. ASSUME Take PROVE Running' => NextLink'
  BY <1>13, <1>0, NextLinkSame DEF Take, InSession, mainVars, writerVars,
       sourceVars, signerVars
<1>14. ASSUME Sign PROVE Running' => NextLink'
  <2> DEFINE g == Signature(taken)
  <2>1. /\ mpc \in InSession /\ clock' = clock /\ seqnum' = seqnum
        /\ hattr' = hattr /\ spc' = spc
        /\ WriterFree /\ out' = Append(out, g)
    BY <1>14, <1>0 DEF Places, InSession, Sign, WriteSignature, WriteReturns, Put,
       mainVars, sourceVars
  <2>2. ~IsEvent(g)
    BY DEF Signature, IsEvent
  <2>3. g \in CaptureRecs
    BY <1>0 DEF Signature, CaptureRecs, Offers
  <2> HIDE DEF g
  <2>4. /\ Len(out) \in Nat /\ Len(out') = Len(out) + 1
        /\ \A k \in 1 .. Len(out) : out'[k] = out[k]
        /\ out'[Len(out) + 1] = g
        /\ \A k \in 1 .. Len(out') : k = Len(out) + 1 \/ k \in 1 .. Len(out)
    BY <1>0, <2>1
  <2>5. Linked(out', Len(out'), End(seqnum, hattr))
    <3>1. Linked(out, Len(out), End(seqnum, hattr))
      BY <1>0, <2>1 DEF NextLink
    <3>2. QED
      BY <1>0, <2>1, <2>2, <2>3, <2>4, <3>1, LinkedAfterOther
  <2>6. End(seqnum, hattr)' = End(seqnum, hattr)
    BY <2>1 DEF End
  <2>7. \A s \in Sources : spc'[s] # "written"
    BY <2>1 DEF WriterFree
  <2>8. \A i \in 1 .. Len(out') : IsEvent(out'[i]) => out'[i].ts = clock'
    BY <1>0, <2>1, <2>2, <2>4 DEF NextLink, Positions
  <2>9. QED
    BY <2>5, <2>6, <2>7, <2>8 DEF NextLink, Positions
<1>15. ASSUME SignCrashes PROVE Running' => NextLink'
  BY <1>15 DEF SignCrashes, WriteCrashes, Running, Killed
<1>16. ASSUME MakeWriter PROVE Running' => NextLink'
  BY <1>16 DEF MakeWriter, Proceeds, NextLink, InSession
<1>17. ASSUME PollUnwritable PROVE Running' => NextLink'
  BY <1>17, <1>0, NextLinkSame DEF PollUnwritable, MainMoves, Proceeds,
       InSession, mainVars, writerVars, sourceVars, signerVars
<1>18. ASSUME NapOver PROVE Running' => NextLink'
  BY <1>18, <1>0, NextLinkSame DEF NapOver, MainMoves, Proceeds, InSession,
       mainVars, writerVars, sourceVars, signerVars
<1>19. ASSUME NapInterrupted PROVE Running' => NextLink'
  BY <1>19 DEF NapInterrupted, Proceeds, NextLink, InSession
<1>20. ASSUME StartSigner PROVE Running' => NextLink'
  BY <1>20, <1>0, NextLinkSame DEF StartSigner, Proceeds, InSession,
       mainVars, writerVars, sourceVars, signerVars
<1>21. ASSUME BeginSession PROVE Running' => NextLink'
  <2>1. /\ out' = <<SessionRec(SrcId, clock + 1, 0), SessionSignature(clock + 1)>>
        /\ spc' = [t \in Sources |-> "loop"]
        /\ seqnum' = 0 /\ hattr' = NoHash
    BY <1>21, <1>0 DEF BeginSession, SessionOpen
  <2>2. /\ Len(out') = 2
        /\ \A i \in 1 .. 2 : ~IsEvent(out'[i])
    BY <2>1 DEF SessionRec, SessionSignature, IsEvent
  <2>3. Linked(out', Len(out'), End(seqnum, hattr)')
    BY <2>1, <2>2 DEF Linked, NoEvent, End
  <2>4. QED
    BY <2>1, <2>2, <2>3 DEF NextLink, Positions, End
<1>22. ASSUME BeginThrows PROVE Running' => NextLink'
  BY <1>22 DEF BeginThrows, MainMoves, Proceeds, NextLink, InSession
<1>23. ASSUME TakeSignal PROVE Running' => NextLink'
  BY <1>23, <1>0, NextLinkSame DEF TakeSignal, Proceeds, InSession,
       mainVars, writerVars, sourceVars, signerVars
<1>24. ASSUME JoinSources PROVE Running' => NextLink'
  BY <1>24, <1>0, NextLinkSame DEF JoinSources, MainMoves, Proceeds,
       InSession, mainVars, writerVars, sourceVars, signerVars
<1>25. ASSUME PassMutex PROVE Running' => NextLink'
  BY <1>25, <1>0, NextLinkSame DEF PassMutex, MainMoves, Proceeds,
       InSession, mainVars, writerVars, sourceVars, signerVars
<1>26. ASSUME NotifySigner PROVE Running' => NextLink'
  BY <1>26, <1>0, NextLinkSame DEF NotifySigner, Proceeds, InSession,
       mainVars, writerVars, sourceVars, signerVars
<1>27. ASSUME JoinSigner PROVE Running' => NextLink'
  BY <1>27, <1>0, NextLinkSame DEF JoinSigner, MainMoves, Proceeds,
       InSession, mainVars, writerVars, sourceVars, signerVars
<1>28. ASSUME EndSession PROVE Running' => NextLink'
  BY <1>28 DEF EndSession, Proceeds, NextLink, InSession
<1>29. ASSUME EndThrows PROVE Running' => NextLink'
  BY <1>29 DEF EndThrows, Proceeds, NextLink, InSession
<1>30. ASSUME Drain PROVE Running' => NextLink'
  BY <1>30, <1>0, NextLinkSame DEF Drain, DrainTo, Proceeds, InSession,
       mainVars, writerVars, sourceVars, signerVars
<1>31. ASSUME Ask PROVE Running' => NextLink'
  BY <1>31, <1>0, NextLinkSame DEF Ask, InSession, mainVars, writerVars,
       sourceVars, signerVars
<1>32. QED
  BY <1>1, <1>2, <1>3, <1>4, <1>5, <1>6, <1>7, <1>8, <1>9, <1>10, <1>11,
       <1>12, <1>13, <1>14, <1>15, <1>16, <1>17, <1>18, <1>19, <1>20, <1>21,
       <1>22, <1>23, <1>24, <1>25, <1>26, <1>27, <1>28, <1>29, <1>30, <1>31
  DEF CaptureNext, MainStep, SourceStep, SignerStep

-----------------------------------------------------------------------------
(* The chain.                                                               *)

\* The end that end_session writes closes the chain, also if its signature or
\* the end itself is not written.
LEMMA EndChained ==
  ASSUME CInv, mpc = "end"
  PROVE  /\ Chained(out \o EndRecords)
         /\ Chained(Append(out, EndRecords[1]))
<1> DEFINE e == End(seqnum, hattr)
           g == Signature([seq |-> seqnum, of |-> HashOf("end", 0)])
<1>1. /\ out \in Seq(CaptureRecs) /\ Chained(out) /\ Places /\ NextLink
      /\ seqnum \in Nat /\ hattr \in Hashes /\ clock \in Nat
  BY CaptureAssumption DEF CInv, CTyped, ChainUnbroken, Running, Ended, Killed
<1>2. e \in CaptureRecs
  BY <1>1 DEF End, CaptureRecs
<1>3. g \in CaptureRecs /\ ~IsEvent(g) /\ ~IsEnd(g)
  <2>1. HashOf("end", 0) \in Hashes
    BY <1>1 DEF HashOf, Hashes
  <2>2. QED
    BY <1>1, <2>1 DEF Signature, CaptureRecs, IsEvent, IsEnd
<1>4. Linked(out, Len(out), e)
  BY <1>1 DEF Places, AtWork, NextLink, InSession, WriterFree
<1>5. EndRecords = <<e, g>>
  BY DEF EndRecords
<1> HIDE DEF e, g
<1>6. Chained(Append(out, e))
  BY <1>1, <1>2, <1>4, ChainedAppend
<1>7. Append(out, e) \in Seq(CaptureRecs)
  BY <1>1, <1>2
<1>8. Chained(Append(Append(out, e), g))
  BY <1>3, <1>6, <1>7, ChainedAppend
<1>9. out \o <<e, g>> = Append(Append(out, e), g)
  BY <1>1, <1>2, <1>3
<1>10. QED
  BY <1>5, <1>6, <1>8, <1>9

\* No step breaks the chain.
LEMMA ChainStep ==
  ASSUME CInv, CaptureNext
  PROVE  ChainUnbroken'
<1>0. /\ ChainUnbroken /\ CInv /\ Places /\ NextLink
      /\ out \in Seq(CaptureRecs) /\ clock \in Nat /\ seqnum \in Nat
      /\ hattr \in Hashes /\ taken \in Offers
      /\ \A s \in Sources : held[s] \in Nat
  BY CaptureAssumption DEF CInv, CTyped, CaptureNext
<1>1. ASSUME NEW s \in Sources, SourcePolls(s) PROVE ChainUnbroken'
  BY <1>1, <1>0 DEF SourcePolls, SourceMoves, Move, ChainUnbroken,
       mainVars, writerVars, sourceVars, signerVars
<1>2. ASSUME NEW s \in Sources, SourceReads(s) PROVE ChainUnbroken'
  BY <1>2, <1>0 DEF SourceReads, Move, ChainUnbroken, mainVars, writerVars,
       sourceVars, signerVars
<1>3. ASSUME NEW s \in Sources, SourceInterrupted(s) PROVE ChainUnbroken'
  BY <1>3, <1>0 DEF SourceInterrupted, SourceMoves, Move, ChainUnbroken,
       mainVars, writerVars, sourceVars, signerVars
<1>4. ASSUME NEW s \in Sources, SourceThrows(s) PROVE ChainUnbroken'
  BY <1>4, <1>0 DEF SourceThrows, SourceMoves, Move, ChainUnbroken,
       mainVars, writerVars, sourceVars, signerVars
<1>5. ASSUME NEW s \in Sources, WriteEvent(s) PROVE ChainUnbroken'
  <2> DEFINE e == NextEvent(s)
  <2>1. mpc \in InSession /\ WriterFree /\ out' = Append(out, e)
    BY <1>5, <1>0 DEF Places, AtWork, InSession, WriteEvent, AppendEvent, Move,
       WriteReturns, Put
  <2>2. Linked(out, Len(out), e)
    <3>1. Linked(out, Len(out), End(seqnum, hattr))
      BY <1>0, <2>1 DEF NextLink
    <3>2. End(seqnum, hattr).seq = e.seq /\ End(seqnum, hattr).prev = e.prev
      BY DEF End, NextEvent, Event
    <3> HIDE DEF e
    <3>3. QED
      BY <3>1, <3>2, LinkByNumber
  <2>3. e \in CaptureRecs
    BY <1>0 DEF NextEvent, Event, CaptureRecs
  <2> HIDE DEF e
  <2>4. QED
    BY <1>0, <2>1, <2>2, <2>3, ChainedAppend DEF ChainUnbroken
<1>6. ASSUME NEW s \in Sources, WriteEventCrashes(s) PROVE ChainUnbroken'
  BY <1>6, <1>0 DEF WriteEventCrashes, WriteCrashes, ChainUnbroken,
       mainVars, writerVars, sourceVars, signerVars
<1>7. ASSUME NEW s \in Sources, Offer(s) PROVE ChainUnbroken'
  BY <1>7, <1>0 DEF Offer, Offered, Move, ChainUnbroken, mainVars,
       writerVars, sourceVars, signerVars
<1>8. ASSUME SignerLocks PROVE ChainUnbroken'
  BY <1>8, <1>0 DEF SignerLocks, SignerMoves, ChainUnbroken, mainVars,
       writerVars, sourceVars, signerVars
<1>9. ASSUME SignerChecks PROVE ChainUnbroken'
  BY <1>9, <1>0 DEF SignerChecks, SignerMoves, ChainUnbroken, mainVars,
       writerVars, sourceVars, signerVars
<1>10. ASSUME SignerWaits PROVE ChainUnbroken'
  BY <1>10, <1>0 DEF SignerWaits, SignerMoves, ChainUnbroken, mainVars,
       writerVars, sourceVars, signerVars
<1>11. ASSUME SignerSleeps PROVE ChainUnbroken'
  BY <1>11, <1>0 DEF SignerSleeps, SignerMoves, ChainUnbroken, mainVars,
       writerVars, sourceVars, signerVars
<1>12. ASSUME SignerWakes PROVE ChainUnbroken'
  BY <1>12, <1>0 DEF SignerWakes, SignerMoves, ChainUnbroken, mainVars,
       writerVars, sourceVars, signerVars
<1>13. ASSUME Take PROVE ChainUnbroken'
  BY <1>13, <1>0 DEF Take, ChainUnbroken, mainVars, writerVars, sourceVars,
       signerVars
<1>14. ASSUME Sign PROVE ChainUnbroken'
  <2> DEFINE g == Signature(taken)
  <2>1. out' = Append(out, g)
    BY <1>14 DEF Sign, WriteSignature, WriteReturns, Put
  <2>2. ~IsEvent(g) /\ ~IsEnd(g) /\ g \in CaptureRecs
    BY <1>0 DEF Signature, IsEvent, IsEnd, CaptureRecs, Offers
  <2> HIDE DEF g
  <2>3. QED
    BY <1>0, <2>1, <2>2, ChainedAppend DEF ChainUnbroken
<1>15. ASSUME SignCrashes PROVE ChainUnbroken'
  BY <1>15, <1>0 DEF SignCrashes, WriteCrashes, ChainUnbroken, mainVars,
       writerVars, sourceVars, signerVars
<1>16. ASSUME MakeWriter PROVE ChainUnbroken'
  BY <1>16 DEF MakeWriter, ChainUnbroken, Chained
<1>17. ASSUME PollUnwritable PROVE ChainUnbroken'
  BY <1>17, <1>0 DEF PollUnwritable, MainMoves, Proceeds, ChainUnbroken,
       mainVars, writerVars, sourceVars, signerVars
<1>18. ASSUME NapOver PROVE ChainUnbroken'
  BY <1>18, <1>0 DEF NapOver, MainMoves, Proceeds, ChainUnbroken, mainVars,
       writerVars, sourceVars, signerVars
<1>19. ASSUME NapInterrupted PROVE ChainUnbroken'
  BY <1>19, <1>0 DEF NapInterrupted, Proceeds, ChainUnbroken, mainVars,
       writerVars, sourceVars, signerVars
<1>20. ASSUME StartSigner PROVE ChainUnbroken'
  BY <1>20, <1>0 DEF StartSigner, Proceeds, ChainUnbroken, mainVars,
       writerVars, sourceVars, signerVars
<1>21. ASSUME BeginSession PROVE ChainUnbroken'
  <2>1. out' = <<SessionRec(SrcId, clock + 1, 0), SessionSignature(clock + 1)>>
    BY <1>21 DEF BeginSession
  <2>2. /\ Len(out') = 2
        /\ \A i \in 1 .. 2 : ~IsEvent(out'[i]) /\ ~IsEnd(out'[i])
    BY <2>1 DEF SessionRec, SessionSignature, IsEvent, IsEnd
  <2>3. QED
    BY <2>2 DEF ChainUnbroken, Chained
<1>22. ASSUME BeginThrows PROVE ChainUnbroken'
  BY <1>22, <1>0 DEF BeginThrows, MainMoves, Proceeds, ChainUnbroken,
       mainVars, writerVars, sourceVars, signerVars
<1>23. ASSUME TakeSignal PROVE ChainUnbroken'
  BY <1>23, <1>0 DEF TakeSignal, Proceeds, ChainUnbroken, mainVars,
       writerVars, sourceVars, signerVars
<1>24. ASSUME JoinSources PROVE ChainUnbroken'
  BY <1>24, <1>0 DEF JoinSources, MainMoves, Proceeds, ChainUnbroken,
       mainVars, writerVars, sourceVars, signerVars
<1>25. ASSUME PassMutex PROVE ChainUnbroken'
  BY <1>25, <1>0 DEF PassMutex, MainMoves, Proceeds, ChainUnbroken,
       mainVars, writerVars, sourceVars, signerVars
<1>26. ASSUME NotifySigner PROVE ChainUnbroken'
  BY <1>26, <1>0 DEF NotifySigner, Proceeds, ChainUnbroken, mainVars,
       writerVars, sourceVars, signerVars
<1>27. ASSUME JoinSigner PROVE ChainUnbroken'
  BY <1>27, <1>0 DEF JoinSigner, MainMoves, Proceeds, ChainUnbroken,
       mainVars, writerVars, sourceVars, signerVars
<1>28. ASSUME EndSession PROVE ChainUnbroken'
  <2>1. mpc = "end" /\ out' = out \o EndRecords
    BY <1>28 DEF EndSession, Proceeds
  <2>2. QED
    BY <1>0, <2>1, EndChained DEF ChainUnbroken
<1>29. ASSUME EndThrows PROVE ChainUnbroken'
  <2>1. mpc = "end" /\ out' \in {out, Append(out, EndRecords[1])}
    BY <1>29 DEF EndThrows, Proceeds
  <2>2. QED
    BY <1>0, <2>1, EndChained DEF ChainUnbroken
<1>30. ASSUME Drain PROVE ChainUnbroken'
  BY <1>30, <1>0 DEF Drain, DrainTo, Proceeds, ChainUnbroken, mainVars,
       writerVars, sourceVars, signerVars
<1>31. ASSUME Ask PROVE ChainUnbroken'
  BY <1>31, <1>0 DEF Ask, ChainUnbroken, mainVars, writerVars, sourceVars,
       signerVars
<1>32. QED
  BY <1>1, <1>2, <1>3, <1>4, <1>5, <1>6, <1>7, <1>8, <1>9, <1>10, <1>11,
       <1>12, <1>13, <1>14, <1>15, <1>16, <1>17, <1>18, <1>19, <1>20, <1>21,
       <1>22, <1>23, <1>24, <1>25, <1>26, <1>27, <1>28, <1>29, <1>30, <1>31
  DEF CaptureNext, MainStep, SourceStep, SignerStep

-----------------------------------------------------------------------------
(* Theorems.                                                                *)

\* CInv holds in every state of every run of horace-capture.
THEOREM CaptureInductive == CaptureSpec => []CInv
<1>1. CaptureInit => CInv
  <2> SUFFICES ASSUME CaptureInit PROVE CInv
    OBVIOUS
  <2>1. CTyped
    <3>1. 0 \in 0 .. MaxEvents /\ 0 \in 0 .. MaxSessions
      BY CaptureAssumption
    <3>2. NoHash \in Hashes /\ Nothing \in Offers
      BY DEF NoHash, Hashes, Nothing, Offers
    <3>3. <<>> \in Seq(CaptureRecs)
      OBVIOUS
    <3>4. /\ [s \in Sources |-> "off"] \in [Sources -> {"off", "loop", "read", "got", "written", "done"}]
          /\ [s \in Sources |-> 0] \in [Sources -> 0 .. MaxEvents]
      BY <3>1
    <3>5. QED
      BY <3>1, <3>2, <3>3, <3>4 DEF CaptureInit, CTyped, Signals
  <2>2. ChainUnbroken
    BY DEF CaptureInit, ChainUnbroken, Chained
  <2>3. Places /\ OneWriter /\ SessionOpen /\ NextLink
    BY DEF CaptureInit, Places, AtWork, OneWriter, SessionOpen, NextLink, InSession
  <2>4. QED
    BY <2>1, <2>2, <2>3 DEF CInv
<1>2. CInv /\ [CaptureNext]_captureVars => CInv'
  <2>1. CASE CInv /\ CaptureNext
    BY <2>1, TypedStep, PlacesStep, OneWriterStep, SessionOpenStep, NextLinkStep,
       ChainStep DEF CInv
  <2>2. CASE CInv /\ UNCHANGED captureVars
    BY <2>2 DEF CInv, CTyped, ChainUnbroken, Running, Places, OneWriter, SessionOpen,
       NextLink, Positions, WriterFree, End, captureVars, mainVars, writerVars,
       sourceVars, signerVars
  <2>3. QED
    BY <2>1, <2>2
<1>3. QED
  BY <1>1, <1>2, PTL DEF CaptureSpec

\* The types, for every set of sources and all bounds.
THEOREM CaptureTyped == CaptureSpec => []CTyped
<1>1. CInv => CTyped
  BY DEF CInv
<1>2. QED
  BY <1>1, CaptureInductive, PTL

\* The records of every session form an unbroken chain, whatever the sources,
\* the signer, and stops and failures do.
THEOREM ChainNeverBroken == CaptureSpec => []ChainUnbroken
<1>1. CInv => ChainUnbroken
  BY DEF CInv
<1>2. QED
  BY <1>1, CaptureInductive, PTL

\* No thread ever brings a record to a session writer that is not there, or
\* would refuse it.
THEOREM NothingRefused == CaptureSpec => []StreamAccepted
<1>1. CInv => StreamAccepted
  <2> SUFFICES ASSUME CInv, Running PROVE StreamAccepted
    BY DEF StreamAccepted
  <2>1. Places /\ SessionOpen
    BY DEF CInv
  <2>2. ASSUME NEW rec, mpc \in InSession, rec.chan \in {"event", "end", "signature"}
        PROVE  Accepts(rec)
    BY <2>1, <2>2, OpenAccepts DEF SessionOpen, Accepts
  <2>3. ASSUME NEW s \in Sources, spc[s] = "got" PROVE Accepts(NextEvent(s))
    <3>1. mpc \in InSession
      BY <2>1, <2>3 DEF Places, AtWork, InSession
    <3>2. QED
      BY <2>2, <3>1 DEF NextEvent, Event
  <2>4. ASSUME signer = "sign" PROVE Accepts(Signature(taken))
    <3>1. mpc \in InSession
      BY <2>1, <2>4 DEF Places, InSession
    <3>2. QED
      BY <2>2, <3>1 DEF Signature
  <2>5. ASSUME mpc = "end" PROVE Accepts(EndRecords[1])
    <3>1. mpc \in InSession /\ EndRecords[1] = End(seqnum, hattr)
      BY <2>5 DEF InSession, EndRecords
    <3>2. QED
      BY <2>2, <3>1 DEF End
  <2>6. QED
    BY <2>3, <2>4, <2>5 DEF StreamAccepted
<1>2. QED
  BY <1>1, CaptureInductive, PTL

\* While main waits for a signal, capture is on.
THEOREM CaptureOn == CaptureSpec => []CapturesUntilSignal
<1>1. CInv => CapturesUntilSignal
  BY DEF CInv, Places, CapturesUntilSignal, Running, Ended, Killed
<1>2. QED
  BY <1>1, CaptureInductive, PTL

-----------------------------------------------------------------------------
(* Signatures in sequences of records.                                      *)

\* What has been signed so far depends on the records so far alone.
LEMMA SignedSame ==
  ASSUME NEW r, NEW t, NEW n \in Nat, NEW j \in 1 .. (n + 1),
         \A k \in 1 .. n : t[k] = r[k],
         SignedBefore(r, n, j)
  PROVE  SignedBefore(t, n, j)
<1> SUFFICES ASSUME NEW k \in 1 .. n, IsSignature(t[k])
             PROVE  \E l \in 1 .. (j - 1) : IsSignatureOf(t[k], t[l])
  BY DEF SignedBefore
<1>1. t[k] = r[k] /\ \A l \in 1 .. (j - 1) : t[l] = r[l]
  OBVIOUS
<1>2. QED
  BY <1>1 DEF SignedBefore

\* A record that is no signature, or is one of a record before j, leaves the
\* signatures that were made so far those of records before j.
LEMMA SignedAfter ==
  ASSUME NEW S, NEW r \in Seq(S), NEW rec \in S, NEW j \in 1 .. (Len(r) + 1),
         SignedBefore(r, Len(r), j),
         IsSignature(rec) => \E l \in 1 .. (j - 1) : IsSignatureOf(rec, r[l])
  PROVE  SignedBefore(Append(r, rec), Len(r) + 1, j)
<1> DEFINE t == Append(r, rec)
<1>1. /\ Len(r) \in Nat
      /\ \A k \in 1 .. Len(r) : t[k] = r[k]
      /\ t[Len(r) + 1] = rec
  OBVIOUS
<1> HIDE DEF t
<1>2. \A l \in 1 .. (j - 1) : t[l] = r[l]
  BY <1>1
<1>3. ASSUME NEW k \in 1 .. (Len(r) + 1), IsSignature(t[k])
      PROVE  \E l \in 1 .. (j - 1) : IsSignatureOf(t[k], t[l])
  <2>1. CASE k \in 1 .. Len(r)
    BY <1>1, <1>2, <1>3, <2>1 DEF SignedBefore
  <2>2. CASE k = Len(r) + 1
    BY <1>1, <1>2, <1>3, <2>2
  <2>3. QED
    BY <1>1, <2>1, <2>2
<1>4. SignedBefore(t, Len(r) + 1, j)
  BY <1>3 DEF SignedBefore
<1>5. QED
  BY <1>4 DEF t

\* A signature in the stream stays what it is when records are added.
LEMMA SignsSame ==
  ASSUME NEW r, NEW t, NEW n \in Nat, NEW sig,
         \A k \in 1 .. n : t[k] = r[k],
         Signs(r, sig, n)
  PROVE  Signs(t, sig, n)
<1>1. PICK j \in 1 .. n : /\ IsSignatureOf(sig, r[j])
                          /\ IsSession(r[j]) \/ sig.seq = r[j].seq
                          /\ SignedBefore(r, n, j)
  BY DEF Signs
<1>2. SignedBefore(t, n, j)
  BY <1>1, SignedSame
<1>3. t[j] = r[j]
  OBVIOUS
<1>4. QED
  BY <1>1, <1>2, <1>3 DEF Signs

\* Signatures stay in order when a record is added that is no signature, or
\* that signs a record behind which nothing is signed.
LEMMA SignedAppend ==
  ASSUME NEW S, NEW r \in Seq(S), NEW rec \in S,
         SignedInOrder(r), IsSignature(rec) => Signs(r, rec, Len(r))
  PROVE  SignedInOrder(Append(r, rec))
<1> DEFINE t == Append(r, rec)
<1>1. /\ Len(r) \in Nat /\ Len(t) = Len(r) + 1
      /\ \A k \in 1 .. Len(r) : t[k] = r[k]
      /\ t[Len(r) + 1] = rec
  OBVIOUS
<1> HIDE DEF t
<1>2. ASSUME NEW i \in 1 .. Len(t), IsSignature(t[i])
      PROVE  Signs(t, t[i], i - 1)
  <2>1. i - 1 \in Nat /\ \A k \in 1 .. (i - 1) : t[k] = r[k]
    BY <1>1
  <2>2. Signs(r, t[i], i - 1)
    <3>1. CASE i \in 1 .. Len(r)
      BY <1>1, <1>2, <3>1 DEF SignedInOrder
    <3>2. CASE i = Len(r) + 1
      BY <1>1, <1>2, <3>2
    <3>3. QED
      BY <1>1, <3>1, <3>2
  <2>3. QED
    BY <2>1, <2>2, SignsSame
<1>3. SignedInOrder(t)
  BY <1>2 DEF SignedInOrder
<1>4. QED
  BY <1>3 DEF t

\* In such a stream every signature is of a record that is already there.
LEMMA SignedSoFar ==
  ASSUME NEW S, NEW r \in Seq(S), SignedInOrder(r)
  PROVE  SignedBefore(r, Len(r), Len(r) + 1)
<1>1. Len(r) \in Nat
  OBVIOUS
<1> SUFFICES ASSUME NEW k \in 1 .. Len(r), IsSignature(r[k])
             PROVE  \E l \in 1 .. Len(r) : IsSignatureOf(r[k], r[l])
  BY <1>1 DEF SignedBefore
<1>2. Signs(r, r[k], k - 1)
  BY DEF SignedInOrder
<1>3. PICK l \in 1 .. (k - 1) : IsSignatureOf(r[k], r[l])
  BY <1>2 DEF Signs
<1>4. l \in 1 .. Len(r)
  BY <1>1
<1>5. QED
  BY <1>3, <1>4

\* A signature made of a target that is in the stream is one of that record.
LEMMA SignatureOfTarget ==
  ASSUME NEW r, NEW target, NEW j, TargetAt(r, target, j)
  PROVE  /\ IsSignature(Signature(target))
         /\ IsSignatureOf(Signature(target), r[j])
         /\ Signature(target).seq = r[j].seq
BY DEF TargetAt, Signature, IsSignatureOf, IsSignature, IsEvent

\* A target stays where it is when a record is added.
LEMMA TargetSame ==
  ASSUME NEW r, NEW t, NEW target, NEW j, t[j] = r[j], TargetAt(r, target, j)
  PROVE  TargetAt(t, target, j)
BY DEF TargetAt

-----------------------------------------------------------------------------
(* Steps that write nothing and move no number and hash.                    *)

\* If the signer takes nothing up and no source enters write_event, what is
\* offered and taken stays in order.
LEMMA SigningSame ==
  ASSUME SigningInOrder, mpc \in InSession, UNCHANGED <<out, offered, taken>>,
         signer' = "sign" => signer = "sign",
         signer' \in {"sleep", "take"} => offered.of # NoHash,
         WriterFree => WriterFree'
  PROVE  SigningInOrder'
<1>1. /\ signer = "sign" => \E j \in Positions :
           TargetAt(out, taken, j) /\ SignedBefore(out, Len(out), j)
      /\ offered.of # NoHash => \E j \in Positions :
           /\ TargetAt(out, offered, j) /\ SignedBefore(out, Len(out), j)
           /\ TakenBefore(j - 1)
      /\ ~WriterFree => \A j \in Positions : LastEvent(out, Len(out), j) =>
           /\ SignedBefore(out, Len(out), j)
           /\ TakenBefore(j - 1) /\ OfferedBefore(j - 1)
  BY DEF SigningInOrder
<1>2. /\ out' = out /\ offered' = offered /\ taken' = taken
      /\ Positions' = Positions
  BY DEF Positions
<1>3. ASSUME NEW n PROVE /\ TakenBefore(n) => TakenBefore(n)'
                         /\ OfferedBefore(n) => OfferedBefore(n)'
  BY <1>2 DEF TakenBefore, OfferedBefore
<1>4. signer' = "sign" => \E j \in Positions' :
        TargetAt(out', taken', j) /\ SignedBefore(out', Len(out'), j)
  BY <1>1, <1>2
<1>5. offered'.of # NoHash => \E j \in Positions' :
        /\ TargetAt(out', offered', j) /\ SignedBefore(out', Len(out'), j)
        /\ TakenBefore(j - 1)'
  BY <1>1, <1>2, <1>3
<1>6. ~WriterFree' => \A j \in Positions' : LastEvent(out', Len(out'), j) =>
        /\ SignedBefore(out', Len(out'), j)
        /\ TakenBefore(j - 1)' /\ OfferedBefore(j - 1)'
  BY <1>1, <1>2, <1>3
<1>7. signer' \in {"sleep", "take"} => offered'.of # NoHash
  BY <1>2
<1>8. QED
  BY <1>4, <1>5, <1>6, <1>7 DEF SigningInOrder

\* Outside a session nothing is asked of it.
LEMMA SigningOutside ==
  ASSUME mpc' \notin InSession
  PROVE  SigningInOrder'
BY DEF SigningInOrder

-----------------------------------------------------------------------------
(* Steps that do.                                                           *)

\* A source writes its event: it is behind everything that is to be signed.
LEMMA WriteEventSigning ==
  ASSUME CInv, SInv, Running, NEW s \in Sources, WriteEvent(s)
  PROVE  SignaturesFollow' /\ SigningInOrder'
<1> DEFINE rec == NextEvent(s)
<1>1. /\ out \in Seq(CaptureRecs) /\ Len(out) \in Nat
      /\ mpc \in InSession /\ mpc' = mpc
      /\ offered' = offered /\ taken' = taken /\ signer' = signer
      /\ out' = Append(out, rec)
  BY DEF CInv, CTyped, Places, AtWork, InSession, WriteEvent, AppendEvent,
     Move, WriteReturns, Put, mainVars, signerVars
<1>2. rec \in CaptureRecs /\ IsEvent(rec) /\ ~IsSignature(rec)
  <2>1. /\ seqnum \in Nat /\ hattr \in Hashes /\ held[s] \in Nat
        /\ clock \in Nat
    BY CaptureAssumption DEF CInv, CTyped
  <2>2. QED
    BY <2>1 DEF NextEvent, Event, CaptureRecs, IsEvent, IsSignature
<1>3. SignedInOrder(out) /\ SigningInOrder
  BY DEF SInv, SignaturesFollow
<1> HIDE DEF rec
<1>4. /\ Len(out') = Len(out) + 1 /\ out'[Len(out) + 1] = rec
      /\ \A k \in 1 .. Len(out) : out'[k] = out[k]
  BY <1>1, <1>2
<1>5. SignaturesFollow'
  BY <1>1, <1>2, <1>3, SignedAppend DEF SignaturesFollow
<1>6. ASSUME NEW j \in 1 .. (Len(out) + 1), SignedBefore(out, Len(out), j)
      PROVE  SignedBefore(out', Len(out) + 1, j)
  BY <1>1, <1>2, <1>6, SignedAfter
<1>7. ASSUME NEW n \in 0 .. Len(out)
      PROVE  /\ TakenBefore(n) => TakenBefore(n)'
             /\ OfferedBefore(n) => OfferedBefore(n)'
  <2>1. ASSUME NEW j \in 1 .. n, NEW target, TargetAt(out, target, j)
        PROVE  TargetAt(out', target, j)
    <3>1. out'[j] = out[j]
      BY <1>1, <1>4
    <3>2. QED
      BY <2>1, <3>1, TargetSame
  <2>2. QED
    BY <1>1, <2>1 DEF TakenBefore, OfferedBefore
<1>8. signer' \in {"sleep", "take"} => offered'.of # NoHash
  BY <1>1, <1>3 DEF SigningInOrder
<1>9. signer' = "sign" => \E j \in Positions' :
        TargetAt(out', taken', j) /\ SignedBefore(out', Len(out'), j)
  <2> SUFFICES ASSUME signer = "sign"
               PROVE  \E j \in Positions' : /\ TargetAt(out', taken', j)
                                            /\ SignedBefore(out', Len(out'), j)
    BY <1>1
  <2>1. PICK j \in 1 .. Len(out) :
          TargetAt(out, taken, j) /\ SignedBefore(out, Len(out), j)
    BY <1>1, <1>3 DEF SigningInOrder, Positions
  <2>2. TargetAt(out', taken', j) /\ SignedBefore(out', Len(out'), j)
    <3>1. j \in 1 .. (Len(out) + 1) /\ out'[j] = out[j]
      BY <1>1, <1>4
    <3>2. SignedBefore(out', Len(out) + 1, j)
      BY <1>6, <2>1, <3>1
    <3>3. TargetAt(out', taken, j)
      BY <2>1, <3>1, TargetSame
    <3>4. QED
      BY <1>1, <1>4, <3>2, <3>3
  <2>3. QED
    BY <1>1, <1>4, <2>2 DEF Positions
<1>10. offered'.of # NoHash => \E j \in Positions' :
        /\ TargetAt(out', offered', j) /\ SignedBefore(out', Len(out'), j)
        /\ TakenBefore(j - 1)'
  <2> SUFFICES ASSUME offered.of # NoHash
               PROVE  \E j \in Positions' : /\ TargetAt(out', offered', j)
                                            /\ SignedBefore(out', Len(out'), j)
                                            /\ TakenBefore(j - 1)'
    BY <1>1
  <2>1. PICK j \in 1 .. Len(out) :
          /\ TargetAt(out, offered, j) /\ SignedBefore(out, Len(out), j)
          /\ TakenBefore(j - 1)
    BY <1>1, <1>3 DEF SigningInOrder, Positions
  <2>2. /\ TargetAt(out', offered', j) /\ SignedBefore(out', Len(out'), j)
        /\ TakenBefore(j - 1)'
    <3>1. j \in 1 .. (Len(out) + 1) /\ out'[j] = out[j]
      BY <1>1, <1>4
    <3>2. SignedBefore(out', Len(out) + 1, j)
      BY <1>6, <2>1, <3>1
    <3>3. TargetAt(out', offered, j)
      BY <2>1, <3>1, TargetSame
    <3>4. j - 1 \in 0 .. Len(out)
      BY <1>1
    <3>5. TakenBefore(j - 1)'
      BY <1>7, <2>1, <3>4
    <3>6. QED
      BY <1>1, <1>4, <3>2, <3>3, <3>5
  <2>3. QED
    BY <1>1, <1>4, <2>2 DEF Positions
<1>11. ASSUME NEW j \in Positions', LastEvent(out', Len(out'), j)
       PROVE  /\ SignedBefore(out', Len(out'), j)
              /\ TakenBefore(j - 1)' /\ OfferedBefore(j - 1)'
  <2>1. j = Len(out) + 1
    BY <1>1, <1>2, <1>4, <1>11 DEF LastEvent
  <2>2. SignedBefore(out', Len(out'), j)
    <3>1. SignedBefore(out, Len(out), Len(out) + 1)
      BY <1>1, <1>3, SignedSoFar
    <3>2. SignedBefore(out', Len(out) + 1, Len(out) + 1)
      BY <1>1, <1>6, <3>1
    <3>3. QED
      BY <1>4, <2>1, <3>2
  <2>3. TakenBefore(Len(out)) /\ OfferedBefore(Len(out))
    BY <1>1, <1>3 DEF SigningInOrder, TakenBefore, OfferedBefore, Positions
  <2>4. PICK n \in Nat : n = Len(out)
    BY <1>1
  <2>5. TakenBefore(n)' /\ OfferedBefore(n)'
    BY <1>7, <2>3, <2>4
  <2>6. j - 1 = n
    BY <2>1, <2>4
  <2>7. QED
    BY <2>2, <2>5, <2>6
<1>12. QED
  BY <1>5, <1>8, <1>9, <1>10, <1>11 DEF SigningInOrder

\* What is offered is the event written last.
LEMMA OfferSigning ==
  ASSUME CInv, SInv, Running, NEW s \in Sources, Offer(s)
  PROVE  SignaturesFollow' /\ SigningInOrder'
<1>1. /\ out \in Seq(CaptureRecs) /\ Len(out) \in Nat
      /\ mpc \in InSession /\ mpc' = mpc
      /\ out' = out /\ taken' = taken
      /\ signer' = "sign" => signer = "sign"
      /\ spc \in [Sources -> {"off", "loop", "read", "got", "written", "done"}]
      /\ spc[s] = "written" /\ spc' = [spc EXCEPT ![s] = "loop"]
      /\ ~WriterFree
  BY DEF CInv, CTyped, Places, AtWork, InSession, Offer, Offered, Move,
     WriterFree, mainVars
<1>2. SignaturesFollow /\ SigningInOrder /\ OneWriter /\ NextLink
  BY DEF SInv, CInv
<1>3. SignaturesFollow'
  BY <1>1, <1>2 DEF SignaturesFollow
<1>4. PICK j \in 1 .. Len(out) : /\ LastEvent(out, Len(out), j)
                                 /\ out[j].seq = seqnum
                                 /\ out[j].data = held[s]
  BY <1>1, <1>2 DEF NextLink, Positions
<1>5. SignedBefore(out, Len(out), j) /\ TakenBefore(j - 1)
  BY <1>1, <1>2, <1>4 DEF SigningInOrder, Positions
<1>6. /\ offered'.of = HashOf("event", held[s])
      /\ offered'.seq = seqnum
      /\ offered'.of # NoHash
  <2>1. /\ offered' = [seq |-> seqnum, of |-> hattr']
        /\ hattr' = HashOf("event", held[s])
    BY DEF Offer, Offered
  <2>2. HashOf("event", held[s]).chan = "event" /\ NoHash.chan = "none"
    BY DEF HashOf, NoHash
  <2>3. HashOf("event", held[s]) # NoHash
    BY <2>2
  <2>4. QED
    BY <2>1, <2>3
<1>7. TargetAt(out, offered', j)
  <2>1. IsEvent(out[j]) /\ out[j].ts = clock
    BY <1>1, <1>2, <1>4 DEF NextLink, LastEvent, Positions
  <2>2. HashOfRec(out[j]) = HashOf("event", held[s])
    BY <1>4, <2>1 DEF HashOfRec, HashOf, IsEvent, IsSession
  <2>3. QED
    BY <1>4, <1>6, <2>1, <2>2 DEF TargetAt
<1>8. WriterFree'
  BY <1>1, <1>2 DEF WriterFree, OneWriter
<1>9. signer' = "sign" => \E i \in Positions' :
        TargetAt(out', taken', i) /\ SignedBefore(out', Len(out'), i)
  BY <1>1, <1>2 DEF SigningInOrder, Positions
<1>10. TakenBefore(j - 1)'
  <2>1. PICK n : n = j - 1
    OBVIOUS
  <2>2. TakenBefore(n)'
    BY <1>1, <1>5, <2>1 DEF TakenBefore
  <2>3. QED
    BY <2>1, <2>2
<1>11. /\ j \in Positions'
       /\ TargetAt(out', offered', j) /\ SignedBefore(out', Len(out'), j)
       /\ TakenBefore(j - 1)'
  BY <1>1, <1>5, <1>7, <1>10 DEF Positions
<1>12. QED
  BY <1>3, <1>6, <1>8, <1>9, <1>11 DEF SigningInOrder

\* The signer takes what is offered.
LEMMA TakeSigning ==
  ASSUME CInv, SInv, Running, Take
  PROVE  SignaturesFollow' /\ SigningInOrder'
<1>1. /\ signer = "take" /\ signer' = "sign"
      /\ mpc \in InSession /\ mpc' = mpc
      /\ out' = out /\ taken' = offered /\ offered'.of = NoHash
      /\ WriterFree' = WriterFree
  <2>1. offered \in Offers
    BY DEF CInv, CTyped
  <2>2. offered' = [offered EXCEPT !.of = NoHash]
    BY DEF Take
  <2>3. offered'.of = NoHash
    BY <2>1, <2>2 DEF Offers
  <2>4. QED
    BY <2>3 DEF CInv, Places, InSession, Take, WriterFree, mainVars, writerVars,
       sourceVars
<1>2. SignaturesFollow /\ SigningInOrder
  BY DEF SInv
<1>3. SignaturesFollow'
  BY <1>1, <1>2 DEF SignaturesFollow
<1>4. offered.of # NoHash
  BY <1>1, <1>2 DEF SigningInOrder
<1>5. \E j \in Positions :
        TargetAt(out, offered, j) /\ SignedBefore(out, Len(out), j)
  BY <1>1, <1>2, <1>4 DEF SigningInOrder
<1>6. \E j \in Positions' :
        TargetAt(out', taken', j) /\ SignedBefore(out', Len(out'), j)
  BY <1>1, <1>5 DEF Positions
<1>7. ASSUME NEW j \in Positions', LastEvent(out', Len(out'), j), ~WriterFree'
      PROVE  /\ SignedBefore(out', Len(out'), j)
             /\ TakenBefore(j - 1)' /\ OfferedBefore(j - 1)'
  <2>1. LastEvent(out, Len(out), j) /\ j \in Positions /\ ~WriterFree
    BY <1>1, <1>7 DEF Positions
  <2>2. SignedBefore(out, Len(out), j) /\ OfferedBefore(j - 1)
    BY <1>1, <1>2, <2>1 DEF SigningInOrder
  <2>3. PICK n : n = j - 1
    OBVIOUS
  <2>4. \E i \in 1 .. n : TargetAt(out, offered, i)
    BY <1>4, <2>2, <2>3 DEF OfferedBefore
  <2>5. TakenBefore(n)' /\ OfferedBefore(n)'
    BY <1>1, <2>4 DEF TakenBefore, OfferedBefore
  <2>6. QED
    BY <1>1, <2>2, <2>3, <2>5
<1>8. QED
  BY <1>1, <1>3, <1>6, <1>7 DEF SigningInOrder

\* The signature is of a record behind which nothing has been signed, and what
\* is offered by now is behind that.
LEMMA SignSigning ==
  ASSUME CInv, SInv, Running, Sign
  PROVE  SignaturesFollow' /\ SigningInOrder'
<1> DEFINE sig == Signature(taken)
<1>1. /\ out \in Seq(CaptureRecs) /\ Len(out) \in Nat
      /\ signer = "sign" /\ signer' = "lock"
      /\ mpc \in InSession /\ mpc' = mpc
      /\ out' = Append(out, sig) /\ offered' = offered
      /\ WriterFree /\ WriterFree'
  BY DEF CInv, CTyped, Places, InSession, Sign, WriteSignature, WriteReturns,
     Put, WriterFree, mainVars, sourceVars
<1>2. sig \in CaptureRecs
  <2>1. clock \in Nat /\ taken \in Offers
    BY CaptureAssumption DEF CInv, CTyped
  <2>2. QED
    BY <2>1 DEF Signature, CaptureRecs, Offers
<1>3. SignedInOrder(out) /\ SigningInOrder
  BY DEF SInv, SignaturesFollow
<1>4. PICK t \in 1 .. Len(out) :
        TargetAt(out, taken, t) /\ SignedBefore(out, Len(out), t)
  BY <1>1, <1>3 DEF SigningInOrder, Positions
<1>5. /\ IsSignature(sig) /\ IsSignatureOf(sig, out[t]) /\ sig.seq = out[t].seq
  BY <1>4, SignatureOfTarget
<1> HIDE DEF sig
<1>6. Signs(out, sig, Len(out))
  BY <1>4, <1>5 DEF Signs
<1>7. SignaturesFollow'
  BY <1>1, <1>2, <1>3, <1>6, SignedAppend DEF SignaturesFollow
<1>8. offered'.of # NoHash => \E j \in Positions' :
        /\ TargetAt(out', offered', j) /\ SignedBefore(out', Len(out'), j)
        /\ TakenBefore(j - 1)'
  <2> SUFFICES ASSUME offered.of # NoHash
               PROVE  \E j \in Positions' : /\ TargetAt(out', offered', j)
                                            /\ SignedBefore(out', Len(out'), j)
                                            /\ TakenBefore(j - 1)'
    BY <1>1
  <2>1. PICK j \in 1 .. Len(out) :
          /\ TargetAt(out, offered, j) /\ SignedBefore(out, Len(out), j)
          /\ TakenBefore(j - 1)
    BY <1>1, <1>3 DEF SigningInOrder, Positions
  <2>2. PICK i \in 1 .. (j - 1) : TargetAt(out, taken, i)
    BY <1>1, <2>1 DEF TakenBefore
  <2>3. i \in 1 .. Len(out) /\ IsSignatureOf(sig, out[i])
    BY <1>1, <2>2, SignatureOfTarget DEF sig
  <2>4. j \in 1 .. (Len(out) + 1)
    BY <1>1
  <2>5. SignedBefore(out', Len(out) + 1, j)
    BY <1>1, <1>2, <2>1, <2>2, <2>3, <2>4, SignedAfter
  <2>6. /\ out'[j] = out[j] /\ Len(out') = Len(out) + 1 /\ j \in 1 .. Len(out')
    BY <1>1, <1>2
  <2>7. TargetAt(out', offered', j)
    BY <1>1, <2>1, <2>6, TargetSame
  <2>8. TakenBefore(j - 1)'
    BY <1>1 DEF TakenBefore
  <2>9. QED
    BY <2>5, <2>6, <2>7, <2>8 DEF Positions
<1>9. QED
  BY <1>1, <1>7, <1>8 DEF SigningInOrder

\* The first two records are a session record and its signature.
LEMMA BeginSigning ==
  ASSUME CInv, SInv, Running, BeginSession
  PROVE  SignaturesFollow' /\ SigningInOrder'
<1> DEFINE srec == SessionRec(SrcId, clock + 1, 0)
           sig  == SessionSignature(clock + 1)
<1>1. /\ out' = <<srec, sig>> /\ offered' = offered /\ signer' = signer
      /\ spc' = [s \in Sources |-> "loop"]
      /\ offered.of = NoHash /\ signer \in {"lock", "check", "empty", "waiting"}
  BY DEF CInv, Places, BeginSession, signerVars
<1>2. /\ IsSession(srec) /\ ~IsSignature(srec) /\ IsSignature(sig)
      /\ sig.of = HashOfRec(srec)
  BY DEF SessionRec, SessionSignature, IsSession, IsSignature, HashOfRec
<1> HIDE DEF srec, sig
<1>3. /\ Len(out') = 2 /\ out'[1] = srec /\ out'[2] = sig
  BY <1>1
<1>4. SignedBefore(out', 1, 1)
  BY <1>2, <1>3 DEF SignedBefore
<1>5. Signs(out', sig, 1)
  BY <1>2, <1>3, <1>4 DEF Signs, IsSignatureOf
<1>6. SignedInOrder(out')
  BY <1>2, <1>3, <1>5 DEF SignedInOrder
<1>7. WriterFree'
  BY <1>1 DEF WriterFree
<1>8. QED
  BY <1>1, <1>6, <1>7 DEF SignaturesFollow, SigningInOrder

\* The end record is signed last, if the two writes do not fail.
LEMMA EndSigned ==
  ASSUME CInv, SInv, mpc = "end"
  PROVE  /\ SignedInOrder(out \o EndRecords)
         /\ SignedInOrder(Append(out, EndRecords[1]))
<1> DEFINE rec == EndRecords[1]
           sig == EndRecords[2]
           t   == Append(out, rec)
<1>1. /\ out \in Seq(CaptureRecs) /\ Len(out) \in Nat /\ SignedInOrder(out)
      /\ rec \in CaptureRecs /\ sig \in CaptureRecs
      /\ EndRecords = <<rec, sig>>
  <2>1. EndRecords \in Seq(CaptureRecs) /\ EndRecords[1] \in CaptureRecs
        /\ Len(EndRecords) = 2 /\ EndRecords = <<rec, sig>>
    <3>1. CTyped
      BY DEF CInv
    <3>2. PICK e : e = End(seqnum, hattr)
      OBVIOUS
    <3>3. PICK g : g = Signature([seq |-> seqnum, of |-> HashOf("end", 0)])
      OBVIOUS
    <3>4. EndRecords = <<e, g>>
      BY <3>2, <3>3 DEF EndRecords
    <3>5. rec = e /\ sig = g /\ Len(EndRecords) = 2
      BY <3>4
    <3>6. EndRecords \in Seq(CaptureRecs) /\ EndRecords[1] \in CaptureRecs
      BY <3>1, EndRecordsType, Zenon
    <3>7. QED
      BY ONLY <3>4, <3>5, <3>6, Zenon
  <2>2. EndRecords[2] \in CaptureRecs
    <3>1. 2 \in 1 .. Len(EndRecords)
      BY <2>1
    <3>2. QED
      BY ONLY <2>1, <3>1, ElementOfSeq
  <2>3. QED
    BY <2>1, <2>2 DEF CInv, CTyped, SInv, SignaturesFollow
<1>2. /\ IsEnd(rec) /\ ~IsSignature(rec) /\ ~IsSession(rec)
      /\ IsSignatureOf(sig, rec) /\ sig.seq = rec.seq
  BY DEF EndRecords, End, Signature, HashOf, HashOfRec, IsEnd, IsSession,
     IsSignature, IsSignatureOf
<1> HIDE DEF rec, sig
<1>3. SignedInOrder(t)
  BY <1>1, <1>2, SignedAppend
<1>4. /\ t \in Seq(CaptureRecs) /\ Len(t) = Len(out) + 1
      /\ t[Len(out) + 1] = rec
  BY <1>1
<1>5. SignedBefore(t, Len(t), Len(out) + 1)
  <2>1. SignedBefore(out, Len(out), Len(out) + 1)
    BY <1>1, SignedSoFar
  <2>2. Len(out) + 1 \in 1 .. (Len(out) + 1)
    BY <1>1
  <2>3. SignedBefore(t, Len(out) + 1, Len(out) + 1)
    BY <1>1, <1>2, <2>1, <2>2, SignedAfter
  <2>4. QED
    BY <1>4, <2>3
<1> HIDE DEF t
<1>6. Signs(t, sig, Len(t))
  <2>1. Len(out) + 1 \in 1 .. Len(t)
    BY <1>1, <1>4
  <2>2. QED
    BY <1>2, <1>4, <1>5, <2>1 DEF Signs
<1>7. SignedInOrder(Append(t, sig))
  BY <1>1, <1>3, <1>4, <1>6, SignedAppend
<1>8. Append(t, sig) = out \o EndRecords
  BY <1>1 DEF t
<1>9. QED
  BY <1>3, <1>7, <1>8 DEF t, rec
-----------------------------------------------------------------------------
(* Every step.                                                              *)

\* Whatever a thread does, signatures stay in order, and what is offered and
\* taken too.
LEMMA SigningStep ==
  ASSUME CInv, SInv, CaptureNext
  PROVE  SInv'
<1>0. /\ Running /\ SignaturesFollow /\ SigningInOrder
  BY DEF SInv, CaptureNext
<1>a. ASSUME mpc' = mpc, UNCHANGED <<out, offered, taken>>,
             signer' = "sign" => signer = "sign",
             signer' \in {"sleep", "take"} =>
               signer \in {"sleep", "take"} \/ offered.of # NoHash,
             WriterFree => WriterFree'
      PROVE  SInv'
  <2>1. CASE mpc \in InSession
    <3>1. signer' \in {"sleep", "take"} => offered.of # NoHash
      BY <1>0, <1>a, <2>1 DEF SigningInOrder
    <3>2. SigningInOrder'
      BY <1>0, <1>a, <2>1, <3>1, SigningSame
    <3>3. QED
      BY <1>0, <1>a, <3>2 DEF SInv, SignaturesFollow
  <2>2. CASE mpc \notin InSession
    BY <1>0, <1>a, <2>2, SigningOutside DEF SInv, SignaturesFollow
  <2>3. QED
    BY <2>1, <2>2
<1>b. ASSUME mpc' \notin InSession, SignedInOrder(out')
      PROVE  SInv'
  BY <1>b, SigningOutside DEF SInv, SignaturesFollow
<1>c. ASSUME mpc \in InSession, UNCHANGED <<out, offered, taken, spc>>,
             signer' \in {signer, "lock"}
      PROVE  SInv'
  <2>1. SigningInOrder'
    BY <1>0, <1>c, SigningSame DEF SigningInOrder, WriterFree
  <2>2. QED
    BY <1>0, <1>c, <2>1 DEF SInv, SignaturesFollow
<1>1. ASSUME NEW s \in Sources PROVE SourceStep(s) => SInv'
  <2>1. CASE SourcePolls(s) \/ SourceInterrupted(s)
    BY <1>a, <2>1 DEF SourcePolls, SourceInterrupted, SourceMoves, Move,
       CInv, CTyped, WriterFree, mainVars, writerVars, signerVars
  <2>2. CASE WriteEvent(s)
    BY <1>0, <2>2, WriteEventSigning DEF SInv
  <2>3. CASE WriteEventCrashes(s)
    BY <1>0, <1>b, <2>3 DEF WriteEventCrashes, WriteCrashes, InSession,
       SignaturesFollow
  <2>4. CASE Offer(s)
    BY <1>0, <2>4, OfferSigning DEF SInv
  <2>5. QED
    BY <2>1, <2>2, <2>3, <2>4 DEF SourceStep
<1>2. ASSUME NEW s \in Sources PROVE SourceReads(s) \/ SourceThrows(s) => SInv'
  BY <1>a DEF SourceReads, SourceThrows, SourceMoves, Move, CInv, CTyped,
     WriterFree, mainVars, writerVars, signerVars
<1>3. SignerLocks \/ SignerChecks \/ SignerWaits \/ SignerSleeps \/ SignerWakes
        => SInv'
  BY <1>a DEF SignerLocks, SignerChecks, SignerWaits, SignerSleeps, SignerWakes,
     SignerMoves, WriterFree, mainVars, writerVars, sourceVars
<1>4. Take => SInv'
  BY <1>0, TakeSigning DEF SInv
<1>5. Sign => SInv'
  BY <1>0, SignSigning DEF SInv
<1>6. SignCrashes => SInv'
  BY <1>0, <1>b DEF SignCrashes, WriteCrashes, InSession, SignaturesFollow
<1>7. MakeWriter => SInv'
  <2>1. SignedInOrder(<<>>)
    BY DEF SignedInOrder
  <2>2. QED
    BY <1>b, <2>1 DEF MakeWriter, Proceeds, InSession
<1>8. PollUnwritable \/ NapOver \/ NapInterrupted \/ StartSigner
        \/ BeginThrows \/ Drain => SInv'
  BY <1>0, <1>b DEF PollUnwritable, NapOver, NapInterrupted, StartSigner,
     BeginThrows, Drain, DrainTo, MainMoves, Proceeds, InSession, writerVars,
     SignaturesFollow
<1>9. BeginSession => SInv'
  BY <1>0, BeginSigning DEF SInv
<1>10. TakeSignal \/ JoinSources \/ PassMutex \/ NotifySigner => SInv'
  BY <1>c DEF TakeSignal, JoinSources, PassMutex, NotifySigner, MainMoves,
     Proceeds, InSession, writerVars, sourceVars, signerVars
<1>11. JoinSigner => SInv'
  BY <1>c DEF JoinSigner, MainMoves, Proceeds, InSession, writerVars,
     sourceVars, signerVars
<1>12. EndSession => SInv'
  <2> SUFFICES ASSUME EndSession PROVE SInv'
    OBVIOUS
  <2>1. mpc = "end" /\ mpc' \notin InSession /\ out' = out \o EndRecords
    BY DEF EndSession, Proceeds, InSession
  <2>2. QED
    BY <1>b, <2>1, EndSigned
<1>13. EndThrows => SInv'
  <2> SUFFICES ASSUME EndThrows PROVE SInv'
    OBVIOUS
  <2>1. /\ mpc = "end" /\ mpc' \notin InSession
        /\ out' \in {out, Append(out, EndRecords[1])}
    BY DEF EndThrows, Proceeds, InSession
  <2>2. SignedInOrder(out) /\ SignedInOrder(Append(out, EndRecords[1]))
    BY <1>0, <2>1, EndSigned DEF SignaturesFollow
  <2>3. QED
    BY <1>b, <2>1, <2>2
<1>14. Ask => SInv'
  BY <1>a DEF Ask, WriterFree, writerVars, sourceVars, signerVars
<1>15. QED
  BY <1>1, <1>2, <1>3, <1>4, <1>5, <1>6, <1>7, <1>8, <1>9, <1>10, <1>11,
     <1>12, <1>13, <1>14 DEF CaptureNext, MainStep, SignerStep

-----------------------------------------------------------------------------
(* Theorems.                                                                *)

\* What the order of the signatures rests on holds in every state of every run
\* of horace-capture.
THEOREM SigningInductive == CaptureSpec => []CaptureInv
<1>1. CaptureInit => SInv
  BY DEF CaptureInit, SInv, SignaturesFollow, SignedInOrder, SigningInOrder,
     InSession
<1>2. CInv /\ SInv /\ [CaptureNext]_captureVars => SInv'
  <2>1. CASE CInv /\ SInv /\ CaptureNext
    BY <2>1, SigningStep
  <2>2. CASE CInv /\ SInv /\ UNCHANGED captureVars
    BY <2>2, SigningSame, SigningOutside DEF SInv, SignaturesFollow,
       SigningInOrder, WriterFree, captureVars, mainVars, writerVars,
       sourceVars, signerVars
  <2>3. QED
    BY <2>1, <2>2
<1>3. QED
  BY <1>1, <1>2, CaptureInductive, PTL DEF CaptureSpec, CaptureInv

\* Every signature is of a record that precedes it and has that record's
\* number, and a later signature is of a later record, however long the signer
\* sleeps and whatever is written meanwhile.
THEOREM SignaturesInOrder == CaptureSpec => []SignaturesFollow
<1>1. CaptureInv => SignaturesFollow
  BY DEF CaptureInv, SInv
<1>2. QED
  BY <1>1, SigningInductive, PTL
=============================================================================
