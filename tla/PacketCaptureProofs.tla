------------------------- MODULE PacketCaptureProofs -------------------------
(***************************************************************************)
(* Proofs about PacketCapture, for any geometry of the ring, any number of *)
(* packets and any size of counter.                                        *)
(*   RingInv: the content of a packet stays while its record is used.      *)
(*   AccountInv: every packet that arrived is returned once and in order,  *)
(*   is still to be read, or was dropped and is in one count; and drops    *)
(*   are reported before the first packet that arrived after them.         *)
(***************************************************************************)
EXTENDS PacketCapture, SequenceTheorems, WellFoundedInduction, TLAPS

-----------------------------------------------------------------------------

\* A block holds at least one frame, and a ring that is used has a slot.
LEMMA Geometry ==
  /\ BlockSize \in Nat \ {0} /\ BlockSize >= 3 * FrameSize
  /\ FramesPerBlock \in Nat \ {0} /\ BlockCount \in Nat
<1> DEFINE S == {n \in BlockPages : PageSize * n >= 3 * FrameSize}
<1>1. PageSize \in Nat \ {0} /\ FrameSize \in Nat \ {0} /\ Capacity \in Nat \ {0}
  BY GeometryAssumption
<1>2. 256 \in S
  BY <1>1, GeometryAssumption DEF BlockPages
<1>3. \E n \in S : \A k \in S : n <= k
  <2>1. CASE 1 \in S
    BY <2>1 DEF BlockPages
  <2>2. CASE 1 \notin S /\ 2 \in S
    BY <2>2 DEF BlockPages
  <2>3. CASE 1 \notin S /\ 2 \notin S /\ 4 \in S
    BY <2>3 DEF BlockPages
  <2>4. CASE 1 \notin S /\ 2 \notin S /\ 4 \notin S /\ 8 \in S
    BY <2>4 DEF BlockPages
  <2>5. CASE {1, 2, 4, 8} \cap S = {} /\ 16 \in S
    BY <2>5 DEF BlockPages
  <2>6. CASE {1, 2, 4, 8, 16} \cap S = {} /\ 32 \in S
    BY <2>6 DEF BlockPages
  <2>7. CASE {1, 2, 4, 8, 16, 32} \cap S = {} /\ 64 \in S
    BY <2>7 DEF BlockPages
  <2>8. CASE {1, 2, 4, 8, 16, 32, 64} \cap S = {} /\ 128 \in S
    BY <2>8 DEF BlockPages
  <2>9. CASE {1, 2, 4, 8, 16, 32, 64, 128} \cap S = {}
    BY <1>2, <2>9 DEF BlockPages
  <2>10. QED
    BY <2>1, <2>2, <2>3, <2>4, <2>5, <2>6, <2>7, <2>8, <2>9
<1>4. Min(S) \in S
  BY <1>3 DEF Min
<1>5. PICK n \in S : BlockSize = PageSize * n
  BY <1>4 DEF BlockSize
<1>6. n \in Nat \ {0} /\ PageSize * n >= 3 * FrameSize
  BY <1>5 DEF BlockPages
<1>7. PageSize * n \in Nat \ {0}
  BY <1>1, <1>6
<1>8. BlockSize \in Nat \ {0} /\ BlockSize >= 3 * FrameSize
  BY <1>5, <1>6, <1>7
<1>9. BlockSize \div FrameSize \in Nat \ {0} /\ Capacity \div BlockSize \in Nat
  BY <1>1, <1>8
<1>10. QED
  BY <1>8, <1>9 DEF FramesPerBlock, BlockCount

\* What the kernel does with a packet leaves the reader's slots as they are.
Keeps ==
  /\ ring' \in [Slots -> SlotStates] /\ kpos' \in Slots
  /\ \A i \in Slots : ring'[i].user => ring'[i].frames # <<>>
  /\ \A i \in Slots : ring[i].user => ring'[i] = ring[i]
  /\ \A i \in Slots :
        /\ Len(ring'[i].frames) <= PerSlot
        /\ ring'[i].user \/ ring'[i].frames = <<>> \/ (Blocks /\ i = kpos')

\* The slot after a slot is a slot.
LEMMA NextSlot ==
  ASSUME method \in Rings, NEW i \in Slots
  PROVE  Next1(i) \in Slots
<1>1. SlotCount(method) \in Nat
  BY Geometry DEF SlotCount
<1>2. SlotCount(method) > 0
  BY <1>1 DEF Slots
<1>3. QED
  BY <1>1, <1>2 DEF Slots, Next1

\* A slot that is handed over with frames in it is the reader's, frames and all.
LEMMA RetiredSlot ==
  ASSUME NEW s \in SlotStates, s.frames # <<>>
  PROVE  /\ Retired(s) \in SlotStates /\ Retired(s).user
         /\ Retired(s).frames # <<>> /\ Retired(s).frames = s.frames
<1>1. PICK l : l = (kdrops > 0)
  OBVIOUS
<1>2. l \in BOOLEAN
  BY <1>1
<1>3. Retired(s) = [s EXCEPT !.user = TRUE, !.losing = l]
  BY <1>1 DEF Retired
<1>4. QED
  BY <1>2, <1>3 DEF SlotStates

\* What the kernel does, for an arrival or by its timer, leaves the reader's slots
\* alone and the others well-formed.
LEMMA KernelKeeps ==
  ASSUME RingInv, method \in Rings, method' = method,
         StoreInRing(arrived + 1) \/ RetireByTimer
  PROVE  Keeps /\ (StoreInRing(arrived + 1) => {lost', kdrops'} \subseteq Nat)
<1>1. RingTyped /\ ReadersPlace /\ Filled
  BY DEF RingInv
<1>2. ASSUME NEW i \in Slots, ring[i].frames # <<>>
      PROVE  Retired(ring[i]) \in SlotStates /\ Retired(ring[i]).user
             /\ Retired(ring[i]).frames # <<>>
             /\ Retired(ring[i]).frames = ring[i].frames
  BY <1>1, <1>2, RetiredSlot DEF RingTyped
<1>3. CASE RetireByTimer
  <2>1. /\ ~ring[kpos].user /\ ring[kpos].frames # <<>> /\ kpos \in Slots
        /\ ring' = [ring EXCEPT ![kpos] = Retired(ring[kpos])]
        /\ kpos' = Next1(kpos) /\ lost' = lost /\ kdrops' = kdrops
    BY <1>1, <1>3 DEF RetireByTimer, RingTyped
  <2>2. /\ Retired(ring[kpos]) \in SlotStates /\ Retired(ring[kpos]).frames # <<>>
        /\ Retired(ring[kpos]).frames = ring[kpos].frames /\ Retired(ring[kpos]).user
    BY <2>1, <1>2
  <2>3. kpos' \in Slots
    BY <2>1, NextSlot
  <2>4. \A i \in Slots :
          /\ Len(ring'[i].frames) <= PerSlot
          /\ ring'[i].user \/ ring'[i].frames = <<>> \/ (Blocks /\ i = kpos')
    BY <1>1, <2>1, <2>2 DEF RingTyped, Filled
  <2>5. QED
    BY <1>1, <2>1, <2>2, <2>3, <2>4 DEF RingTyped, ReadersPlace, Keeps
<1>4. CASE StoreInRing(arrived + 1)
  <2> DEFINE s == ring[kpos]
             full == Blocks /\ ~s.user /\ Len(s.frames) = PerSlot
             closed == IF full THEN [ring EXCEPT ![kpos] = Retired(s)] ELSE ring
             k == IF full THEN Next1(kpos) ELSE kpos
             put == [closed[k] EXCEPT !.frames = Append(@, arrived + 1)]
  <2>1. /\ ring \in [Slots -> SlotStates] /\ kpos \in Slots /\ arrived + 1 \in Nat
        /\ \A i \in Slots : ring[i].user => ring[i].frames # <<>>
    BY <1>1 DEF RingTyped, ReadersPlace
  <2>2. k \in Slots
    BY <2>1, NextSlot
  <2>3. full => s.frames # <<>>
    BY <2>1, Geometry DEF PerSlot, SlotStates
  <2>4. closed \in [Slots -> SlotStates]
    BY <2>1, <2>3, <1>2
  <2>5. /\ \A i \in Slots : closed[i].user => closed[i].frames # <<>>
        /\ \A i \in Slots : ring[i].user => closed[i] = ring[i]
    BY <2>1, <2>3, <1>2
  <2>6. \A i \in Slots :
          /\ Len(closed[i].frames) <= PerSlot
          /\ closed[i].user \/ closed[i].frames = <<>> \/ (Blocks /\ i = k)
    <3>1. CASE full
      BY <1>1, <1>2, <2>1, <2>3, <3>1 DEF Filled
    <3>2. CASE ~full
      BY <1>1, <3>2 DEF Filled
    <3>3. QED
      BY <3>1, <3>2
  <2>7. ~closed[k].user => Len(closed[k].frames) < PerSlot
    <3> SUFFICES ASSUME ~closed[k].user PROVE Len(closed[k].frames) < PerSlot
      OBVIOUS
    <3>1. PerSlot \in Nat \ {0} /\ closed[k].frames \in Seq(Nat)
      BY <2>2, <2>4, Geometry DEF PerSlot, SlotStates
    <3>2. CASE full
      <4>1. closed[kpos].user
        BY <1>2, <2>1, <2>3, <3>2
      <4>2. k # kpos /\ ring[k] = closed[k]
        BY <2>1, <2>2, <3>2, <4>1
      <4>3. closed[k].frames = <<>>
        BY <1>1, <2>2, <4>2 DEF Filled
      <4>4. QED
        BY <3>1, <4>3
    <3>3. CASE ~full
      <4>1. closed[k] = ring[kpos]
        BY <3>3
      <4>2. Len(ring[kpos].frames) <= PerSlot
            /\ (ring[kpos].frames = <<>> \/ Len(ring[kpos].frames) # PerSlot)
        BY <1>1, <2>1, <3>3, <4>1 DEF Filled
      <4>3. QED
        BY <3>1, <4>1, <4>2
    <3>4. QED
      BY <3>2, <3>3
  <2>8. CASE closed[k].user
    <3>1. ring' = closed /\ kpos' = k /\ Drop
      BY <1>4, <2>8 DEF StoreInRing
    <3>2. QED
      BY <1>1, <2>2, <2>4, <2>5, <2>6, <3>1 DEF Keeps, Drop, RingTyped
  <2>9. CASE ~closed[k].user
    <3>1. /\ ring' = [closed EXCEPT ![k] = IF Blocks THEN put ELSE Retired(put)]
          /\ kpos' = IF Blocks THEN k ELSE Next1(k)
          /\ UNCHANGED <<lost, kdrops>>
      BY <1>4, <2>9 DEF StoreInRing
    <3>2. put \in SlotStates /\ put.frames # <<>> /\ ~put.user
          /\ Len(put.frames) <= PerSlot
      <4>1. PICK c : c = closed[k]
        OBVIOUS
      <4>2. c \in SlotStates /\ ~c.user
        BY <2>2, <2>4, <2>9, <4>1
      <4>3. PICK fs : fs = Append(c.frames, arrived + 1)
        OBVIOUS
      <4>4. fs \in Seq(Nat) /\ fs # <<>> /\ Len(fs) = Len(c.frames) + 1
        BY <2>1, <4>2, <4>3 DEF SlotStates
      <4>5. put = [c EXCEPT !.frames = fs]
        BY <4>1, <4>3
      <4>6. Len(fs) <= PerSlot
        <5>1. PerSlot \in Nat /\ Len(c.frames) \in Nat
          BY <4>2, Geometry DEF PerSlot, SlotStates
        <5>2. Len(c.frames) < PerSlot
          BY <2>9, <2>7, <4>1
        <5>3. QED
          BY <4>4, <5>1, <5>2
      <4>7. QED
        BY <4>2, <4>4, <4>5, <4>6 DEF SlotStates
    <3>3. /\ Retired(put) \in SlotStates /\ Retired(put).frames # <<>>
          /\ Retired(put).frames = put.frames /\ Retired(put).user
      BY <3>2, RetiredSlot
    <3>4. kpos' \in Slots
      BY <2>2, <3>1, NextSlot
    <3>5. \A i \in Slots :
            /\ Len(ring'[i].frames) <= PerSlot
            /\ ring'[i].user \/ ring'[i].frames = <<>> \/ (Blocks /\ i = kpos')
      BY <2>2, <2>4, <2>6, <3>1, <3>2, <3>3
    <3>6. QED
      BY <1>1, <2>2, <2>4, <2>5, <2>9, <3>1, <3>2, <3>3, <3>4, <3>5 DEF Keeps, RingTyped
  <2>10. QED
    BY <2>8, <2>9
<1>5. QED
  BY <1>3, <1>4

\* A packet in a slot of the reader's stays there while the reader's slots do.
LEMMA StaysInSlot ==
  ASSUME method' = method, ring' \in [Slots -> SlotStates],
         \A i \in Slots : ring[i].user => ring'[i] = ring[i],
         NEW p, InReadersSlot(p)
  PROVE  InReadersSlot(p)'
<1>1. PICK i \in Slots : ring[i].user /\ Contains(ring[i].frames, p)
  BY DEF InReadersSlot
<1>2. ring'[i].user /\ Contains(ring'[i].frames, p) /\ i \in Slots'
  BY <1>1 DEF Slots
<1>3. QED
  BY <1>2 DEF InReadersSlot, Contains

\* Where nothing is returned and no slot goes back to the kernel, what is held
\* stays where it was.
LEMMA HeldStays ==
  ASSUME RingInv, method \in Rings, method' = method, ring' \in [Slots -> SlotStates],
         \A i \in Slots : ring[i].user => ring'[i] = ring[i],
         UNCHANGED <<builder, out>>, pc' = "idle" => pc = "idle"
  PROVE  /\ LastInSlot'
         /\ \A j \in DOMAIN builder' :
              builder'[j].kind = "packet" => InReadersSlot(builder[j].id)'
<1>1. Slots' = Slots
  BY DEF Slots
<1>2. LastInSlot'
  <2> SUFFICES ASSUME pc' = "idle", out' # <<>>, Last(out').kind = "packet"
               PROVE  InReadersSlot(Last(out).id)'
    BY DEF LastInSlot, InUse
  <2>1. LastInSlot
    BY DEF RingInv
  <2>2. Last(out') = Last(out) /\ pc = "idle" /\ out # <<>>
    OBVIOUS
  <2>3. InReadersSlot(Last(out).id)
    BY <2>1, <2>2 DEF LastInSlot, InUse
  <2>4. PICK p : p = Last(out).id
    OBVIOUS
  <2>5. InReadersSlot(p)'
    BY <2>3, <2>4, StaysInSlot
  <2>6. QED
    BY <1>1, <2>2, <2>4, <2>5 DEF InReadersSlot
<1>3. ASSUME NEW j \in DOMAIN builder', builder'[j].kind = "packet"
      PROVE  InReadersSlot(builder[j].id)'
  <2>1. InReadersSlot(builder[j].id)
    BY <1>3 DEF RingInv
  <2>2. PICK p : p = builder[j].id
    OBVIOUS
  <2>3. InReadersSlot(p)'
    BY <2>1, <2>2, StaysInSlot
  <2>4. QED
    BY <2>2, <2>3 DEF InReadersSlot
<1>4. QED
  BY <1>2, <1>3

\* What read() returns, and what it leaves in the builder.
LEMMA Returned ==
  ASSUME NEW built \in Seq(CaptureRecs), built # <<>>, out \in Seq(CaptureRecs),
         method' = method, ring' \in [Slots -> SlotStates], ReturnFrom(built),
         \A j \in DOMAIN built :
            built[j].kind = "packet" => InReadersSlot(built[j].id)'
  PROVE  /\ pc' = "idle" /\ builder' \in Seq(CaptureRecs) /\ out' \in Seq(CaptureRecs)
         /\ LastInSlot'
         /\ \A j \in DOMAIN builder' :
              builder'[j].kind = "packet" => InReadersSlot(builder[j].id)'
<1>1. Len(built) \in Nat \ {0} /\ Last(built) = built[Len(built)]
      /\ Len(built) \in DOMAIN built /\ Last(built) \in CaptureRecs
  BY DEF Last
<1>2. out' = Append(out, Last(built)) /\ pc' = "idle"
      /\ builder' = SubSeq(built, 1, Len(built) - 1)
  BY DEF ReturnFrom, Front
<1>3. out' \in Seq(CaptureRecs) /\ Last(out') = Last(built)
  BY <1>1, <1>2 DEF Last
<1>4. /\ builder' \in Seq(CaptureRecs)
      /\ \A j \in DOMAIN builder' : j \in DOMAIN built /\ builder'[j] = built[j]
  BY <1>1, <1>2
<1>5. LastInSlot'
  <2> SUFFICES ASSUME Last(out').kind = "packet"
               PROVE  InReadersSlot(Last(out).id)'
    BY DEF LastInSlot, InUse
  <2>1. InReadersSlot(built[Len(built)].id)'
    BY <1>1, <1>3
  <2>2. Slots' = Slots
    BY DEF Slots
  <2>3. QED
    BY <1>1, <1>3, <2>1, <2>2 DEF InReadersSlot
<1>6. ASSUME NEW j \in DOMAIN builder', builder'[j].kind = "packet"
      PROVE  InReadersSlot(builder[j].id)'
  <2>1. j \in DOMAIN built /\ builder'[j] = built[j]
    BY <1>4
  <2>2. InReadersSlot(built[j].id)'
    BY <1>6, <2>1
  <2>3. QED
    BY <2>1, <2>2 DEF InReadersSlot
<1>7. QED
  BY <1>2, <1>3, <1>4, <1>5, <1>6

\* A capture that has begun to use a ring is in a state that RingInv allows.
LEMMA RingStart ==
  ASSUME CaptureStart, method \in Rings
  PROVE  RingInv
<1>1. PICK named \in Rings \cup {"packet", None}, supported \in SUBSET Rings :
        method = Chosen(named, supported)
  BY DEF CaptureStart
<1>2. BlockCount # 0
  BY <1>1 DEF Chosen, Rings, None
<1>3. SlotCount(method) \in Nat \ {0}
  <2>1. BlockCount \in Nat \ {0} /\ FramesPerBlock \in Nat \ {0}
    BY <1>2, Geometry
  <2>2. BlockCount * FramesPerBlock \in Nat \ {0}
    BY <2>1
  <2>3. QED
    BY <2>1, <2>2 DEF SlotCount
<1>4. 0 \in Slots /\ EmptySlot \in SlotStates
  BY <1>3 DEF Slots, EmptySlot, SlotStates
<1>5. junk \in Nat
  BY GeometryAssumption DEF CaptureStart
<1>6. RingTyped
  <2>1. ring = [i \in Slots |-> EmptySlot]
    BY DEF CaptureStart, Slots
  <2>2. ring \in [Slots -> SlotStates]
    BY <1>4, <2>1
  <2>3. builder \in Seq(CaptureRecs) /\ out \in Seq(CaptureRecs)
    BY DEF CaptureStart
  <2>4. /\ arrived = 0 /\ lost = 0 /\ kpos = 0 /\ kdrops = 0 /\ drops = junk
        /\ pc = "idle" /\ pos = 0 /\ frame = 0 /\ inBlock = FALSE
        /\ last = NoSlot /\ dropped = 0
    BY DEF CaptureStart
  <2>5. {arrived, lost, kdrops, drops, dropped} \subseteq Nat
    BY <1>5, <2>4
  <2>6. kpos \in Slots /\ pos \in Slots /\ frame \in Nat
    BY <1>4, <2>4
  <2>7. QED
    BY <2>2, <2>3, <2>4, <2>5, <2>6 DEF RingTyped
<1>7. ReadersPlace
  BY <1>4 DEF CaptureStart, ReadersPlace, EmptySlot, Slots
<1>8. PerSlot \in Nat
  BY Geometry DEF PerSlot
<1>9. Filled
  BY <1>8 DEF CaptureStart, Filled, EmptySlot, Slots
<1>10. QED
  BY <1>6, <1>7, <1>9 DEF RingInv, LastInSlot, InUse, CaptureStart

\* A record of a packet, and of a count if there is one to report.
LEMMA Built ==
  ASSUME NEW p \in Nat, NEW n \in Nat
  PROVE  /\ BuildPacket(p, n) \in Seq(CaptureRecs) /\ BuildPacket(p, n) # <<>>
         /\ \A j \in DOMAIN BuildPacket(p, n) :
              BuildPacket(p, n)[j].kind = "packet" => BuildPacket(p, n)[j].id = p
<1>1. PICK r : r = PacketRec(p)
  OBVIOUS
<1>2. PICK l : l = LostRec(n)
  OBVIOUS
<1>3. r \in CaptureRecs /\ r.id = p /\ l \in CaptureRecs /\ l.kind = "lost"
  BY <1>1, <1>2 DEF PacketRec, Rec, Captured, OnTheWire, LostRec, CaptureRecs
<1>4. PICK q : q = IF n = 0 THEN <<>> ELSE <<l>>
  OBVIOUS
<1>5. q \in Seq(CaptureRecs) /\ \A j \in DOMAIN q : q[j].kind = "lost"
  BY <1>3, <1>4
<1>6. BuildPacket(p, n) = <<r>> \o q
  BY <1>1, <1>2, <1>4 DEF BuildPacket
<1>7. PICK h : h = <<r>>
  OBVIOUS
<1>8. h \in Seq(CaptureRecs) /\ Len(h) = 1 /\ h[1] = r
  BY <1>3, <1>7
<1>9. PICK b : b = h \o q
  OBVIOUS
<1>10. /\ b \in Seq(CaptureRecs) /\ Len(b) = 1 + Len(q) /\ b[1] = r
       /\ \A j \in 2..Len(b) : b[j] = q[j - 1]
  <2>1. /\ b \in Seq(CaptureRecs) /\ Len(b) = Len(h) + Len(q)
        /\ \A j \in 1..(Len(h) + Len(q)) :
             b[j] = IF j <= Len(h) THEN h[j] ELSE q[j - Len(h)]
    BY <1>5, <1>8, <1>9, ConcatProperties
  <2>2. Len(q) \in Nat
    BY <1>5
  <2>3. QED
    BY <1>8, <2>1, <2>2
<1>11. ASSUME NEW j \in DOMAIN b, b[j].kind = "packet" PROVE b[j].id = p
  <2>1. PICK n1 \in Nat : n1 = Len(q) /\ DOMAIN q = 1..n1
    BY <1>5, LenProperties
  <2>2. DOMAIN b = 1..(1 + n1)
    BY <1>10, <2>1, LenProperties
  <2>3. CASE j = 1
    BY <1>3, <1>10, <2>3
  <2>4. CASE j # 1
    <3>1. j \in 2..(1 + n1) /\ j - 1 \in 1..n1
      BY <2>2, <2>4
    <3>2. b[j] = q[j - 1]
      BY <1>10, <2>1, <3>1
    <3>3. q[j - 1].kind = "lost"
      BY <1>5, <2>1, <3>1
    <3>4. QED
      BY <1>11, <3>2, <3>3
  <2>5. QED
    BY <2>3, <2>4
<1>12. QED
  BY <1>6, <1>7, <1>9, <1>10, <1>11

\* The event source's thread.
LEMMA ReaderKeepsRing ==
  ASSUME RingInv, method \in Rings, method' = method,
         \/ ReadPacket \/ Interrupted \/ SlotReady \/ ReadStats \/ TakeDrops
         \/ BlockFrame \/ SingleFrame
  PROVE  RingInv'
<1>1. RingTyped /\ ReadersPlace /\ Filled /\ LastInSlot
      /\ \A j \in DOMAIN builder :
           builder[j].kind = "packet" => InReadersSlot(builder[j].id)
  BY DEF RingInv
<1>2. Slots' = Slots /\ Blocks' = Blocks
  BY DEF Slots, Blocks
<1>3. Filled'
  <2>1. kpos' = kpos /\ (ring' = ring \/ ring' = Released)
    BY DEF ReadPacket, Interrupted, SlotReady, ReadStats, TakeDrops, BlockFrame,
       SingleFrame, kernelVars
  <2>2. \A i \in Slots : ring'[i] = ring[i] \/ ring'[i] = EmptySlot
    BY <1>1, <2>1 DEF RingTyped, Released
  <2>3. PerSlot' = PerSlot /\ PerSlot \in Nat
    BY <1>2, Geometry DEF PerSlot
  <2>4. EmptySlot.frames = <<>>
    BY DEF EmptySlot
  <2>5. QED
    BY <1>1, <1>2, <2>1, <2>2, <2>3, <2>4 DEF Filled
<1>4. CASE ReadPacket
  <2>1. CASE builder # <<>>
    <3>1. ReturnFrom(builder) /\ UNCHANGED <<ring, last>>
          /\ UNCHANGED <<arrived, lost, kpos, kdrops, drops, pos, frame, inBlock,
                         dropped>>
      BY <1>4, <2>1 DEF ReadPacket
    <3>2. /\ pc' = "idle" /\ builder' \in Seq(CaptureRecs)
          /\ out' \in Seq(CaptureRecs) /\ LastInSlot'
          /\ \A j \in DOMAIN builder' :
               builder'[j].kind = "packet" => InReadersSlot(builder[j].id)'
      <4>1. PICK built : built = builder
        OBVIOUS
      <4>2. /\ built \in Seq(CaptureRecs) /\ built # <<>> /\ ReturnFrom(built)
            /\ out \in Seq(CaptureRecs) /\ ring' \in [Slots -> SlotStates]
        BY <1>1, <2>1, <3>1, <4>1 DEF RingTyped, ReturnFrom
      <4>3. ASSUME NEW j \in DOMAIN built, built[j].kind = "packet"
            PROVE  InReadersSlot(built[j].id)'
        BY <1>1, <1>2, <3>1, <4>1, <4>3 DEF InReadersSlot
      <4>4. QED
        BY <4>2, <4>3, Returned
    <3>3. RingTyped' /\ ReadersPlace'
      BY <1>1, <1>2, <3>1, <3>2 DEF RingTyped, ReadersPlace
    <3>4. QED
      BY <1>3, <3>2, <3>3 DEF RingInv
  <2>2. CASE builder = <<>> /\ inBlock
    <3>1. pc' = "frame" /\ UNCHANGED <<ring, last, out, builder>>
          /\ UNCHANGED <<arrived, lost, kpos, kdrops, drops, pos, frame, inBlock,
                         dropped>>
      BY <1>4, <2>2 DEF ReadPacket
    <3>2. RingTyped' /\ ReadersPlace'
      BY <1>1, <1>2, <2>2, <3>1 DEF RingTyped, ReadersPlace
    <3>3. QED
      BY <1>3, <2>2, <3>1, <3>2 DEF RingInv, LastInSlot, InUse
  <2>3. CASE builder = <<>> /\ ~inBlock
    <3>1. ring' = Released /\ last' = NoSlot /\ pc' = "wait"
          /\ UNCHANGED <<out, builder>>
          /\ UNCHANGED <<arrived, lost, kpos, kdrops, drops, pos, frame, inBlock,
                         dropped>>
      BY <1>4, <2>3 DEF ReadPacket
    <3>2. EmptySlot \in SlotStates /\ ~EmptySlot.user
      BY DEF EmptySlot, SlotStates
    <3>3. /\ ring' \in [Slots -> SlotStates]
          /\ \A i \in Slots : ring'[i].user => ring'[i] = ring[i]
      BY <1>1, <3>1, <3>2 DEF Released, RingTyped
    <3>4. RingTyped' /\ ReadersPlace'
      BY <1>1, <1>2, <2>3, <3>1, <3>3 DEF RingTyped, ReadersPlace
    <3>5. QED
      BY <1>3, <2>3, <3>1, <3>4 DEF RingInv, LastInSlot, InUse
  <2>4. QED
    BY <1>1, <2>1, <2>2, <2>3 DEF RingTyped
<1>5. CASE Interrupted \/ SlotReady
  <2>1. /\ UNCHANGED <<ring, kpos, arrived, lost, kdrops, drops, pos, frame, last,
                       builder, out>>
        /\ pc = "wait" /\ pc' \in {"ended", "stats", "frame"}
    BY <1>5 DEF Interrupted, SlotReady, kernelVars, readVars
  <2>2. CASE Interrupted
    <3>1. pc' = "ended" /\ UNCHANGED <<inBlock, dropped>>
      BY <2>2 DEF Interrupted, readVars
    <3>2. RingTyped' /\ ReadersPlace'
      BY <1>1, <1>2, <2>1, <3>1 DEF RingTyped, ReadersPlace
    <3>3. QED
      BY <1>3, <1>1, <2>1, <3>1, <3>2 DEF RingInv, LastInSlot, InUse, ReadersPlace
  <2>3. CASE SlotReady
    <3>1. ring[pos].user /\ inBlock' = Blocks /\ dropped' = 0
      BY <2>3 DEF SlotReady
    <3>2. Blocks \in BOOLEAN /\ pos \in Slots /\ frame \in Nat
      BY <1>1 DEF Blocks, RingTyped
    <3>3. frame = 0 \/ frame < Len(ring[pos].frames)
      BY <1>1 DEF ReadersPlace
    <3>4. Len(ring[pos].frames) \in Nat \ {0}
      BY <1>1, <3>1, <3>2 DEF RingTyped, ReadersPlace, SlotStates
    <3>5. ~Blocks => frame = 0
      BY <1>1 DEF ReadersPlace
    <3>6. RingTyped'
      BY <1>1, <1>2, <2>1, <3>1, <3>2 DEF RingTyped
    <3>7. ReadersPlace'
      <4>1. frame < Len(ring[pos].frames)
        <5>1. PICK n : n = Len(ring[pos].frames)
          OBVIOUS
        <5>2. n \in Nat \ {0}
          BY <3>4, <5>1
        <5>3. frame = 0 \/ frame < n
          BY <3>3, <5>1
        <5>4. frame < n
          BY <5>2, <5>3
        <5>5. QED
          BY <5>1, <5>4
      <4>2. ring' = ring /\ pos' = pos /\ frame' = frame /\ builder' = <<>>
        BY <1>1, <2>1 DEF ReadersPlace
      <4>3. \A i \in Slots : ring[i].user => ring[i].frames # <<>>
        BY <1>1 DEF ReadersPlace
      <4>4. QED
        BY <1>2, <3>1, <3>5, <4>1, <4>2, <4>3 DEF ReadersPlace
    <3>8. QED
      BY <1>3, <1>1, <2>1, <3>6, <3>7 DEF RingInv, LastInSlot, InUse, ReadersPlace
  <2>4. QED
    BY <1>5, <2>2, <2>3
<1>6. CASE ReadStats
  <2>1. /\ pc = "stats" /\ pc' = "drops" /\ kdrops' = 0
        /\ drops' = (drops + kdrops) % Wrap
        /\ UNCHANGED <<ring, kpos, arrived, lost, pos, frame, inBlock, last, dropped,
                       builder, out>>
    BY <1>6 DEF ReadStats, UpdateStats, kernelVars, readVars
  <2>2. drops' \in Nat
    <3>1. PICK w \in Nat \ {0} : w = Wrap
      BY GeometryAssumption
    <3>2. PICK x \in Nat : x = drops + kdrops
      BY <1>1 DEF RingTyped
    <3>3. x % w \in Nat
      OBVIOUS
    <3>4. QED
      BY <2>1, <3>1, <3>2, <3>3
  <2>3. RingTyped' /\ ReadersPlace'
    BY <1>1, <1>2, <2>1, <2>2 DEF RingTyped, ReadersPlace
  <2>4. QED
    BY <1>3, <1>1, <2>1, <2>3 DEF RingInv, LastInSlot, InUse, ReadersPlace
<1>7. CASE TakeDrops
  <2>1. /\ pc = "drops" /\ drops' = 0
        /\ UNCHANGED <<ring, kpos, arrived, lost, kdrops, pos, frame, inBlock, last>>
    BY <1>7 DEF TakeDrops, kernelVars, readVars
  <2>2. CASE Blocks /\ drops # 0
    <3>1. ReturnFrom(<<LostRec(drops)>>) /\ dropped' = dropped
      BY <1>7, <2>2 DEF TakeDrops
    <3>2. LostRec(drops) \in CaptureRecs /\ LostRec(drops).kind = "lost"
      BY <1>1 DEF LostRec, CaptureRecs, RingTyped
    <3>3. PICK built : built = <<LostRec(drops)>>
      OBVIOUS
    <3>4. /\ built \in Seq(CaptureRecs) /\ built # <<>> /\ ReturnFrom(built)
          /\ \A j \in DOMAIN built : built[j].kind = "lost"
      BY <3>1, <3>2, <3>3
    <3>5. /\ pc' = "idle" /\ builder' \in Seq(CaptureRecs)
          /\ out' \in Seq(CaptureRecs) /\ LastInSlot'
          /\ \A j \in DOMAIN builder' :
               builder'[j].kind = "packet" => InReadersSlot(builder[j].id)'
      BY <1>1, <2>1, <3>4, Returned DEF RingTyped
    <3>6. RingTyped' /\ ReadersPlace'
      BY <1>1, <1>2, <2>1, <3>1, <3>5 DEF RingTyped, ReadersPlace
    <3>7. QED
      BY <1>3, <3>5, <3>6 DEF RingInv
  <2>3. CASE ~(Blocks /\ drops # 0)
    <3>1. dropped' = drops /\ pc' = "frame" /\ UNCHANGED <<builder, out>>
      BY <1>7, <2>3 DEF TakeDrops
    <3>2. RingTyped' /\ ReadersPlace'
      BY <1>1, <1>2, <2>1, <3>1 DEF RingTyped, ReadersPlace
    <3>3. QED
      BY <1>3, <1>1, <2>1, <3>1, <3>2 DEF RingInv, LastInSlot, InUse, ReadersPlace
  <2>4. QED
    BY <2>2, <2>3
<1>8. CASE BlockFrame \/ SingleFrame
  <2>1. /\ pc = "frame" /\ builder = <<>> /\ ring[pos].user /\ pos \in Slots
        /\ ring \in [Slots -> SlotStates] /\ out \in Seq(CaptureRecs)
        /\ UNCHANGED <<ring, kpos, arrived, lost, kdrops, drops>>
    BY <1>1, <1>8 DEF BlockFrame, SingleFrame, RingTyped, ReadersPlace, kernelVars
  <2>2. frame < Len(ring[pos].frames) /\ frame \in Nat
        /\ (SingleFrame => frame = 0)
    BY <1>1, <1>8, <2>1 DEF ReadersPlace, RingTyped, SlotStates, SingleFrame
  <2>3. PICK fs : fs = ring[pos].frames
    OBVIOUS
  <2>4. fs \in Seq(Nat) /\ frame + 1 \in 1..Len(fs)
    BY <2>1, <2>2, <2>3 DEF SlotStates
  <2>5. PICK p : p = fs[frame + 1]
    OBVIOUS
  <2>6. p \in Nat /\ Contains(ring[pos].frames, p)
    BY <2>3, <2>4, <2>5 DEF Contains
  <2>7. InReadersSlot(p)'
    BY <1>2, <2>1, <2>6 DEF InReadersSlot
  <2>8. \E n \in Nat : ReturnFrom(BuildPacket(p, n))
    <3>1. CASE BlockFrame
      BY <2>3, <2>5, <3>1 DEF BlockFrame
    <3>2. CASE SingleFrame
      <4>1. ring[pos].frames[1] = p
        BY <2>2, <2>3, <2>5, <3>2
      <4>2. dropped \in Nat
        BY <1>1 DEF RingTyped
      <4>3. QED
        BY <3>2, <4>1, <4>2 DEF SingleFrame
    <3>3. QED
      BY <1>8, <3>1, <3>2
  <2>9. PICK n \in Nat : ReturnFrom(BuildPacket(p, n))
    BY <2>8
  <2>10. PICK built : built = BuildPacket(p, n)
    OBVIOUS
  <2>11. /\ built \in Seq(CaptureRecs) /\ built # <<>> /\ ReturnFrom(built)
         /\ \A j \in DOMAIN built : built[j].kind = "packet" => built[j].id = p
    BY <2>6, <2>9, <2>10, Built
  <2>12. /\ pc' = "idle" /\ builder' \in Seq(CaptureRecs)
         /\ out' \in Seq(CaptureRecs) /\ LastInSlot'
         /\ \A j \in DOMAIN builder' :
              builder'[j].kind = "packet" => InReadersSlot(builder[j].id)'
    <3>1. ring' \in [Slots -> SlotStates]
      BY <2>1
    <3>2. ASSUME NEW j \in DOMAIN built, built[j].kind = "packet"
          PROVE  InReadersSlot(built[j].id)'
      BY <2>7, <2>11, <3>2 DEF InReadersSlot
    <3>3. QED
      BY <2>1, <2>11, <3>1, <3>2, Returned
  <2>13. Next1(pos) \in Slots
    BY <2>1, NextSlot
  <2>14. CASE BlockFrame
    <3>1. Blocks /\ dropped' = dropped
      BY <2>14 DEF BlockFrame
    <3>2. CASE frame + 1 = Len(ring[pos].frames)
      <4>1. frame' = 0 /\ inBlock' = FALSE /\ last' = pos /\ pos' = Next1(pos)
        BY <2>14, <3>2 DEF BlockFrame
      <4>2. RingTyped' /\ ReadersPlace'
        BY <1>1, <1>2, <2>1, <2>12, <2>13, <3>1, <4>1 DEF RingTyped, ReadersPlace
      <4>3. QED
        BY <1>3, <2>12, <4>2 DEF RingInv
    <3>3. CASE frame + 1 # Len(ring[pos].frames)
      <4>1. frame' = frame + 1 /\ UNCHANGED <<inBlock, last, pos>>
        BY <2>14, <3>3 DEF BlockFrame
      <4>2. frame' \in Nat /\ frame' < Len(fs) /\ inBlock
        BY <1>1, <2>1, <2>3, <2>4, <3>1, <3>3, <4>1 DEF ReadersPlace
      <4>3. RingTyped' /\ ReadersPlace'
        BY <1>1, <1>2, <2>1, <2>3, <2>12, <3>1, <4>1, <4>2 DEF RingTyped, ReadersPlace
      <4>4. QED
        BY <1>3, <2>12, <4>3 DEF RingInv
    <3>4. QED
      BY <3>2, <3>3
  <2>15. CASE SingleFrame
    <3>1. /\ ~Blocks /\ last' = pos /\ pos' = Next1(pos) /\ dropped' = 0
          /\ UNCHANGED <<frame, inBlock>>
      BY <2>15 DEF SingleFrame
    <3>2. RingTyped' /\ ReadersPlace'
      BY <1>1, <1>2, <2>1, <2>12, <2>13, <3>1 DEF RingTyped, ReadersPlace
    <3>3. QED
      BY <1>3, <2>12, <3>2 DEF RingInv
  <2>16. QED
    BY <1>8, <2>14, <2>15
<1>9. QED
  BY <1>4, <1>5, <1>6, <1>7, <1>8

\* What is in use when a packet's record is returned stays with the reader:
\* in every state of every run, for any size of ring, blocks or frames.
THEOREM RingInductive == CaptureSpec => []RingInv
<1>1. CaptureStart => RingInv
  BY RingStart DEF RingInv
<1>2. ASSUME RingInv, [CaptureNext]_captureVars
      PROVE  RingInv'
  <2>1. method' = method
    BY <1>2 DEF CaptureNext, captureVars, Arrive, RetireByTimer, Measure, ReadPacket,
       Interrupted, SlotReady, ReadStats, TakeDrops, BlockFrame, SingleFrame,
       ReceivePacket
  <2> SUFFICES ASSUME method \in Rings PROVE RingInv'
    BY <2>1 DEF RingInv
  <2>2. RingTyped /\ ReadersPlace /\ Filled
    BY <1>2 DEF RingInv
  <2>3. Slots' = Slots /\ Blocks' = Blocks
    BY <2>1 DEF Slots, Blocks
  <2>4. CASE Arrive \/ RetireByTimer
    <3>1. StoreInRing(arrived + 1) \/ RetireByTimer
      BY <2>4 DEF Arrive, Rings
    <3>2. /\ UNCHANGED <<drops, pc, pos, frame, inBlock, last, dropped, builder, out>>
          /\ arrived' \in {arrived, arrived + 1}
          /\ RetireByTimer => UNCHANGED <<lost, kdrops>>
      BY <2>4 DEF Arrive, RetireByTimer, readVars
    <3>3. Keeps /\ {lost', kdrops'} \subseteq Nat
      BY <1>2, <2>1, <2>2, <3>1, <3>2, KernelKeeps DEF RingTyped
    <3>4. LastInSlot' /\ \A j \in DOMAIN builder' :
             builder'[j].kind = "packet" => InReadersSlot(builder[j].id)'
      BY <1>2, <2>1, <3>2, <3>3, HeldStays DEF Keeps
    <3>5. RingTyped' /\ ReadersPlace'
      BY <2>2, <2>3, <3>2, <3>3 DEF Keeps, RingTyped, ReadersPlace
    <3>6. Filled'
      BY <2>1, <2>3, <3>3 DEF Keeps, Filled, PerSlot
    <3>7. QED
      BY <3>4, <3>5, <3>6 DEF RingInv
  <2>5. CASE Measure \/ UNCHANGED captureVars
    <3>1. /\ UNCHANGED <<ring, kpos, arrived, lost, pc, pos, frame, inBlock, last,
                         dropped, builder, out>>
          /\ \/ kdrops' = kdrops /\ drops' = drops
             \/ kdrops' = 0 /\ drops' = (drops + kdrops) % Wrap
      BY <2>5 DEF Measure, UpdateStats, captureVars, kernelVars, readVars
    <3>2. drops' \in Nat /\ kdrops' \in Nat
      <4>1. PICK w \in Nat \ {0} : w = Wrap
        BY GeometryAssumption
      <4>2. PICK x \in Nat : x = drops + kdrops
        BY <2>2 DEF RingTyped
      <4>3. x % w \in Nat
        OBVIOUS
      <4>4. QED
        BY <2>2, <3>1, <4>1, <4>2, <4>3 DEF RingTyped
    <3>3. RingTyped' /\ ReadersPlace'
      BY <2>2, <2>3, <3>1, <3>2 DEF RingTyped, ReadersPlace
    <3>4. LastInSlot' /\ \A j \in DOMAIN builder' :
             builder'[j].kind = "packet" => InReadersSlot(builder[j].id)'
      BY <1>2, <2>1, <2>2, <3>1, HeldStays DEF RingTyped
    <3>5. Filled'
      BY <2>1, <2>2, <2>3, <3>1 DEF Filled, PerSlot
    <3>6. QED
      BY <3>3, <3>4, <3>5 DEF RingInv
  <2>6. CASE ReceivePacket
    BY <2>6 DEF ReceivePacket, Rings
  <2>7. QED
    BY <1>2, <2>1, <2>4, <2>5, <2>6, ReaderKeepsRing DEF CaptureNext
<1>3. QED
  <2>1. RingInv /\ [CaptureNext]_captureVars => RingInv'
    BY <1>2
  <2>2. QED
    BY <1>1, <2>1, PTL DEF CaptureSpec

\* A ring in which RingInv holds: what was captured of the packet in use is in one
\* frame of one slot, which is the reader's; and so is all that the record of a
\* packet takes in that was not truncated.
LEMMA InOneSlot ==
  ASSUME RingInv, InUse
  PROVE  Owned(Capturable(Last(out)))
<1>1. /\ RingTyped /\ Filled /\ InReadersSlot(Last(out).id)
      /\ out \in Seq(CaptureRecs) /\ out # <<>> /\ Last(out).kind = "packet"
  BY DEF RingInv, LastInSlot, InUse, RingTyped
<1>2. Last(out) \in CaptureRecs
  <2>1. Len(out) \in DOMAIN out
    BY <1>1
  <2>2. QED
    BY <1>1, <2>1 DEF Last
<1>3. PICK rec \in CaptureRecs : rec = Last(out)
  BY <1>2
<1>4. Capturable(rec) = 1
  BY <1>1, <1>3 DEF Capturable, Captured, OnTheWire, CaptureRecs
<1>5. PICK i \in Slots : ring[i].user /\ Contains(ring[i].frames, rec.id)
  BY <1>1, <1>3 DEF InReadersSlot
<1>6. PICK fs \in Seq(Nat) : fs = ring[i].frames
  BY <1>1, <1>5 DEF RingTyped, SlotStates
<1>7. PICK m \in 1..Len(fs) : fs[m] = rec.id
  BY <1>5, <1>6 DEF Contains
<1>8. PICK n \in Nat \ {0} : n = PerSlot
  BY Geometry DEF PerSlot
<1>9. m \in Nat /\ 0 < m /\ m <= n
  <2>1. Len(fs) <= n /\ Len(fs) \in Nat
    BY <1>1, <1>5, <1>6, <1>8 DEF Filled
  <2>2. QED
    BY <2>1
<1>10. Spanned(i, m, 1) = {i}
  <2>1. {x \in 0..1 : x * PerSlot < m + 1 - 1} = {0}
    BY <1>8, <1>9
  <2>2. Spanned(i, m, 1) = {i + k : k \in {0}}
    BY <2>1 DEF Spanned
  <2>3. i \in Int
    BY <1>5 DEF Slots
  <2>4. i + 0 = i
    BY <2>3
  <2>5. QED
    BY <2>2, <2>4
<1>11. i \in DOMAIN ring /\ m \in DOMAIN ring[i].frames /\ ring[i].frames[m] = rec.id
  BY <1>1, <1>5, <1>6, <1>7 DEF RingTyped
<1>12. Owned(1)
  BY <1>3, <1>5, <1>10, <1>11 DEF Owned
<1>13. QED
  BY <1>3, <1>4, <1>12

\* While a caller uses the packet of the record it got last, the kernel does
\* not own the memory that its content is in, whatever arrives meanwhile; of a
\* packet that was truncated, the memory that what was captured of it is in.
THEOREM ContentKept == CaptureSpec => []ContentStable
<1>1. RingInv => ContentStable
  BY InOneSlot DEF ContentStable
<1>2. QED
  BY <1>1, RingInductive, PTL

\* What % is: the one number below the divisor that is so many times the divisor
\* away.
LEMMA ModIs ==
  ASSUME NEW n \in Nat \ {0}, NEW x \in Int
  PROVE  \E d \in Int, m \in 0..(n - 1) : m = x % n /\ x = n * d + m
<1>1. PICK d, m : d = x \div n /\ m = x % n
  OBVIOUS
<1>2. d \in Int /\ m \in 0..(n - 1)
  <2>1. x \div n \in Int
    OBVIOUS
  <2>2. x % n \in Int /\ 0 <= x % n
    OBVIOUS
  <2>3. x % n < n
    OBVIOUS
  <2>4. QED
    BY <1>1, <2>1, <2>2, <2>3
<1>3. x = n * d + m
  BY <1>1
<1>4. QED
  BY <1>1, <1>2, <1>3, Zenon

\* A quotient and a remainder below the divisor are all that is needed to know %.
LEMMA ModUnique ==
  ASSUME NEW n \in Nat \ {0}, NEW q \in Int, NEW r \in 0..(n - 1)
  PROVE  (n * q + r) % n = r
<1>1. PICK x \in Int : x = n * q + r
  OBVIOUS
<1>2. PICK d \in Int, m \in 0..(n - 1) : m = x % n /\ x = n * d + m
  BY ModIs
<1>3. n * (d - q) = r - m
  BY <1>1, <1>2
<1>4. PICK e \in Int : e = d - q
  OBVIOUS
<1>5. e <= 0
  <2> SUFFICES ASSUME e >= 1 PROVE FALSE
    BY <1>4
  <2>1. n * e >= n
    OBVIOUS
  <2>2. QED
    BY <2>1, <1>3, <1>4
<1>6. e >= 0
  <2> SUFFICES ASSUME e <= -1 PROVE FALSE
    BY <1>4
  <2>1. n * e <= -n
    OBVIOUS
  <2>2. QED
    BY <2>1, <1>3, <1>4
<1>7. e = 0
  BY <1>4, <1>5, <1>6
<1>8. n * e = 0
  BY <1>7
<1>9. QED
  BY <1>1, <1>2, <1>3, <1>4, <1>8

\* The place of a slot, within one turn of the ring and a bit.
LEMMA ModTurn ==
  ASSUME NEW n \in Nat \ {0}, NEW x \in 0..(2 * n - 1)
  PROVE  x % n = IF x < n THEN x ELSE x - n
<1>1. CASE x < n
  <2>1. x \in 0..(n - 1) /\ n * 0 + x = x
    BY <1>1
  <2>2. (n * 0 + x) % n = x
    BY <2>1, ModUnique
  <2>3. QED
    BY <1>1, <2>1, <2>2
<1>2. CASE x >= n
  <2>1. x - n \in 0..(n - 1) /\ n * 1 + (x - n) = x
    BY <1>2
  <2>2. PICK r \in 0..(n - 1) : r = x - n
    BY <2>1
  <2>3. (n * 1 + r) % n = r
    BY ModUnique
  <2>4. QED
    BY <1>2, <2>1, <2>2, <2>3
<1>3. QED
  BY <1>1, <1>2

\* A number may be taken modulo the divisor before another is added.
LEMMA ModSum ==
  ASSUME NEW n \in Nat \ {0}, NEW x \in Int, NEW y \in Int, NEW m, m = y % n
  PROVE  (x + m) % n = (x + y) % n
<1>1. PICK d \in Int : m \in 0..(n - 1) /\ y = n * d + m
  BY ModIs
<1>2. PICK e \in Int, r \in 0..(n - 1) : r = (x + m) % n /\ x + m = n * e + r
  <2>1. x + m \in Int
    OBVIOUS
  <2>2. QED
    BY <2>1, ModIs
<1>3. x + y = n * (d + e) + r
  <2>1. n * (d + e) = n * d + n * e
    OBVIOUS
  <2>2. PICK u \in Int, v \in Int : u = n * d /\ v = n * e
    OBVIOUS
  <2>3. y = u + m /\ x + m = v + r
    BY <1>1, <1>2, <2>2
  <2>4. x + y = (u + v) + r
    BY <2>3
  <2>5. QED
    BY <2>1, <2>2, <2>4
<1>4. PICK q \in Int : q = d + e
  OBVIOUS
<1>5. (n * q + r) % n = r
  BY ModUnique
<1>6. (x + y) % n = r
  BY <1>3, <1>4, <1>5
<1>7. QED
  BY <1>1, <1>2, <1>6

\* Numbers that are the same modulo the divisor stay so when one is added.
LEMMA ModShift ==
  ASSUME NEW n \in Nat \ {0}, NEW x \in Int, NEW y \in Int, NEW z \in Int,
         x % n = y % n
  PROVE  (x + z) % n = (y + z) % n
<1>1. PICK m : m = x % n
  OBVIOUS
<1>2. m = y % n
  BY <1>1
<1>3. (z + m) % n = (z + x) % n
  BY <1>1, ModSum, ZenonT(40)
<1>4. (z + m) % n = (z + y) % n
  BY <1>2, ModSum, ZenonT(40)
<1>5. z + x = x + z /\ z + y = y + z
  OBVIOUS
<1>6. QED
  BY <1>3, <1>4, <1>5

\* The same of all numbers.
LEMMA ModSums ==
  \A n \in Nat \ {0} :
     /\ \A x, y, m \in Int : m = y % n => (x + m) % n = (x + y) % n
     /\ \A x, y, z \in Int : x % n = y % n => (x + z) % n = (y + z) % n
<1> SUFFICES ASSUME NEW n \in Nat \ {0}
             PROVE  /\ \A x, y, m \in Int : m = y % n => (x + m) % n = (x + y) % n
                    /\ \A x, y, z \in Int : x % n = y % n => (x + z) % n = (y + z) % n
  OBVIOUS
<1>1. ASSUME NEW x \in Int, NEW y \in Int, NEW m \in Int, m = y % n
      PROVE  (x + m) % n = (x + y) % n
  BY <1>1, ModSum, ZenonT(40)
<1>2. ASSUME NEW x \in Int, NEW y \in Int, NEW z \in Int, x % n = y % n
      PROVE  (x + z) % n = (y + z) % n
  BY <1>2, ModShift, ZenonT(40)
<1>3. QED
  BY <1>1, <1>2, Zenon

(* Rows of records: what the recursive definitions compute.                 *)

\* Induction over the numbers, of a set of them.
LEMMA NatSetInduction ==
  ASSUME NEW S, 0 \in S, \A n \in Nat : n \in S => n + 1 \in S
  PROVE  \A n \in Nat : n \in S
<1> DEFINE R == Nat \ S
<1> SUFFICES ASSUME R # {} PROVE FALSE
  OBVIOUS
<1>1. PICK n \in R : \A m \in R : ~(<<m, n>> \in OpToRel(<, Nat))
  <2>1. R \subseteq Nat
    OBVIOUS
  <2>2. PICK T : T = R
    OBVIOUS
  <2>3. PICK n \in T : \A m \in T : ~(<<m, n>> \in OpToRel(<, Nat))
    BY <2>1, <2>2, NatLessThanWellFounded, WFMin, Zenon
  <2>4. QED
    BY <2>2, <2>3
<1>2. n \in Nat /\ n # 0
  OBVIOUS
<1>3. n - 1 \in Nat /\ n - 1 < n /\ n = (n - 1) + 1
  BY <1>2
<1>4. <<n - 1, n>> \in OpToRel(<, Nat)
  BY <1>2, <1>3 DEF OpToRel
<1>5. n - 1 \notin R
  BY <1>1, <1>4
<1>6. QED
  BY <1>1, <1>2, <1>3, <1>5

\* A function of the first n numbers can be given by its value at zero and how
\* each of its values follows from the one before.
Stepwise(n, V, b, F, f) ==
  f \in [0..n -> V] /\ f[0] = b /\ \A i \in 1..n : f[i] = F[<<i, f[i - 1]>>]

\* What is defined one step from the other can be computed up to any length: by
\* induction, as a well-founded minimum of the lengths for which it cannot be.
LEMMA StepwiseExists ==
  ASSUME NEW n \in Nat, NEW V, NEW b \in V, NEW F \in [(1..n) \X V -> V]
  PROVE  \E f : Stepwise(n, V, b, F, f)
<1> DEFINE S == {m \in Nat : m <= n => \E f \in [0..m -> V] :
                     f[0] = b /\ \A i \in 1..m : f[i] = F[<<i, f[i - 1]>>]}
<1>1. 0 \in S
  <2>1. PICK f : f = [i \in 0..0 |-> b]
    OBVIOUS
  <2>2. f \in [0..0 -> V] /\ f[0] = b /\ \A i \in 1..0 : f[i] = F[<<i, f[i - 1]>>]
    BY <2>1
  <2>3. QED
    BY <2>2
<1>2. ASSUME NEW m \in Nat, m \in S PROVE m + 1 \in S
  <2> SUFFICES ASSUME m + 1 <= n
               PROVE  \E g \in [0..(m + 1) -> V] :
                        g[0] = b /\ \A i \in 1..(m + 1) : g[i] = F[<<i, g[i - 1]>>]
    OBVIOUS
  <2>1. PICK f \in [0..m -> V] : f[0] = b /\ \A i \in 1..m : f[i] = F[<<i, f[i - 1]>>]
    BY <1>2
  <2>2. PICK v \in V : v = F[<<m + 1, f[m]>>]
    <3>1. m \in 0..m /\ f[m] \in V /\ m + 1 \in 1..n
      OBVIOUS
    <3>2. <<m + 1, f[m]>> \in (1..n) \X V
      BY <3>1
    <3>3. QED
      BY <3>2
  <2>3. PICK g : g = [i \in 0..(m + 1) |-> IF i = m + 1 THEN v ELSE f[i]]
    OBVIOUS
  <2>4. g \in [0..(m + 1) -> V] /\ g[m + 1] = v /\ \A i \in 0..m : g[i] = f[i]
    BY <2>3
  <2>5. ASSUME NEW i \in 1..(m + 1) PROVE g[i] = F[<<i, g[i - 1]>>]
    <3>1. CASE i = m + 1
      <4>1. g[i - 1] = f[m]
        BY <2>4, <3>1
      <4>2. QED
        BY <2>2, <2>4, <3>1, <4>1
    <3>2. CASE i # m + 1
      <4>1. i \in 1..m /\ i - 1 \in 0..m /\ i \in 0..m
        BY <3>2
      <4>2. g[i] = f[i] /\ g[i - 1] = f[i - 1]
        BY <2>4, <4>1
      <4>3. QED
        BY <2>1, <4>1, <4>2
    <3>3. QED
      BY <3>1, <3>2
  <2>6. g[0] = b
    BY <2>1, <2>4
  <2>7. QED
    BY <2>4, <2>5, <2>6
<1>3. n \in S
  BY <1>1, <1>2, NatSetInduction
<1>4. QED
  BY <1>3 DEF Stepwise

\* Two functions with one beginning that go the same way up to k.
Alike(k, f, g) ==
  f[0] = g[0] /\ \A i \in 1..k : f[i - 1] = g[i - 1] => f[i] = g[i]

\* They have the same value at k.
LEMMA StepwiseSame ==
  ASSUME NEW k \in Nat, NEW f, NEW g, Alike(k, f, g)
  PROVE  f[k] = g[k]
<1> f[0] = g[0] /\ \A i \in 1..k : f[i - 1] = g[i - 1] => f[i] = g[i]
  BY DEF Alike
<1> DEFINE S == {m \in Nat : m <= k => f[m] = g[m]}
<1>1. 0 \in S
  OBVIOUS
<1>2. ASSUME NEW m \in Nat, m \in S PROVE m + 1 \in S
  <2> SUFFICES ASSUME m + 1 <= k PROVE f[m + 1] = g[m + 1]
    OBVIOUS
  <2>1. m + 1 \in 1..k /\ (m + 1) - 1 = m /\ f[m] = g[m]
    BY <1>2
  <2>2. QED
    BY <2>1
<1>3. k \in S
  BY <1>1, <1>2, NatSetInduction
<1>4. QED
  BY <1>3

\* Reported: the function that it is defined by.
ReportedBy(s, f) ==
  /\ f \in [0..Len(s) -> Nat] /\ f[0] = 0
  /\ \A i \in 1..Len(s) : f[i] = f[i - 1] + s[i].count

\* The sum of the counts of some records is computed one record after the other.
LEMMA ReportedDef ==
  ASSUME NEW s \in Seq(CaptureRecs)
  PROVE  \E f : ReportedBy(s, f) /\ Reported(s) = f[Len(s)]
<1> DEFINE Is(f) == f = [i \in 0..Len(s) |-> IF i = 0 THEN 0 ELSE f[i - 1] + s[i].count]
<1>1. \A i \in 1..Len(s) : s[i].count \in Nat
  <2>1. \A i \in 1..Len(s) : s[i] \in CaptureRecs
    OBVIOUS
  <2>2. QED
    BY <2>1 DEF CaptureRecs
<1>2. PICK n \in Nat : n = Len(s)
  OBVIOUS
<1>3. PICK F : F = [x \in (1..n) \X Nat |-> x[2] + s[x[1]].count]
  OBVIOUS
<1>4. F \in [(1..n) \X Nat -> Nat]
  BY <1>1, <1>2, <1>3
<1>5. PICK f : Stepwise(n, Nat, 0, F, f)
  <2>1. 0 \in Nat
    OBVIOUS
  <2>2. QED
    BY <2>1, <1>4, StepwiseExists
<1>6. \A i \in 1..n : f[i] = f[i - 1] + s[i].count
  <2> TAKE i \in 1..n
  <2>1. f[i - 1] \in Nat /\ f[i] = F[<<i, f[i - 1]>>]
    BY <1>5 DEF Stepwise
  <2>2. <<i, f[i - 1]>> \in (1..n) \X Nat
    BY <2>1
  <2>3. QED
    BY <1>3, <2>1, <2>2
<1>7. Is(f)
  BY <1>2, <1>5, <1>6 DEF Stepwise
<1>8. PICK g : g = CHOOSE h : Is(h)
  OBVIOUS
<1>9. Is(g)
  BY <1>7, <1>8
<1>10. DOMAIN g = 0..n /\ g[0] = 0 /\ \A i \in 1..n : g[i] = g[i - 1] + s[i].count
  <2>1. g = [i \in 0..n |-> IF i = 0 THEN 0 ELSE g[i - 1] + s[i].count]
    BY <1>2, <1>9
  <2>2. QED
    BY <2>1
<1>11. ASSUME NEW k \in 0..n PROVE f[k] = g[k]
  <2>1. k \in Nat /\ f[0] = g[0] /\ \A i \in 1..k : i \in 1..n
    BY <1>5, <1>10 DEF Stepwise
  <2>2. \A i \in 1..k : f[i - 1] = g[i - 1] => f[i] = g[i]
    BY <1>6, <1>10, <2>1
  <2>3. Alike(k, f, g)
    BY <2>1, <2>2 DEF Alike
  <2>4. QED
    BY <2>1, <2>3, StepwiseSame, Zenon
<1>12. g \in [0..n -> Nat]
  <2>1. g = [i \in 0..n |-> g[i]]
    BY <1>2, <1>9
  <2>2. QED
    BY <1>5, <1>11, <2>1 DEF Stepwise
<1>13. Reported(s) = g[n]
  BY <1>2, <1>8 DEF Reported
<1>14. QED
  BY <1>2, <1>10, <1>12, <1>13 DEF ReportedBy

\* No record reports nothing.
LEMMA ReportedNone == Reported(<<>>) = 0
<1>1. <<>> \in Seq(CaptureRecs) /\ Len(<<>>) = 0
  OBVIOUS
<1>2. QED
  BY <1>1, ReportedDef DEF ReportedBy

\* One more record adds its count.
LEMMA ReportedAppend ==
  ASSUME NEW s \in Seq(CaptureRecs), NEW r \in CaptureRecs
  PROVE  Reported(s) \in Nat /\ Reported(Append(s, r)) = Reported(s) + r.count
<1>1. PICK t : t = Append(s, r)
  OBVIOUS
<1>2. PICK n \in Nat : n = Len(s)
  OBVIOUS
<1>3. t \in Seq(CaptureRecs) /\ Len(t) = n + 1 /\ t[n + 1] = r
      /\ \A i \in 1..n : t[i] = s[i]
  BY <1>1, <1>2
<1>4. PICK f : ReportedBy(s, f) /\ Reported(s) = f[n]
  BY <1>2, ReportedDef
<1>5. PICK g : ReportedBy(t, g) /\ Reported(t) = g[n + 1]
  BY <1>3, ReportedDef
<1>6. f[n] \in Nat /\ f[0] = g[0]
  BY <1>2, <1>4, <1>5 DEF ReportedBy
<1>a. \A i \in 1..n : f[i] = f[i - 1] + s[i].count
  BY <1>2, <1>4 DEF ReportedBy
<1>b. \A i \in 1..(n + 1) : g[i] = g[i - 1] + t[i].count
  BY <1>3, <1>5 DEF ReportedBy
<1>7. ASSUME NEW i \in 1..n, f[i - 1] = g[i - 1] PROVE f[i] = g[i]
  <2>1. i \in 1..(n + 1) /\ t[i] = s[i]
    BY <1>3
  <2>2. QED
    BY <1>a, <1>b, <1>7, <2>1
<1>8. f[n] = g[n]
  <2>1. Alike(n, f, g)
    BY <1>6, <1>7 DEF Alike
  <2>2. QED
    BY <2>1, StepwiseSame, Zenon
<1>9. g[n + 1] = g[n] + r.count
  BY <1>3, <1>5 DEF ReportedBy
<1>10. QED
  BY <1>1, <1>4, <1>5, <1>6, <1>8, <1>9
\* IdsOf: the function that it is defined by.
IdsBy(s, f) ==
  /\ f \in [0..Len(s) -> Seq(Nat)] /\ f[0] = <<>>
  /\ \A i \in 1..Len(s) :
        f[i] = IF s[i].kind = "packet" THEN Append(f[i - 1], s[i].id) ELSE f[i - 1]

\* The packets of some records are collected one record after the other.
LEMMA IdsDef ==
  ASSUME NEW s \in Seq(CaptureRecs)
  PROVE  \E f : IdsBy(s, f) /\ IdsOf(s) = f[Len(s)]
<1> DEFINE Is(f) == f = [i \in 0..Len(s) |->
              IF i = 0 THEN <<>>
              ELSE IF s[i].kind = "packet" THEN Append(f[i - 1], s[i].id) ELSE f[i - 1]]
<1>1. \A i \in 1..Len(s) : s[i].id \in Nat
  <2>1. \A i \in 1..Len(s) : s[i] \in CaptureRecs
    OBVIOUS
  <2>2. QED
    BY <2>1 DEF CaptureRecs
<1>2. PICK n \in Nat : n = Len(s)
  OBVIOUS
<1>3. PICK F : F = [x \in (1..n) \X Seq(Nat) |->
             IF s[x[1]].kind = "packet" THEN Append(x[2], s[x[1]].id) ELSE x[2]]
  OBVIOUS
<1>4. F \in [(1..n) \X Seq(Nat) -> Seq(Nat)]
  BY <1>1, <1>2, <1>3
<1>5. PICK f : Stepwise(n, Seq(Nat), <<>>, F, f)
  <2>1. <<>> \in Seq(Nat)
    OBVIOUS
  <2>2. QED
    BY <2>1, <1>4, StepwiseExists
<1>6. \A i \in 1..n :
        f[i] = IF s[i].kind = "packet" THEN Append(f[i - 1], s[i].id) ELSE f[i - 1]
  <2> TAKE i \in 1..n
  <2>1. f[i - 1] \in Seq(Nat) /\ f[i] = F[<<i, f[i - 1]>>]
    BY <1>5 DEF Stepwise
  <2>2. <<i, f[i - 1]>> \in (1..n) \X Seq(Nat)
    BY <2>1
  <2>3. QED
    BY <1>3, <2>1, <2>2
<1>7. Is(f)
  <2>1. PICK h : h = [i \in 0..n |->
              IF i = 0 THEN <<>>
              ELSE IF s[i].kind = "packet" THEN Append(f[i - 1], s[i].id) ELSE f[i - 1]]
    OBVIOUS
  <2>2. f[0] = h[0]
    BY <1>5, <2>1 DEF Stepwise
  <2>3. \A i \in 1..n : f[i] = h[i]
    BY <1>6, <2>1
  <2>4. f = h
    <3>1. f = [i \in 0..n |-> f[i]] /\ h = [i \in 0..n |-> h[i]]
      BY <1>5, <2>1 DEF Stepwise
    <3>2. \A i \in 0..n : f[i] = h[i]
      BY <2>2, <2>3
    <3>3. QED
      BY <3>1, <3>2
  <2>5. QED
    BY <1>2, <2>1, <2>4
<1>8. PICK g : g = CHOOSE h : Is(h)
  OBVIOUS
<1>9. Is(g)
  BY <1>7, <1>8
<1>10. /\ DOMAIN g = 0..n /\ g[0] = <<>>
       /\ \A i \in 1..n :
             g[i] = IF s[i].kind = "packet" THEN Append(g[i - 1], s[i].id) ELSE g[i - 1]
  <2>1. g = [i \in 0..n |->
              IF i = 0 THEN <<>>
              ELSE IF s[i].kind = "packet" THEN Append(g[i - 1], s[i].id) ELSE g[i - 1]]
    BY <1>2, <1>9
  <2>2. DOMAIN g = 0..n
    BY <2>1
  <2>3. g[0] = <<>>
    <3>1. 0 \in 0..n
      OBVIOUS
    <3>2. QED
      BY <2>1, <3>1
  <2>4. ASSUME NEW i \in 1..n
        PROVE  g[i] = IF s[i].kind = "packet" THEN Append(g[i - 1], s[i].id) ELSE g[i - 1]
    <3>1. i \in 0..n /\ i # 0
      OBVIOUS
    <3>2. QED
      BY <2>1, <3>1
  <2>5. QED
    BY <2>2, <2>3, <2>4
<1>11. ASSUME NEW k \in 0..n PROVE f[k] = g[k]
  <2>1. k \in Nat /\ f[0] = g[0] /\ \A i \in 1..k : i \in 1..n
    BY <1>5, <1>10 DEF Stepwise
  <2>2. \A i \in 1..k : f[i - 1] = g[i - 1] => f[i] = g[i]
    BY <1>6, <1>10, <2>1
  <2>3. Alike(k, f, g)
    BY <2>1, <2>2 DEF Alike
  <2>4. QED
    BY <2>1, <2>3, StepwiseSame, Zenon
<1>12. g \in [0..n -> Seq(Nat)]
  <2>1. g = [i \in 0..n |-> g[i]]
    BY <1>2, <1>9
  <2>2. QED
    BY <1>5, <1>11, <2>1 DEF Stepwise
<1>13. IdsOf(s) = g[n]
  BY <1>2, <1>8 DEF IdsOf
<1>14. QED
  BY <1>2, <1>10, <1>12, <1>13 DEF IdsBy

\* No record holds no packet.
LEMMA IdsNone == IdsOf(<<>>) = <<>>
<1>1. <<>> \in Seq(CaptureRecs) /\ Len(<<>>) = 0
  OBVIOUS
<1>2. QED
  BY <1>1, IdsDef DEF IdsBy

\* One more record adds its packet, if it is a packet's.
LEMMA IdsAppend ==
  ASSUME NEW s \in Seq(CaptureRecs), NEW r \in CaptureRecs
  PROVE  /\ IdsOf(s) \in Seq(Nat)
         /\ IdsOf(Append(s, r)) =
              IF r.kind = "packet" THEN Append(IdsOf(s), r.id) ELSE IdsOf(s)
<1>1. PICK t : t = Append(s, r)
  OBVIOUS
<1>2. PICK n \in Nat : n = Len(s)
  OBVIOUS
<1>3. t \in Seq(CaptureRecs) /\ Len(t) = n + 1 /\ t[n + 1] = r
      /\ \A i \in 1..n : t[i] = s[i]
  BY <1>1, <1>2
<1>4. PICK f : IdsBy(s, f) /\ IdsOf(s) = f[n]
  BY <1>2, IdsDef
<1>5. PICK g : IdsBy(t, g) /\ IdsOf(t) = g[n + 1]
  BY <1>3, IdsDef
<1>6. f[n] \in Seq(Nat) /\ f[0] = g[0]
  BY <1>2, <1>4, <1>5 DEF IdsBy
<1>a. \A i \in 1..n :
        f[i] = IF s[i].kind = "packet" THEN Append(f[i - 1], s[i].id) ELSE f[i - 1]
  BY <1>2, <1>4 DEF IdsBy
<1>b. \A i \in 1..(n + 1) :
        g[i] = IF t[i].kind = "packet" THEN Append(g[i - 1], t[i].id) ELSE g[i - 1]
  BY <1>3, <1>5 DEF IdsBy
<1>7. ASSUME NEW i \in 1..n, f[i - 1] = g[i - 1] PROVE f[i] = g[i]
  <2>1. i \in 1..(n + 1) /\ t[i] = s[i]
    BY <1>3
  <2>2. QED
    BY <1>a, <1>b, <1>7, <2>1
<1>8. f[n] = g[n]
  <2>1. Alike(n, f, g)
    BY <1>6, <1>7 DEF Alike
  <2>2. QED
    BY <2>1, StepwiseSame, Zenon
<1>9. g[n + 1] = IF r.kind = "packet" THEN Append(g[n], r.id) ELSE g[n]
  <2>1. n + 1 \in 1..(n + 1) /\ (n + 1) - 1 = n
    OBVIOUS
  <2>2. QED
    BY <1>3, <1>b, <2>1
<1>10. QED
  BY <1>1, <1>4, <1>5, <1>6, <1>8, <1>9

\* Joined: the function that it is defined by.
JoinedBy(s, f) ==
  /\ f \in [0..Len(s) -> Seq(Nat)] /\ f[0] = <<>>
  /\ \A i \in 1..Len(s) : f[i] = f[i - 1] \o s[i]

\* Rows are joined one after the other.
LEMMA JoinedDef ==
  ASSUME NEW s \in Seq(Seq(Nat))
  PROVE  \E f : JoinedBy(s, f) /\ Joined(s) = f[Len(s)]
<1> DEFINE Is(f) == f = [i \in 0..Len(s) |-> IF i = 0 THEN <<>> ELSE f[i - 1] \o s[i]]
<1>1. PICK n \in Nat : n = Len(s)
  OBVIOUS
<1>2. \A i \in 1..n : s[i] \in Seq(Nat)
  BY <1>1
<1>3. PICK F : F = [x \in (1..n) \X Seq(Nat) |-> x[2] \o s[x[1]]]
  OBVIOUS
<1>4. F \in [(1..n) \X Seq(Nat) -> Seq(Nat)]
  BY <1>2, <1>3
<1>5. PICK f : Stepwise(n, Seq(Nat), <<>>, F, f)
  <2>1. <<>> \in Seq(Nat)
    OBVIOUS
  <2>2. QED
    BY <2>1, <1>4, StepwiseExists
<1>6. \A i \in 1..n : f[i] = f[i - 1] \o s[i]
  <2> TAKE i \in 1..n
  <2>1. f[i - 1] \in Seq(Nat) /\ f[i] = F[<<i, f[i - 1]>>]
    BY <1>5 DEF Stepwise
  <2>2. <<i, f[i - 1]>> \in (1..n) \X Seq(Nat)
    BY <2>1
  <2>3. QED
    BY <1>3, <2>1, <2>2
<1>7. Is(f)
  <2>1. PICK e : e = [i \in 0..n |-> f[i - 1] \o s[i]]
    OBVIOUS
  <2>2. PICK h : h = [i \in 0..n |-> IF i = 0 THEN <<>> ELSE e[i]]
    OBVIOUS
  <2>3. f[0] = h[0]
    <3>1. 0 \in 0..n
      BY n \in Nat
    <3>2. h[0] = <<>>
      BY <2>2, <3>1
    <3>3. f[0] = <<>>
      BY <1>5 DEF Stepwise
    <3>4. QED
      BY <3>2, <3>3
  <2>4. \A i \in 1..n : f[i] = h[i]
    <3> TAKE i \in 1..n
    <3>1. i \in 0..n /\ i # 0
      OBVIOUS
    <3>2. e[i] = f[i - 1] \o s[i]
      BY <2>1, <3>1
    <3>3. h[i] = e[i]
      BY <2>2, <3>1
    <3>4. QED
      BY <1>6, <3>2, <3>3
  <2>5. f = h
    <3>1. f = [i \in 0..n |-> f[i]] /\ h = [i \in 0..n |-> h[i]]
      BY <1>5, <2>2 DEF Stepwise
    <3>2. \A i \in 0..n : f[i] = h[i]
      BY <2>3, <2>4
    <3>3. QED
      BY <3>1, <3>2
  <2>6. f = [i \in 0..n |-> IF i = 0 THEN <<>> ELSE f[i - 1] \o s[i]]
    BY <2>1, <2>2, <2>5
  <2>7. QED
    BY <1>1, <2>6
<1>8. PICK g : g = CHOOSE h : Is(h)
  OBVIOUS
<1>9. Is(g)
  BY <1>7, <1>8
<1>10. DOMAIN g = 0..n /\ g[0] = <<>> /\ \A i \in 1..n : g[i] = g[i - 1] \o s[i]
  <2>1. g = [i \in 0..n |-> IF i = 0 THEN <<>> ELSE g[i - 1] \o s[i]]
    BY <1>1, <1>9
  <2>2. DOMAIN g = 0..n
    BY <2>1
  <2>3. g[0] = <<>>
    <3>1. PICK e : e = [i \in 0..n |-> g[i - 1] \o s[i]]
      OBVIOUS
    <3>2. g = [i \in 0..n |-> IF i = 0 THEN <<>> ELSE e[i]]
      BY <2>1, <3>1
    <3>3. QED
      BY <3>2
  <2>4. ASSUME NEW i \in 1..n PROVE g[i] = g[i - 1] \o s[i]
    <3>1. i \in 0..n /\ i # 0
      OBVIOUS
    <3>2. QED
      BY <2>1, <3>1
  <2>5. QED
    BY <2>2, <2>3, <2>4
<1>11. ASSUME NEW k \in 0..n PROVE f[k] = g[k]
  <2>1. k \in Nat /\ f[0] = g[0] /\ \A i \in 1..k : i \in 1..n
    BY <1>5, <1>10 DEF Stepwise
  <2>2. \A i \in 1..k : f[i - 1] = g[i - 1] => f[i] = g[i]
    BY <1>6, <1>10, <2>1
  <2>3. Alike(k, f, g)
    BY <2>1, <2>2 DEF Alike
  <2>4. QED
    BY <2>1, <2>3, StepwiseSame, Zenon
<1>12. g \in [0..n -> Seq(Nat)]
  <2>1. g = [i \in 0..n |-> g[i]]
    BY <1>1, <1>9
  <2>2. QED
    BY <1>5, <1>11, <2>1 DEF Stepwise
<1>13. Joined(s) = g[n]
  BY <1>1, <1>8 DEF Joined
<1>14. QED
  BY <1>1, <1>10, <1>12, <1>13 DEF JoinedBy

\* Joined rows of numbers are numbers.
LEMMA JoinedTyped ==
  ASSUME NEW s \in Seq(Seq(Nat))
  PROVE  Joined(s) \in Seq(Nat)
<1>1. PICK n \in Nat : n = Len(s)
  OBVIOUS
<1>2. PICK f : JoinedBy(s, f) /\ Joined(s) = f[n]
  BY <1>1, JoinedDef
<1>3. QED
  BY <1>1, <1>2 DEF JoinedBy

\* Rows of numbers, one after the other.
LEMMA NumsAppend ==
  ASSUME NEW x \in Seq(Nat), NEW y \in Seq(Nat), NEW p \in Nat
  PROVE  /\ x \o <<>> = x /\ <<>> \o x = x
         /\ x \o y \in Seq(Nat) /\ Len(x \o y) = Len(x) + Len(y)
         /\ x \o Append(y, p) = Append(x \o y, p)
<1>1. x \o <<>> = x /\ <<>> \o x = x
  BY ConcatEmptySeq
<1>2. x \o y \in Seq(Nat) /\ Len(x \o y) = Len(x) + Len(y)
  BY ConcatProperties
<1>3. x \o Append(y, p) = Append(x \o y, p)
  BY <1>2
<1>4. QED
  BY <1>1, <1>2, <1>3

\* Concatenation is associative.
LEMMA NumsConcat ==
  \A x, y, z \in Seq(Nat) : (x \o y) \o z = x \o (y \o z)
<1> SUFFICES ASSUME NEW x \in Seq(Nat), NEW y \in Seq(Nat), NEW z \in Seq(Nat)
             PROVE  (x \o y) \o z = x \o (y \o z)
  OBVIOUS
<1>1. PICK S : S = Nat
  OBVIOUS
<1>2. x \in Seq(S) /\ y \in Seq(S) /\ z \in Seq(S)
  BY <1>1
<1>3. QED
  BY <1>2, ConcatAssociative, SMTT(20)

\* A number at the end of a row that only empty ones follow is the last of all.
OneLonger(s, t, n, m, p) ==
  /\ s \in Seq(Seq(Nat)) /\ t \in Seq(Seq(Nat)) /\ n \in Nat
  /\ Len(s) = n /\ Len(t) = n /\ m \in 1..n /\ p \in Nat
  /\ t[m] = Append(s[m], p)
  /\ \A k \in 1..n : k # m => t[k] = s[k]
  /\ \A k \in (m + 1)..n : s[k] = <<>>

\* A number at the end of a row that only empty rows follow is at the end of all.
LEMMA JoinedAppend ==
  ASSUME NEW s, NEW t, NEW n, NEW m, NEW p, OneLonger(s, t, n, m, p)
  PROVE  Joined(t) = Append(Joined(s), p)
<1> /\ s \in Seq(Seq(Nat)) /\ t \in Seq(Seq(Nat)) /\ n \in Nat
    /\ Len(s) = n /\ Len(t) = n /\ m \in 1..n /\ p \in Nat
    /\ t[m] = Append(s[m], p)
    /\ \A k \in 1..n : k # m => t[k] = s[k]
    /\ \A k \in (m + 1)..n : s[k] = <<>>
  BY DEF OneLonger
<1>1. PICK f : JoinedBy(s, f) /\ Joined(s) = f[n]
  BY JoinedDef
<1>2. PICK g : JoinedBy(t, g) /\ Joined(t) = g[n]
  BY JoinedDef
<1>3. \A k \in 0..n : f[k] \in Seq(Nat)
  BY <1>1 DEF JoinedBy
<1>4. \A k \in 1..n : f[k] = f[k - 1] \o s[k] /\ g[k] = g[k - 1] \o t[k]
  BY <1>1, <1>2 DEF JoinedBy
<1>5. f[m - 1] = g[m - 1]
  <2>1. m - 1 \in Nat /\ \A k \in 1..(m - 1) : k \in 1..n /\ k # m
    OBVIOUS
  <2>2. \A k \in 1..(m - 1) : f[k - 1] = g[k - 1] => f[k] = g[k]
    BY <1>4, <2>1
  <2>3. f[0] = g[0]
    BY <1>1, <1>2 DEF JoinedBy
  <2>4. Alike(m - 1, f, g)
    BY <2>2, <2>3 DEF Alike
  <2>5. QED
    BY <2>1, <2>4, StepwiseSame, Zenon
<1>6. g[m] = Append(f[m], p)
  <2>1. f[m - 1] \in Seq(Nat) /\ s[m] \in Seq(Nat)
    BY <1>3
  <2>2. f[m] = f[m - 1] \o s[m] /\ g[m] = f[m - 1] \o Append(s[m], p)
    BY <1>4, <1>5
  <2>3. \A x, y \in Seq(Nat) : x \o Append(y, p) = Append(x \o y, p)
    BY NumsAppend, ZenonT(40)
  <2>4. f[m - 1] \o Append(s[m], p) = Append(f[m - 1] \o s[m], p)
    BY <2>1, <2>3, Zenon
  <2>5. QED
    BY <2>2, <2>4
<1> DEFINE S == {k \in Nat : m + k <= n => g[m + k] = Append(f[m + k], p)}
<1>7. 0 \in S
  BY <1>6
<1>8. ASSUME NEW k \in Nat, k \in S PROVE k + 1 \in S
  <2> SUFFICES ASSUME m + (k + 1) <= n
               PROVE  g[m + (k + 1)] = Append(f[m + (k + 1)], p)
    OBVIOUS
  <2>1. PICK i \in (m + 1)..n : i = m + (k + 1)
    OBVIOUS
  <2>2. i \in 1..n /\ i # m /\ i - 1 = m + k /\ i - 1 \in 0..n
    BY <2>1
  <2>3. g[i - 1] = Append(f[i - 1], p)
    <3>1. m + k <= n
      OBVIOUS
    <3>2. g[m + k] = Append(f[m + k], p)
      BY <1>8, <3>1
    <3>3. QED
      BY <2>2, <3>2
  <2>4. s[i] = <<>> /\ t[i] = <<>>
    BY <2>2
  <2>5. f[i - 1] \in Seq(Nat)
    BY <1>3, <2>2
  <2>6. f[i] = f[i - 1] /\ g[i] = Append(f[i - 1], p) \o <<>>
    BY <1>4, <2>2, <2>3, <2>4, <2>5, NumsAppend
  <2>7. Append(f[i - 1], p) \in Seq(Nat)
    BY <2>5
  <2>8. g[i] = Append(f[i], p)
    BY <2>6, <2>7, NumsAppend
  <2>9. QED
    BY <2>1, <2>8
<1>9. n - m \in S
  <2>1. n - m \in Nat
    OBVIOUS
  <2>2. QED
    BY <1>7, <1>8, <2>1, NatSetInduction
<1>10. m + (n - m) = n
  OBVIOUS
<1>11. QED
  BY <1>1, <1>2, <1>9, <1>10

\* The first number of the first row is the first of all.
FirstTaken(s, t, n, p) ==
  /\ s \in Seq(Seq(Nat)) /\ t \in Seq(Seq(Nat)) /\ n \in Nat \ {0}
  /\ Len(s) = n /\ Len(t) = n /\ p \in Nat
  /\ s[1] = <<p>> \o t[1]
  /\ \A k \in 2..n : s[k] = t[k]

\* The first number of the first row is the first of all.
LEMMA JoinedTake ==
  ASSUME NEW s, NEW t, NEW n, NEW p, FirstTaken(s, t, n, p)
  PROVE  Joined(s) = <<p>> \o Joined(t)
<1> /\ s \in Seq(Seq(Nat)) /\ t \in Seq(Seq(Nat)) /\ n \in Nat \ {0}
    /\ Len(s) = n /\ Len(t) = n /\ p \in Nat
    /\ s[1] = <<p>> \o t[1]
    /\ \A k \in 2..n : s[k] = t[k]
  BY DEF FirstTaken
<1>1. PICK f : JoinedBy(s, f) /\ Joined(s) = f[n]
  BY JoinedDef
<1>2. PICK g : JoinedBy(t, g) /\ Joined(t) = g[n]
  BY JoinedDef
<1>3. \A k \in 0..n : g[k] \in Seq(Nat)
  BY <1>2 DEF JoinedBy
<1>4. \A k \in 1..n : f[k] = f[k - 1] \o s[k] /\ g[k] = g[k - 1] \o t[k]
  BY <1>1, <1>2 DEF JoinedBy
<1>5. PICK h : h = <<p>>
  OBVIOUS
<1>6. h \in Seq(Nat)
  BY <1>5
<1> DEFINE S == {k \in Nat : k + 1 <= n => f[k + 1] = h \o g[k + 1]}
<1>7. 0 \in S
  <2>1. f[0] = <<>> /\ g[0] = <<>>
    BY <1>1, <1>2 DEF JoinedBy
  <2>2. 1 \in 1..n /\ t[1] \in Seq(Nat) /\ h \o t[1] \in Seq(Nat)
    BY <1>6, NumsAppend
  <2>3. f[1] = f[0] \o s[1] /\ g[1] = g[0] \o t[1]
    <3>1. PICK i \in 1..n : i = 1
      BY <2>2
    <3>2. i - 1 = 0
      BY <3>1
    <3>3. f[i] = f[i - 1] \o s[i] /\ g[i] = g[i - 1] \o t[i]
      BY <1>4, Zenon
    <3>4. QED
      BY <3>1, <3>2, <3>3
  <2>4. PICK x \in Seq(Nat), y \in Seq(Nat) : x = t[1] /\ y = h \o x
    BY <2>2
  <2>5. f[1] = <<>> \o y /\ g[1] = <<>> \o x
    BY <1>5, <2>1, <2>3, <2>4
  <2>6. <<>> \o y = y /\ <<>> \o x = x
    BY NumsAppend
  <2>7. f[1] = h \o g[1] /\ 0 + 1 = 1
    BY <2>4, <2>5, <2>6
  <2>8. QED
    BY <2>7
<1>8. ASSUME NEW k \in Nat, k \in S PROVE k + 1 \in S
  <2> SUFFICES ASSUME (k + 1) + 1 <= n
               PROVE  f[(k + 1) + 1] = h \o g[(k + 1) + 1]
    OBVIOUS
  <2>1. PICK i \in 2..n : i = (k + 1) + 1
    OBVIOUS
  <2>2. i \in 1..n /\ i - 1 = k + 1 /\ i - 1 \in 0..n
    BY <2>1
  <2>3. f[i - 1] = h \o g[i - 1]
    BY <1>8, <2>1, <2>2
  <2>4. g[i - 1] \in Seq(Nat) /\ t[i] \in Seq(Nat) /\ s[i] = t[i]
    BY <1>3, <2>2
  <2>5. f[i] = (h \o g[i - 1]) \o t[i] /\ g[i] = g[i - 1] \o t[i]
    BY <1>4, <2>2, <2>3, <2>4
  <2>6. f[i] = h \o g[i]
    <3>1. PICK x \in Seq(Nat), y \in Seq(Nat) : x = g[i - 1] /\ y = t[i]
      BY <2>4
    <3>2. (h \o x) \o y = h \o (x \o y)
      BY <1>6, NumsConcat, Zenon
    <3>3. QED
      BY <2>5, <3>1, <3>2
  <2>7. QED
    BY <2>1, <2>6
<1>9. n - 1 \in S
  <2>1. n - 1 \in Nat
    OBVIOUS
  <2>2. QED
    BY <1>7, <1>8, <2>1, NatSetInduction
<1>10. (n - 1) + 1 = n
  OBVIOUS
<1>11. QED
  BY <1>1, <1>2, <1>5, <1>9, <1>10

\* When the first row has one number, the others move up and an empty one comes
\* at the end.
MovedUp(s, t, n, p) ==
  /\ s \in Seq(Seq(Nat)) /\ t \in Seq(Seq(Nat)) /\ n \in Nat \ {0}
  /\ Len(s) = n /\ Len(t) = n /\ p \in Nat
  /\ s[1] = <<p>> /\ t[n] = <<>>
  /\ \A k \in 1..(n - 1) : t[k] = s[k + 1]

\* A first row with one number can be taken away, with an empty one put at the end.
LEMMA JoinedRotate ==
  ASSUME NEW s, NEW t, NEW n, NEW p, MovedUp(s, t, n, p)
  PROVE  Joined(s) = <<p>> \o Joined(t)
<1> /\ s \in Seq(Seq(Nat)) /\ t \in Seq(Seq(Nat)) /\ n \in Nat \ {0}
    /\ Len(s) = n /\ Len(t) = n /\ p \in Nat
    /\ s[1] = <<p>> /\ t[n] = <<>>
    /\ \A k \in 1..(n - 1) : t[k] = s[k + 1]
  BY DEF MovedUp
<1>1. PICK f : JoinedBy(s, f) /\ Joined(s) = f[n]
  BY JoinedDef
<1>2. PICK g : JoinedBy(t, g) /\ Joined(t) = g[n]
  BY JoinedDef
<1>3. \A k \in 0..n : g[k] \in Seq(Nat)
  BY <1>2 DEF JoinedBy
<1>4. \A k \in 1..n : f[k] = f[k - 1] \o s[k] /\ g[k] = g[k - 1] \o t[k]
  BY <1>1, <1>2 DEF JoinedBy
<1>5. PICK h : h = <<p>>
  OBVIOUS
<1>6. h \in Seq(Nat)
  BY <1>5
<1> DEFINE S == {k \in Nat : k + 1 <= n => f[k + 1] = h \o g[k]}
<1>7. 0 \in S
  <2>1. f[0] = <<>> /\ g[0] = <<>> /\ 1 \in 1..n
    BY <1>1, <1>2 DEF JoinedBy
  <2>2. f[1] = f[0] \o s[1]
    <3>1. PICK i \in 1..n : i = 1
      BY <2>1
    <3>2. f[i] = f[i - 1] \o s[i]
      BY <1>4, Zenon
    <3>3. i - 1 = 0
      BY <3>1
    <3>4. QED
      BY <3>1, <3>2, <3>3
  <2>3. f[1] = <<>> \o h /\ h \o g[0] = h \o <<>>
    BY <1>5, <2>1, <2>2
  <2>4. <<>> \o h = h /\ h \o <<>> = h
    BY <1>6, NumsAppend
  <2>5. f[0 + 1] = h \o g[0]
    BY <2>3, <2>4
  <2>6. QED
    BY <2>5
<1>8. ASSUME NEW k \in Nat, k \in S PROVE k + 1 \in S
  <2> SUFFICES ASSUME (k + 1) + 1 <= n
               PROVE  f[(k + 1) + 1] = h \o g[k + 1]
    <3>1. k + 1 \in Nat
      OBVIOUS
    <3>2. QED
      BY <3>1
  <2>1. PICK i \in 1..(n - 1) : i = k + 1
    OBVIOUS
  <2>2. i \in 1..n /\ i + 1 \in 1..n /\ i - 1 = k /\ (i + 1) - 1 = i /\ i - 1 \in 0..n
    BY <2>1
  <2>3. f[i] = h \o g[i - 1]
    <3>1. k + 1 <= n => f[k + 1] = h \o g[k]
      BY <1>8
    <3>2. k + 1 <= n
      OBVIOUS
    <3>3. QED
      BY <2>1, <2>2, <3>1, <3>2
  <2>4. g[i - 1] \in Seq(Nat) /\ t[i] \in Seq(Nat) /\ s[i + 1] = t[i]
    BY <1>3, <2>2
  <2>5. f[i + 1] = (h \o g[i - 1]) \o t[i] /\ g[i] = g[i - 1] \o t[i]
    BY <1>4, <2>2, <2>3, <2>4
  <2>6. f[i + 1] = h \o g[i]
    <3>1. PICK x \in Seq(Nat), y \in Seq(Nat) : x = g[i - 1] /\ y = t[i]
      BY <2>4
    <3>2. (h \o x) \o y = h \o (x \o y)
      BY <1>6, NumsConcat, Zenon
    <3>3. QED
      BY <2>5, <3>1, <3>2
  <2>7. QED
    BY <2>1, <2>6
<1>9. n - 1 \in S
  <2>1. n - 1 \in Nat
    OBVIOUS
  <2>2. QED
    BY <1>7, <1>8, <2>1, NatSetInduction
<1>10. (n - 1) + 1 = n /\ n \in 1..n /\ n - 1 \in 0..n
  <2>1. n \in Nat \ {0}
    OBVIOUS
  <2>2. QED
    BY ONLY <2>1
<1>11. f[n] = h \o g[n - 1]
  <2>1. (n - 1) + 1 <= n => f[(n - 1) + 1] = h \o g[n - 1]
    BY <1>9, Zenon
  <2>2. (n - 1) + 1 = n /\ (n - 1) + 1 <= n
    BY <1>10
  <2>3. QED
    BY <2>1, <2>2
<1>12. g[n] = g[n - 1]
  <2>1. PICK x \in Seq(Nat) : x = g[n - 1]
    BY <1>3, <1>10
  <2>2. g[n] = x \o <<>>
    BY <1>4, <1>10, <2>1
  <2>3. x \o <<>> = x
    BY NumsAppend
  <2>4. QED
    BY <2>1, <2>2, <2>3
<1>13. QED
  BY <1>1, <1>2, <1>5, <1>11, <1>12

(* What read() returns and keeps, and the packets that are to be read.      *)

\* A packet's record and a record of drops are as they should be.
LEMMA RecsTyped ==
  /\ \A p \in Nat : /\ PacketRec(p) \in CaptureRecs /\ PacketRec(p).kind = "packet"
                    /\ PacketRec(p).id = p /\ PacketRec(p).count = 0
  /\ \A m \in Nat : /\ LostRec(m) \in CaptureRecs /\ LostRec(m).kind = "lost"
                    /\ LostRec(m).count = m
BY DEF PacketRec, Rec, Captured, OnTheWire, LostRec, CaptureRecs

\* A single record is returned, and nothing is kept.
LEMMA ReturnOne ==
  ASSUME NEW r, ReturnFrom(<<r>>)
  PROVE  out' = Append(out, r) /\ builder' = <<>> /\ pc' = "idle"
<1>1. PICK s : s = <<r>>
  OBVIOUS
<1>2. Len(s) = 1 /\ s[1] = r
  BY <1>1
<1>3. Last(s) = r /\ Front(s) = <<>>
  BY <1>1, <1>2 DEF Last, Front
<1>4. QED
  BY <1>1, <1>3 DEF ReturnFrom

\* Of a packet's record and a count the count is returned first, and the other
\* kept.
LEMMA ReturnTwo ==
  ASSUME NEW r \in CaptureRecs, NEW l \in CaptureRecs, ReturnFrom(<<r, l>>)
  PROVE  out' = Append(out, l) /\ builder' = <<r>> /\ pc' = "idle"
<1>1. PICK s : s = <<r, l>>
  OBVIOUS
<1>2. Len(s) = 2 /\ s[1] = r /\ s[2] = l
  BY <1>1
<1>3. Last(s) = l /\ Front(s) = <<r>>
  <2>1. Last(s) = l /\ Front(s) = SubSeq(s, 1, 1)
    BY <1>2 DEF Last, Front
  <2>2. s \in Seq(CaptureRecs)
    BY <1>1
  <2>3. PICK f : f = SubSeq(s, 1, 1)
    OBVIOUS
  <2>4. f \in Seq(CaptureRecs) /\ Len(f) = 1 /\ f[1] = r
    BY <1>2, <2>2, <2>3
  <2>5. f = <<r>>
    BY <2>4
  <2>6. QED
    BY <2>1, <2>3, <2>5
<1>4. QED
  BY <1>1, <1>3 DEF ReturnFrom

\* A packet is returned at once if there is nothing to report, and otherwise its
\* record is kept and the record of drops goes first.
LEMMA ReturnPacket ==
  ASSUME NEW p \in Nat, NEW m \in Nat, ReturnFrom(BuildPacket(p, m))
  PROVE  /\ pc' = "idle"
         /\ m = 0 => out' = Append(out, PacketRec(p)) /\ builder' = <<>>
         /\ m # 0 => out' = Append(out, LostRec(m)) /\ builder' = <<PacketRec(p)>>
<1>1. CASE m = 0
  <2>1. BuildPacket(p, m) = <<PacketRec(p)>>
    BY <1>1 DEF BuildPacket
  <2>2. QED
    BY <1>1, <2>1, ReturnOne
<1>2. CASE m # 0
  <2>1. PICK r \in CaptureRecs, l \in CaptureRecs : r = PacketRec(p) /\ l = LostRec(m)
    BY RecsTyped
  <2>2. BuildPacket(p, m) = <<r>> \o <<l>>
    BY <1>2, <2>1 DEF BuildPacket
  <2>3. <<r>> \o <<l>> = <<r, l>>
    <3>1. PICK s : s = <<r>>
      OBVIOUS
    <3>2. s \in Seq(CaptureRecs)
      BY <3>1
    <3>3. Append(s, l) = s \o <<l>>
      BY <3>2, AppendIsConcat
    <3>4. Append(s, l) = <<r, l>>
      <4>1. PICK a, b : a = Append(s, l) /\ b = <<r, l>>
        OBVIOUS
      <4>2. Len(s) = 1 /\ s[1] = r
        BY <3>1
      <4>3. a \in Seq(CaptureRecs) /\ Len(a) = 2 /\ a[1] = r /\ a[2] = l
        BY <3>2, <4>1, <4>2
      <4>4. b \in Seq(CaptureRecs) /\ Len(b) = 2 /\ b[1] = r /\ b[2] = l
        BY <4>1
      <4>5. \A i \in 1..Len(a) : a[i] = b[i]
        BY <4>3, <4>4
      <4>6. a = b
        BY <4>3, <4>4, <4>5, SeqEqual
      <4>7. QED
        BY <4>1, <4>6
    <3>5. QED
      BY <3>1, <3>3, <3>4
  <2>4. ReturnFrom(<<r, l>>)
    BY <2>2, <2>3
  <2>5. QED
    BY <1>2, <2>1, <2>4, ReturnTwo
<1>3. QED
  BY <1>1, <1>2

\* One more record of a packet, or of a count.
LEMMA OutPacket ==
  ASSUME NEW p \in Nat, out \in Seq(CaptureRecs), out' = Append(out, PacketRec(p))
  PROVE  IdsOf(out') = Append(IdsOf(out), p) /\ Reported(out') = Reported(out) + 0
<1>1. PICK r \in CaptureRecs : r = PacketRec(p)
  BY RecsTyped
<1>2. r.kind = "packet" /\ r.id = p /\ r.count = 0
  BY <1>1, RecsTyped
<1>3. /\ IdsOf(Append(out, r)) = IF r.kind = "packet" THEN Append(IdsOf(out), r.id) ELSE IdsOf(out)
      /\ Reported(Append(out, r)) = Reported(out) + r.count
  BY IdsAppend, ReportedAppend
<1>4. QED
  BY <1>1, <1>2, <1>3

\* A record of drops that is returned adds its count to what is reported.
LEMMA OutLost ==
  ASSUME NEW m \in Nat, out \in Seq(CaptureRecs), out' = Append(out, LostRec(m))
  PROVE  IdsOf(out') = IdsOf(out) /\ Reported(out') = Reported(out) + m
<1>1. PICK r \in CaptureRecs : r = LostRec(m)
  BY RecsTyped
<1>2. r.kind = "lost" /\ r.count = m
  BY <1>1, RecsTyped
<1>3. /\ IdsOf(Append(out, r)) = IF r.kind = "packet" THEN Append(IdsOf(out), r.id) ELSE IdsOf(out)
      /\ Reported(Append(out, r)) = Reported(out) + r.count
  BY IdsAppend, ReportedAppend
<1>4. QED
  BY <1>1, <1>2, <1>3

\* The packets in one record that is kept.
LEMMA OneRecord ==
  ASSUME NEW p \in Nat
  PROVE  IdsOf(<<PacketRec(p)>>) = <<p>> /\ Reported(<<PacketRec(p)>>) = 0
<1>1. PICK e : e = <<>>
  OBVIOUS
<1>2. e \in Seq(CaptureRecs) /\ PacketRec(p) \in CaptureRecs
  BY <1>1, RecsTyped
<1>3. IdsOf(Append(e, PacketRec(p))) = Append(IdsOf(e), p)
  BY <1>2, IdsAppend, RecsTyped
<1>4. Reported(Append(e, PacketRec(p))) = Reported(e) + 0
  BY <1>2, ReportedAppend, RecsTyped
<1>5. Append(e, PacketRec(p)) = <<PacketRec(p)>>
  BY <1>1
<1>6. Append(IdsOf(e), p) = <<p>> /\ Reported(e) = 0
  <2>1. IdsOf(e) = <<>> /\ Reported(e) = 0
    BY <1>1, IdsNone, ReportedNone
  <2>2. QED
    BY <2>1
<1>7. QED
  BY <1>3, <1>4, <1>5, <1>6

\* When a packet's record is returned, with a count or without, the packet follows
\* the others, and the count is what the records report beyond what they did.
LEMMA PacketReturned ==
  ASSUME NEW p \in Nat, NEW m \in Nat, ReturnFrom(BuildPacket(p, m)),
         out \in Seq(CaptureRecs)
  PROVE  /\ out' \in Seq(CaptureRecs) /\ builder' \in Seq(CaptureRecs)
         /\ IdsOf(out') \o IdsOf(builder') = Append(IdsOf(out), p)
         /\ Reported(out') = Reported(out) + m /\ Reported(builder') = 0
         /\ builder' # <<>> => builder' = <<PacketRec(p)>> /\ IdsOf(out') = IdsOf(out)
<1>1. IdsOf(out) \in Seq(Nat) /\ Reported(out) \in Nat
  BY IdsAppend, ReportedAppend, RecsTyped
<1>2. CASE m = 0
  <2>1. out' = Append(out, PacketRec(p)) /\ builder' = <<>>
    BY <1>2, ReturnPacket
  <2>2. IdsOf(out') = Append(IdsOf(out), p) /\ Reported(out') = Reported(out) + 0
    BY <2>1, OutPacket
  <2>3. IdsOf(builder') = <<>> /\ Reported(builder') = 0
    BY <2>1, IdsNone, ReportedNone
  <2>4. out' \in Seq(CaptureRecs) /\ builder' \in Seq(CaptureRecs)
    BY <2>1, RecsTyped
  <2>5. Append(IdsOf(out), p) \o <<>> = Append(IdsOf(out), p)
    BY <1>1
  <2>6. QED
    BY <1>1, <1>2, <2>1, <2>2, <2>3, <2>4, <2>5
<1>3. CASE m # 0
  <2>1. out' = Append(out, LostRec(m)) /\ builder' = <<PacketRec(p)>>
    BY <1>3, ReturnPacket
  <2>2. IdsOf(out') = IdsOf(out) /\ Reported(out') = Reported(out) + m
    BY <2>1, OutLost
  <2>3. IdsOf(builder') = <<p>> /\ Reported(builder') = 0
    BY <2>1, OneRecord
  <2>4. out' \in Seq(CaptureRecs) /\ builder' \in Seq(CaptureRecs)
    BY <2>1, RecsTyped
  <2>5. IdsOf(out) \o <<p>> = Append(IdsOf(out), p)
    BY <1>1
  <2>6. QED
    BY <2>1, <2>2, <2>3, <2>4, <2>5
<1>4. QED
  BY <1>2, <1>3

\* The record that is kept is returned next.
LEMMA KeptReturned ==
  ASSUME ReaderTyped, builder # <<>>, ReturnFrom(builder)
  PROVE  /\ out' \in Seq(CaptureRecs) /\ builder' = <<>>
         /\ \E p \in Nat : /\ p = builder[1].id /\ IdsOf(builder) = <<p>>
                           /\ out' = Append(out, PacketRec(p))
         /\ IdsOf(out') \o IdsOf(builder') = IdsOf(out) \o IdsOf(builder)
         /\ Reported(out') = Reported(out) /\ Reported(builder) = 0
         /\ Reported(builder') = 0
<1>1. builder \in Seq(CaptureRecs) /\ out \in Seq(CaptureRecs)
      /\ builder = <<PacketRec(builder[1].id)>>
  BY DEF ReaderTyped
<1>2. builder[1] \in CaptureRecs
  BY <1>1
<1>3. PICK p \in Nat : p = builder[1].id
  BY <1>2 DEF CaptureRecs
<1>4. builder = <<PacketRec(p)>> /\ ReturnFrom(<<PacketRec(p)>>)
  BY <1>1, <1>3
<1>5. out' = Append(out, PacketRec(p)) /\ builder' = <<>>
  BY <1>4, ReturnOne
<1>6. IdsOf(builder) = <<p>> /\ Reported(builder) = 0
  BY <1>4, OneRecord
<1>7. IdsOf(out) \in Seq(Nat) /\ Reported(out) \in Nat
  BY <1>1, IdsAppend, ReportedAppend, RecsTyped
<1>8. IdsOf(out') = Append(IdsOf(out), p) /\ Reported(out') = Reported(out) + 0
  BY <1>1, <1>5, OutPacket
<1>9. Append(IdsOf(out), p) \o <<>> = IdsOf(out) \o <<p>>
  BY <1>7
<1>10. out' \in Seq(CaptureRecs)
  BY <1>1, <1>5, RecsTyped
<1>11. IdsOf(builder') = <<>> /\ Reported(builder') = 0
  BY <1>5, IdsNone, ReportedNone
<1>12. IdsOf(out') \o IdsOf(builder') = IdsOf(out) \o IdsOf(builder)
  BY <1>6, <1>8, <1>9, <1>11
<1>13. Reported(out') = Reported(out)
  BY <1>7, <1>8
<1>14. QED
  BY <1>3, <1>5, <1>6, <1>10, <1>11, <1>12, <1>13

(* The slots from the one to read on.                                       *)

\* How many slots there are to a turn round the ring.
Turn == SlotCount(method)

\* Where the slots are: a turn begins and ends at the slot to read, comes to
\* every slot, and to none twice.
Places ==
  /\ Turn \in Nat \ {0} /\ Slots = 0..(Turn - 1) /\ pos \in Slots
  /\ \A k \in 0..Turn : SlotAt(k) \in Slots
  /\ SlotAt(0) = pos /\ SlotAt(Turn) = pos
  /\ \A k \in 0..(Turn - 1) : Next1(SlotAt(k)) = SlotAt(k + 1)
  /\ \A k \in 0..(Turn - 1) : (Next1(pos) + k) % Turn = SlotAt(k + 1)
  /\ \A j, k \in 0..(Turn - 1) : SlotAt(j) = SlotAt(k) => j = k
  /\ \A i \in Slots : \E k \in 0..(Turn - 1) : SlotAt(k) = i

\* A ring that is in use has its slots where Places says.
LEMMA PlacesOf == RingInv /\ method \in Rings => Places
<1> SUFFICES ASSUME RingInv, method \in Rings PROVE Places
  OBVIOUS
<1>1. PICK n : n = Turn
  OBVIOUS
<1>2. pos \in Slots /\ Slots = 0..(n - 1)
  BY <1>1 DEF RingInv, RingTyped, Slots, Turn
<1>3. n \in Nat \ {0}
  <2>1. BlockCount \in Nat /\ FramesPerBlock \in Nat
    BY Geometry
  <2>2. n \in Nat
    BY <1>1, <2>1 DEF Turn, SlotCount
  <2>3. QED
    BY <1>2, <2>2
<1>4. pos \in 0..(n - 1)
  BY <1>2
<1>5. ASSUME NEW k \in 0..n
      PROVE  SlotAt(k) = IF pos + k < n THEN pos + k ELSE (pos + k) - n
  <2>1. PICK x : x = pos + k
    OBVIOUS
  <2>2. x \in 0..(2 * n - 1)
    BY <1>3, <1>4, <2>1
  <2>3. x % n = IF x < n THEN x ELSE x - n
    BY <1>3, <2>2, ModTurn
  <2>4. SlotAt(k) = x % n
    BY <1>1, <2>1 DEF SlotAt, Turn
  <2>5. QED
    BY <2>1, <2>3, <2>4
<1>6. ASSUME NEW i \in 0..(n - 1)
      PROVE  Next1(i) = IF i + 1 < n THEN i + 1 ELSE 0
  <2>1. PICK x : x = i + 1
    OBVIOUS
  <2>2. x \in 0..(2 * n - 1)
    BY <1>3, <2>1
  <2>3. x % n = IF x < n THEN x ELSE x - n
    BY <1>3, <2>2, ModTurn
  <2>4. Next1(i) = x % n
    BY <1>1, <2>1 DEF Next1, Turn
  <2>5. QED
    BY <1>3, <2>1, <2>3, <2>4
<1>7. \A k \in 0..n : SlotAt(k) \in 0..(n - 1)
  BY <1>3, <1>4, <1>5
<1>8. SlotAt(0) = pos /\ SlotAt(n) = pos
  BY <1>3, <1>4, <1>5
<1>9. ASSUME NEW k \in 0..(n - 1) PROVE Next1(SlotAt(k)) = SlotAt(k + 1)
  <2>1. k \in 0..n /\ k + 1 \in 0..n
    BY <1>3
  <2>2. SlotAt(k) = IF pos + k < n THEN pos + k ELSE (pos + k) - n
    BY <1>5, <2>1
  <2>3. SlotAt(k + 1) = IF pos + (k + 1) < n THEN pos + (k + 1) ELSE (pos + (k + 1)) - n
    BY <1>5, <2>1
  <2>4. SlotAt(k) \in 0..(n - 1)
    BY <1>7, <2>1
  <2>5. PICK i \in 0..(n - 1) : i = SlotAt(k)
    BY <2>4
  <2>6. Next1(i) = IF i + 1 < n THEN i + 1 ELSE 0
    BY <1>6
  <2>7. Next1(i) = SlotAt(k + 1)
    BY <1>3, <1>4, <2>2, <2>3, <2>5, <2>6
  <2>8. QED
    BY <2>5, <2>7
<1>10. ASSUME NEW k \in 0..(n - 1) PROVE (Next1(pos) + k) % n = SlotAt(k + 1)
  <2>1. k + 1 \in 0..n
    BY <1>3
  <2>2. SlotAt(k + 1) = IF pos + (k + 1) < n THEN pos + (k + 1) ELSE (pos + (k + 1)) - n
    BY <1>5, <2>1
  <2>3. Next1(pos) = IF pos + 1 < n THEN pos + 1 ELSE 0
    BY <1>4, <1>6
  <2>4. PICK x : x = Next1(pos) + k
    OBVIOUS
  <2>5. x \in 0..(2 * n - 1) /\ (x = pos + (k + 1) \/ (x = k /\ pos + 1 = n))
    BY <1>3, <1>4, <2>3, <2>4
  <2>6. x % n = IF x < n THEN x ELSE x - n
    BY <1>3, <2>5, ModTurn
  <2>7. QED
    BY <1>3, <1>4, <2>2, <2>4, <2>5, <2>6
<1>11. \A j, k \in 0..(n - 1) : SlotAt(j) = SlotAt(k) => j = k
  <2> TAKE j, k \in 0..(n - 1)
  <2>1. /\ SlotAt(j) = IF pos + j < n THEN pos + j ELSE (pos + j) - n
        /\ SlotAt(k) = IF pos + k < n THEN pos + k ELSE (pos + k) - n
    BY <1>3, <1>5
  <2>2. QED
    BY <1>3, <1>4, <2>1
<1>12. ASSUME NEW i \in 0..(n - 1) PROVE \E k \in 0..(n - 1) : SlotAt(k) = i
  <2>1. PICK k : k = IF i >= pos THEN i - pos ELSE (i + n) - pos
    OBVIOUS
  <2>2. k \in 0..(n - 1) /\ k \in 0..n
    BY <1>3, <1>4, <2>1
  <2>3. SlotAt(k) = IF pos + k < n THEN pos + k ELSE (pos + k) - n
    BY <1>5, <2>2
  <2>4. SlotAt(k) = i
    BY <1>3, <1>4, <2>1, <2>3
  <2>5. QED
    BY <2>2, <2>4
<1>13. QED
  BY <1>1, <1>2, <1>3, <1>4, <1>7, <1>8, <1>9, <1>10, <1>11, <1>12 DEF Places

\* What the buffer's packets are made of.
RowTyped ==
  /\ \A i \in Slots : UnreadIn(i) \in Seq(Nat)
  /\ UnreadSlots \in Seq(Seq(Nat)) /\ Len(UnreadSlots) = Turn
  /\ \A k \in 1..Turn : UnreadSlots[k] = UnreadIn(SlotAt(k - 1))
  /\ Unread = Joined(UnreadSlots) /\ Unread \in Seq(Nat)

\* What is unread in a ring is a row of numbers for each slot.
LEMMA RowTypedOf == RingInv /\ method \in Rings => RowTyped
<1> SUFFICES ASSUME RingInv, method \in Rings PROVE RowTyped
  OBVIOUS
<1>1. Places /\ ring \in [Slots -> SlotStates] /\ frame \in Nat
  BY PlacesOf DEF RingInv, RingTyped
<1>2. ASSUME NEW i \in Slots PROVE UnreadIn(i) \in Seq(Nat)
  <2>1. PICK fs \in Seq(Nat) : fs = ring[i].frames
    BY <1>1 DEF SlotStates
  <2>2. SubSeq(fs, frame + 1, Len(fs)) \in Seq(Nat)
    BY <1>1
  <2>3. QED
    BY <2>1, <2>2 DEF UnreadIn
<1>3. PICK n \in Nat \ {0} : n = Turn
  BY <1>1 DEF Places
<1>4. \A k \in 1..n : UnreadIn(SlotAt(k - 1)) \in Seq(Nat)
  <2> TAKE k \in 1..n
  <2>1. k - 1 \in 0..n
    OBVIOUS
  <2>2. SlotAt(k - 1) \in Slots
    BY <1>1, <1>3, <2>1 DEF Places
  <2>3. QED
    BY <1>2, <2>2
<1>5. PICK u : u = UnreadSlots
  OBVIOUS
<1>6. u = [k \in 1..n |-> UnreadIn(SlotAt(k - 1))]
  BY <1>3, <1>5 DEF UnreadSlots, Turn
<1>7. u \in Seq(Seq(Nat)) /\ Len(u) = n /\ \A k \in 1..n : u[k] = UnreadIn(SlotAt(k - 1))
  <2>1. u \in [1..n -> Seq(Nat)]
    BY <1>4, <1>6
  <2>2. QED
    BY <1>6, <2>1
<1>8. Joined(u) \in Seq(Nat)
  BY <1>7, JoinedTyped
<1>9. Unread = Joined(u)
  BY <1>5 DEF Unread, Rings
<1>10. QED
  BY <1>2, <1>3, <1>5, <1>7, <1>8, <1>9 DEF RowTyped

(* What the kernel does to the ring.                                        *)

\* RingOrder, of a ring r whose slot kp the kernel fills, c slots from the reader's.
UnreadWith(r, i) ==
  IF i = last THEN <<>>
  ELSE IF i = pos THEN SubSeq(r[i].frames, frame + 1, Len(r[i].frames))
  ELSE r[i].frames

\* What would be unread if the ring was r.
RowWith(r) == [k \in 1..Turn |-> UnreadWith(r, SlotAt(k - 1))]

\* RingOrder if the ring was r and the kernel's slot kp, the c-th from the slot to
\* read.
OrderWith(r, kp, c) ==
  /\ kp = SlotAt(c)
  /\ \A k \in 0..(Turn - 1) :
        /\ k < c => r[SlotAt(k)].user /\ SlotAt(k) # last
        /\ k >= c => SlotAt(k) = last \/ ~r[SlotAt(k)].user
        /\ k > c \/ (k = c /\ ~Blocks) => UnreadWith(r, SlotAt(k)) = <<>>
  /\ last # NoSlot => last = SlotAt(Turn - 1) /\ c < Turn /\ r[last].user
                      /\ pc = "idle" /\ ~inBlock
  /\ ~Blocks => \A i \in Slots : Len(r[i].frames) <= 1

\* RingOrder is this order of the ring as it is.
LEMMA OrderIs == RingOrder <=> \E c \in 0..Turn : OrderWith(ring, kpos, c)
<1>1. \A i : UnreadWith(ring, i) = UnreadIn(i)
  BY DEF UnreadWith, UnreadIn
<1>2. QED
  BY <1>1, Zenon DEF RingOrder, OrderWith, Turn

\* Any ring has a row for each slot, in the order of the slots.
LEMMA RowWithTyped ==
  ASSUME Places, frame \in Nat, NEW r \in [Slots -> SlotStates]
  PROVE  /\ RowWith(r) \in Seq(Seq(Nat)) /\ Len(RowWith(r)) = Turn
         /\ \A k \in 1..Turn : RowWith(r)[k] = UnreadWith(r, SlotAt(k - 1))
<1>1. ASSUME NEW i \in Slots PROVE UnreadWith(r, i) \in Seq(Nat)
  <2>1. PICK fs \in Seq(Nat) : fs = r[i].frames
    BY DEF SlotStates
  <2>2. SubSeq(fs, frame + 1, Len(fs)) \in Seq(Nat)
    OBVIOUS
  <2>3. QED
    BY <2>1, <2>2 DEF UnreadWith
<1>2. PICK n \in Nat \ {0} : n = Turn
  BY DEF Places
<1>3. \A k \in 1..n : UnreadWith(r, SlotAt(k - 1)) \in Seq(Nat)
  <2> TAKE k \in 1..n
  <2>1. k - 1 \in 0..n
    OBVIOUS
  <2>2. SlotAt(k - 1) \in Slots
    BY <1>2, <2>1 DEF Places
  <2>3. QED
    BY <1>1, <2>2
<1>4. PICK u : u = RowWith(r)
  OBVIOUS
<1>5. u = [k \in 1..n |-> UnreadWith(r, SlotAt(k - 1))]
  BY <1>2, <1>4 DEF RowWith
<1>6. u \in [1..n -> Seq(Nat)]
  BY <1>3, <1>5
<1>7. u \in Seq(Seq(Nat)) /\ Len(u) = n /\ \A k \in 1..n : u[k] = UnreadWith(r, SlotAt(k - 1))
  BY <1>5, <1>6
<1>8. QED
  BY <1>2, <1>4, <1>7

\* A slot that the kernel owns is within the turn, and is not the last one read.
LEMMA KernelSlot ==
  ASSUME Places, NEW r \in [Slots -> SlotStates], NEW kp, NEW c \in 0..Turn,
         OrderWith(r, kp, c), ~r[kp].user
  PROVE  /\ c \in 0..(Turn - 1) /\ kp \in Slots /\ kp = SlotAt(c) /\ kp # last
         /\ last # NoSlot => c < Turn - 1
         /\ Next1(kp) = SlotAt(c + 1)
         /\ \A k \in 0..(Turn - 1) : k # c => SlotAt(k) # kp
<1>1. PICK n \in Nat \ {0} : n = Turn
  BY DEF Places
<1>2. kp = SlotAt(c)
  BY DEF OrderWith
<1>3. c # n
  <2> SUFFICES ASSUME c = n PROVE FALSE
    OBVIOUS
  <2>1. kp = SlotAt(0)
    BY <1>1, <1>2 DEF Places
  <2>2. 0 \in 0..(n - 1) /\ 0 < n
    BY <1>1
  <2>3. r[SlotAt(0)].user
    BY <1>1, <2>2 DEF OrderWith
  <2>4. QED
    BY <2>1, <2>3
<1>4. c \in 0..(n - 1) /\ kp \in Slots
  BY <1>1, <1>2, <1>3 DEF Places
<1>5. kp # last
  <2> SUFFICES ASSUME kp = last PROVE FALSE
    OBVIOUS
  <2>1. last # NoSlot
    BY <1>1, <1>4 DEF Places, NoSlot
  <2>2. r[last].user
    BY <2>1 DEF OrderWith
  <2>3. QED
    BY <2>2
<1>6. ASSUME last # NoSlot PROVE c < n - 1
  <2>1. last = SlotAt(n - 1)
    BY <1>1, <1>6 DEF OrderWith
  <2>2. c # n - 1
    BY <1>2, <1>5, <2>1
  <2>3. QED
    BY <1>1, <1>4, <2>2
<1>7. Next1(kp) = SlotAt(c + 1)
  BY <1>1, <1>2, <1>4 DEF Places
<1>8. ASSUME NEW k \in 0..(n - 1), k # c PROVE SlotAt(k) # kp
  BY <1>1, <1>2, <1>4, <1>8 DEF Places
<1>9. QED
  BY <1>1, <1>2, <1>4, <1>5, <1>6, <1>7, <1>8

\* A slot that is handed over is the last of those to be read.
LEMMA Retiring ==
  ASSUME Places, NEW r \in [Slots -> SlotStates], NEW kp, NEW c \in 0..Turn,
         OrderWith(r, kp, c), ~r[kp].user, Blocks,
         NEW v \in SlotStates, v.user, v.frames = r[kp].frames,
         NEW q, q = [r EXCEPT ![kp] = v]
  PROVE  /\ c + 1 \in 0..Turn /\ OrderWith(q, Next1(kp), c + 1)
         /\ \A i \in Slots : q[i].frames = r[i].frames
         /\ \A i \in Slots : i # kp => q[i] = r[i]
<1>1. PICK n \in Nat \ {0} : n = Turn
  BY DEF Places
<1>2. /\ c \in 0..(n - 1) /\ kp \in Slots /\ kp = SlotAt(c) /\ kp # last
      /\ last # NoSlot => c < n - 1
      /\ Next1(kp) = SlotAt(c + 1)
      /\ \A k \in 0..(n - 1) : k # c => SlotAt(k) # kp
  BY <1>1, KernelSlot
<1>3. \A i \in Slots : q[i] = IF i = kp THEN v ELSE r[i]
  BY <1>2
<1>4. \A i \in Slots : UnreadWith(q, i) = UnreadWith(r, i)
  BY <1>3 DEF UnreadWith
<1>5. c + 1 \in 0..n
  BY <1>1, <1>2
<1>6. ASSUME NEW k \in 0..(n - 1)
      PROVE  /\ k < c + 1 => q[SlotAt(k)].user /\ SlotAt(k) # last
             /\ k >= c + 1 => SlotAt(k) = last \/ ~q[SlotAt(k)].user
             /\ k > c + 1 \/ (k = c + 1 /\ ~Blocks) => UnreadWith(q, SlotAt(k)) = <<>>
  <2> k \in 0..n
    BY <1>1
  <2>1. PICK i \in Slots : i = SlotAt(k)
    BY <1>1 DEF Places
  <2>2. /\ k < c => r[i].user /\ i # last
        /\ k >= c => i = last \/ ~r[i].user
        /\ k > c => UnreadWith(r, i) = <<>>
    BY <1>1, <2>1 DEF OrderWith
  <2>3. k # c => q[i] = r[i]
    BY <1>2, <1>3, <2>1
  <2>4. k = c => q[i].user /\ i # last
    BY <1>2, <1>3, <2>1
  <2>5. k < c + 1 => q[i].user /\ i # last
    BY <1>2, <2>2, <2>3, <2>4
  <2>6. k >= c + 1 => i = last \/ ~q[i].user
    BY <1>2, <2>2, <2>3
  <2>7. k > c + 1 => UnreadWith(q, i) = <<>>
    <3>1. k > c + 1 => k > c
      BY <1>2
    <3>2. UnreadWith(q, i) = UnreadWith(r, i)
      BY <1>4
    <3>3. QED
      BY <2>2, <3>1, <3>2
  <2>8. QED
    BY <2>1, <2>5, <2>6, <2>7
<1>7. last # NoSlot => /\ last = SlotAt(n - 1) /\ c + 1 < n /\ q[last].user
                       /\ pc = "idle" /\ ~inBlock
  <2> SUFFICES ASSUME last # NoSlot
               PROVE  /\ last = SlotAt(n - 1) /\ c + 1 < n /\ q[last].user
                      /\ pc = "idle" /\ ~inBlock
    OBVIOUS
  <2>1. last = SlotAt(n - 1) /\ r[last].user /\ pc = "idle" /\ ~inBlock
    BY <1>1 DEF OrderWith
  <2>2. last \in Slots
    BY <1>1, <2>1 DEF Places
  <2>3. q[last].user
    BY <1>2, <1>3, <2>1, <2>2
  <2>4. QED
    BY <1>2, <2>1, <2>3
<1>8. OrderWith(q, Next1(kp), c + 1)
  BY <1>1, <1>2, <1>6, <1>7 DEF OrderWith
<1>9. QED
  BY <1>1, <1>3, <1>5, <1>8

\* A packet that is stored comes behind all that are in the buffer.
CanPut(r, kp, c, p, v, q, e) ==
  /\ r \in [Slots -> SlotStates] /\ c \in 0..Turn /\ OrderWith(r, kp, c)
  /\ ~r[kp].user /\ (pos = kp => frame = 0) /\ p \in Nat
  /\ v \in SlotStates /\ v.frames = Append(r[kp].frames, p) /\ (v.user <=> ~Blocks)
  /\ q = [r EXCEPT ![kp] = v] /\ e = IF Blocks THEN c ELSE c + 1

\* A packet put in the kernel's slot goes to the end of what is unread, and the slots
\* stay in order.
LEMMA Putting ==
  ASSUME Places, frame \in Nat, NEW r, NEW kp, NEW c, NEW p, NEW v, NEW q, NEW e,
         CanPut(r, kp, c, p, v, q, e)
  PROVE  /\ e \in 0..Turn
         /\ OrderWith(q, IF Blocks THEN kp ELSE Next1(kp), e)
         /\ Joined(RowWith(q)) = Append(Joined(RowWith(r)), p)
<1> /\ r \in [Slots -> SlotStates] /\ c \in 0..Turn /\ OrderWith(r, kp, c)
    /\ ~r[kp].user /\ (pos = kp => frame = 0) /\ p \in Nat
    /\ v \in SlotStates /\ v.frames = Append(r[kp].frames, p) /\ (v.user <=> ~Blocks)
    /\ q = [r EXCEPT ![kp] = v] /\ e = IF Blocks THEN c ELSE c + 1
  BY DEF CanPut
<1>1. PICK n \in Nat \ {0} : n = Turn
  BY DEF Places
<1>2. /\ c \in 0..(n - 1) /\ kp \in Slots /\ kp = SlotAt(c) /\ kp # last
      /\ last # NoSlot => c < n - 1
      /\ Next1(kp) = SlotAt(c + 1)
      /\ \A k \in 0..(n - 1) : k # c => SlotAt(k) # kp
  BY <1>1, KernelSlot
<1>3. \A i \in Slots : q[i] = IF i = kp THEN v ELSE r[i]
  BY <1>2
<1>4. PICK fs \in Seq(Nat) : fs = r[kp].frames
  BY <1>2 DEF SlotStates
<1>5. UnreadWith(r, kp) = fs /\ UnreadWith(q, kp) = Append(fs, p)
  <2>1. PICK gs \in Seq(Nat) : gs = Append(fs, p)
    BY AppendProperties
  <2>2. v.frames = gs
    BY <1>4, <2>1
  <2>3. q[kp] = v
    BY <1>2, <1>3
  <2>4. SubSeq(fs, 0 + 1, Len(fs)) = fs /\ SubSeq(gs, 0 + 1, Len(gs)) = gs
    BY SubSeqFull
  <2>5. CASE kp = pos
    BY <1>2, <1>4, <2>1, <2>2, <2>3, <2>4, <2>5 DEF UnreadWith
  <2>6. CASE kp # pos
    BY <1>2, <1>4, <2>1, <2>2, <2>3, <2>6 DEF UnreadWith
  <2>7. QED
    BY <2>5, <2>6
<1>6. \A i \in Slots : i # kp => UnreadWith(q, i) = UnreadWith(r, i)
  BY <1>3 DEF UnreadWith
<1>7. e \in 0..n
  BY <1>1, <1>2
<1>8. ASSUME NEW k \in 0..(n - 1)
      PROVE  /\ k < e => q[SlotAt(k)].user /\ SlotAt(k) # last
             /\ k >= e => SlotAt(k) = last \/ ~q[SlotAt(k)].user
             /\ k > e \/ (k = e /\ ~Blocks) => UnreadWith(q, SlotAt(k)) = <<>>
  <2> k \in 0..n
    BY <1>1
  <2>1. PICK i \in Slots : i = SlotAt(k)
    BY <1>1 DEF Places
  <2>2. /\ k < c => r[i].user /\ i # last
        /\ k >= c => i = last \/ ~r[i].user
        /\ k > c => UnreadWith(r, i) = <<>>
    BY <1>1, <2>1 DEF OrderWith
  <2>3. k # c => q[i] = r[i] /\ UnreadWith(q, i) = UnreadWith(r, i)
    BY <1>2, <1>3, <1>6, <2>1
  <2>4. k = c => (q[i].user <=> ~Blocks) /\ i # last
    BY <1>2, <1>3, <2>1
  <2>5. CASE Blocks
    <3>1. e = c
      BY <2>5
    <3>2. k < e => q[i].user /\ i # last
      BY <1>2, <3>1, <2>2, <2>3
    <3>3. k >= e => i = last \/ ~q[i].user
      BY <1>2, <2>5, <3>1, <2>2, <2>3, <2>4
    <3>4. k > e => UnreadWith(q, i) = <<>>
      BY <1>2, <3>1, <2>2, <2>3
    <3>5. QED
      BY <2>1, <2>5, <3>2, <3>3, <3>4
  <2>6. CASE ~Blocks
    <3>1. e = c + 1
      BY <2>6
    <3>2. k < e => q[i].user /\ i # last
      BY <1>2, <2>6, <3>1, <2>2, <2>3, <2>4
    <3>3. k >= e => i = last \/ ~q[i].user
      BY <1>2, <3>1, <2>2, <2>3
    <3>4. k >= e => UnreadWith(q, i) = <<>>
      BY <1>2, <3>1, <2>2, <2>3
    <3>5. QED
      BY <1>2, <2>1, <3>1, <3>2, <3>3, <3>4
  <2>7. QED
    BY <2>5, <2>6
<1>9. last # NoSlot => /\ last = SlotAt(n - 1) /\ e < n /\ q[last].user
                       /\ pc = "idle" /\ ~inBlock
  <2> SUFFICES ASSUME last # NoSlot
               PROVE  /\ last = SlotAt(n - 1) /\ e < n /\ q[last].user
                      /\ pc = "idle" /\ ~inBlock
    OBVIOUS
  <2>1. last = SlotAt(n - 1) /\ r[last].user /\ pc = "idle" /\ ~inBlock
    BY <1>1 DEF OrderWith
  <2>2. last \in Slots
    BY <1>1, <2>1 DEF Places
  <2>3. q[last].user
    BY <1>2, <1>3, <2>1, <2>2
  <2>4. e < n
    BY <1>1, <1>2
  <2>5. QED
    BY <2>1, <2>3, <2>4
<1>10. ~Blocks => \A i \in Slots : Len(q[i].frames) <= 1
  <2> SUFFICES ASSUME ~Blocks, NEW i \in Slots PROVE Len(q[i].frames) <= 1
    OBVIOUS
  <2>1. CASE i = kp
    <3>1. UnreadWith(r, kp) = <<>>
      BY <1>1, <1>2 DEF OrderWith
    <3>2. v.frames = Append(<<>>, p)
      BY <1>4, <1>5, <3>1
    <3>3. q[i] = v
      BY <1>3, <2>1
    <3>4. PICK gs : gs = Append(<<>>, p)
      OBVIOUS
    <3>5. Len(gs) = 1 /\ q[i].frames = gs
      BY <3>2, <3>3, <3>4
    <3>6. Len(q[i].frames) = 1
      BY <3>5, Zenon
    <3>7. QED
      BY ONLY <3>6
  <2>2. CASE i # kp
    BY <1>3, <2>2 DEF OrderWith
  <2>3. QED
    BY <2>1, <2>2
<1>11. OrderWith(q, IF Blocks THEN kp ELSE Next1(kp), e)
  <2>1. (IF Blocks THEN kp ELSE Next1(kp)) = SlotAt(e)
    BY <1>2
  <2>2. QED
    BY <1>1, <2>1, <1>8, <1>9, <1>10 DEF OrderWith
<1>12. q \in [Slots -> SlotStates]
  OBVIOUS
<1>13. PICK s, t : s = RowWith(r) /\ t = RowWith(q)
  OBVIOUS
<1>14. /\ s \in Seq(Seq(Nat)) /\ Len(s) = n
       /\ \A k \in 1..n : s[k] = UnreadWith(r, SlotAt(k - 1))
  BY <1>1, <1>13, RowWithTyped
<1>15. /\ t \in Seq(Seq(Nat)) /\ Len(t) = n
       /\ \A k \in 1..n : t[k] = UnreadWith(q, SlotAt(k - 1))
  BY <1>1, <1>12, <1>13, RowWithTyped
<1>16. PICK m \in 1..n : m = c + 1
  BY <1>2
<1>17. s[m] = fs /\ t[m] = Append(fs, p)
  <2>1. SlotAt(m - 1) = kp
    BY <1>2, <1>16
  <2>2. QED
    BY <1>5, <1>14, <1>15, <2>1
<1>18. \A k \in 1..n : k # m => t[k] = s[k]
  <2> SUFFICES ASSUME NEW k \in 1..n, k # m PROVE t[k] = s[k]
    OBVIOUS
  <2>1. k - 1 \in 0..(n - 1) /\ k - 1 # c /\ k - 1 \in 0..n
    BY <1>16
  <2>2. SlotAt(k - 1) # kp /\ SlotAt(k - 1) \in Slots
    BY <1>1, <1>2, <2>1 DEF Places
  <2>3. QED
    BY <1>6, <1>14, <1>15, <2>2
<1>19. \A k \in (m + 1)..n : s[k] = <<>>
  <2> TAKE k \in (m + 1)..n
  <2>1. k - 1 \in 0..(n - 1) /\ k - 1 > c /\ k \in 1..n
    BY <1>2, <1>16
  <2>2. UnreadWith(r, SlotAt(k - 1)) = <<>>
    BY <1>1, <2>1 DEF OrderWith
  <2>3. QED
    BY <1>14, <2>1, <2>2
<1>20. Joined(t) = Append(Joined(s), p)
  <2>1. t[m] = Append(s[m], p)
    BY <1>17
  <2>2. s \in Seq(Seq(Nat)) /\ t \in Seq(Seq(Nat)) /\ Len(s) = n /\ Len(t) = n
    BY <1>14, <1>15
  <2>3. n \in Nat /\ m \in 1..n /\ p \in Nat
    OBVIOUS
  <2>4. OneLonger(s, t, n, m, p)
    BY <2>1, <2>2, <2>3, <1>18, <1>19 DEF OneLonger
  <2>5. QED
    BY <2>4, JoinedAppend
<1>21. QED
  BY <1>1, <1>7, <1>11, <1>13, <1>20

\* What handing a slot over changes: its owner, and whether losses are flagged.
LEMMA RetiredIs ==
  ASSUME NEW s \in SlotStates
  PROVE  /\ Retired(s) \in SlotStates /\ Retired(s).user
         /\ Retired(s).frames = s.frames /\ (Retired(s).losing <=> kdrops > 0)
<1>1. PICK l : l = (kdrops > 0)
  OBVIOUS
<1>2. l \in BOOLEAN
  BY <1>1
<1>3. Retired(s) = [s EXCEPT !.user = TRUE, !.losing = l]
  BY <1>1 DEF Retired
<1>4. Retired(s).losing = (kdrops > 0)
  BY DEF Retired, SlotStates
<1>5. Retired(s) \in SlotStates /\ Retired(s).user /\ Retired(s).frames = s.frames
  BY <1>2, <1>3 DEF SlotStates
<1>6. QED
  BY <1>4, <1>5

\* What is unread depends only on the frames of the slots.
LEMMA RowFrames ==
  ASSUME Places, NEW r, NEW q, \A i \in Slots : q[i].frames = r[i].frames
  PROVE  RowWith(q) = RowWith(r)
<1>1. PICK n \in Nat \ {0} : n = Turn
  BY DEF Places
<1>2. ASSUME NEW k \in 1..n
      PROVE  UnreadWith(q, SlotAt(k - 1)) = UnreadWith(r, SlotAt(k - 1))
  <2>1. k - 1 \in 0..n
    OBVIOUS
  <2>2. SlotAt(k - 1) \in Slots
    BY <1>1, <2>1 DEF Places
  <2>3. QED
    BY <2>2 DEF UnreadWith
<1>3. QED
  BY <1>1, <1>2 DEF RowWith

\* A slot's flag says whether there had been drops when it was handed over.
Flagged ==
  \A i \in Slots : ring'[i].user /\ ring'[i] # ring[i] => (ring'[i].losing <=> kdrops > 0)

\* The kernel's timer hands a slot over, and nothing moves.
LEMMA TimerOrder ==
  ASSUME RingInv, RingOrder, method \in Rings, RetireByTimer
  PROVE  /\ \E c \in 0..Turn : OrderWith(ring', kpos', c)
         /\ Joined(RowWith(ring')) = Joined(RowWith(ring))
         /\ \A i \in Slots : ring'[i].frames = ring[i].frames
         /\ Flagged
<1>1. Places /\ ring \in [Slots -> SlotStates]
  BY PlacesOf DEF RingInv, RingTyped
<1>2. PICK c \in 0..Turn : OrderWith(ring, kpos, c)
  BY OrderIs
<1>3. Blocks /\ ~ring[kpos].user /\ ring' = [ring EXCEPT ![kpos] = Retired(ring[kpos])]
      /\ kpos' = Next1(kpos)
  BY DEF RetireByTimer
<1>4. kpos \in Slots
  BY <1>1, <1>2, <1>3, KernelSlot
<1>5. PICK v : v = Retired(ring[kpos])
  OBVIOUS
<1>6. v \in SlotStates /\ v.user /\ v.frames = ring[kpos].frames /\ (v.losing <=> kdrops > 0)
  <2>1. ring[kpos] \in SlotStates
    BY <1>1, <1>4
  <2>2. QED
    BY <1>5, <2>1, RetiredIs
<1>7. ring' = [ring EXCEPT ![kpos] = v]
  BY <1>3, <1>5
<1>8. /\ c + 1 \in 0..Turn /\ OrderWith(ring', Next1(kpos), c + 1)
      /\ \A i \in Slots : ring'[i].frames = ring[i].frames
      /\ \A i \in Slots : i # kpos => ring'[i] = ring[i]
  BY <1>1, <1>2, <1>3, <1>6, <1>7, Retiring
<1>9. Flagged
  BY <1>1, <1>4, <1>6, <1>7, <1>8 DEF Flagged
<1>10. RowWith(ring') = RowWith(ring)
  BY <1>1, <1>8, RowFrames
<1>11. QED
  BY <1>3, <1>8, <1>9, <1>10

\* The packet that arrives comes behind all in the buffer, or is dropped.
Stored(p) ==
  /\ Joined(RowWith(ring')) = Append(Joined(RowWith(ring)), p)
  /\ UNCHANGED <<lost, kdrops>>
  /\ \A i \in Slots :
        ring'[i].frames = ring[i].frames \/ ring'[i].frames = Append(ring[i].frames, p)

\* The packet is dropped, and no frame is written.
NotStored ==
  /\ Joined(RowWith(ring')) = Joined(RowWith(ring))
  /\ Drop
  /\ \A i \in Slots : ring'[i].frames = ring[i].frames

\* A packet that arrives goes to the end of what is unread or is dropped, and the
\* slots stay in order.
LEMMA ArrivalOrder ==
  ASSUME RingInv, RingOrder, method \in Rings, NEW p \in Nat, StoreInRing(p)
  PROVE  /\ \E c \in 0..Turn : OrderWith(ring', kpos', c)
         /\ Stored(p) \/ NotStored
         /\ Flagged
<1>1. Places /\ ring \in [Slots -> SlotStates] /\ frame \in Nat /\ ReadersPlace
  BY PlacesOf DEF RingInv, RingTyped
<1>2. PICK c \in 0..Turn : OrderWith(ring, kpos, c)
  BY OrderIs
<1> DEFINE s == ring[kpos]
           full == Blocks /\ ~s.user /\ Len(s.frames) = PerSlot
           closed == IF full THEN [ring EXCEPT ![kpos] = Retired(s)] ELSE ring
           at == IF full THEN Next1(kpos) ELSE kpos
           put == [closed[at] EXCEPT !.frames = Append(@, p)]
<1>3. PICK r, kp : r = closed /\ kp = at
  OBVIOUS
<1>4. /\ r \in [Slots -> SlotStates] /\ \E d \in 0..Turn : OrderWith(r, kp, d)
      /\ \A i \in Slots : r[i].frames = ring[i].frames
      /\ \A i \in Slots : r[i] = ring[i] \/ (r[i].user /\ (r[i].losing <=> kdrops > 0))
      /\ \A i \in Slots : ring[i].user => r[i].user
  <2>1. CASE full
    <3>1. PICK v : v = Retired(s)
      OBVIOUS
    <3>2. kpos \in Slots
      BY <1>1, <1>2, <2>1, KernelSlot
    <3>3. v \in SlotStates /\ v.user /\ v.frames = s.frames /\ (v.losing <=> kdrops > 0)
      <4>1. ring[kpos] \in SlotStates
        BY <1>1, <3>2
      <4>2. QED
        BY <3>1, <4>1, RetiredIs
    <3>4. r = [ring EXCEPT ![kpos] = v] /\ kp = Next1(kpos)
      BY <1>3, <2>1, <3>1
    <3>5. /\ c + 1 \in 0..Turn /\ OrderWith(r, Next1(kpos), c + 1)
          /\ \A i \in Slots : r[i].frames = ring[i].frames
          /\ \A i \in Slots : i # kpos => r[i] = ring[i]
      <4>1. v \in SlotStates /\ v.user /\ v.frames = ring[kpos].frames
            /\ ~ring[kpos].user /\ Blocks
        BY <2>1, <3>3
      <4>2. r = [ring EXCEPT ![kpos] = v]
        BY <3>4
      <4>3. QED
        BY <1>1, <1>2, <4>1, <4>2, Retiring
    <3>6. r \in [Slots -> SlotStates] /\ r[kpos] = v
      BY <1>1, <3>2, <3>3, <3>4
    <3>7. \A i \in Slots : ring[i].user => r[i].user
      BY <3>3, <3>5, <3>6
    <3>8. \A i \in Slots : r[i] = ring[i] \/ (r[i].user /\ (r[i].losing <=> kdrops > 0))
      BY <3>3, <3>5, <3>6
    <3>9. QED
      BY <3>4, <3>5, <3>6, <3>7, <3>8
  <2>2. CASE ~full
    <3>1. r = ring /\ kp = kpos
      BY <1>3, <2>2
    <3>2. QED
      BY <1>1, <1>2, <3>1
  <2>3. QED
    BY <2>1, <2>2
<1>5. PICK d \in 0..Turn : OrderWith(r, kp, d)
  BY <1>4
<1>6. RowWith(r) = RowWith(ring)
  BY <1>1, <1>4, RowFrames
<1>7. CASE r[kp].user
  <2>1. ring' = r /\ kpos' = kp /\ Drop
    BY <1>3, <1>7 DEF StoreInRing
  <2>2. Flagged
    BY <1>4, <2>1 DEF Flagged
  <2>3. NotStored
    BY <1>4, <1>6, <2>1 DEF NotStored
  <2>4. QED
    BY <1>5, <2>1, <2>2, <2>3
<1>8. CASE ~r[kp].user
  <2>0. PICK u : u = put
    OBVIOUS
  <2>1. PICK v : v = IF Blocks THEN u ELSE Retired(u)
    OBVIOUS
  <2>2. /\ ring' = [r EXCEPT ![kp] = v]
        /\ kpos' = IF Blocks THEN kp ELSE Next1(kp)
        /\ UNCHANGED <<lost, kdrops>>
    BY <1>3, <1>8, <2>0, <2>1 DEF StoreInRing
  <2>3. kp \in Slots
    BY <1>1, <1>4, <1>5, <1>8, KernelSlot
  <2>4. u \in SlotStates /\ u.frames = Append(r[kp].frames, p) /\ ~u.user
    <3>1. PICK w : w = r[kp]
      OBVIOUS
    <3>2. w \in SlotStates /\ ~w.user
      BY <1>4, <1>8, <2>3, <3>1
    <3>3. PICK fs : fs = Append(w.frames, p)
      OBVIOUS
    <3>4. fs \in Seq(Nat)
      BY <3>2, <3>3 DEF SlotStates
    <3>5. u = [w EXCEPT !.frames = fs]
      BY <1>3, <2>0, <3>1, <3>3
    <3>6. QED
      BY <3>1, <3>2, <3>3, <3>4, <3>5 DEF SlotStates
  <2>5. /\ v \in SlotStates /\ v.frames = Append(r[kp].frames, p) /\ (v.user <=> ~Blocks)
        /\ v.user => (v.losing <=> kdrops > 0)
    <3>1. CASE Blocks
      BY <2>1, <2>4, <3>1
    <3>2. CASE ~Blocks
      <4>1. v = Retired(u)
        BY <2>1, <3>2
      <4>2. Retired(u) \in SlotStates /\ Retired(u).user
            /\ Retired(u).frames = u.frames /\ (Retired(u).losing <=> kdrops > 0)
        BY <2>4, RetiredIs
      <4>3. QED
        BY <2>4, <3>2, <4>1, <4>2
    <3>3. QED
      BY <3>1, <3>2
  <2>6. pos = kp => frame = 0
    BY <1>1, <1>4, <1>8, <2>3 DEF ReadersPlace
  <2>7. PICK e : e = IF Blocks THEN d ELSE d + 1
    OBVIOUS
  <2>8. /\ e \in 0..Turn /\ OrderWith(ring', kpos', e)
        /\ Joined(RowWith(ring')) = Append(Joined(RowWith(r)), p)
    <3>1. PICK q : q = ring'
      OBVIOUS
    <3>2. q = [r EXCEPT ![kp] = v]
      BY <2>2, <3>1
    <3>3. /\ e \in 0..Turn
          /\ OrderWith(q, IF Blocks THEN kp ELSE Next1(kp), e)
          /\ Joined(RowWith(q)) = Append(Joined(RowWith(r)), p)
      <4>1. CanPut(r, kp, d, p, v, q, e)
        BY <1>4, <1>5, <1>8, <2>5, <2>6, <2>7, <3>2 DEF CanPut
      <4>2. QED
        BY <1>1, <4>1, Putting
    <3>4. QED
      BY <2>2, <3>1, <3>3
  <2>9. \A i \in Slots : ring'[i] = IF i = kp THEN v ELSE r[i]
    BY <1>4, <2>2
  <2>10. Flagged
    BY <1>4, <2>5, <2>9 DEF Flagged
  <2>11. Stored(p)
    <3>1. \A i \in Slots :
            ring'[i].frames = ring[i].frames \/ ring'[i].frames = Append(ring[i].frames, p)
      BY <1>4, <2>5, <2>9
    <3>2. QED
      BY <1>6, <2>2, <2>8, <3>1 DEF Stored
  <2>12. QED
    BY <2>8, <2>10, <2>11
<1>9. QED
  BY <1>7, <1>8

(* What the reader does to the ring.                                        *)

\* The packets to be read in slot i, of a ring r read up to frame f of slot h, with
\* slot l the last one read.
UnreadAs(r, l, h, f, i) ==
  IF i = l THEN <<>>
  ELSE IF i = h THEN SubSeq(r[i].frames, f + 1, Len(r[i].frames))
  ELSE r[i].frames

\* RingOrder, c slots from the reader's.
OrderAt(c) ==
  /\ c \in 0..Turn /\ kpos = SlotAt(c)
  /\ \A k \in 0..(Turn - 1) :
        /\ k < c => ring[SlotAt(k)].user /\ SlotAt(k) # last
        /\ k >= c => SlotAt(k) = last \/ ~ring[SlotAt(k)].user
        /\ k > c \/ (k = c /\ ~Blocks) =>
              UnreadAs(ring, last, pos, frame, SlotAt(k)) = <<>>
  /\ last # NoSlot => last = SlotAt(Turn - 1) /\ c < Turn /\ ring[last].user
                      /\ pc = "idle" /\ ~inBlock
  /\ ~Blocks => \A i \in Slots : Len(ring[i].frames) <= 1

\* The slots are in order, whatever number of them has been handed over.
Ordered == \E c : OrderAt(c)

\* RingOrder is that there is such a number.
LEMMA OrderAtIs == RingOrder <=> Ordered
<1>1. \A i : UnreadAs(ring, last, pos, frame, i) = UnreadIn(i)
  BY DEF UnreadAs, UnreadIn
<1>2. QED
  BY <1>1, Zenon DEF RingOrder, Ordered, OrderAt, Turn

\* The rows that Unread joins, now and after the step.
RowIs ==
  /\ UnreadSlots \in Seq(Seq(Nat)) /\ Len(UnreadSlots) = Turn
  /\ \A k \in 1..Turn :
        UnreadSlots[k] = UnreadAs(ring, last, pos, frame, SlotAt(k - 1))
  /\ Unread = Joined(UnreadSlots) /\ Unread \in Seq(Nat)

\* What is unread is the first slot's row and then the others'.
LEMMA RowIsOf == RingInv /\ method \in Rings => RowIs
<1>1. \A i : UnreadAs(ring, last, pos, frame, i) = UnreadIn(i)
  BY DEF UnreadAs, UnreadIn
<1>2. QED
  BY <1>1, RowTypedOf DEF RowTyped, RowIs

\* The first number of what is left of a row, and the last.
LEMMA HeadOfRest ==
  ASSUME NEW fs \in Seq(Nat), NEW f \in Nat, f + 1 \in 1..Len(fs)
  PROVE  SubSeq(fs, f + 1, Len(fs)) = <<fs[f + 1]>> \o SubSeq(fs, f + 2, Len(fs))
<1>1. PICK m \in 1..Len(fs) : m = f + 1
  OBVIOUS
<1>2. PICK n \in Nat : n = Len(fs)
  OBVIOUS
<1>3. SubSeq(fs, m, m) \o SubSeq(fs, m + 1, n) = SubSeq(fs, m, n)
  BY <1>1, <1>2, ConcatAdjacentSubSeq
<1>4. SubSeq(fs, m, m) = <<fs[m]>>
  <2>1. PICK a, b : a = SubSeq(fs, m, m) /\ b = <<fs[m]>>
    OBVIOUS
  <2>2. a \in Seq(Nat) /\ Len(a) = 1 /\ a[1] = fs[m]
    BY <1>1, <2>1
  <2>3. b \in Seq(Nat) /\ Len(b) = 1 /\ b[1] = fs[m]
    BY <1>1, <2>1
  <2>4. a = b
    BY <2>2, <2>3, SeqEqual
  <2>5. QED
    BY <2>1, <2>4
<1>5. m + 1 = f + 2
  BY <1>1
<1>6. QED
  BY <1>1, <1>2, <1>3, <1>4, <1>5

\* Where one frame is left, it is the rest.
LEMMA LastOfRest ==
  ASSUME NEW fs \in Seq(Nat), NEW f \in Nat, f + 1 = Len(fs)
  PROVE  SubSeq(fs, f + 1, Len(fs)) = <<fs[f + 1]>>
<1>1. PICK m \in 1..Len(fs) : m = f + 1 /\ m = Len(fs)
  OBVIOUS
<1>2. PICK a, b : a = SubSeq(fs, m, m) /\ b = <<fs[m]>>
  OBVIOUS
<1>3. a \in Seq(Nat) /\ Len(a) = 1 /\ a[1] = fs[m]
  BY <1>1, <1>2
<1>4. b \in Seq(Nat) /\ Len(b) = 1 /\ b[1] = fs[m]
  BY <1>1, <1>2
<1>5. a = b
  BY <1>3, <1>4, SeqEqual
<1>6. QED
  BY <1>1, <1>2, <1>5

\* A frame that is read is the first of what was unread, is in the slot to read, and
\* its record goes out with the drops that were taken: the slots stay in order.
LEMMA FrameRead ==
  ASSUME RingInv, RingInv', ReaderTyped, RingOrder, method \in Rings, method' = method,
         BlockFrame \/ SingleFrame
  PROVE  /\ RingOrder'
         /\ \E p \in Nat : /\ ReturnFrom(BuildPacket(p, dropped))
                           /\ Unread = <<p>> \o Unread'
                           /\ Contains(ring[pos].frames, p)
<1>1. Places /\ RowIs /\ RowIs' /\ Places'
  <2>1. Places /\ RowIs
    BY PlacesOf, RowIsOf
  <2>2. Places' /\ RowIs'
    <3>1. RingInv' /\ (method \in Rings)'
      OBVIOUS
    <3>2. QED
      BY <3>1, PlacesOf, RowIsOf, PTL
  <2>3. QED
    BY <2>1, <2>2
<1>2. PICK n \in Nat \ {0} : n = Turn /\ n = Turn'
  BY <1>1 DEF Places, Turn
<1>3. /\ pc = "frame" /\ ring[pos].user /\ inBlock = Blocks
      /\ ring \in [Slots -> SlotStates] /\ pos \in Slots /\ frame \in Nat
      /\ frame < Len(ring[pos].frames) /\ dropped \in Nat /\ (Blocks => dropped = 0)
      /\ (SingleFrame => frame = 0)
  <2>1. RingTyped /\ ReadersPlace
    BY DEF RingInv
  <2>2. pc = "frame" /\ ring[pos].user /\ inBlock = Blocks
    BY <2>1 DEF BlockFrame, SingleFrame, ReadersPlace
  <2>3. ring \in [Slots -> SlotStates] /\ pos \in Slots /\ frame \in Nat
    BY <2>1 DEF RingTyped
  <2>4. frame < Len(ring[pos].frames) /\ (SingleFrame => frame = 0)
    BY <2>1, <2>2, <2>3 DEF ReadersPlace, SlotStates, SingleFrame
  <2>5. dropped \in Nat /\ (Blocks => dropped = 0)
    BY DEF ReaderTyped
  <2>6. QED
    BY <2>2, <2>3, <2>4, <2>5
<1>4. PICK fs \in Seq(Nat) : fs = ring[pos].frames
  BY <1>3 DEF SlotStates
<1>5. frame + 1 \in 1..Len(fs)
  BY <1>3, <1>4
<1>6. PICK p \in Nat : p = fs[frame + 1]
  BY <1>4, <1>5
<1>7. Contains(ring[pos].frames, p)
  BY <1>4, <1>5, <1>6 DEF Contains
<1>8. ReturnFrom(BuildPacket(p, dropped))
  BY <1>3, <1>4, <1>6 DEF BlockFrame, SingleFrame
<1>9. /\ ring' = ring /\ kpos' = kpos /\ pc' = "idle" /\ Slots' = Slots
      /\ Blocks' = Blocks
  BY <1>8 DEF BlockFrame, SingleFrame, ReturnFrom, kernelVars, Slots, Blocks
<1>10. PICK c : OrderAt(c)
  BY OrderAtIs DEF Ordered
<1>11. last = NoSlot
  BY <1>3, <1>10 DEF OrderAt
<1>12. /\ c \in 0..n /\ kpos = SlotAt(c)
       /\ \A k \in 0..(n - 1) :
            /\ k < c => ring[SlotAt(k)].user
            /\ k >= c => SlotAt(k) = last \/ ~ring[SlotAt(k)].user
            /\ k > c \/ (k = c /\ ~Blocks) =>
                  UnreadAs(ring, last, pos, frame, SlotAt(k)) = <<>>
       /\ ~Blocks => \A i \in Slots : Len(ring[i].frames) <= 1
  BY <1>2, <1>10 DEF OrderAt
<1>13. /\ \A k \in 0..n : SlotAt(k) \in Slots
       /\ SlotAt(0) = pos /\ SlotAt(n) = pos
       /\ \A k \in 0..(n - 1) : (Next1(pos) + k) % n = SlotAt(k + 1)
       /\ \A j, k \in 0..(n - 1) : SlotAt(j) = SlotAt(k) => j = k
       /\ Slots = 0..(n - 1)
  BY <1>1, <1>2 DEF Places
<1>14. \A i \in Slots : i # last
  BY <1>11, <1>13 DEF NoSlot
<1>15. c >= 1
  <2> SUFFICES ASSUME c = 0 PROVE FALSE
    BY <1>12
  <2>1. 0 \in 0..(n - 1) /\ 0 >= c
    OBVIOUS
  <2>2. pos = last \/ ~ring[pos].user
    BY <1>12, <1>13, <2>1
  <2>3. QED
    BY <1>3, <1>14, <2>2
<1>16. /\ UnreadSlots \in Seq(Seq(Nat)) /\ Len(UnreadSlots) = n
       /\ \A k \in 1..n :
             UnreadSlots[k] = UnreadAs(ring, last, pos, frame, SlotAt(k - 1))
       /\ Unread = Joined(UnreadSlots)
  BY <1>1, <1>2 DEF RowIs
<1>17. /\ UnreadSlots' \in Seq(Seq(Nat)) /\ Len(UnreadSlots') = n
       /\ \A k \in 1..n :
             UnreadSlots'[k] = UnreadAs(ring', last', pos', frame', SlotAt(k - 1)')
       /\ Unread' = Joined(UnreadSlots')
  BY <1>1, <1>2 DEF RowIs, UnreadAs, Joined
<1>18. UnreadSlots[1] = SubSeq(fs, frame + 1, Len(fs))
  <2>1. 1 \in 1..n /\ 1 - 1 = 0
    OBVIOUS
  <2>2. UnreadSlots[1] = UnreadAs(ring, last, pos, frame, SlotAt(0))
    BY <1>16, <2>1
  <2>3. QED
    BY <1>3, <1>4, <1>13, <1>14, <2>2 DEF UnreadAs
<1>19. pos \in Slots' /\ \A k \in 1..(n - 1) : SlotAt(k) # pos
  <2>1. \A k \in 1..(n - 1) : k \in 0..(n - 1) /\ 0 \in 0..(n - 1) /\ k # 0
    OBVIOUS
  <2>2. QED
    BY <1>3, <1>9, <1>13, <2>1
<1>20. PICK s, t : s = UnreadSlots /\ t = UnreadSlots'
  OBVIOUS
<1>21. CASE frame + 1 # Len(fs)
  <2>1. /\ frame' = frame + 1 /\ last' = last /\ pos' = pos /\ inBlock' = inBlock
        /\ Blocks
    <3>1. ~SingleFrame
      <4> SUFFICES ASSUME SingleFrame PROVE FALSE
        OBVIOUS
      <4>1. ~Blocks /\ frame = 0
        BY <1>3 DEF SingleFrame
      <4>2. Len(fs) <= 1
        BY <1>3, <1>4, <1>12, <4>1
      <4>3. QED
        <5>1. PICK m \in Nat : m = Len(fs)
          OBVIOUS
        <5>2. m >= 1 /\ m <= 1 /\ m # 1
          BY <1>5, <1>21, <4>1, <4>2, <5>1
        <5>3. QED
          BY <5>2
    <3>2. QED
      BY <1>4, <1>21, <3>1 DEF BlockFrame
  <2>2. \A k : SlotAt(k)' = SlotAt(k)
    BY <2>1 DEF SlotAt
  <2>3. \A k \in 1..(n - 1) : UnreadAs(ring', last', pos', frame', SlotAt(k))
                               = UnreadAs(ring, last, pos, frame, SlotAt(k))
    BY <1>9, <1>19, <2>1 DEF UnreadAs
  <2>4. t[1] = SubSeq(fs, frame + 2, Len(fs))
    <3>1. 1 \in 1..n /\ 1 - 1 = 0
      OBVIOUS
    <3>2. t[1] = UnreadAs(ring', last', pos', frame', pos)
      BY <1>13, <1>17, <1>20, <2>2, <3>1
    <3>3. frame' + 1 = frame + 2
      BY <1>3, <2>1
    <3>4. QED
      BY <1>3, <1>4, <1>9, <1>14, <2>1, <3>2, <3>3 DEF UnreadAs
  <2>5. s[1] = <<p>> \o t[1]
    BY <1>3, <1>5, <1>6, <1>18, <1>20, <2>4, HeadOfRest
  <2>6. \A k \in 2..n : s[k] = t[k]
    <3> TAKE k \in 2..n
    <3>1. k - 1 \in 1..(n - 1) /\ k \in 1..n
      OBVIOUS
    <3>2. QED
      BY <1>16, <1>17, <1>20, <2>2, <2>3, <3>1
  <2>7. Unread = <<p>> \o Unread'
    <3>1. FirstTaken(s, t, n, p)
      BY <1>16, <1>17, <1>20, <2>5, <2>6 DEF FirstTaken
    <3>2. QED
      BY <1>16, <1>17, <1>20, <3>1, JoinedTake
  <2>8. OrderAt(c)'
    <3>1. \A k \in 0..(n - 1) :
             /\ k < c => ring[SlotAt(k)].user /\ SlotAt(k) # last
             /\ k >= c => SlotAt(k) = last \/ ~ring[SlotAt(k)].user
             /\ k > c => UnreadAs(ring', last', pos', frame', SlotAt(k)) = <<>>
      <4> TAKE k \in 0..(n - 1)
      <4>1. k < c => ring[SlotAt(k)].user /\ SlotAt(k) # last
        BY <1>2, <1>10 DEF OrderAt
      <4>2. k > c => k \in 1..(n - 1)
        BY <1>12, <1>15
      <4>3. k > c => UnreadAs(ring', last', pos', frame', SlotAt(k)) = <<>>
        BY <1>12, <2>3, <4>2
      <4>4. QED
        BY <1>12, <4>1, <4>3
    <3>2. last' = NoSlot
      BY <1>11, <2>1
    <3>3. \A k \in 0..(n - 1) :
             /\ k < c => ring'[SlotAt(k)'].user /\ SlotAt(k)' # last'
             /\ k >= c => SlotAt(k)' = last' \/ ~ring'[SlotAt(k)'].user
             /\ k > c \/ (k = c /\ ~Blocks') =>
                   UnreadAs(ring', last', pos', frame', SlotAt(k)') = <<>>
      BY <1>9, <2>1, <2>2, <3>1
    <3>4. ~Blocks' => \A i \in Slots' : Len(ring'[i].frames) <= 1
      BY <1>9, <2>1
    <3>5. c \in 0..Turn' /\ kpos' = SlotAt(c)' /\ n = Turn'
      BY <1>2, <1>9, <1>12, <2>2
    <3>6. QED
      BY <3>2, <3>3, <3>4, <3>5 DEF OrderAt, UnreadAs
  <2>9. RingOrder'
    <3>1. Ordered'
      BY <2>8 DEF Ordered
    <3>2. QED
      BY <3>1, OrderAtIs, PTL
  <2>10. QED
    BY <1>7, <1>8, <2>7, <2>9
<1>22. CASE frame + 1 = Len(fs)
  <2>1. /\ frame' = 0 /\ last' = pos /\ pos' = Next1(pos) /\ inBlock' = FALSE
    <3>1. CASE BlockFrame
      BY <1>4, <1>22, <3>1 DEF BlockFrame
    <3>2. CASE SingleFrame
      BY <1>3, <3>2 DEF SingleFrame
    <3>3. QED
      BY <3>1, <3>2
  <2>2. \A k \in 0..(n - 1) : SlotAt(k)' = SlotAt(k + 1)
    BY <1>2, <1>13, <2>1 DEF SlotAt, Turn
  <2>3. \A k \in 1..(n - 1) : UnreadAs(ring', last', pos', frame', SlotAt(k))
                               = UnreadAs(ring, last, pos, frame, SlotAt(k))
    <3> TAKE k \in 1..(n - 1)
    <3>1. PICK i \in Slots : i = SlotAt(k)
      BY <1>13
    <3>2. i # pos /\ i # last
      BY <1>14, <1>19, <3>1
    <3>3. PICK gs \in Seq(Nat) : gs = ring[i].frames
      BY <1>3 DEF SlotStates
    <3>4. UnreadAs(ring, last, pos, frame, i) = gs
      BY <3>2, <3>3 DEF UnreadAs
    <3>5. SubSeq(gs, 0 + 1, Len(gs)) = gs
      BY SubSeqFull
    <3>6. UnreadAs(ring', last', pos', frame', i) = gs
      BY <1>9, <2>1, <3>2, <3>3, <3>5 DEF UnreadAs
    <3>7. QED
      BY <3>1, <3>4, <3>6
  <2>4. UnreadAs(ring', last', pos', frame', pos) = <<>>
    BY <2>1 DEF UnreadAs
  <2>5. s[1] = <<p>>
    BY <1>5, <1>6, <1>18, <1>20, <1>22, LastOfRest
  <2>6. t[n] = <<>>
    <3>1. n \in 1..n /\ n - 1 \in 0..(n - 1) /\ (n - 1) + 1 = n
      OBVIOUS
    <3>2. SlotAt(n - 1)' = pos
      BY <1>13, <2>2, <3>1
    <3>3. QED
      BY <1>17, <1>20, <2>4, <3>1, <3>2
  <2>7. \A k \in 1..(n - 1) : t[k] = s[k + 1]
    <3> TAKE k \in 1..(n - 1)
    <3>1. /\ k - 1 \in 0..(n - 1) /\ (k - 1) + 1 = k /\ k \in 1..n /\ k + 1 \in 1..n
          /\ (k + 1) - 1 = k
      OBVIOUS
    <3>2. SlotAt(k - 1)' = SlotAt(k)
      BY <2>2, <3>1
    <3>3. t[k] = UnreadAs(ring', last', pos', frame', SlotAt(k))
      BY <1>17, <1>20, <3>1, <3>2
    <3>4. s[k + 1] = UnreadAs(ring, last, pos, frame, SlotAt(k))
      BY <1>16, <1>20, <3>1
    <3>5. QED
      BY <2>3, <3>3, <3>4
  <2>8. Unread = <<p>> \o Unread'
    <3>1. MovedUp(s, t, n, p)
      BY <1>16, <1>17, <1>20, <2>5, <2>6, <2>7 DEF MovedUp
    <3>2. QED
      BY <1>16, <1>17, <1>20, <3>1, JoinedRotate
  <2>9. OrderAt(c - 1)'
    <3>1. c - 1 \in 0..(n - 1) /\ (c - 1) + 1 = c /\ c - 1 \in 0..n
      BY <1>12, <1>15
    <3>2. kpos' = SlotAt(c - 1)'
      BY <1>9, <1>12, <2>2, <3>1
    <3>3. ASSUME NEW k \in 0..(n - 1)
          PROVE  /\ k < c - 1 => ring[SlotAt(k + 1)].user /\ SlotAt(k + 1) # pos
                 /\ k >= c - 1 => SlotAt(k + 1) = pos \/ ~ring[SlotAt(k + 1)].user
                 /\ k > c - 1 \/ (k = c - 1 /\ ~Blocks) =>
                       UnreadAs(ring', last', pos', frame', SlotAt(k + 1)) = <<>>
      <4>1. CASE k = n - 1
        <5>1. SlotAt(k + 1) = pos
          BY <1>13, <4>1
        <5>2. ~(k < c - 1)
          BY <1>12, <4>1
        <5>3. QED
          BY <2>4, <5>1, <5>2
      <4>2. CASE k # n - 1
        <5>1. PICK j \in 1..(n - 1) : j = k + 1 /\ j \in 0..(n - 1)
          BY <4>2
        <5>2. SlotAt(j) # pos /\ SlotAt(j) # last
          <6>1. j \in 0..n
            BY <5>1
          <6>2. QED
            BY <1>13, <1>14, <1>19, <5>1, <6>1
        <5>3. k < c - 1 => ring[SlotAt(j)].user
          BY <1>12, <5>1
        <5>4. k >= c - 1 => ~ring[SlotAt(j)].user
          <6>1. k >= c - 1 => j >= c
            BY <1>12, <5>1
          <6>2. QED
            BY <1>12, <5>1, <5>2, <6>1
        <5>5. k > c - 1 \/ (k = c - 1 /\ ~Blocks) =>
                UnreadAs(ring, last, pos, frame, SlotAt(j)) = <<>>
          <6>1. /\ k > c - 1 => j > c
                /\ k = c - 1 => j = c
            BY <1>12, <5>1
          <6>2. QED
            BY <1>12, <5>1, <6>1
        <5>6. QED
          BY <2>3, <5>1, <5>2, <5>3, <5>4, <5>5
      <4>3. QED
        BY <4>1, <4>2
    <3>4. last' = SlotAt(n - 1)'
      <4>1. n - 1 \in 0..(n - 1) /\ (n - 1) + 1 = n
        OBVIOUS
      <4>2. QED
        BY <1>13, <2>1, <2>2, <4>1
    <3>5. \A k \in 0..(n - 1) :
             /\ k < c - 1 => ring'[SlotAt(k)'].user /\ SlotAt(k)' # last'
             /\ k >= c - 1 => SlotAt(k)' = last' \/ ~ring'[SlotAt(k)'].user
             /\ k > c - 1 \/ (k = c - 1 /\ ~Blocks') =>
                   UnreadAs(ring', last', pos', frame', SlotAt(k)') = <<>>
      BY <1>9, <2>1, <2>2, <3>3
    <3>6. last' # NoSlot => /\ last' = SlotAt(n - 1)' /\ c - 1 < n /\ ring'[last'].user
                            /\ pc' = "idle" /\ ~inBlock'
      BY <1>3, <1>9, <2>1, <3>1, <3>4
    <3>7. ~Blocks' => \A i \in Slots' : Len(ring'[i].frames) <= 1
      BY <1>9, <1>12
    <3>8. QED
      BY <1>2, <3>1, <3>2, <3>5, <3>6, <3>7 DEF OrderAt, UnreadAs
  <2>10. RingOrder'
    <3>1. Ordered'
      BY <2>9 DEF Ordered
    <3>2. QED
      BY <3>1, OrderAtIs, PTL
  <2>11. QED
    BY <1>7, <1>8, <2>8, <2>10
<1>23. QED
  BY <1>21, <1>22

(* What each step does to the packets to be read.                           *)

\* While the reader's place stays, the slots are counted from the same one.
PlaceStays == UNCHANGED <<method, pos, last, frame>>

\* Where the reader stays in its place, so do the slots.
LEMMA SameSlots ==
  ASSUME PlaceStays
  PROVE  /\ Slots' = Slots /\ Turn' = Turn /\ Blocks' = Blocks /\ Turn = SlotCount(method)
         /\ \A k : SlotAt(k)' = SlotAt(k)
         /\ \A i : UnreadIn(i)' = UnreadWith(ring', i)
         /\ \A i : UnreadIn(i) = UnreadWith(ring, i)
BY DEF PlaceStays, Slots, Turn, Blocks, SlotAt, UnreadIn, UnreadWith

\* A new ring that is in order from the reader's place is in order.
LEMMA OrderKept ==
  ASSUME PlaceStays, NEW c \in 0..Turn, OrderWith(ring', kpos', c),
         last = NoSlot \/ UNCHANGED <<pc, inBlock>>
  PROVE  RingOrder'
<1>1. /\ Slots' = Slots /\ Turn' = Turn /\ Blocks' = Blocks /\ last' = last
      /\ \A k : SlotAt(k)' = SlotAt(k)
      /\ \A i : UnreadIn(i)' = UnreadWith(ring', i)
  BY SameSlots DEF PlaceStays
<1>2. /\ kpos' = SlotAt(c)
      /\ \A k \in 0..(Turn - 1) :
            /\ k < c => ring'[SlotAt(k)].user /\ SlotAt(k) # last
            /\ k >= c => SlotAt(k) = last \/ ~ring'[SlotAt(k)].user
            /\ k > c \/ (k = c /\ ~Blocks) => UnreadWith(ring', SlotAt(k)) = <<>>
      /\ last # NoSlot => last = SlotAt(Turn - 1) /\ c < Turn /\ ring'[last].user
                          /\ pc = "idle" /\ ~inBlock
      /\ ~Blocks => \A i \in Slots : Len(ring'[i].frames) <= 1
  BY DEF OrderWith
<1>3. last' # NoSlot => last' = SlotAt(Turn - 1)' /\ c < Turn' /\ ring'[last'].user
                        /\ pc' = "idle" /\ ~inBlock'
  BY <1>1, <1>2
<1>4. \A k \in 0..(Turn' - 1) :
            /\ k < c => ring'[SlotAt(k)'].user /\ SlotAt(k)' # last'
            /\ k >= c => SlotAt(k)' = last' \/ ~ring'[SlotAt(k)'].user
            /\ k > c \/ (k = c /\ ~Blocks') => 
                  UnreadAs(ring', last', pos', frame', SlotAt(k)') = <<>>
  <2>1. \A i : UnreadAs(ring', last', pos', frame', i) = UnreadWith(ring', i)
    BY DEF UnreadAs, UnreadWith, PlaceStays
  <2>2. QED
    BY <1>1, <1>2, <2>1
<1>5. c \in 0..Turn' /\ kpos' = SlotAt(c)' /\ (~Blocks' => \A i \in Slots' : Len(ring'[i].frames) <= 1)
  BY <1>1, <1>2
<1>6. OrderAt(c)'
  BY <1>3, <1>4, <1>5 DEF OrderAt, UnreadAs
<1>7. Ordered'
  BY <1>6 DEF Ordered
<1>8. QED
  BY <1>7, OrderAtIs, PTL

\* Where the reader stays in its place, the frames tell what is unread.
LEMMA UnreadIs ==
  ASSUME PlaceStays, method \in Rings
  PROVE  Unread = Joined(RowWith(ring)) /\ Unread' = Joined(RowWith(ring'))
<1>1. /\ Turn' = Turn /\ Turn = SlotCount(method)
      /\ \A k : SlotAt(k)' = SlotAt(k)
      /\ \A i : UnreadIn(i)' = UnreadWith(ring', i)
      /\ \A i : UnreadIn(i) = UnreadWith(ring, i)
  BY SameSlots
<1>2. UnreadSlots = RowWith(ring)
  BY <1>1 DEF UnreadSlots, RowWith, Turn
<1>3. UnreadSlots' = RowWith(ring')
  BY <1>1 DEF UnreadSlots, RowWith, Turn
<1>4. method # "packet" /\ method' = method
  BY DEF Rings, PlaceStays
<1>5. Unread = Joined(UnreadSlots) /\ Unread' = Joined(UnreadSlots')
  BY <1>4 DEF Unread, Joined
<1>6. QED
  BY <1>2, <1>3, <1>5

\* What can become of a packet that arrives, or of none.
Taken ==
  /\ Unread' = Append(Unread, arrived + 1) /\ arrived' = arrived + 1
  /\ UNCHANGED <<lost, kdrops>>

\* The packet is dropped, and counted by the kernel.
Refused ==
  /\ Unread' = Unread /\ arrived' = arrived + 1
  /\ lost' = lost + 1 /\ kdrops' = kdrops + 1

\* Nothing arrives.
Quiet ==
  /\ Unread' = Unread /\ UNCHANGED <<arrived, lost, kdrops>>

\* No frame is written.
SameFrames == \A i \in Slots : ring'[i].frames = ring[i].frames

\* No frame is written but one, at the end of a slot.
LongerFrames(p) ==
  \A i \in Slots :
     ring'[i].frames = ring[i].frames \/ ring'[i].frames = Append(ring[i].frames, p)

\* The reader does nothing.
ReaderRests ==
  UNCHANGED <<method, monitored, junk, queue, drops, counted, pc, readVars, dropped,
              builder, out>>

\* What a step of the kernel's does.
KernelEffect ==
  /\ ReaderRests /\ Flagged
  /\ \A i \in Slots : ring[i].user => ring'[i] = ring[i]
  /\ \/ Taken /\ LongerFrames(arrived + 1)
     \/ Refused /\ SameFrames
     \/ Quiet /\ SameFrames

\* Both of the kernel's steps do just that, and leave the slots in order.
LEMMA KernelStep ==
  ASSUME RingInv, RingOrder, method \in Rings, Arrive \/ RetireByTimer
  PROVE  RingOrder' /\ KernelEffect
<1>1. ReaderRests
  BY DEF Arrive, RetireByTimer, readVars, ReaderRests, Rings
<1>2. PlaceStays /\ UNCHANGED <<pc, inBlock>>
  BY <1>1 DEF ReaderRests, readVars, PlaceStays
<1>3. Unread = Joined(RowWith(ring)) /\ Unread' = Joined(RowWith(ring'))
  BY <1>2, UnreadIs
<1>4. \A i \in Slots : ring[i].user => ring'[i] = ring[i]
  <2>1. StoreInRing(arrived + 1) \/ RetireByTimer
    BY DEF Arrive, Rings
  <2>2. QED
    BY <1>2, <2>1, KernelKeeps DEF Keeps, PlaceStays
<1>5. CASE Arrive
  <2>1. arrived + 1 \in Nat
    BY DEF RingInv, RingTyped
  <2>2. PICK p \in Nat : p = arrived + 1
    BY <2>1
  <2>3. StoreInRing(p) /\ arrived' = arrived + 1
    BY <1>5, <2>2 DEF Arrive, Rings
  <2>4. /\ \E c \in 0..Turn : OrderWith(ring', kpos', c)
        /\ Stored(p) \/ NotStored
        /\ Flagged
    BY <2>3, ArrivalOrder
  <2>5. RingOrder'
    BY <1>2, <2>4, OrderKept
  <2>6. CASE Stored(p)
    BY <1>1, <1>3, <1>4, <2>2, <2>3, <2>4, <2>5, <2>6
       DEF Stored, KernelEffect, Taken, LongerFrames
  <2>7. CASE NotStored
    BY <1>1, <1>3, <1>4, <2>3, <2>4, <2>5, <2>7
       DEF NotStored, Drop, KernelEffect, Refused, SameFrames
  <2>8. QED
    BY <2>4, <2>6, <2>7
<1>6. CASE RetireByTimer
  <2>1. /\ \E c \in 0..Turn : OrderWith(ring', kpos', c)
        /\ Joined(RowWith(ring')) = Joined(RowWith(ring))
        /\ \A i \in Slots : ring'[i].frames = ring[i].frames
        /\ Flagged
    BY <1>6, TimerOrder
  <2>2. RingOrder'
    BY <1>2, <2>1, OrderKept
  <2>3. UNCHANGED <<arrived, lost, kdrops>>
    BY <1>6 DEF RetireByTimer
  <2>4. Quiet /\ SameFrames
    BY <1>3, <2>1, <2>3 DEF Quiet, SameFrames
  <2>5. QED
    BY <1>1, <1>4, <2>1, <2>2, <2>4 DEF KernelEffect
<1>7. QED
  BY <1>5, <1>6

\* The slot that is handed back held nothing to be read.
LEMMA RingReleased ==
  ASSUME RingInv, RingOrder, method \in Rings, last # NoSlot,
         ring' = [ring EXCEPT ![last] = EmptySlot], last' = NoSlot,
         UNCHANGED <<method, kpos, pos, frame>>
  PROVE  RingOrder' /\ Unread' = Unread
<1>1. Places /\ ring \in [Slots -> SlotStates]
  BY PlacesOf DEF RingInv, RingTyped
<1>2. PICK n \in Nat \ {0} : n = Turn
  BY <1>1 DEF Places
<1>3. PICK c : OrderAt(c)
  BY OrderAtIs DEF Ordered
<1>4. last = SlotAt(n - 1) /\ c < n /\ c \in 0..n
  BY <1>2, <1>3 DEF OrderAt
<1>5. last \in Slots /\ frame = 0 /\ ~inBlock
  <2>1. last \in Slots
    BY DEF RingInv, RingTyped
  <2>2. ~inBlock
    BY <1>3 DEF OrderAt
  <2>3. QED
    BY <2>1, <2>2 DEF RingInv, ReadersPlace
<1>6. /\ ring'[last] = EmptySlot /\ \A i \in Slots : i # last => ring'[i] = ring[i]
  BY <1>1, <1>5
<1>7. \A i \in Slots : UnreadAs(ring', last', pos', frame', i)
                        = UnreadAs(ring, last, pos, frame, i)
  <2> TAKE i \in Slots
  <2>1. CASE i = last
    <3>1. PICK e : e = <<>>
      OBVIOUS
    <3>2. SubSeq(e, 1, Len(e)) = e
      <4>1. e \in Seq(Nat)
        BY <3>1
      <4>2. QED
        BY <4>1, SubSeqFull
    <3>3. ring'[i].frames = e /\ i # NoSlot
      BY <1>6, <2>1, <3>1 DEF EmptySlot
    <3>4. UnreadAs(ring', last', pos', frame', i) = e
      BY <1>5, <3>2, <3>3 DEF UnreadAs
    <3>5. QED
      BY <2>1, <3>1, <3>4 DEF UnreadAs
  <2>2. CASE i # last
    <3>1. i # NoSlot
      BY <1>1, <1>2 DEF Places, NoSlot
    <3>2. QED
      BY <1>6, <2>2, <3>1 DEF UnreadAs
  <2>3. QED
    BY <2>1, <2>2
<1>8. /\ Slots' = Slots /\ Turn' = n /\ Blocks' = Blocks /\ \A k : SlotAt(k)' = SlotAt(k)
  BY <1>2 DEF Slots, Turn, Blocks, SlotAt
<1>9. \A k \in 0..n : SlotAt(k) \in Slots
  BY <1>1, <1>2 DEF Places
<1>10. RingOrder'
  <2>1. \A k \in 0..(n - 1) :
            /\ k < c => ring'[SlotAt(k)'].user /\ SlotAt(k)' # last'
            /\ k >= c => ~ring'[SlotAt(k)'].user
            /\ k > c \/ (k = c /\ ~Blocks') =>
                  UnreadAs(ring', last', pos', frame', SlotAt(k)') = <<>>
    <3> TAKE k \in 0..(n - 1)
    <3>1. PICK i \in Slots : i = SlotAt(k)
      <4>1. k \in 0..n
        OBVIOUS
      <4>2. QED
        BY <1>9, <4>1
    <3>2. i # NoSlot
      BY <1>1, <1>2 DEF Places, NoSlot
    <3>3. /\ k < c => ring[i].user /\ i # last
          /\ k >= c => i = last \/ ~ring[i].user
          /\ k > c \/ (k = c /\ ~Blocks) => UnreadAs(ring, last, pos, frame, i) = <<>>
      BY <1>2, <1>3, <3>1 DEF OrderAt
    <3>4. k >= c => ~ring'[i].user
      BY <1>6, <3>3 DEF EmptySlot
    <3>5. k < c => ring'[i].user
      BY <1>6, <3>3
    <3>6. QED
      BY <1>7, <1>8, <3>1, <3>2, <3>3, <3>4, <3>5
  <2>2. ~Blocks' => \A i \in Slots' : Len(ring'[i].frames) <= 1
    <3>1. Len(EmptySlot.frames) = 0
      BY DEF EmptySlot
    <3>2. ~Blocks => \A i \in Slots : Len(ring[i].frames) <= 1
      BY <1>3 DEF OrderAt
    <3>3. \A i \in Slots : i = last \/ ring'[i] = ring[i]
      BY <1>6
    <3>4. ASSUME ~Blocks, NEW i \in Slots PROVE Len(ring'[i].frames) <= 1
      BY <1>6, <3>1, <3>2, <3>3, <3>4
    <3>5. QED
      BY <1>8, <3>4
  <2>3. c \in 0..Turn' /\ kpos' = SlotAt(c)'
    BY <1>3, <1>4, <1>8 DEF OrderAt
  <2>4. OrderAt(c)'
    BY <1>8, <2>1, <2>2, <2>3 DEF OrderAt, UnreadAs
  <2>5. Ordered'
    BY <2>4 DEF Ordered
  <2>6. QED
    BY <2>5, OrderAtIs, PTL
<1>11. Unread' = Unread
  <2>1. \A k \in 1..n : UnreadIn(SlotAt(k - 1))' = UnreadIn(SlotAt(k - 1))
    <3> TAKE k \in 1..n
    <3>1. PICK i \in Slots : i = SlotAt(k - 1)
      <4>1. k - 1 \in 0..n
        OBVIOUS
      <4>2. QED
        BY <1>9, <4>1
    <3>2. UnreadAs(ring', last', pos', frame', i) = UnreadAs(ring, last, pos, frame, i)
      BY <1>7
    <3>3. SlotAt(k - 1)' = i
      BY <1>8, <3>1
    <3>4. QED
      BY <3>1, <3>2, <3>3 DEF UnreadAs, UnreadIn
  <2>2. UnreadSlots' = UnreadSlots
    <3>1. SlotCount(method') = n /\ SlotCount(method) = n
      BY <1>2, <1>8 DEF Turn
    <3>2. QED
      BY <2>1, <3>1 DEF UnreadSlots
  <2>3. QED
    BY <2>2 DEF Unread, Joined, Rings
<1>12. QED
  BY <1>10, <1>11

\* What records and counters hold is numbers.
LEMMA HeldTyped ==
  ReaderTyped => /\ IdsOf(out) \in Seq(Nat) /\ IdsOf(builder) \in Seq(Nat)
                 /\ Reported(out) \in Nat /\ Reported(builder) \in Nat
                 /\ dropped \in Nat /\ Held \in Nat
<1> SUFFICES ASSUME ReaderTyped
             PROVE  /\ IdsOf(out) \in Seq(Nat) /\ IdsOf(builder) \in Seq(Nat)
                    /\ Reported(out) \in Nat /\ Reported(builder) \in Nat
                    /\ dropped \in Nat /\ Held \in Nat
  OBVIOUS
<1>1. out \in Seq(CaptureRecs) /\ builder \in Seq(CaptureRecs) /\ dropped \in Nat
  BY DEF ReaderTyped
<1>2. LostRec(0) \in CaptureRecs
  BY RecsTyped
<1>3. IdsOf(out) \in Seq(Nat) /\ IdsOf(builder) \in Seq(Nat)
  BY <1>1, <1>2, IdsAppend
<1>4. Reported(out) \in Nat /\ Reported(builder) \in Nat
  BY <1>1, <1>2, ReportedAppend
<1>5. QED
  BY <1>1, <1>3, <1>4 DEF Held

\* A packet that is read goes from the buffer to the records, in its place.
LEMMA PacketMoves ==
  ASSUME ReaderTyped, builder = <<>>, NEW p \in Nat, NEW m \in Nat,
         ReturnFrom(BuildPacket(p, m)), Unread' \in Seq(Nat), Unread = <<p>> \o Unread'
  PROVE  /\ Ids' = Ids /\ Reported(out') + Reported(builder') = Held - dropped + m
         /\ Reported(out') = Reported(out) + m /\ Reported(builder') = 0
         /\ \E r : Ids = Append(IdsOf(out), p) \o r /\ r \in Seq(Nat)
<1>1. out \in Seq(CaptureRecs)
  BY DEF ReaderTyped
<1>2. /\ IdsOf(out') \o IdsOf(builder') = Append(IdsOf(out), p)
      /\ Reported(out') = Reported(out) + m /\ Reported(builder') = 0
  BY <1>1, PacketReturned
<1>3. IdsOf(out) \in Seq(Nat) /\ Reported(out) \in Nat /\ dropped \in Nat
  BY HeldTyped
<1>4. IdsOf(builder) = <<>> /\ Reported(builder) = 0
  BY IdsNone, ReportedNone
<1>5. PICK x \in Seq(Nat) : x = IdsOf(out)
  BY <1>3
<1>6. PICK u \in Seq(Nat) : u = Unread'
  OBVIOUS
<1>7. PICK q \in Seq(Nat) : q = <<p>>
  <2>1. <<p>> \in Seq(Nat)
    OBVIOUS
  <2>2. QED
    BY <2>1
<1>8. Append(x, p) = x \o q /\ x \o <<>> = x
  BY <1>7, NumsAppend
<1>9. (x \o q) \o u = x \o (q \o u)
  BY NumsConcat, Zenon
<1>10. Ids = x \o (q \o u)
  <2>1. Ids = (x \o <<>>) \o (q \o u)
    BY <1>4, <1>5, <1>6, <1>7 DEF Ids
  <2>2. QED
    BY <1>8, <2>1
<1>11. Ids' = (x \o q) \o u
  BY <1>2, <1>5, <1>6, <1>8 DEF Ids
<1>12. Ids = Append(IdsOf(out), p) \o u
  BY <1>5, <1>8, <1>9, <1>10
<1>13. Reported(out') + Reported(builder') = Held - dropped + m
  BY <1>2, <1>3, <1>4 DEF Held
<1>14. QED
  BY <1>2, <1>9, <1>10, <1>11, <1>12, <1>13

\* A step of the reader that leaves the buffer's slots, and one that does not wait
\* with the last slot.
LEMMA RingRests ==
  ASSUME RingInv, RingOrder, method \in Rings, PlaceStays, UNCHANGED <<ring, kpos>>,
         last = NoSlot \/ UNCHANGED <<pc, inBlock>>
  PROVE  RingOrder' /\ Unread' = Unread
<1>1. PICK c \in 0..Turn : OrderWith(ring, kpos, c)
  BY OrderIs
<1>2. OrderWith(ring', kpos', c)
  BY <1>1
<1>3. RingOrder'
  BY <1>2, OrderKept
<1>4. Unread = Joined(RowWith(ring)) /\ Unread' = Joined(RowWith(ring'))
  BY UnreadIs
<1>5. QED
  BY <1>3, <1>4

\* The counts that are in the records, with _drops, and in the kernel.
SumStays ==
  \/ Held' + drops' = Held + drops /\ kdrops' = kdrops
  \/ Held' = Held /\ UpdateStats

\* What a step of the reader's does: a packet may move from the ring to the records
\* and a count from one place to another, and only a slot that has been read goes
\* back to the kernel.
ReaderEffect ==
  /\ RingOrder' /\ Ids' = Ids /\ SumStays
  /\ UNCHANGED <<method, monitored, junk, arrived, lost, kpos, queue, counted>>
  /\ \A i \in Slots : ring'[i] = ring[i] \/ (i = last /\ ring'[i] = EmptySlot)

\* The steps of the reader and of the monitor on a ring.
ReaderNext ==
  \/ ReadPacket \/ Interrupted \/ SlotReady \/ ReadStats \/ TakeDrops \/ BlockFrame
  \/ SingleFrame \/ Measure

\* All of them do just that.
LEMMA ReaderStep ==
  ASSUME RingInv, RingInv', ReaderTyped, RingOrder, method \in Rings, ReaderNext
  PROVE  ReaderEffect
<1>0. UNCHANGED <<method, monitored, junk, arrived, lost, kpos, queue, counted>>
  BY DEF ReaderNext, ReadPacket, Interrupted, SlotReady, ReadStats, TakeDrops, BlockFrame,
         SingleFrame, Measure, kernelVars
<1>1. /\ pc # "idle" => last = NoSlot
      /\ pc # "idle" => builder = <<>>
      /\ ring \in [Slots -> SlotStates]
  <2>1. PICK c : OrderAt(c)
    BY OrderAtIs DEF Ordered
  <2>2. QED
    BY <2>1 DEF OrderAt, RingInv, ReadersPlace, RingTyped
<1>2. CASE UNCHANGED <<ring, readVars, out, builder, dropped>>
           /\ (pc # "idle" \/ pc' = pc)
           /\ (UpdateStats \/ UNCHANGED <<drops, kdrops>>)
  <2>1. PlaceStays /\ UNCHANGED <<ring, kpos>>
    BY <1>0, <1>2 DEF readVars, PlaceStays
  <2>2. last = NoSlot \/ UNCHANGED <<pc, inBlock>>
    BY <1>1, <1>2 DEF readVars
  <2>3. RingOrder' /\ Unread' = Unread
    BY <2>1, <2>2, RingRests
  <2>4. Ids' = Ids
    BY <1>2, <2>3 DEF Ids, IdsOf
  <2>5. Held' = Held
    BY <1>2 DEF Held, Reported
  <2>6. SumStays
    BY <1>2, <2>5 DEF SumStays
  <2>7. QED
    BY <1>0, <1>2, <2>3, <2>4, <2>6 DEF ReaderEffect
<1>3. CASE Interrupted \/ ReadStats \/ Measure
  BY <1>2, <1>3 DEF Interrupted, ReadStats, Measure, kernelVars, readVars
<1>4. CASE SlotReady
  <2>1. PlaceStays /\ UNCHANGED <<ring, kpos>> /\ last = NoSlot
    BY <1>0, <1>1, <1>4 DEF SlotReady, kernelVars, PlaceStays
  <2>2. RingOrder' /\ Unread' = Unread
    BY <2>1, RingRests
  <2>3. dropped' = dropped /\ UNCHANGED <<out, builder, drops, kdrops>>
    BY <1>4 DEF SlotReady, ReaderTyped
  <2>4. Ids' = Ids
    BY <2>2, <2>3 DEF Ids, IdsOf
  <2>5. Held' = Held
    BY <2>3 DEF Held, Reported
  <2>6. QED
    BY <1>0, <2>1, <2>2, <2>3, <2>4, <2>5 DEF ReaderEffect, SumStays
<1>5. CASE TakeDrops
  <2>1. PlaceStays /\ UNCHANGED <<ring, kpos>> /\ last = NoSlot /\ builder = <<>>
        /\ kdrops' = kdrops /\ drops' = 0
    BY <1>0, <1>1, <1>5 DEF TakeDrops, kernelVars, readVars, PlaceStays
  <2>2. RingOrder' /\ Unread' = Unread
    BY <2>1, RingRests
  <2>3. dropped = 0 /\ drops \in Nat /\ out \in Seq(CaptureRecs)
    BY <1>5 DEF TakeDrops, ReaderTyped
  <2>4. Reported(builder) = 0 /\ IdsOf(builder) = <<>> /\ Reported(out) \in Nat
    BY <2>1, ReportedNone, IdsNone, HeldTyped
  <2>5. CASE Blocks /\ drops # 0
    <3>1. ReturnFrom(<<LostRec(drops)>>) /\ dropped' = dropped
      BY <1>5, <2>5 DEF TakeDrops
    <3>2. out' = Append(out, LostRec(drops)) /\ builder' = <<>>
      BY <3>1, ReturnOne
    <3>3. IdsOf(out') = IdsOf(out) /\ Reported(out') = Reported(out) + drops
      BY <2>3, <3>2, OutLost
    <3>4. builder' = builder /\ Reported(builder') = 0 /\ IdsOf(builder') = IdsOf(builder)
      BY <2>1, <2>4, <3>2
    <3>5. Ids' = Ids
      BY <2>2, <3>3, <3>4 DEF Ids
    <3>6. Held' + drops' = Held + drops
      BY <2>1, <2>3, <2>4, <3>1, <3>3, <3>4 DEF Held
    <3>7. QED
      BY <1>0, <2>1, <2>2, <3>5, <3>6 DEF ReaderEffect, SumStays
  <2>6. CASE ~(Blocks /\ drops # 0)
    <3>1. dropped' = drops /\ UNCHANGED <<out, builder>>
      BY <1>5, <2>6 DEF TakeDrops
    <3>2. Ids' = Ids
      BY <2>2, <3>1 DEF Ids, IdsOf
    <3>3. Reported(out') = Reported(out) /\ Reported(builder') = Reported(builder)
      BY <3>1 DEF Reported
    <3>4. Held' + drops' = Held + drops
      BY <2>1, <2>3, <2>4, <3>1, <3>3 DEF Held
    <3>5. QED
      BY <1>0, <2>1, <2>2, <3>2, <3>4 DEF ReaderEffect, SumStays
  <2>7. QED
    BY <2>5, <2>6
<1>6. CASE BlockFrame \/ SingleFrame
  <2>1. PICK p \in Nat : /\ ReturnFrom(BuildPacket(p, dropped))
                         /\ Unread = <<p>> \o Unread'
    BY <1>0, <1>6, FrameRead
  <2>2. RingOrder'
    BY <1>0, <1>6, FrameRead
  <2>3. builder = <<>> /\ dropped \in Nat /\ (Blocks => dropped = 0)
    BY <1>1, <1>6 DEF BlockFrame, SingleFrame, ReaderTyped
  <2>4. Unread' \in Seq(Nat)
    <3>1. RingInv' /\ (method \in Rings)'
      BY <1>0
    <3>2. RowTyped'
      BY <3>1, RowTypedOf, PTL
    <3>3. QED
      BY <3>2 DEF RowTyped
  <2>5. Ids' = Ids /\ Reported(out') + Reported(builder') = Held - dropped + dropped
    BY <2>1, <2>3, <2>4, PacketMoves
  <2>6. dropped' = 0 /\ UNCHANGED <<ring, drops, kdrops>>
    BY <1>6, <2>3 DEF BlockFrame, SingleFrame, kernelVars
  <2>7. Held' + drops' = Held + drops
    <3>1. Held \in Nat
      BY HeldTyped
    <3>2. Held' = Reported(out') + Reported(builder') + dropped'
      BY DEF Held
    <3>3. PICK x : x = Reported(out') + Reported(builder')
      OBVIOUS
    <3>4. x = Held /\ Held' = x + 0
      BY <2>3, <2>5, <2>6, <3>1, <3>2, <3>3
    <3>5. QED
      BY <2>6, <3>1, <3>4
  <2>8. QED
    BY <1>0, <2>2, <2>5, <2>6, <2>7 DEF ReaderEffect, SumStays
<1>7. CASE ReadPacket
  <2>1. PlaceStays \/ (last # NoSlot /\ last' = NoSlot /\ UNCHANGED <<method, pos, frame>>)
    BY <1>7 DEF ReadPacket, PlaceStays
  <2>2. pc = "idle" /\ UNCHANGED <<kpos, pos, frame, inBlock, dropped, drops, kdrops>>
    BY <1>7 DEF ReadPacket
  <2>3. CASE builder # <<>>
    <3>1. ReturnFrom(builder) /\ UNCHANGED <<ring, last>>
      BY <1>7, <2>3 DEF ReadPacket
    <3>2. pc' = pc /\ PlaceStays
      BY <1>0, <2>2, <3>1 DEF ReturnFrom, PlaceStays
    <3>3. RingOrder' /\ Unread' = Unread
      BY <2>2, <3>1, <3>2, RingRests
    <3>4. /\ IdsOf(out') \o IdsOf(builder') = IdsOf(out) \o IdsOf(builder)
          /\ Reported(out') = Reported(out) /\ Reported(builder) = 0
          /\ Reported(builder') = 0
      BY <2>3, <3>1, KeptReturned
    <3>5. Ids' = Ids
      BY <3>3, <3>4 DEF Ids
    <3>6. Held' = Held
      BY <2>2, <3>4 DEF Held
    <3>7. QED
      BY <1>0, <2>2, <3>1, <3>3, <3>5, <3>6 DEF ReaderEffect, SumStays
  <2>4. CASE builder = <<>>
    <3>1. UNCHANGED <<out, builder>>
      BY <1>7, <2>4 DEF ReadPacket
    <3>2. Held' = Held
      BY <2>2, <3>1 DEF Held, Reported
    <3>3. RingOrder' /\ Unread' = Unread
          /\ \A i \in Slots : ring'[i] = ring[i] \/ (i = last /\ ring'[i] = EmptySlot)
      <4>1. CASE last = NoSlot
        <5>1. PlaceStays /\ UNCHANGED ring
          BY <1>0, <1>7, <2>4, <4>1 DEF ReadPacket, PlaceStays, Released
        <5>2. QED
          BY <1>0, <4>1, <5>1, RingRests
      <4>2. CASE last # NoSlot
        <5>1. ~inBlock
          <6>1. PICK c : OrderAt(c)
            BY OrderAtIs DEF Ordered
          <6>2. QED
            BY <4>2, <6>1 DEF OrderAt
        <5>2. ring' = [ring EXCEPT ![last] = EmptySlot] /\ last' = NoSlot
          BY <1>7, <2>4, <4>2, <5>1 DEF ReadPacket, Released
        <5>3. QED
          BY <1>0, <1>1, <2>2, <4>2, <5>2, RingReleased
      <4>3. QED
        BY <4>1, <4>2
    <3>4. Ids' = Ids
      BY <3>1, <3>3 DEF Ids, IdsOf
    <3>5. QED
      BY <1>0, <2>2, <3>2, <3>3, <3>4 DEF ReaderEffect, SumStays
  <2>5. QED
    BY <2>3, <2>4
<1>8. QED
  BY <1>3, <1>4, <1>5, <1>6, <1>7 DEF ReaderNext

(* The reader's state, of every method.                                     *)

\* A measurement moves the kernel's count to the counter, which stays below Wrap.
LEMMA DropsTyped ==
  ASSUME ReaderTyped, UpdateStats
  PROVE  drops' \in Nat /\ drops' < Wrap /\ kdrops' = 0
<1>1. drops + kdrops \in Int /\ Wrap \in Nat \ {0}
  BY GeometryAssumption DEF ReaderTyped
<1>2. PICK m \in 0..(Wrap - 1) : m = (drops + kdrops) % Wrap
  BY <1>1, ModIs
<1>3. QED
  BY <1>1, <1>2 DEF UpdateStats

\* ReaderTyped holds after every step.
LEMMA TypedStep ==
  ASSUME RingInv, RingInv', ReaderTyped, method \in Rings => RingOrder, CaptureNext
  PROVE  ReaderTyped'
<1>1. /\ method \in Rings \cup {"packet"} /\ monitored \in BOOLEAN
      /\ {junk, arrived, lost, kdrops, drops, counted, dropped} \subseteq Nat
      /\ queue \in Seq([id : Nat, total : Nat])
      /\ builder \in Seq(CaptureRecs) /\ out \in Seq(CaptureRecs)
      /\ builder # <<>> => pc = "idle" /\ builder = <<PacketRec(builder[1].id)>>
      /\ dropped # 0 => pc = "frame" /\ ~Blocks
      /\ method = "packet" => /\ pc \in {"idle", "wait", "ended"}
                              /\ last = NoSlot /\ ~inBlock
  BY DEF ReaderTyped
<1>2. UNCHANGED <<method, monitored, junk>> /\ Blocks' = Blocks
  BY DEF CaptureNext, Arrive, RetireByTimer, Measure, ReadPacket, Interrupted, SlotReady,
         ReadStats, TakeDrops, BlockFrame, SingleFrame, ReceivePacket, Blocks
<1>3. method \in Rings => method # "packet"
  BY DEF Rings
<1>4. CASE Arrive
  <2>1. UNCHANGED <<drops, counted, pc, inBlock, last, dropped, builder, out>>
    BY <1>4 DEF Arrive, readVars
  <2>2. {arrived', lost', kdrops'} \subseteq Nat
    <3>1. arrived' = arrived + 1
      BY <1>4 DEF Arrive
    <3>2. UNCHANGED <<lost, kdrops>> \/ (lost' = lost + 1 /\ kdrops' = kdrops + 1)
      <4>1. CASE StoreInRing(arrived + 1)
        BY <4>1 DEF StoreInRing, Drop
      <4>2. CASE StoreInQueue(arrived + 1)
        BY <4>2 DEF StoreInQueue, Drop
      <4>3. QED
        BY <1>4, <4>1, <4>2 DEF Arrive
    <3>3. QED
      BY <1>1, <3>1, <3>2
  <2>3. queue' \in Seq([id : Nat, total : Nat])
    <3>1. [id |-> arrived + 1, total |-> lost] \in [id : Nat, total : Nat]
      BY <1>1
    <3>2. PICK e \in [id : Nat, total : Nat] : e = [id |-> arrived + 1, total |-> lost]
      BY <3>1
    <3>3. queue' = queue \/ queue' = Append(queue, e)
      BY <1>4, <3>2 DEF Arrive, StoreInQueue
    <3>4. PICK E : E = [id : Nat, total : Nat]
      OBVIOUS
    <3>5. queue \in Seq(E) /\ e \in E
      BY <1>1, <3>4
    <3>6. Append(queue, e) \in Seq(E)
      BY <3>5
    <3>7. QED
      BY <3>3, <3>4, <3>5, <3>6
  <2>4. QED
    BY <1>1, <1>2, <2>1, <2>2, <2>3 DEF ReaderTyped
<1>5. CASE RetireByTimer \/ Interrupted
  BY <1>1, <1>2, <1>5 DEF RetireByTimer, Interrupted, kernelVars, readVars, ReaderTyped
<1>6. CASE Measure \/ ReadStats
  <2>1. drops' \in Nat /\ kdrops' = 0
    BY <1>6, DropsTyped DEF Measure, ReadStats
  <2>2. UNCHANGED <<arrived, lost, queue, counted, inBlock, last, dropped, builder, out>>
        /\ (pc' = pc \/ (pc = "stats" /\ pc' = "drops"))
    BY <1>6 DEF Measure, ReadStats, kernelVars, readVars
  <2>3. QED
    BY <1>1, <1>2, <2>1, <2>2 DEF ReaderTyped
<1>7. CASE ReadPacket
  <2>1. /\ UNCHANGED <<arrived, lost, queue, kdrops, drops, counted, inBlock, dropped>>
        /\ pc = "idle" /\ last' \in {last, NoSlot} /\ (inBlock \/ pc' # "frame")
    BY <1>7 DEF ReadPacket, ReturnFrom
  <2>2. dropped = 0
    BY <1>1, <2>1
  <2>3. /\ out' \in Seq(CaptureRecs) /\ builder' = <<>>
        /\ pc' \in {"idle", "wait", "frame"}
    <3>1. CASE builder # <<>>
      <4>1. ReturnFrom(builder)
        BY <1>7, <3>1 DEF ReadPacket
      <4>2. QED
        BY <3>1, <4>1, KeptReturned DEF ReturnFrom
    <3>2. CASE builder = <<>>
      BY <1>1, <1>7, <3>2 DEF ReadPacket
    <3>3. QED
      BY <3>1, <3>2
  <2>4. builder' \in Seq(CaptureRecs)
    BY <2>3
  <2>5. QED
    BY <1>1, <1>2, <2>1, <2>2, <2>3, <2>4 DEF ReaderTyped
<1>8. CASE SlotReady
  <2>1. /\ UNCHANGED <<arrived, lost, queue, kdrops, drops, counted, builder, out>>
        /\ method \in Rings /\ pc = "wait" /\ dropped' = 0
    BY <1>8 DEF SlotReady, kernelVars
  <2>2. builder = <<>>
    BY <1>1, <2>1
  <2>3. QED
    BY <1>1, <1>2, <1>3, <2>1, <2>2 DEF ReaderTyped
<1>9. CASE TakeDrops
  <2>1. /\ UNCHANGED <<arrived, lost, queue, kdrops, counted>>
        /\ pc = "drops" /\ drops' = 0
    BY <1>9 DEF TakeDrops, kernelVars
  <2>2. builder = <<>> /\ dropped = 0 /\ method # "packet"
    BY <1>1, <2>1
  <2>3. CASE Blocks /\ drops # 0
    <3>1. dropped' = dropped /\ ReturnFrom(<<LostRec(drops)>>)
      BY <1>9, <2>3 DEF TakeDrops
    <3>2. out' = Append(out, LostRec(drops)) /\ builder' = <<>> /\ LostRec(drops) \in CaptureRecs
      BY <1>1, <3>1, ReturnOne, RecsTyped
    <3>3. out' \in Seq(CaptureRecs) /\ builder' \in Seq(CaptureRecs)
      BY <1>1, <3>2
    <3>4. QED
      BY <1>1, <1>2, <2>1, <2>2, <3>1, <3>2, <3>3 DEF ReaderTyped
  <2>4. CASE ~(Blocks /\ drops # 0)
    <3>1. dropped' = drops /\ pc' = "frame" /\ UNCHANGED <<builder, out>>
      BY <1>9, <2>4 DEF TakeDrops
    <3>2. QED
      BY <1>1, <1>2, <2>1, <2>2, <2>4, <3>1 DEF ReaderTyped
  <2>5. QED
    BY <2>3, <2>4
<1>10. ASSUME NEW p \in Nat, NEW m \in Nat, ReturnFrom(BuildPacket(p, m))
       PROVE  /\ out' \in Seq(CaptureRecs) /\ builder' \in Seq(CaptureRecs)
              /\ pc' = "idle"
              /\ builder' # <<>> => builder' = <<PacketRec(builder'[1].id)>>
  <2>1. /\ out' \in Seq(CaptureRecs) /\ builder' \in Seq(CaptureRecs)
        /\ builder' # <<>> => builder' = <<PacketRec(p)>>
    BY <1>1, <1>10, PacketReturned
  <2>2. ASSUME builder' = <<PacketRec(p)>> PROVE builder'[1].id = p
    <3>1. builder'[1] = PacketRec(p)
      BY <2>2
    <3>2. QED
      BY <3>1, RecsTyped
  <2>3. pc' = "idle"
    BY <1>10 DEF ReturnFrom
  <2>4. QED
    BY <2>1, <2>2, <2>3
<1>11. CASE BlockFrame \/ SingleFrame
  <2>1. /\ UNCHANGED <<arrived, lost, queue, kdrops, drops, counted>> /\ pc = "frame"
    BY <1>11 DEF BlockFrame, SingleFrame, kernelVars
  <2>2. method \in Rings
    BY <1>1, <2>1
  <2>3. PICK p \in Nat : ReturnFrom(BuildPacket(p, dropped))
    BY <1>2, <1>11, <2>2, FrameRead
  <2>4. dropped' = 0
    BY <1>1, <1>11 DEF BlockFrame, SingleFrame
  <2>5. dropped \in Nat
    BY <1>1
  <2>6. /\ out' \in Seq(CaptureRecs) /\ builder' \in Seq(CaptureRecs) /\ pc' = "idle"
        /\ builder' # <<>> => builder' = <<PacketRec(builder'[1].id)>>
    BY <1>10, <2>3, <2>5
  <2>7. QED
    BY <1>1, <1>2, <1>3, <2>1, <2>2, <2>4, <2>6 DEF ReaderTyped
<1>12. CASE ReceivePacket
  <2>1. PICK p : p = Head(queue)
    OBVIOUS
  <2>2. p \in [id : Nat, total : Nat]
    <3>1. PICK E : E = [id : Nat, total : Nat]
      OBVIOUS
    <3>2. queue \in Seq(E) /\ queue # <<>>
      BY <1>1, <1>12, <3>1 DEF ReceivePacket
    <3>3. Head(queue) \in E
      BY <3>2
    <3>4. QED
      BY <2>1, <3>1, <3>3
  <2>3. PICK n : n = IF p.total = 0 THEN 0 ELSE (p.total - counted) % Wrap
    OBVIOUS
  <2>4. n \in Nat
    <3>1. p.total - counted \in Int /\ Wrap \in Nat \ {0}
      <4>1. p.total \in Nat /\ counted \in Nat
        BY <1>1, <2>2
      <4>2. QED
        BY <4>1, GeometryAssumption
    <3>2. \E m \in 0..(Wrap - 1) : m = (p.total - counted) % Wrap
      <4>1. PICK w \in Nat \ {0}, y \in Int : w = Wrap /\ y = p.total - counted
        BY <3>1
      <4>2. \E m \in 0..(w - 1) : m = y % w
        BY ModIs
      <4>3. QED
        BY <4>1, <4>2
    <3>3. QED
      BY <2>3, <3>1, <3>2
  <2>5. ReturnFrom(BuildPacket(p.id, n)) /\ counted' = (IF p.total = 0 THEN counted ELSE p.total)
    BY <1>12, <2>1, <2>3 DEF ReceivePacket
  <2>6. /\ UNCHANGED <<arrived, lost, kdrops, drops, inBlock, last, dropped>>
        /\ queue' = Tail(queue) /\ queue # <<>> /\ pc = "wait"
    BY <1>12 DEF ReceivePacket, readVars
  <2>7. queue' \in Seq([id : Nat, total : Nat])
    BY <1>1, <2>6
  <2>8. p.id \in Nat /\ counted' \in Nat
    BY <1>1, <2>2, <2>5
  <2>9. /\ out' \in Seq(CaptureRecs) /\ builder' \in Seq(CaptureRecs) /\ pc' = "idle"
        /\ builder' # <<>> => builder' = <<PacketRec(builder'[1].id)>>
    BY <1>10, <2>4, <2>5, <2>8
  <2>10. dropped' = 0
    BY <1>1, <2>6
  <2>11. QED
    BY <1>1, <1>2, <2>6, <2>7, <2>8, <2>9, <2>10 DEF ReaderTyped
<1>13. QED
  BY <1>4, <1>5, <1>6, <1>7, <1>8, <1>9, <1>11, <1>12 DEF CaptureNext

(* The queue, where there is no ring.                                       *)

\* What the socket's queue holds: a packet, and how many were dropped before it.
QueueElems == [id : Nat, total : Nat]

\* What is unread in the queue is its packets.
QueueRow ==
  /\ Unread = [i \in 1..Len(queue) |-> queue[i].id]
  /\ Unread \in Seq(Nat) /\ Len(Unread) = Len(queue)

\* It is so for a packet socket without a ring.
LEMMA QueueIs == ReaderTyped /\ method = "packet" => QueueRow
<1> SUFFICES ASSUME ReaderTyped, method = "packet" PROVE QueueRow
  OBVIOUS
<1>1. queue \in Seq(QueueElems)
  BY DEF ReaderTyped, QueueElems
<1>2. PICK n \in Nat : n = Len(queue)
  BY <1>1
<1>3. \A i \in 1..n : queue[i].id \in Nat
  <2>1. \A i \in 1..n : queue[i] \in QueueElems
    BY <1>1, <1>2
  <2>2. QED
    BY <2>1 DEF QueueElems
<1>4. DOMAIN queue = 1..n
  BY <1>1, <1>2
<1>5. PICK u : u = Unread
  OBVIOUS
<1>6. u = [i \in 1..n |-> queue[i].id]
  BY <1>4, <1>5 DEF Unread
<1>7. u \in Seq(Nat) /\ Len(u) = n
  <2>1. u \in [1..n -> Nat]
    BY <1>3, <1>6
  <2>2. QED
    BY <2>1
<1>8. QED
  BY <1>2, <1>5, <1>6, <1>7 DEF QueueRow

\* A packet that joins the queue goes to the end of what is unread.
LEMMA QueueLonger ==
  ASSUME ReaderTyped, ReaderTyped', method = "packet", method' = method,
         NEW e \in QueueElems, queue' = Append(queue, e)
  PROVE  Unread' = Append(Unread, e.id) /\ Len(queue') = Len(queue) + 1
         /\ queue'[Len(queue) + 1] = e /\ \A i \in 1..Len(queue) : queue'[i] = queue[i]
<1>1. /\ Unread = [i \in 1..Len(queue) |-> queue[i].id]
      /\ Unread \in Seq(Nat) /\ Len(Unread) = Len(queue)
  BY QueueIs DEF QueueRow
<1>2. /\ Unread' = [i \in 1..Len(queue') |-> queue'[i].id]
      /\ Unread' \in Seq(Nat) /\ Len(Unread') = Len(queue')
  <2>1. ReaderTyped' /\ (method = "packet")'
    OBVIOUS
  <2>2. QueueRow'
    BY <2>1, QueueIs, PTL
  <2>3. QED
    BY <2>2 DEF QueueRow
<1>3. queue \in Seq(QueueElems)
  BY DEF ReaderTyped, QueueElems
<1>4. PICK n \in Nat : n = Len(queue)
  BY <1>3
<1>5. Len(queue') = n + 1 /\ queue'[n + 1] = e /\ \A i \in 1..n : queue'[i] = queue[i]
  BY <1>3, <1>4
<1>6. PICK u, v : u = Unread /\ v = Unread'
  OBVIOUS
<1>7. e.id \in Nat
  BY DEF QueueElems
<1>8. /\ u \in Seq(Nat) /\ Len(u) = n /\ v \in Seq(Nat) /\ Len(v) = n + 1
      /\ \A i \in 1..n : v[i] = u[i]
      /\ v[n + 1] = e.id
  BY <1>1, <1>2, <1>4, <1>5, <1>6
<1>9. PICK w : w = Append(u, e.id)
  OBVIOUS
<1>10. w \in Seq(Nat) /\ Len(w) = n + 1 /\ w[n + 1] = e.id /\ \A i \in 1..n : w[i] = u[i]
  BY <1>7, <1>8, <1>9
<1>11. \A i \in 1..Len(v) : v[i] = w[i]
  <2> TAKE i \in 1..Len(v)
  <2>1. i \in 1..n \/ i = n + 1
    BY <1>8
  <2>2. QED
    BY <1>8, <1>10, <2>1
<1>12. v = w
  BY <1>8, <1>10, <1>11, SeqEqual
<1>13. QED
  BY <1>4, <1>5, <1>6, <1>9, <1>12

\* A packet that leaves the queue was the first of what is unread.
LEMMA QueueShorter ==
  ASSUME ReaderTyped, ReaderTyped', method = "packet", method' = method,
         queue # <<>>, queue' = Tail(queue)
  PROVE  Unread = <<queue[1].id>> \o Unread' /\ Len(queue') = Len(queue) - 1
         /\ \A i \in 1..Len(queue') : queue'[i] = queue[i + 1]
<1>1. /\ Unread = [i \in 1..Len(queue) |-> queue[i].id]
      /\ Unread \in Seq(Nat) /\ Len(Unread) = Len(queue)
  BY QueueIs DEF QueueRow
<1>2. /\ Unread' = [i \in 1..Len(queue') |-> queue'[i].id]
      /\ Unread' \in Seq(Nat) /\ Len(Unread') = Len(queue')
  <2>1. ReaderTyped' /\ (method = "packet")'
    OBVIOUS
  <2>2. QueueRow'
    BY <2>1, QueueIs, PTL
  <2>3. QED
    BY <2>2 DEF QueueRow
<1>3. queue \in Seq(QueueElems)
  BY DEF ReaderTyped, QueueElems
<1>4. PICK n \in Nat \ {0} : n = Len(queue)
  BY <1>3
<1>5. Len(queue') = n - 1 /\ \A i \in 1..(n - 1) : queue'[i] = queue[i + 1]
  BY <1>3, <1>4
<1>6. PICK u, v : u = Unread /\ v = Unread'
  OBVIOUS
<1>7. PICK m \in Nat : m = n - 1
  OBVIOUS
<1>8. PICK p \in Nat : p = queue[1].id
  <2>1. queue[1] \in QueueElems
    BY <1>3, <1>4
  <2>2. QED
    BY <2>1 DEF QueueElems
<1>9. /\ u \in Seq(Nat) /\ Len(u) = m + 1 /\ v \in Seq(Nat) /\ Len(v) = m
      /\ u[1] = p
      /\ \A i \in 1..m : u[i + 1] = v[i]
  <2>1. u[1] = p
    <3>1. 1 \in 1..n
      <4>1. n \in Nat \ {0}
        OBVIOUS
      <4>2. QED
        BY ONLY <4>1
    <3>2. u = [i \in 1..n |-> queue[i].id]
      BY <1>1, <1>4, <1>6, Zenon
    <3>3. QED
      BY <1>8, <3>1, <3>2
  <2>2. \A i \in 1..m : i + 1 \in 1..n /\ i \in 1..(n - 1)
    BY <1>7
  <2>3. \A i \in 1..m : u[i + 1] = v[i]
    BY <1>1, <1>2, <1>4, <1>5, <1>6, <1>7, <2>2
  <2>4. QED
    BY <1>1, <1>2, <1>4, <1>5, <1>6, <1>7, <2>1, <2>3
<1>10. PICK a : a = <<p>>
  OBVIOUS
<1>11. a \in Seq(Nat) /\ Len(a) = 1 /\ a[1] = p
  BY <1>10
<1>12. PICK w : w = a \o v
  OBVIOUS
<1>13. w \in Seq(Nat) /\ Len(w) = m + 1 /\ w[1] = p /\ \A i \in 2..(m + 1) : w[i] = v[i - 1]
  <2>1. a \in Seq(Nat) /\ v \in Seq(Nat)
    BY <1>9, <1>11
  <2>2. /\ a \o v \in Seq(Nat) /\ Len(a \o v) = Len(a) + Len(v)
        /\ \A i \in 1..(Len(a) + Len(v)) :
              (a \o v)[i] = IF i <= Len(a) THEN a[i] ELSE v[i - Len(a)]
    BY <2>1, ConcatProperties
  <2>3. /\ w \in Seq(Nat) /\ Len(w) = 1 + m
        /\ \A i \in 1..(1 + m) : w[i] = IF i <= 1 THEN a[i] ELSE v[i - 1]
    BY <1>9, <1>11, <1>12, <2>2
  <2>4. QED
    BY <1>11, <2>3
<1>14. \A i \in 1..Len(u) : u[i] = w[i]
  <2> TAKE i \in 1..Len(u)
  <2>1. CASE i = 1
    BY <1>9, <1>13, <2>1
  <2>2. CASE i # 1
    <3>1. PICK j \in 1..m : i = j + 1 /\ j = i - 1 /\ i \in 2..(m + 1)
      <4>1. i - 1 \in 1..m /\ i = (i - 1) + 1 /\ i \in 2..(m + 1)
        BY <1>9, <2>2
      <4>2. QED
        BY <4>1
    <3>2. QED
      BY <1>9, <1>13, <3>1
  <2>3. QED
    BY <2>1, <2>2
<1>15. u = w
  BY <1>9, <1>13, <1>14, SeqEqual
<1>16. QED
  BY <1>4, <1>5, <1>6, <1>8, <1>10, <1>12, <1>15

(* Every step, and the packets in their order.                              *)

\* What is accounted for is numbers.
IdsTyped == Unread \in Seq(Nat) /\ Ids \in Seq(Nat)

\* All packets that are accounted for are numbers.
LEMMA IdsTypedOf == RingInv /\ ReaderTyped => IdsTyped
<1> SUFFICES ASSUME RingInv, ReaderTyped PROVE IdsTyped
  OBVIOUS
<1>1. IdsOf(out) \in Seq(Nat) /\ IdsOf(builder) \in Seq(Nat)
  BY HeldTyped
<1>2. Unread \in Seq(Nat)
  <2>1. CASE method \in Rings
    BY <2>1, RowTypedOf DEF RowTyped
  <2>2. CASE method = "packet"
    BY <2>2, QueueIs DEF QueueRow
  <2>3. QED
    BY <2>1, <2>2 DEF ReaderTyped
<1>3. IdsOf(out) \o IdsOf(builder) \in Seq(Nat)
  BY <1>1, NumsAppend
<1>4. Ids \in Seq(Nat)
  BY <1>2, <1>3, NumsAppend DEF Ids
<1>5. QED
  BY <1>2, <1>4 DEF IdsTyped

\* A packet that is taken comes after all others.
LEMMA IdsLonger ==
  ASSUME RingInv, ReaderTyped, NEW p \in Nat, UNCHANGED <<out, builder>>
  PROVE  /\ Unread' = Append(Unread, p) => Ids' = Append(Ids, p)
         /\ Unread' = Unread => Ids' = Ids
<1>1. Unread \in Seq(Nat) /\ IdsOf(out) \in Seq(Nat) /\ IdsOf(builder) \in Seq(Nat)
  BY IdsTypedOf, HeldTyped DEF IdsTyped
<1>2. PICK x \in Seq(Nat) : x = IdsOf(out) \o IdsOf(builder)
  BY <1>1, NumsAppend
<1>3. IdsOf(out') \o IdsOf(builder') = x
  <2>1. PICK o, b : o = out /\ b = builder
    OBVIOUS
  <2>2. out' = o /\ builder' = b
    BY <2>1
  <2>3. IdsOf(o) \o IdsOf(b) = x
    BY <1>2, <2>1
  <2>4. QED
    BY <2>2, <2>3
<1>4. Ids = x \o Unread /\ Ids' = x \o Unread'
  BY <1>2, <1>3 DEF Ids
<1>5. x \o Append(Unread, p) = Append(x \o Unread, p)
  BY <1>1, NumsAppend
<1>6. QED
  BY <1>4, <1>5

\* What a step may do to the packets, and to how many have come and were lost.
IdsStep ==
  \/ Ids' = Ids /\ UNCHANGED <<arrived, lost>>
  \/ Ids' = Ids /\ arrived' = arrived + 1 /\ lost' = lost + 1
  \/ Ids' = Append(Ids, arrived + 1) /\ arrived' = arrived + 1 /\ lost' = lost

\* The queue's steps.
QueueTakes ==
  /\ Ids' = Append(Ids, arrived + 1) /\ arrived' = arrived + 1 /\ lost' = lost
  /\ queue' = Append(queue, [id |-> arrived + 1, total |-> lost])
  /\ kdrops' = kdrops

\* The queue is full: the packet is dropped and counted.
QueueRefuses ==
  /\ Ids' = Ids /\ arrived' = arrived + 1 /\ lost' = lost + 1
  /\ queue' = queue /\ kdrops' = kdrops + 1

\* A packet that arrives at the queue joins it or is dropped.
LEMMA QueueArrival ==
  ASSUME RingInv, ReaderTyped, ReaderTyped', method = "packet", Arrive
  PROVE  QueueTakes \/ QueueRefuses
<1>1. arrived \in Nat /\ lost \in Nat
  BY DEF ReaderTyped
<1>2. PICK p \in Nat : p = arrived + 1
  BY <1>1
<1>3. /\ method' = method /\ UNCHANGED <<out, builder>> /\ arrived' = p
      /\ StoreInQueue(p)
  BY <1>2 DEF Arrive, Rings
<1>4. CASE Len(queue) = BlockCount * FramesPerBlock
  <2>1. queue' = queue /\ lost' = lost + 1 /\ kdrops' = kdrops + 1
    BY <1>3, <1>4 DEF StoreInQueue, Drop
  <2>2. Unread' = Unread
    BY <1>3, <2>1 DEF Unread
  <2>3. QED
    BY <1>2, <1>3, <2>1, <2>2, IdsLonger DEF QueueRefuses
<1>5. CASE Len(queue) # BlockCount * FramesPerBlock
  <2>1. PICK e \in QueueElems : e = [id |-> p, total |-> lost]
    BY <1>1 DEF QueueElems
  <2>2. queue' = Append(queue, e) /\ lost' = lost /\ kdrops' = kdrops
    BY <1>3, <1>5, <2>1 DEF StoreInQueue
  <2>3. Unread' = Append(Unread, e.id)
    BY <1>3, <2>2, QueueLonger
  <2>4. Ids' = Append(Ids, p)
    BY <1>3, <2>1, <2>3, IdsLonger
  <2>5. QED
    BY <1>2, <1>3, <2>1, <2>2, <2>4 DEF QueueTakes
<1>6. QED
  BY <1>4, <1>5

\* The packet at the queue's head is received, with its count.
Received(e, n) ==
  /\ e = queue[1] /\ n = (IF e.total = 0 THEN 0 ELSE (e.total - counted) % Wrap)
  /\ counted' = (IF e.total = 0 THEN counted ELSE e.total)
  /\ ReturnFrom(BuildPacket(e.id, n)) /\ builder = <<>>
  /\ Ids' = Ids /\ Reported(out') = Reported(out) + n /\ Reported(builder') = 0
  /\ \E r \in Seq(Nat) : Ids = Append(IdsOf(out), e.id) \o r

\* A packet that is received leaves the queue for the records, with a report of the
\* drops since the last.
LEMMA Receiving ==
  ASSUME RingInv, ReaderTyped, ReaderTyped', ReceivePacket
  PROVE  \E e \in QueueElems, n \in Nat : Received(e, n)
<1>1. /\ method = "packet" /\ method' = method /\ pc = "wait"
      /\ queue # <<>> /\ queue' = Tail(queue)
  BY DEF ReceivePacket
<1>2. queue \in Seq(QueueElems) /\ counted \in Nat /\ builder = <<>>
  BY <1>1 DEF ReaderTyped, QueueElems
<1>3. PICK e \in QueueElems : e = queue[1] /\ e = Head(queue)
  <2>1. Head(queue) = queue[1] /\ queue[1] \in QueueElems
    BY <1>1, <1>2
  <2>2. QED
    BY <2>1
<1>4. e.id \in Nat /\ e.total \in Nat
  BY DEF QueueElems
<1>5. PICK n \in Nat : n = IF e.total = 0 THEN 0 ELSE (e.total - counted) % Wrap
  <2>1. e.total - counted \in Int /\ Wrap \in Nat \ {0}
    BY <1>2, <1>4, GeometryAssumption
  <2>2. \E m \in 0..(Wrap - 1) : m = (e.total - counted) % Wrap
    BY <2>1, ModIs
  <2>3. QED
    BY <2>1, <2>2
<1>6. /\ counted' = (IF e.total = 0 THEN counted ELSE e.total)
      /\ ReturnFrom(BuildPacket(e.id, n))
  BY <1>3, <1>5 DEF ReceivePacket
<1>7. Unread = <<queue[1].id>> \o Unread'
  BY <1>1, QueueShorter
<1>8. Unread' \in Seq(Nat)
  <2>1. ReaderTyped' /\ (method = "packet")'
    BY <1>1
  <2>2. QueueRow'
    BY <2>1, QueueIs, PTL
  <2>3. QED
    BY <2>2 DEF QueueRow
<1>9. PICK p \in Nat : p = e.id
  BY <1>4
<1>10. /\ Ids' = Ids /\ Reported(out') = Reported(out) + n /\ Reported(builder') = 0
       /\ \E r : Ids = Append(IdsOf(out), p) \o r /\ r \in Seq(Nat)
  BY <1>2, <1>3, <1>6, <1>7, <1>8, <1>9, PacketMoves
<1>11. Received(e, n)
  BY <1>2, <1>3, <1>5, <1>6, <1>9, <1>10 DEF Received
<1>12. QED
  BY <1>11

\* The others leave the queue.
QueueRests ==
  /\ Ids' = Ids /\ UNCHANGED <<arrived, lost, queue, counted, dropped>>
  /\ \/ UNCHANGED <<out, builder>>
     \/ ReturnFrom(builder) /\ builder # <<>>
  /\ Reported(out') + Reported(builder') = Reported(out) + Reported(builder)
  /\ (UNCHANGED <<drops, kdrops>> \/ (monitored /\ UpdateStats))

\* No other step touches the queue or what it counts.
LEMMA QueueOther ==
  ASSUME RingInv, ReaderTyped, method = "packet", CaptureNext, ~Arrive, ~ReceivePacket
  PROVE  QueueRests
<1>1. Measure \/ ReadPacket \/ Interrupted
  BY DEF CaptureNext, ReaderTyped, RetireByTimer, SlotReady, ReadStats, TakeDrops, BlockFrame,
         SingleFrame, Blocks, Rings
<1>2. UNCHANGED <<method, arrived, lost, queue, counted, dropped>>
      /\ (UNCHANGED <<drops, kdrops>> \/ (monitored /\ UpdateStats))
  BY <1>1 DEF Measure, ReadPacket, Interrupted, kernelVars
<1>3. Unread' = Unread
  BY <1>2 DEF Unread
<1>4. CASE UNCHANGED <<out, builder>>
  BY <1>2, <1>3, <1>4 DEF QueueRests, Ids, IdsOf, Reported
<1>5. CASE ReturnFrom(builder) /\ builder # <<>>
  <2>1. /\ IdsOf(out') \o IdsOf(builder') = IdsOf(out) \o IdsOf(builder)
        /\ Reported(out') = Reported(out) /\ Reported(builder) = 0
        /\ Reported(builder') = 0
    BY <1>5, KeptReturned
  <2>2. Ids' = Ids
    BY <1>3, <2>1 DEF Ids
  <2>3. QED
    BY <1>2, <1>5, <2>1, <2>2 DEF QueueRests
<1>6. QED
  BY <1>1, <1>4, <1>5 DEF Measure, ReadPacket, Interrupted

\* Every step, of a ring or of the queue, adds the packet that arrives at the end of
\* what is accounted for, or counts it as dropped, or changes nothing of the two.
LEMMA EveryStep ==
  ASSUME RingInv, RingInv', ReaderTyped, ReaderTyped', method \in Rings => RingOrder,
         CaptureNext
  PROVE  IdsStep /\ (method \in Rings => RingOrder')
<1>1. CASE method = "packet"
  <2>1. CASE Arrive
    BY <1>1, <2>1, QueueArrival DEF QueueTakes, QueueRefuses, IdsStep, Rings
  <2>2. CASE ReceivePacket
    <3>1. Ids' = Ids
      BY <2>2, Receiving DEF Received
    <3>2. QED
      BY <1>1, <2>2, <3>1 DEF ReceivePacket, IdsStep, Rings
  <2>3. CASE ~Arrive /\ ~ReceivePacket
    BY <1>1, <2>3, QueueOther DEF QueueRests, IdsStep, Rings
  <2>4. QED
    BY <2>1, <2>2, <2>3
<1>2. CASE method \in Rings
  <2>1. CASE Arrive \/ RetireByTimer
    <3>1. RingOrder' /\ KernelEffect
      BY <1>2, <2>1, KernelStep
    <3>2. arrived + 1 \in Nat
      <4>1. arrived \in Nat
        BY DEF ReaderTyped
      <4>2. QED
        BY <4>1
    <3>3. PICK p \in Nat : p = arrived + 1
      BY <3>2
    <3>4. UNCHANGED <<out, builder>>
      BY <3>1 DEF KernelEffect, ReaderRests
    <3>5. /\ Unread' = Append(Unread, p) => Ids' = Append(Ids, p)
          /\ Unread' = Unread => Ids' = Ids
      BY <3>4, IdsLonger
    <3>6. QED
      BY <3>1, <3>3, <3>5 DEF KernelEffect, Taken, Refused, Quiet, IdsStep
  <2>2. CASE ReaderNext
    BY <1>2, <2>2, ReaderStep DEF ReaderEffect, IdsStep
  <2>3. QED
    BY <1>2, <2>1, <2>2 DEF CaptureNext, ReaderNext, ReceivePacket, Rings
<1>3. QED
  BY <1>1, <1>2 DEF ReaderTyped

\* Of a packets that arrived, d have been lost, and the others are in s.
Accounts(s, a, d) ==
  /\ \A i, j \in 1..Len(s) : i < j => s[i] < s[j]
  /\ Len(s) = a - d
  /\ \A j \in 1..Len(s) : s[j] <= a /\ s[j] - j <= d

\* With the next packet at the end, the accounts are still in order.
LEMMA IdsInOrder ==
  ASSUME NEW s \in Seq(Nat), NEW a \in Nat, NEW d \in Nat, Accounts(s, a, d)
  PROVE  Accounts(Append(s, a + 1), a + 1, d)
<1> /\ \A i, j \in 1..Len(s) : i < j => s[i] < s[j]
    /\ Len(s) = a - d
    /\ \A j \in 1..Len(s) : s[j] <= a /\ s[j] - j <= d
  BY DEF Accounts
<1>0. PICK t : t = Append(s, a + 1)
  OBVIOUS
<1>1. PICK n \in Nat : n = Len(s)
  OBVIOUS
<1>2. \A j \in 1..n : s[j] \in Nat
  BY <1>1
<1>3. Len(t) = n + 1 /\ t[n + 1] = a + 1 /\ \A i \in 1..n : t[i] = s[i]
  <2>1. PICK e \in Nat : e = a + 1
    OBVIOUS
  <2>2. PICK u : u = Append(s, e)
    OBVIOUS
  <2>3. Len(u) = n + 1 /\ u[n + 1] = e /\ \A i \in 1..n : u[i] = s[i]
    BY ONLY s \in Seq(Nat), e \in Nat, n \in Nat, <1>1, <2>2
  <2>4. QED
    BY <1>0, <2>1, <2>2, <2>3
<1>4. n = a - d
  BY <1>1
<1>5. \A j \in 1..n : s[j] <= a /\ s[j] - j <= d
  BY <1>1
<1>6. \A i, j \in 1..n : i < j => s[i] < s[j]
  BY <1>1
<1>7. ASSUME NEW i \in 1..(n + 1), NEW j \in 1..(n + 1), i < j PROVE t[i] < t[j]
  <2>1. i \in 1..n
    BY <1>7
  <2>2. CASE j = n + 1
    BY <1>2, <1>3, <1>5, <2>1, <2>2
  <2>3. CASE j # n + 1
    <3>1. j \in 1..n
      BY <2>3
    <3>2. QED
      BY <1>3, <1>6, <1>7, <2>1, <3>1
  <2>4. QED
    BY <2>2, <2>3
<1>8. ASSUME NEW j \in 1..(n + 1) PROVE t[j] <= a + 1 /\ t[j] - j <= d
  <2>1. CASE j = n + 1
    BY <1>3, <1>4, <2>1
  <2>2. CASE j # n + 1
    <3>1. j \in 1..n
      BY <2>2
    <3>2. QED
      BY <1>2, <1>3, <1>5, <3>1
  <2>3. QED
    BY <2>1, <2>2
<1>9. QED
  BY <1>0, <1>3, <1>4, <1>7, <1>8 DEF Accounts

\* No packet of a slot has yet to arrive.
FramesKnown ==
  method \in Rings =>
    \A i \in Slots : \A m \in DOMAIN ring[i].frames : ring[i].frames[m] <= arrived

\* No slot holds a packet that has not arrived, after any step.
LEMMA FramesStep ==
  ASSUME RingInv, RingInv', ReaderTyped, method \in Rings => RingOrder,
         FramesKnown, CaptureNext
  PROVE  FramesKnown'
<1>1. method' = method
  BY DEF CaptureNext, Arrive, RetireByTimer, Measure, ReadPacket, Interrupted, SlotReady,
         ReadStats, TakeDrops, BlockFrame, SingleFrame, ReceivePacket
<1> SUFFICES ASSUME method \in Rings, NEW i \in Slots, NEW m \in DOMAIN ring'[i].frames
             PROVE  ring'[i].frames[m] <= arrived'
  BY <1>1 DEF FramesKnown, Slots
<1>2. arrived \in Nat
  BY DEF ReaderTyped
<1>3. PICK fs \in Seq(Nat) : fs = ring[i].frames
  BY DEF RingInv, RingTyped, SlotStates
<1>4. \A k \in 1..Len(fs) : fs[k] \in Nat /\ fs[k] <= arrived
  BY <1>3 DEF FramesKnown
<1>5. CASE Arrive \/ RetireByTimer
  <2>1. KernelEffect
    BY <1>5, KernelStep
  <2>2. arrived' = arrived \/ arrived' = arrived + 1
    BY <2>1 DEF KernelEffect, Taken, Refused, Quiet
  <2>3. CASE ring'[i].frames = ring[i].frames
    <3>1. m \in 1..Len(fs) /\ ring'[i].frames[m] = fs[m]
      BY <1>3, <2>3
    <3>2. QED
      BY <1>2, <1>4, <2>2, <3>1
  <2>4. CASE ring'[i].frames # ring[i].frames
    <3>1. ring'[i].frames = Append(fs, arrived + 1) /\ arrived' = arrived + 1
      BY <1>3, <2>1, <2>4 DEF KernelEffect, LongerFrames, SameFrames, Taken
    <3>2. PICK gs : gs = Append(fs, arrived + 1)
      OBVIOUS
    <3>3. PICK n \in Nat : n = Len(fs)
      OBVIOUS
    <3>4. /\ DOMAIN gs = 1..(n + 1) /\ gs[n + 1] = arrived + 1
          /\ \A k \in 1..n : gs[k] = fs[k]
      BY <1>2, <3>2, <3>3
    <3>5. m \in 1..(n + 1)
      BY <3>1, <3>2, <3>4
    <3>6. gs[m] <= arrived + 1
      BY <1>2, <1>4, <3>3, <3>4, <3>5
    <3>7. QED
      BY <3>1, <3>2, <3>6
  <2>5. QED
    BY <2>3, <2>4
<1>6. CASE ReaderNext
  <2>1. ReaderEffect
    BY <1>6, ReaderStep
  <2>2. arrived' = arrived /\ (ring'[i] = ring[i] \/ ring'[i] = EmptySlot)
    BY <2>1 DEF ReaderEffect
  <2>3. CASE ring'[i] = ring[i]
    BY <1>3, <1>4, <2>2, <2>3
  <2>4. CASE ring'[i] = EmptySlot
    <3>1. ring'[i].frames = <<>>
      BY <2>4 DEF EmptySlot
    <3>2. m \in DOMAIN <<>>
      BY <3>1
    <3>3. QED
      BY <3>2
  <2>5. QED
    BY <2>2, <2>3, <2>4
<1>7. QED
  BY <1>5, <1>6 DEF CaptureNext, ReaderNext, ReceivePacket, Rings

\* InOrder holds after every step.
LEMMA InOrderStep ==
  ASSUME RingInv, RingInv', ReaderTyped, ReaderTyped', method \in Rings => RingOrder,
         InOrder, CaptureNext
  PROVE  InOrder'
<1>1. IdsStep
  BY EveryStep
<1>2. FramesKnown'
  <2>1. FramesKnown
    BY DEF InOrder, FramesKnown
  <2>2. QED
    BY <2>1, FramesStep
<1>3. Ids \in Seq(Nat) /\ arrived \in Nat /\ lost \in Nat
  BY IdsTypedOf DEF IdsTyped, ReaderTyped
<1>4. PICK s \in Seq(Nat) : s = Ids
  BY <1>3
<1>5. PICK n \in Nat : n = Len(s) /\ DOMAIN s = 1..n
  OBVIOUS
<1>6. /\ \A i, j \in 1..n : i < j => s[i] < s[j]
      /\ n = arrived - lost
      /\ \A j \in 1..n : s[j] <= arrived /\ s[j] - j <= lost /\ s[j] \in Nat
  <2>1. /\ \A i, j \in DOMAIN s : i < j => s[i] < s[j]
        /\ Len(s) = arrived - lost
        /\ \A j \in DOMAIN s : s[j] <= arrived /\ s[j] - j <= lost
    BY <1>4, Zenon DEF InOrder
  <2>2. \A j \in 1..n : s[j] \in Nat
    BY <1>5
  <2>3. QED
    BY <1>5, <2>1, <2>2
<1>7. PICK t : t = Ids'
  OBVIOUS
<1>8. t \in Seq(Nat)
  <2>1. IdsTyped'
    BY IdsTypedOf, PTL
  <2>2. QED
    BY <1>7, <2>1 DEF IdsTyped
<1>9. /\ \A i, j \in 1..Len(t) : i < j => t[i] < t[j]
      /\ Len(t) = arrived' - lost'
      /\ \A j \in 1..Len(t) : t[j] <= arrived' /\ t[j] - j <= lost'
  <2>1. CASE t = s /\ UNCHANGED <<arrived, lost>>
    BY <1>5, <1>6, <2>1
  <2>2. CASE t = s /\ arrived' = arrived + 1 /\ lost' = lost + 1
    <3>1. \A j \in 1..n : s[j] <= arrived + 1 /\ s[j] - j <= lost + 1
      BY <1>3, <1>6
    <3>2. n = (arrived + 1) - (lost + 1)
      BY <1>3, <1>6
    <3>3. QED
      BY <1>5, <1>6, <2>2, <3>1, <3>2
  <2>3. CASE t = Append(s, arrived + 1) /\ arrived' = arrived + 1 /\ lost' = lost
    <3>1. Accounts(s, arrived, lost)
      BY <1>5, <1>6 DEF Accounts
    <3>2. Accounts(Append(s, arrived + 1), arrived + 1, lost)
      BY <1>3, <3>1, IdsInOrder
    <3>3. QED
      BY <2>3, <3>2 DEF Accounts
  <2>4. QED
    BY <1>1, <1>4, <1>7, <2>1, <2>2, <2>3 DEF IdsStep
<1>10. DOMAIN t = 1..Len(t)
  BY <1>8
<1>11. QED
  BY <1>2, <1>7, <1>9, <1>10 DEF InOrder, FramesKnown

(* The counts, which are counted round and round.                           *)

\* The last two conjuncts of NothingUnaccounted.
Sums ==
  /\ method \in Rings => (Held + drops + kdrops) % Wrap = (lost + junk) % Wrap
  /\ method = "packet" => Held % Wrap = (counted - junk) % Wrap

\* Receiving a packet adds what it reports to what the records hold.
LEMMA ReceivedHeld ==
  ASSUME ReaderTyped, ReceivePacket, NEW e, NEW n \in Nat, Received(e, n)
  PROVE  Held' = Held + n /\ Held = Reported(out)
<1>1. /\ Reported(out') = Reported(out) + n /\ Reported(builder') = 0
      /\ builder = <<>> /\ dropped' = dropped /\ dropped = 0
  BY DEF Received, ReceivePacket, ReaderTyped
<1>2. Reported(builder) = 0
  BY <1>1, ReportedNone
<1>3. Reported(out) \in Nat
  BY HeldTyped
<1>4. QED
  BY <1>1, <1>2, <1>3 DEF Held

\* Sums holds after every step, whichever counter has started again.
LEMMA SumsStep ==
  ASSUME RingInv, RingInv', ReaderTyped, ReaderTyped', method \in Rings => RingOrder,
         Sums, CaptureNext
  PROVE  Sums'
<1>0. UNCHANGED <<method, junk>>
  BY DEF CaptureNext, Arrive, RetireByTimer, Measure, ReadPacket, Interrupted, SlotReady,
         ReadStats, TakeDrops, BlockFrame, SingleFrame, ReceivePacket
<1>1. PICK w \in Nat \ {0} : w = Wrap
  BY GeometryAssumption
<1>a. \A x, y, m \in Int : m = y % w => (x + m) % w = (x + y) % w
  BY ModSums
<1>b. \A x, y, z \in Int : x % w = y % w => (x + z) % w = (y + z) % w
  BY ModSums
<1>2. PICK h \in Nat, k \in Nat, d \in Nat, l \in Nat, j \in Nat, c \in Nat :
         h = Held /\ k = kdrops /\ d = drops /\ l = lost /\ j = junk /\ c = counted
  BY HeldTyped DEF ReaderTyped
<1>3. CASE method = "packet"
  <2>1. h % w = (c - j) % w
    BY <1>1, <1>2, <1>3 DEF Sums
  <2>2. Held' % w = (counted' - junk') % w
    <3>1. CASE Arrive
      <4>1. Held' = Held /\ counted' = counted
        BY <3>1 DEF Arrive, Held, Reported
      <4>2. QED
        BY <1>0, <1>2, <2>1, <4>1
    <3>2. CASE ReceivePacket
      <4>1. PICK e \in QueueElems, n \in Nat : Received(e, n)
        BY <3>2, Receiving
      <4>2. PICK t \in Nat : t = e.total
        BY DEF QueueElems
      <4>3. /\ n = (IF t = 0 THEN 0 ELSE (t - c) % w)
            /\ counted' = (IF t = 0 THEN c ELSE t)
        BY <1>1, <1>2, <4>1, <4>2 DEF Received
      <4>4. Held' = h + n
        BY <1>2, <3>2, <4>1, ReceivedHeld
      <4>5. CASE t = 0
        <5>1. Held' = h /\ counted' = c
          BY <4>3, <4>4, <4>5
        <5>2. QED
          BY <1>0, <1>2, <2>1, <5>1
      <4>6. CASE t # 0
        <5>1. PICK y \in Int, x \in Int, z \in Int : y = t - c /\ x = c - j /\ z = t - j
          OBVIOUS
        <5>0. h \in Int /\ n \in Int
          OBVIOUS
        <5>2. n = y % w
          BY <4>3, <4>6, <5>1
        <5>3. (h + n) % w = (h + y) % w
          BY <1>a, <5>2, <5>0, Zenon
        <5>4. (h + y) % w = (x + y) % w
          <6>1. h % w = x % w
            BY <2>1, <5>1
          <6>2. QED
            BY <1>b, <5>0, <6>1, ZenonT(40)
        <5>5. x + y = z
          BY <5>1
        <5>6. Held' = h + n /\ counted' - junk' = z
          BY <1>0, <1>2, <4>3, <4>4, <4>6, <5>1
        <5>7. QED
          BY <5>3, <5>4, <5>5, <5>6
      <4>7. QED
        BY <4>5, <4>6
    <3>3. CASE ~Arrive /\ ~ReceivePacket
      <4>1. QueueRests
        BY <1>3, <3>3, QueueOther
      <4>2. Held' = Held /\ counted' = counted
        BY <4>1, HeldTyped DEF QueueRests, Held
      <4>3. QED
        BY <1>0, <1>2, <2>1, <4>2
    <3>4. QED
      BY <3>1, <3>2, <3>3
  <2>3. QED
    BY <1>0, <1>1, <1>3, <2>2 DEF Sums, Rings
<1>4. CASE method \in Rings
  <2>1. PICK x \in Int, y \in Int : x = h + d + k /\ y = l + j
    OBVIOUS
  <2>2. x % w = y % w
    BY <1>1, <1>2, <1>4, <2>1 DEF Sums
  <2>3. \/ Held' + drops' + kdrops' = x /\ lost' = lost
        \/ Held' + drops' + kdrops' = x + 1 /\ lost' = lost + 1
        \/ Held' = h /\ UpdateStats /\ lost' = lost
    <3>1. CASE Arrive \/ RetireByTimer
      <4>1. KernelEffect
        BY <1>4, <3>1, KernelStep
      <4>2. Held' = Held /\ drops' = drops
        BY <4>1 DEF KernelEffect, ReaderRests, Held, Reported
      <4>3. UNCHANGED <<lost, kdrops>> \/ (lost' = lost + 1 /\ kdrops' = kdrops + 1)
        BY <4>1 DEF KernelEffect, Taken, Refused, Quiet
      <4>4. QED
        BY <1>2, <2>1, <4>2, <4>3
    <3>2. CASE ReaderNext
      <4>1. SumStays /\ lost' = lost
        BY <1>4, <3>2, ReaderStep DEF ReaderEffect
      <4>2. QED
        BY <1>2, <2>1, <4>1 DEF SumStays
    <3>3. QED
      BY <1>4, <3>1, <3>2 DEF CaptureNext, ReaderNext, ReceivePacket, Rings
  <2>4. (Held' + drops' + kdrops') % w = (lost' + junk') % w
    <3>1. CASE Held' + drops' + kdrops' = x /\ lost' = lost
      BY <1>0, <1>2, <2>1, <2>2, <3>1
    <3>2. CASE Held' + drops' + kdrops' = x + 1 /\ lost' = lost + 1
      <4>0. 1 \in Int
        OBVIOUS
      <4>1. (x + 1) % w = (y + 1) % w
        BY <1>b, <2>2, <4>0, Zenon
      <4>2. lost' + junk' = y + 1
        BY <1>0, <1>2, <2>1, <3>2
      <4>3. QED
        BY <3>2, <4>1, <4>2
    <3>3. CASE Held' = h /\ UpdateStats /\ lost' = lost
      <4>1. PICK s \in Int : s = d + k
        OBVIOUS
      <4>2. PICK m : m = s % w
        OBVIOUS
      <4>0. h \in Int
        OBVIOUS
      <4>5. m \in Int
        BY <4>2, ModIs
      <4>3. (h + m) % w = (h + s) % w
        BY <1>a, <4>2, <4>5, <4>0, Zenon
      <4>4. drops' = m /\ kdrops' = 0
        BY <1>1, <1>2, <3>3, <4>1, <4>2 DEF UpdateStats
      <4>6. Held' + drops' + kdrops' = h + m /\ h + s = x
        BY <2>1, <3>3, <4>1, <4>4, <4>5
      <4>7. lost' + junk' = y
        BY <1>0, <1>2, <2>1, <3>3
      <4>8. QED
        BY <2>2, <4>3, <4>6, <4>7
    <3>4. QED
      BY <2>3, <3>1, <3>2, <3>3
  <2>5. QED
    BY <1>0, <1>1, <1>4, <2>4 DEF Sums, Rings
<1>5. QED
  BY <1>3, <1>4 DEF ReaderTyped

(* Losses are reported in time: the parts of Collectable.                   *)

\* Where nothing has disturbed the counts yet, nothing had before.
LEMMA CountsAllBefore ==
  ASSUME RingInv, ReaderTyped, method \in Rings => RingOrder, CaptureNext, CountsAll'
  PROVE  CountsAll /\ lost' < Wrap /\ monitored = FALSE /\ junk = 0
<1>1. UNCHANGED <<monitored, junk>>
  BY DEF CaptureNext, Arrive, RetireByTimer, Measure, ReadPacket, Interrupted, SlotReady,
         ReadStats, TakeDrops, BlockFrame, SingleFrame, ReceivePacket
<1>2. lost' = lost \/ lost' = lost + 1
  <2>1. CASE Arrive
    BY <2>1 DEF Arrive, StoreInRing, StoreInQueue, Drop
  <2>2. CASE ~Arrive
    BY <2>2 DEF CaptureNext, RetireByTimer, Measure, ReadPacket, Interrupted, SlotReady,
         ReadStats, TakeDrops, BlockFrame, SingleFrame, ReceivePacket, kernelVars
  <2>3. QED
    BY <2>1, <2>2
<1>3. lost \in Nat /\ Wrap \in Nat /\ monitored \in BOOLEAN
  BY GeometryAssumption DEF ReaderTyped
<1>4. QED
  BY <1>1, <1>2, <1>3 DEF CountsAll

\* RingCounts holds after every step.
LEMMA RingCountsStep ==
  ASSUME RingInv, RingInv', ReaderTyped, RingOrder, method \in Rings, CountsAll,
         RingCounts, CaptureNext
  PROVE  RingCounts'
<1>1. /\ drops \in Nat /\ kdrops \in Nat /\ lost \in Nat /\ Held \in Nat /\ Wrap \in Nat \ {0}
      /\ lost < Wrap /\ ~monitored /\ Held + drops + kdrops = lost
      /\ (drops # 0 => pc = "drops")
  BY GeometryAssumption, HeldTyped DEF ReaderTyped, CountsAll, RingCounts
<1>2. CASE Arrive \/ RetireByTimer
  <2>1. KernelEffect
    BY <1>2, KernelStep
  <2>2. Held' = Held /\ drops' = drops /\ pc' = pc
    BY <2>1 DEF KernelEffect, ReaderRests, Held, Reported
  <2>3. UNCHANGED <<lost, kdrops>> \/ (lost' = lost + 1 /\ kdrops' = kdrops + 1)
    BY <2>1 DEF KernelEffect, Taken, Refused, Quiet
  <2>4. QED
    BY <1>1, <2>2, <2>3 DEF RingCounts
<1>3. CASE ReadStats
  <2>1. Held' = Held /\ UpdateStats /\ pc' = "drops" /\ pc = "stats" /\ lost' = lost
    BY <1>3 DEF ReadStats, Held, Reported, kernelVars
  <2>2. PICK w \in Nat \ {0}, x \in Nat : w = Wrap /\ x = drops + kdrops
    BY <1>1
  <2>3. x \in 0..(2 * w - 1) /\ x < w
    BY <1>1, <2>2
  <2>4. x % w = x
    BY <2>3, ModTurn
  <2>5. drops' = x /\ kdrops' = 0
    BY <2>1, <2>2, <2>4 DEF UpdateStats
  <2>6. QED
    BY <1>1, <2>1, <2>2, <2>5 DEF RingCounts
<1>4. CASE ReaderNext /\ ~ReadStats
  <2>1. SumStays /\ lost' = lost
    BY <1>4, ReaderStep DEF ReaderEffect
  <2>2. (drops' = drops /\ kdrops' = kdrops /\ pc # "drops") \/ (drops' = 0 /\ kdrops' = kdrops)
    BY <1>1, <1>4 DEF ReaderNext, ReadPacket, Interrupted, SlotReady, TakeDrops,
       BlockFrame, SingleFrame, Measure
  <2>3. Held' + drops' = Held + drops
    <3>1. CASE Held' = Held /\ UpdateStats
      <4>1. kdrops' = 0 /\ drops' = (drops + kdrops) % Wrap
        BY <3>1 DEF UpdateStats
      <4>2. kdrops = 0
        BY <2>2, <4>1
      <4>3. PICK w \in Nat \ {0}, x \in Nat : w = Wrap /\ x = drops + kdrops
        BY <1>1
      <4>4. x \in 0..(2 * w - 1) /\ x < w
        BY <1>1, <4>3
      <4>5. x % w = x
        BY <4>4, ModTurn
      <4>6. QED
        BY <1>1, <3>1, <4>1, <4>2, <4>3, <4>5
    <3>2. QED
      BY <2>1, <3>1 DEF SumStays
  <2>4. kdrops' = kdrops /\ (drops' # 0 => pc' = "drops")
    BY <1>1, <2>2
  <2>5. QED
    BY <1>1, <2>1, <2>3, <2>4 DEF RingCounts
<1>5. QED
  BY <1>2, <1>3, <1>4 DEF CaptureNext, ReaderNext, ReceivePacket, Rings

\* What the reader had not collected before, only reading the counter collects.
LEMMA CollectedBefore ==
  ASSUME RingInv, RingInv', ReaderTyped, RingOrder, method \in Rings,
         ReaderNext, ~ReadStats, ~Measure, NEW i \in Slots, Collected(i)'
  PROVE  Collected(i) /\ ring'[i] = ring[i]
<1>1. ring'[i].user /\ i # last'
      /\ (ring'[i].losing =>
            i = pos' /\ (pc' \in {"drops", "frame"} \/ (pc' = "idle" /\ inBlock')))
  BY DEF Collected
<1>2. ring'[i] = ring[i] /\ i # NoSlot /\ (i # last \/ ring'[i] = ring[i])
  <2>1. ring'[i] = ring[i] \/ (i = last /\ ring'[i] = EmptySlot)
    BY ReaderStep DEF ReaderEffect
  <2>2. ~EmptySlot.user
    BY DEF EmptySlot
  <2>3. i # NoSlot
    <3>1. SlotCount(method) \in Nat
      BY Geometry DEF SlotCount
    <3>2. QED
      BY <3>1 DEF Slots, NoSlot
  <2>4. QED
    BY <1>1, <2>1, <2>2, <2>3
<1>3. i # last
  <2>1. CASE last' = last
    BY <1>1, <2>1
  <2>2. CASE last' # last
    <3>1. CASE ReadPacket
      <4>1. last # NoSlot /\ ring' = [ring EXCEPT ![last] = EmptySlot]
        BY <2>2, <3>1 DEF ReadPacket, Released
      <4>2. ring \in [Slots -> SlotStates]
        BY DEF RingInv, RingTyped
      <4>3. i = last => ring'[i] = EmptySlot
        BY <4>1, <4>2
      <4>4. QED
        BY <1>1, <4>3 DEF EmptySlot
    <3>2. CASE BlockFrame \/ SingleFrame
      <4>1. pc # "idle"
        BY <3>2 DEF BlockFrame, SingleFrame
      <4>2. last = NoSlot
        <5>1. PICK c : OrderAt(c)
          BY OrderAtIs DEF Ordered
        <5>2. QED
          BY <4>1, <5>1 DEF OrderAt
      <4>3. QED
        BY <1>2, <4>2
    <3>3. QED
      BY <2>2, <3>1, <3>2 DEF ReaderNext, Interrupted, SlotReady, TakeDrops, readVars
  <2>3. QED
    BY <2>1, <2>2
<1>4. ReadersPlace
  BY DEF RingInv
<1>5. ring[i].losing => i = pos /\ (pc \in {"drops", "frame"} \/ (pc = "idle" /\ inBlock))
  <2> SUFFICES ASSUME ring[i].losing
               PROVE  i = pos /\ (pc \in {"drops", "frame"} \/ (pc = "idle" /\ inBlock))
    OBVIOUS
  <2>1. i = pos' /\ (pc' \in {"drops", "frame"} \/ (pc' = "idle" /\ inBlock'))
    BY <1>1, <1>2
  <2>2. CASE ReadPacket
    BY <2>1, <2>2 DEF ReadPacket, ReturnFrom
  <2>3. CASE Interrupted
    BY <2>1, <2>3 DEF Interrupted
  <2>4. CASE SlotReady
    BY <2>1, <2>4 DEF SlotReady
  <2>5. CASE TakeDrops
    BY <2>1, <2>5 DEF TakeDrops, readVars
  <2>6. CASE BlockFrame
    <3>1. pc' = "idle" /\ pc = "frame"
      BY <2>6 DEF BlockFrame, ReturnFrom
    <3>2. inBlock'
      BY <2>1, <3>1
    <3>3. pos' = pos
      BY <2>6, <3>2 DEF BlockFrame
    <3>4. QED
      BY <2>1, <3>1, <3>3
  <2>7. CASE SingleFrame
    <3>1. pc' = "idle" /\ pc = "frame" /\ ~Blocks /\ inBlock' = inBlock
      BY <2>7 DEF SingleFrame, ReturnFrom
    <3>2. inBlock = Blocks
      BY <1>4, <3>1 DEF ReadersPlace
    <3>3. QED
      BY <2>1, <3>1, <3>2
  <2>8. QED
    BY <2>2, <2>3, <2>4, <2>5, <2>6, <2>7 DEF ReaderNext
<1>6. QED
  BY <1>1, <1>2, <1>3, <1>5 DEF Collected

\* What is told and what is taken is numbers.
ToldTyped == Held \in Nat /\ drops \in Nat

\* ReaderTyped says so.
LEMMA ToldTypedOf == ReaderTyped => ToldTyped
BY HeldTyped DEF ReaderTyped, ToldTyped

\* RingCollected holds after every step.
LEMMA RingCollectedStep ==
  ASSUME RingInv, RingInv', ReaderTyped, ReaderTyped', RingOrder, method \in Rings,
         CountsAll, InOrder, InOrder', RingCounts, RingCounts', RingCollected, CaptureNext
  PROVE  RingCollected'
<1>1. /\ Ids \in Seq(Nat) /\ Ids' \in Seq(Nat)
  <2>1. IdsTyped /\ IdsTyped'
    BY IdsTypedOf, PTL
  <2>2. QED
    BY <2>1 DEF IdsTyped
<1>2. PICK s \in Seq(Nat), t \in Seq(Nat), h \in Nat, g \in Nat :
         s = Ids /\ t = Ids' /\ h = Held + drops /\ g = Held' + drops'
  <2>1. ToldTyped /\ ToldTyped'
    BY ToldTypedOf, PTL
  <2>2. Held + drops \in Nat /\ Held' + drops' \in Nat
    <3>1. Held \in Nat /\ drops \in Nat /\ Held' \in Nat /\ drops' \in Nat
      BY <2>1, Zenon DEF ToldTyped
    <3>2. \A a, b \in Nat : a + b \in Nat
      OBVIOUS
    <3>3. QED
      BY <3>1, <3>2, Zenon
  <2>3. QED
    BY <1>1, <2>2
<1>3. /\ \A j \in DOMAIN s : s[j] <= arrived /\ s[j] - j <= lost /\ s[j] \in Nat
      /\ \A j \in DOMAIN t : t[j] - j <= lost'
  <2>1. \A j \in DOMAIN s : s[j] \in Nat
    OBVIOUS
  <2>2. \A j \in DOMAIN s : s[j] <= arrived /\ s[j] - j <= lost
    BY <1>2, Zenon DEF InOrder
  <2>3. \A j \in DOMAIN t : t[j] - j <= lost'
    BY <1>2, Zenon DEF InOrder
  <2>4. QED
    BY <2>1, <2>2, <2>3
<1>4. /\ h + kdrops = lost /\ g + kdrops' = lost'
      /\ {kdrops, lost, arrived, kdrops', lost'} \subseteq Nat
  BY <1>2 DEF RingCounts, ReaderTyped
<1>5. \A i \in Slots, j \in DOMAIN s :
        Collected(i) /\ Contains(ring[i].frames, s[j]) => s[j] - j <= h
  BY <1>2, Zenon DEF RingCollected
<1>6. method' = method /\ Slots' = Slots
  BY DEF CaptureNext, Arrive, RetireByTimer, Measure, ReadPacket, Interrupted, SlotReady,
         ReadStats, TakeDrops, BlockFrame, SingleFrame, ReceivePacket, Slots
<1> SUFFICES ASSUME NEW i \in Slots, NEW j \in DOMAIN t,
                    Collected(i)', Contains(ring'[i].frames, t[j])
             PROVE  t[j] - j <= g
  BY <1>2, <1>6 DEF RingCollected, Contains
<1>7. t[j] \in Nat /\ j \in Nat
  OBVIOUS
<1>8. CASE kdrops' = 0
  BY <1>3, <1>4, <1>8
<1>9. CASE ReaderNext /\ ~ReadStats
  <2>1. ~Measure
    BY DEF Measure, CountsAll
  <2>2. Collected(i) /\ ring'[i] = ring[i]
    BY <1>9, <2>1, CollectedBefore
  <2>3. t = s /\ lost' = lost /\ (kdrops' = kdrops \/ kdrops' = 0)
    BY <1>2, <1>9, ReaderStep DEF ReaderEffect, SumStays, UpdateStats
  <2>4. t[j] - j <= h
    BY <1>5, <2>2, <2>3
  <2>5. QED
    BY <1>4, <1>7, <1>8, <2>3, <2>4
<1>10. CASE ReadStats
  <2>1. kdrops' = 0
    BY <1>10 DEF ReadStats, UpdateStats
  <2>2. QED
    BY <1>8, <2>1
<1>11. CASE Arrive \/ RetireByTimer
  <2>1. KernelEffect
    BY <1>11, KernelStep
  <2>2. UNCHANGED <<pos, last, pc, inBlock, drops, out, builder, dropped>>
    BY <2>1 DEF KernelEffect, ReaderRests, readVars
  <2>3. g = h
    BY <1>2, <2>2 DEF Held, Reported
  <2>4. \/ t = s
        \/ t = Append(s, arrived + 1) /\ UNCHANGED <<lost, kdrops>> /\ LongerFrames(arrived + 1)
    <3>1. arrived + 1 \in Nat
      BY <1>4
    <3>2. PICK p \in Nat : p = arrived + 1
      BY <3>1
    <3>3. /\ Unread' = Append(Unread, p) => Ids' = Append(Ids, p)
          /\ Unread' = Unread => Ids' = Ids
      BY <2>2, IdsLonger
    <3>4. QED
      BY <1>2, <2>1, <3>2, <3>3 DEF KernelEffect, Taken, Refused, Quiet
  <2>5. CASE ring'[i] # ring[i]
    <3>1. ring'[i].user
      BY DEF Collected
    <3>2. ring'[i].losing <=> kdrops > 0
      BY <2>1, <2>5, <3>1 DEF KernelEffect, Flagged
    <3>3. ~ring'[i].losing
      <4> SUFFICES ASSUME ring'[i].losing PROVE FALSE
        OBVIOUS
      <4>1. i = pos /\ (pc \in {"drops", "frame"} \/ (pc = "idle" /\ inBlock))
        BY <2>2 DEF Collected
      <4>2. ring[pos].user
        BY <4>1 DEF RingInv, ReadersPlace
      <4>3. ring'[i] = ring[i]
        BY <2>1, <4>1, <4>2 DEF KernelEffect
      <4>4. QED
        BY <2>5, <4>3
    <3>4. kdrops = 0
      BY <1>4, <3>2, <3>3
    <3>5. CASE t = s
      <4>1. t[j] - j <= lost
        BY <1>3, <3>5
      <4>2. QED
        BY <1>4, <1>7, <2>3, <3>4, <4>1
    <3>6. CASE t # s
      <4>1. kdrops' = 0
        BY <2>4, <3>4, <3>6
      <4>2. QED
        BY <1>8, <4>1
    <3>7. QED
      BY <3>5, <3>6
  <2>6. CASE ring'[i] = ring[i]
    <3>1. Collected(i)
      BY <2>2, <2>6 DEF Collected
    <3>2. CASE j \in DOMAIN s /\ t[j] = s[j]
      BY <1>5, <2>3, <2>6, <3>1, <3>2
    <3>3. CASE ~(j \in DOMAIN s /\ t[j] = s[j])
      <4>1. t = Append(s, arrived + 1) /\ t # s
        BY <2>4, <3>3
      <4>2. PICK n \in Nat, e \in Nat : n = Len(s) /\ e = arrived + 1
        BY <1>4
      <4>3. /\ DOMAIN t = 1..(n + 1) /\ DOMAIN s = 1..n /\ t[n + 1] = e
            /\ \A k \in 1..n : t[k] = s[k]
        <5>1. t = Append(s, e)
          BY <4>1, <4>2
        <5>2. QED
          BY ONLY s \in Seq(Nat), e \in Nat, n \in Nat, <4>2, <5>1
      <4>4. t[j] = e
        <5>1. j \in 1..n \/ j = n + 1
          BY <4>3
        <5>2. QED
          BY <3>3, <4>3, <5>1
      <4>5. PICK k \in DOMAIN ring[i].frames : ring[i].frames[k] = e
        <5>1. PICK fs : fs = ring[i].frames
          OBVIOUS
        <5>2. fs \in Seq(Nat)
          <6>1. ring[i] \in SlotStates
            BY DEF RingInv, RingTyped
          <6>2. QED
            BY <5>1, <6>1 DEF SlotStates
        <5>3. Contains(fs, e)
          BY <2>6, <4>4, <5>1
        <5>4. DOMAIN fs = 1..Len(fs)
          BY <5>2
        <5>5. \E k \in DOMAIN fs : fs[k] = e
          BY <5>3, <5>4 DEF Contains
        <5>6. QED
          BY <5>1, <5>5
      <4>6. ring[i].frames[k] <= arrived
        BY DEF InOrder
      <4>7. QED
        BY <1>4, <4>2, <4>5, <4>6
    <3>4. QED
      BY <3>2, <3>3
  <2>7. QED
    BY <2>5, <2>6
<1>12. QED
  BY <1>9, <1>10, <1>11 DEF CaptureNext, ReaderNext, ReceivePacket, Rings

\* The drops that records report up to each packet.
Timely(recs) ==
  \A i \in 1..Len(recs) :
     recs[i].kind = "packet" =>
        Reported(SubSeq(recs, 1, i)) >= recs[i].id - Len(IdsOf(SubSeq(recs, 1, i)))

\* A record that follows enough reports keeps the records timely.
LEMMA TimelyAppend ==
  ASSUME NEW s \in Seq(CaptureRecs), NEW r \in CaptureRecs, Timely(s),
         r.kind = "packet" => r.id - (Len(IdsOf(s)) + 1) <= Reported(s) + r.count
  PROVE  Timely(Append(s, r))
<1>1. PICK t : t = Append(s, r)
  OBVIOUS
<1>2. PICK n \in Nat : n = Len(s)
  OBVIOUS
<1>3. t \in Seq(CaptureRecs) /\ Len(t) = n + 1 /\ t[n + 1] = r
      /\ \A i \in 1..n : t[i] = s[i]
  BY <1>1, <1>2
<1>4. IdsOf(s) \in Seq(Nat) /\ Reported(s) \in Nat
  BY IdsAppend, ReportedAppend
<1>5. ASSUME NEW i \in 1..n PROVE SubSeq(t, 1, i) = SubSeq(s, 1, i)
  <2>1. PICK a, b : a = SubSeq(t, 1, i) /\ b = SubSeq(s, 1, i)
    OBVIOUS
  <2>2. a \in Seq(CaptureRecs) /\ Len(a) = i /\ \A k \in 1..i : a[k] = t[k]
    BY <1>3, <2>1
  <2>3. b \in Seq(CaptureRecs) /\ Len(b) = i /\ \A k \in 1..i : b[k] = s[k]
    BY <1>2, <2>1
  <2>4. \A k \in 1..i : a[k] = b[k]
    BY <1>3, <2>2, <2>3
  <2>5. a = b
    BY <2>2, <2>3, <2>4, SeqEqual
  <2>6. QED
    BY <2>1, <2>5
<1>6. SubSeq(t, 1, n + 1) = t
  BY <1>3, SubSeqFull
<1>7. ASSUME NEW i \in 1..(n + 1), t[i].kind = "packet"
      PROVE  Reported(SubSeq(t, 1, i)) >= t[i].id - Len(IdsOf(SubSeq(t, 1, i)))
  <2>1. CASE i \in 1..n
    <3>1. SubSeq(t, 1, i) = SubSeq(s, 1, i) /\ t[i] = s[i]
      BY <1>3, <1>5, <2>1
    <3>2. Reported(SubSeq(s, 1, i)) >= s[i].id - Len(IdsOf(SubSeq(s, 1, i)))
      BY <1>2, <1>7, <2>1, <3>1 DEF Timely
    <3>3. QED
      BY <3>1, <3>2
  <2>2. CASE i = n + 1
    <3>1. r.kind = "packet" /\ t[i] = r /\ SubSeq(t, 1, i) = t
      BY <1>3, <1>6, <1>7, <2>2
    <3>2. IdsOf(t) = Append(IdsOf(s), r.id) /\ Reported(t) = Reported(s) + r.count
      BY <1>1, <3>1, IdsAppend, ReportedAppend
    <3>3. r.id \in Nat /\ r.count \in Nat
      BY DEF CaptureRecs
    <3>4. Len(IdsOf(t)) = Len(IdsOf(s)) + 1
      BY <1>4, <3>2, <3>3
    <3>5. PICK x \in Nat, l \in Nat : x = Reported(s) /\ l = Len(IdsOf(s))
      BY <1>4
    <3>6. QED
      BY <3>1, <3>2, <3>3, <3>4, <3>5
  <2>3. QED
    BY <2>1, <2>2
<1>8. Timely(t)
  BY <1>3, <1>7 DEF Timely
<1>9. QED
  BY <1>1, <1>8

\* So do the records that are built for a packet with the drops before it.
LEMMA BuiltInTime ==
  ASSUME ReaderTyped, NEW p \in Nat, NEW m \in Nat, ReturnFrom(BuildPacket(p, m)),
         Timely(out), p - (Len(IdsOf(out)) + 1) <= Reported(out) + m
  PROVE  KeptCounted' /\ Timely(out')
<1>1. out \in Seq(CaptureRecs) /\ Reported(out) \in Nat
  BY HeldTyped DEF ReaderTyped
<1>2. CASE m = 0
  <2>1. out' = Append(out, PacketRec(p)) /\ builder' = <<>>
    BY <1>2, ReturnPacket
  <2>2. PICK r \in CaptureRecs : /\ r = PacketRec(p) /\ r.kind = "packet" /\ r.id = p
                                 /\ r.count = 0
    BY RecsTyped
  <2>3. Timely(Append(out, r))
    BY <1>1, <1>2, <2>2, TimelyAppend
  <2>4. QED
    BY <2>1, <2>2, <2>3 DEF KeptCounted
<1>3. CASE m # 0
  <2>1. out' = Append(out, LostRec(m)) /\ builder' = <<PacketRec(p)>>
    BY <1>3, ReturnPacket
  <2>2. PICK r \in CaptureRecs : /\ r = LostRec(m) /\ r.kind = "lost"
    BY RecsTyped
  <2>3. Timely(Append(out, r))
    BY <1>1, <2>2, TimelyAppend
  <2>4. IdsOf(out') = IdsOf(out) /\ Reported(out') = Reported(out) + m
    BY <1>1, <2>1, OutLost
  <2>5. builder'[1].id = p
    <3>1. builder'[1] = PacketRec(p)
      BY <2>1
    <3>2. QED
      BY <3>1, RecsTyped
  <2>6. KeptCounted'
    <3>1. builder'[1].id - (Len(IdsOf(out')) + 1) <= Reported(out')
      BY <2>4, <2>5
    <3>2. QED
      BY <3>1 DEF KeptCounted
  <2>7. QED
    BY <2>1, <2>2, <2>3, <2>6
<1>4. QED
  BY <1>2, <1>3

\* Where a packet is that follows those that were returned.
LEMMA NextId ==
  ASSUME ReaderTyped, NEW p \in Nat, NEW r \in Seq(Nat), Ids = Append(IdsOf(out), p) \o r
  PROVE  Len(IdsOf(out)) + 1 \in DOMAIN Ids /\ Ids[Len(IdsOf(out)) + 1] = p
<1>1. PICK x \in Seq(Nat) : x = IdsOf(out)
  BY HeldTyped
<1>2. PICK n \in Nat : n = Len(x)
  OBVIOUS
<1>3. PICK y \in Seq(Nat) : y = Append(x, p) /\ Len(y) = n + 1 /\ y[n + 1] = p
  <2>1. PICK y : y = Append(x, p)
    OBVIOUS
  <2>2. y \in Seq(Nat) /\ Len(y) = n + 1 /\ y[n + 1] = p
    BY <1>2, <2>1
  <2>3. QED
    BY <2>1, <2>2
<1>4. PICK z : z = y \o r
  OBVIOUS
<1>5. PICK m \in Nat : m = Len(r)
  OBVIOUS
<1>6. /\ y \o r \in Seq(Nat) /\ Len(y \o r) = Len(y) + Len(r)
      /\ \A i \in 1..(Len(y) + Len(r)) :
            (y \o r)[i] = IF i <= Len(y) THEN y[i] ELSE r[i - Len(y)]
  BY ConcatProperties
<1>7. n + 1 \in DOMAIN z /\ z[n + 1] = p
  <2>1. z \in Seq(Nat) /\ Len(z) = (n + 1) + m
    BY <1>3, <1>4, <1>5, <1>6
  <2>2. n + 1 \in 1..((n + 1) + m)
    OBVIOUS
  <2>3. z[n + 1] = y[n + 1]
    BY <1>3, <1>4, <1>5, <1>6, <2>2
  <2>4. QED
    BY <1>3, <2>1, <2>2, <2>3
<1>8. QED
  BY <1>1, <1>2, <1>3, <1>4, <1>7

\* The step returns the record that was kept, a record of drops, or none.
LEMMA NoneBuilt ==
  ASSUME ReaderTyped, KeptCounted, Timely(out),
         \/ UNCHANGED <<out, builder>>
         \/ builder # <<>> /\ ReturnFrom(builder)
         \/ \E n \in Nat : ReturnFrom(<<LostRec(n)>>)
  PROVE  KeptCounted' /\ Timely(out')
<1>1. out \in Seq(CaptureRecs) /\ Reported(out) \in Nat
  BY HeldTyped DEF ReaderTyped
<1>2. CASE UNCHANGED <<out, builder>>
  BY <1>2 DEF KeptCounted, IdsOf, Reported
<1>3. CASE builder # <<>> /\ ReturnFrom(builder)
  <2>1. /\ builder' = <<>>
        /\ \E p \in Nat : p = builder[1].id /\ out' = Append(out, PacketRec(p))
    BY <1>3, KeptReturned
  <2>2. PICK p \in Nat : p = builder[1].id /\ out' = Append(out, PacketRec(p))
    BY <2>1
  <2>3. PICK r \in CaptureRecs : /\ r = PacketRec(p) /\ r.kind = "packet" /\ r.id = p
                                 /\ r.count = 0
    BY RecsTyped
  <2>4. r.id - (Len(IdsOf(out)) + 1) <= Reported(out) + r.count
    BY <1>1, <1>3, <2>2, <2>3 DEF KeptCounted
  <2>5. Timely(Append(out, r))
    BY <1>1, <2>4, TimelyAppend
  <2>6. QED
    BY <2>1, <2>2, <2>3, <2>5 DEF KeptCounted
<1>4. CASE \E n \in Nat : ReturnFrom(<<LostRec(n)>>)
  <2>1. PICK n \in Nat : ReturnFrom(<<LostRec(n)>>)
    BY <1>4
  <2>2. PICK r \in CaptureRecs : r = LostRec(n) /\ r.kind = "lost"
    BY RecsTyped
  <2>3. out' = Append(out, r) /\ builder' = <<>>
    BY <2>1, <2>2, ReturnOne
  <2>4. Timely(Append(out, r))
    BY <1>1, <2>2, TimelyAppend
  <2>5. QED
    BY <2>3, <2>4 DEF KeptCounted
<1>5. QED
  BY <1>2, <1>3, <1>4

\* A ring's records stay timely, and so does the one that is kept.
LEMMA InTimeRings ==
  ASSUME RingInv, RingInv', ReaderTyped, RingOrder, method \in Rings, RingCounts,
         RingCollected, KeptCounted, Timely(out), CaptureNext
  PROVE  KeptCounted' /\ Timely(out')
<1>1. CASE BlockFrame \/ SingleFrame
  <2>1. method' = method
    BY <1>1 DEF BlockFrame, SingleFrame
  <2>2. PICK p \in Nat : /\ ReturnFrom(BuildPacket(p, dropped))
                         /\ Unread = <<p>> \o Unread'
                         /\ Contains(ring[pos].frames, p)
    BY <1>1, <2>1, FrameRead
  <2>3. /\ builder = <<>> /\ pc = "frame" /\ dropped \in Nat /\ drops = 0
        /\ ring[pos].user /\ pos \in Slots
    BY <1>1 DEF BlockFrame, SingleFrame, ReaderTyped, RingCounts, RingInv, ReadersPlace,
       RingTyped
  <2>4. Unread' \in Seq(Nat)
    <3>1. RingInv' /\ (method \in Rings)'
      BY <2>1
    <3>2. RowTyped'
      BY <3>1, RowTypedOf, PTL
    <3>3. QED
      BY <3>2 DEF RowTyped
  <2>5. PICK r \in Seq(Nat) : Ids = Append(IdsOf(out), p) \o r
    BY <2>2, <2>3, <2>4, PacketMoves
  <2>6. Len(IdsOf(out)) + 1 \in DOMAIN Ids /\ Ids[Len(IdsOf(out)) + 1] = p
    BY <2>5, NextId
  <2>7. Collected(pos)
    <3>1. pos # last
      <4>1. PICK c : OrderAt(c)
        BY OrderAtIs DEF Ordered
      <4>2. last = NoSlot
        BY <2>3, <4>1 DEF OrderAt
      <4>3. SlotCount(method) \in Nat
        BY Geometry DEF SlotCount
      <4>4. QED
        BY <2>3, <4>2, <4>3 DEF Slots, NoSlot
    <3>2. QED
      BY <2>3, <3>1 DEF Collected
  <2>8. PICK k \in DOMAIN Ids : k = Len(IdsOf(out)) + 1 /\ Ids[k] = p
    BY <2>6
  <2>9. p - k <= Held + drops
    BY <2>2, <2>3, <2>7, <2>8 DEF RingCollected
  <2>10. Held + drops = Reported(out) + dropped
    <3>1. Reported(builder) = 0 /\ Reported(out) \in Nat
      BY <2>3, ReportedNone, HeldTyped
    <3>2. QED
      BY <2>3, <3>1 DEF Held
  <2>11. p - (Len(IdsOf(out)) + 1) <= Reported(out) + dropped
    BY <2>8, <2>9, <2>10
  <2>12. QED
    BY <2>2, <2>3, <2>11, BuiltInTime
<1>2. CASE ~BlockFrame /\ ~SingleFrame
  <2>1. \/ UNCHANGED <<out, builder>>
        \/ builder # <<>> /\ ReturnFrom(builder)
        \/ drops \in Nat /\ ReturnFrom(<<LostRec(drops)>>)
    BY <1>2 DEF CaptureNext, Arrive, RetireByTimer, Measure, ReadPacket, Interrupted,
       SlotReady, ReadStats, TakeDrops, ReceivePacket, Rings, ReaderTyped
  <2>2. QED
    BY <2>1, NoneBuilt
<1>3. QED
  BY <1>1, <1>2

\* A count that has not come round.
LEMMA CountIs ==
  ASSUME ReaderTyped, CountsAll, QueueCounts, ReceivePacket, NEW e \in QueueElems,
         NEW n \in Nat, Received(e, n)
  PROVE  /\ counted' = e.total /\ n = e.total - counted /\ 1 \in DOMAIN queue
         /\ e = queue[1]
<1>1. PICK t \in Nat, c \in Nat, w \in Nat \ {0} : t = e.total /\ c = counted /\ w = Wrap
  BY GeometryAssumption DEF QueueElems, ReaderTyped
<1>2. queue \in Seq(QueueElems) /\ queue # <<>> /\ e = queue[1] /\ lost < w /\ lost \in Nat
  BY <1>1 DEF ReceivePacket, Received, ReaderTyped, CountsAll, QueueElems
<1>3. 1 \in DOMAIN queue
  BY <1>2
<1>4. c <= t /\ t <= lost
  BY <1>1, <1>2, <1>3 DEF QueueCounts
<1>5. /\ n = (IF t = 0 THEN 0 ELSE (t - c) % w)
      /\ counted' = (IF t = 0 THEN c ELSE t)
  BY <1>1 DEF Received
<1>6. CASE t = 0
  BY <1>1, <1>2, <1>3, <1>4, <1>5, <1>6
<1>7. CASE t # 0
  <2>1. PICK x \in Nat : x = t - c
    BY <1>4
  <2>2. x \in 0..(2 * w - 1) /\ x < w
    BY <1>2, <1>4, <2>1
  <2>3. x % w = x
    BY <2>2, ModTurn
  <2>4. QED
    BY <1>1, <1>2, <1>3, <1>5, <1>7, <2>1, <2>3
<1>8. QED
  BY <1>6, <1>7

\* The queue's records stay timely, and so does the one that is kept.
LEMMA InTimeQueue ==
  ASSUME RingInv, ReaderTyped, ReaderTyped', method = "packet", CountsAll, QueueCounts,
         KeptCounted, Timely(out), CaptureNext
  PROVE  KeptCounted' /\ Timely(out')
<1>1. CASE ReceivePacket
  <2>1. PICK e \in QueueElems, n \in Nat : Received(e, n)
    BY <1>1, Receiving
  <2>2. PICK p \in Nat, t \in Nat : p = e.id /\ t = e.total
    BY DEF QueueElems
  <2>3. ReturnFrom(BuildPacket(p, n)) /\ builder = <<>>
    BY <2>1, <2>2 DEF Received
  <2>4. n = t - counted /\ 1 \in DOMAIN queue /\ e = queue[1] /\ counted \in Nat
    BY <1>1, <2>1, <2>2, CountIs DEF ReaderTyped
  <2>5. Held = Reported(out) /\ Reported(out) \in Nat /\ Held = counted
    BY <1>1, <2>1, ReceivedHeld, HeldTyped DEF QueueCounts
  <2>6. Len(Ids) = Len(IdsOf(out)) + Len(queue)
    <3>1. PICK x \in Seq(Nat), u \in Seq(Nat) : x = IdsOf(out) /\ u = Unread
      BY IdsTypedOf, HeldTyped DEF IdsTyped
    <3>2. IdsOf(builder) = <<>>
      BY <2>3, IdsNone
    <3>3. x \o <<>> = x /\ Len(x \o u) = Len(x) + Len(u)
      BY NumsAppend
    <3>4. Len(u) = Len(queue)
      BY <3>1, QueueIs DEF QueueRow
    <3>5. Ids = x \o u
      BY <3>1, <3>2, <3>3 DEF Ids
    <3>6. QED
      BY <3>1, <3>3, <3>4, <3>5
  <2>7. t = p - (Len(IdsOf(out)) + 1)
    <3>1. PICK a \in Nat, b \in Nat, c \in Nat :
             a = Len(Ids) /\ b = Len(queue) /\ c = Len(IdsOf(out))
      <4>1. Ids \in Seq(Nat) /\ IdsOf(out) \in Seq(Nat)
        BY IdsTypedOf, HeldTyped DEF IdsTyped
      <4>2. queue \in Seq(QueueElems)
        BY DEF ReaderTyped, QueueElems
      <4>3. Len(Ids) \in Nat /\ Len(queue) \in Nat /\ Len(IdsOf(out)) \in Nat
        BY <4>1, <4>2
      <4>4. QED
        BY <4>3
    <3>2. t = p - (a - b + 1)
      BY <2>2, <2>4, <3>1 DEF QueueCounts
    <3>3. a = c + b
      BY <2>6, <3>1
    <3>4. QED
      BY <3>1, <3>2, <3>3
  <2>8. p - (Len(IdsOf(out)) + 1) <= Reported(out) + n
    BY <2>4, <2>5, <2>7
  <2>9. QED
    BY <2>3, <2>8, BuiltInTime
<1>2. CASE Arrive
  <2>1. UNCHANGED <<out, builder>>
    BY <1>2 DEF Arrive
  <2>2. QED
    BY <2>1, NoneBuilt
<1>3. CASE ~Arrive /\ ~ReceivePacket
  <2>1. UNCHANGED <<out, builder>> \/ (builder # <<>> /\ ReturnFrom(builder))
    BY <1>3, QueueOther DEF QueueRests
  <2>2. QED
    BY <2>1, NoneBuilt
<1>4. QED
  BY <1>1, <1>2, <1>3

\* QueueCounts holds after every step.
LEMMA QueueCountsStep ==
  ASSUME RingInv, ReaderTyped, ReaderTyped', method = "packet", CountsAll, InOrder,
         QueueCounts, CaptureNext
  PROVE  QueueCounts'
<1>1. /\ queue \in Seq(QueueElems) /\ queue' \in Seq(QueueElems)
      /\ {lost, arrived, counted} \subseteq Nat /\ Len(Ids) = arrived - lost
      /\ Ids \in Seq(Nat)
  BY IdsTypedOf DEF IdsTyped, ReaderTyped, QueueElems, InOrder
<1>2. PICK n \in Nat, a \in Nat : n = Len(queue) /\ a = Len(Ids) /\ a = arrived - lost
  BY <1>1
<1>3. \A m \in 1..n : /\ queue[m].total \in Nat /\ queue[m].id \in Nat
                      /\ counted <= queue[m].total /\ queue[m].total <= lost
                      /\ queue[m].total = queue[m].id - (a - n + m)
                      /\ \A l \in 1..m : queue[l].total <= queue[m].total
  <2>1. \A m \in 1..n : queue[m] \in QueueElems
    BY <1>1, <1>2
  <2>2. DOMAIN queue = 1..n
    BY <1>1, <1>2
  <2>3. QED
    BY <1>2, <2>1, <2>2 DEF QueueElems, QueueCounts
<1>4. SUFFICES /\ Held' = counted' /\ counted' <= lost'
               /\ \A m \in 1..Len(queue') :
                     /\ counted' <= queue'[m].total /\ queue'[m].total <= lost'
                     /\ queue'[m].total = queue'[m].id - (Len(Ids') - Len(queue') + m)
                     /\ \A l \in 1..m : queue'[l].total <= queue'[m].total
  <2>1. DOMAIN queue' = 1..Len(queue')
    BY <1>1
  <2>2. QED
    BY <2>1 DEF QueueCounts
<1>5. CASE Arrive
  <2>1. UNCHANGED <<out, builder, dropped, counted>>
    BY <1>5 DEF Arrive
  <2>2. Held' = Held /\ counted' = counted /\ Held = counted /\ counted <= lost
    BY <2>1 DEF Held, Reported, QueueCounts
  <2>3. CASE QueueRefuses
    <3>1. queue' = queue /\ Ids' = Ids /\ lost' = lost + 1
      BY <2>3 DEF QueueRefuses
    <3>2. \A m \in 1..n : queue[m].total <= lost + 1
      BY <1>1, <1>3
    <3>3. counted' <= lost'
      BY <1>1, <2>2, <3>1
    <3>4. PICK l : l = lost'
      OBVIOUS
    <3>5. \A m \in 1..n : /\ counted' <= queue[m].total /\ queue[m].total <= l
                          /\ queue[m].total = queue[m].id - (a - n + m)
                          /\ \A k \in 1..m : queue[k].total <= queue[m].total
      BY <1>3, <2>2, <3>1, <3>2, <3>4
    <3>6. Len(queue') = n /\ Len(Ids') = a
      BY <1>2, <3>1
    <3>7. QED
      BY <2>2, <3>1, <3>3, <3>4, <3>5, <3>6
  <2>4. CASE QueueTakes
    <3>1. PICK p \in Nat : p = arrived + 1
      BY <1>1
    <3>2. PICK e \in QueueElems : e = [id |-> p, total |-> lost]
      BY <1>1 DEF QueueElems
    <3>3. queue' = Append(queue, e) /\ Ids' = Append(Ids, p) /\ lost' = lost
      BY <2>4, <3>1, <3>2 DEF QueueTakes
    <3>4. PICK q : q = Append(queue, e)
      OBVIOUS
    <3>5. Len(q) = n + 1 /\ q[n + 1] = e /\ \A i \in 1..n : q[i] = queue[i]
      BY <1>1, <1>2, <3>4
    <3>6. Len(Ids') = a + 1
      BY <1>1, <1>2, <3>3
    <3>7. e.id = p /\ e.total = lost
      BY <3>2
    <3>8. \A m \in 1..(n + 1) :
            /\ counted <= q[m].total /\ q[m].total <= lost
            /\ q[m].total = q[m].id - ((a + 1) - (n + 1) + m)
            /\ \A l \in 1..m : q[l].total <= q[m].total
      <4> TAKE m \in 1..(n + 1)
      <4>1. CASE m = n + 1
        <5>1. q[m] = e
          BY <3>5, <4>1
        <5>2. \A l \in 1..m : q[l].total <= lost
          <6> TAKE l \in 1..m
          <6>1. CASE l = n + 1
            BY <1>1, <3>5, <3>7, <6>1
          <6>2. CASE l # n + 1
            <7>1. l \in 1..n
              BY <4>1, <6>2
            <7>2. QED
              BY <1>3, <3>5, <7>1
          <6>3. QED
            BY <6>1, <6>2
        <5>3. q[m].total = q[m].id - ((a + 1) - (n + 1) + m)
          <6>1. PICK b \in Nat, l \in Nat : b = arrived /\ l = lost
            BY <1>1
          <6>2. q[m].total = l /\ q[m].id = b + 1
            BY <3>1, <3>7, <5>1, <6>1
          <6>3. (a + 1) - (n + 1) + m = a + 1 /\ a = b - l
            BY <1>2, <4>1, <6>1
          <6>4. l = (b + 1) - (a + 1)
            BY <6>3
          <6>5. QED
            BY <6>2, <6>3, <6>4
        <5>4. counted <= q[m].total /\ q[m].total <= lost
          BY <1>1, <2>2, <3>7, <5>1
        <5>5. QED
          BY <3>7, <5>1, <5>2, <5>3, <5>4
      <4>2. CASE m # n + 1
        <5>1. m \in 1..n
          BY <4>2
        <5>2. q[m] = queue[m] /\ \A l \in 1..m : l \in 1..n /\ q[l] = queue[l]
          BY <3>5, <5>1
        <5>3. (a + 1) - (n + 1) + m = a - n + m
          BY <5>1
        <5>4. QED
          BY <1>3, <5>1, <5>2, <5>3
      <4>3. QED
        BY <4>1, <4>2
    <3>9. Len(q) = n + 1 /\ queue' = q
      BY <3>3, <3>4, <3>5
    <3>10. QED
      BY <2>2, <3>3, <3>6, <3>8, <3>9
  <2>5. QED
    BY <1>5, <2>3, <2>4, QueueArrival
<1>6. CASE ReceivePacket
  <2>1. PICK e \in QueueElems, k \in Nat : Received(e, k)
    BY <1>6, Receiving
  <2>2. /\ counted' = e.total /\ k = e.total - counted /\ 1 \in DOMAIN queue
        /\ e = queue[1] /\ Held = counted
    BY <1>6, <2>1, CountIs DEF QueueCounts
  <2>3. Held' = Held + k
    BY <1>6, <2>1, ReceivedHeld
  <2>4. PICK t \in Nat : t = e.total
    BY DEF QueueElems
  <2>5. Held' = counted'
    BY <1>1, <2>2, <2>3, <2>4
  <2>6. /\ method' = method /\ queue # <<>> /\ queue' = Tail(queue) /\ Ids' = Ids
        /\ lost' = lost
    BY <1>6, <2>1 DEF ReceivePacket, Received
  <2>7. /\ Len(queue') = n - 1 /\ n \in Nat \ {0}
        /\ \A i \in 1..(n - 1) : queue'[i] = queue[i + 1]
    BY <1>1, <1>2, <2>6
  <2>8. /\ 1 \in 1..n /\ \A m \in 1..(n - 1) : m + 1 \in 1..n /\ 1 \in 1..(m + 1)
    BY <2>7
  <2>9. ASSUME NEW m \in 1..(n - 1)
        PROVE  /\ t <= queue[m + 1].total /\ queue[m + 1].total <= lost
               /\ queue[m + 1].total = queue[m + 1].id - (a - (n - 1) + m)
               /\ \A l \in 1..m : queue[l + 1].total <= queue[m + 1].total
    <3>1. PICK k1 \in 1..n : k1 = m + 1
      BY <2>8
    <3>2. /\ queue[k1].total <= lost
          /\ queue[k1].total = queue[k1].id - (a - n + k1)
          /\ \A l \in 1..k1 : queue[l].total <= queue[k1].total
      BY <1>3
    <3>3. a - n + k1 = a - (n - 1) + m
      BY <2>7, <3>1
    <3>4. 1 \in 1..k1 /\ \A l \in 1..m : l + 1 \in 1..k1
      BY <3>1
    <3>5. t <= queue[k1].total
      BY <2>2, <2>4, <3>2, <3>4
    <3>6. QED
      BY <3>1, <3>2, <3>3, <3>4, <3>5
  <2>10. t <= lost
    BY <1>3, <2>2, <2>4, <2>8
  <2>11. \A m \in 1..(n - 1) : /\ m \in 1..(n - 1) /\ queue'[m] = queue[m + 1]
                               /\ \A l \in 1..m : queue'[l] = queue[l + 1]
    <3> TAKE m \in 1..(n - 1)
    <3>1. \A l \in 1..m : l \in 1..(n - 1)
      OBVIOUS
    <3>2. QED
      BY <2>7, <3>1
  <2>12. Held' = counted' /\ counted' = t /\ lost' = lost /\ t <= lost
         /\ Len(queue') = n - 1 /\ Len(Ids') = a
    BY <1>2, <2>2, <2>4, <2>5, <2>6, <2>7, <2>10
  <2>13. ASSUME NEW m \in 1..Len(queue')
         PROVE  /\ counted' <= queue'[m].total /\ queue'[m].total <= lost'
                /\ queue'[m].total = queue'[m].id - (Len(Ids') - Len(queue') + m)
                /\ \A l \in 1..m : queue'[l].total <= queue'[m].total
    <3>1. m \in 1..(n - 1)
      BY <2>12
    <3>2. queue'[m] = queue[m + 1] /\ \A l \in 1..m : queue'[l] = queue[l + 1]
      BY <2>11, <3>1
    <3>3. QED
      BY <2>9, <2>12, <3>1, <3>2
  <2>14. QED
    BY <2>12, <2>13
<1>7. CASE ~Arrive /\ ~ReceivePacket
  <2>1. /\ QueueRests
    BY <1>7, QueueOther
  <2>2. /\ Ids' = Ids /\ UNCHANGED <<lost, queue, counted, dropped>>
        /\ Reported(out') + Reported(builder') = Reported(out) + Reported(builder)
    BY <2>1 DEF QueueRests
  <2>3. Held' = counted' /\ counted' <= lost'
    BY <2>2 DEF Held, QueueCounts
  <2>4. QED
    BY <1>2, <1>3, <2>2, <2>3
<1>8. QED
  BY <1>5, <1>6, <1>7

(* What NothingUnaccounted and LossReportedInTime rest on.                  *)

\* The invariant, in the parts that the steps were shown to keep.
AccountParts ==
  /\ ReaderTyped /\ InOrder /\ Sums
  /\ CountsAll => /\ Timely(out) /\ KeptCounted
                  /\ method \in Rings => RingCounts /\ RingCollected
                  /\ method = "packet" => QueueCounts
  /\ method \in Rings => RingOrder

\* AccountInv is the parts that the lemmas above are about.
LEMMA AccountIsParts == RingInv => (AccountInv <=> AccountParts)
<1> SUFFICES ASSUME RingInv PROVE AccountInv <=> AccountParts
  OBVIOUS
<1>1. NothingUnaccounted <=> /\ \A i, j \in DOMAIN Ids : i < j => Ids[i] < Ids[j]
                             /\ Len(Ids) = arrived - lost /\ Sums
  BY Zenon DEF NothingUnaccounted, Sums, Held
<1>2. InOrder => /\ \A i, j \in DOMAIN Ids : i < j => Ids[i] < Ids[j]
                 /\ Len(Ids) = arrived - lost
  BY Zenon DEF InOrder
<1>3. ReaderTyped => (LossReportedInTime <=> (CountsAll => Timely(out)))
  <2> SUFFICES ASSUME ReaderTyped
               PROVE  LossReportedInTime <=> (CountsAll => Timely(out))
    OBVIOUS
  <2>1. out \in Seq(CaptureRecs)
    BY DEF ReaderTyped
  <2>2. DOMAIN out = 1..Len(out)
    BY <2>1
  <2>3. QED
    BY <2>2, Zenon DEF LossReportedInTime, Timely
<1>4. QED
  BY <1>1, <1>2, <1>3, Zenon DEF AccountInv, AccountParts, Collectable

\* Empty rows join to nothing.
LEMMA JoinedNone ==
  ASSUME NEW s \in Seq(Seq(Nat)), \A k \in 1..Len(s) : s[k] = <<>>
  PROVE  Joined(s) = <<>>
<1>1. PICK n \in Nat : n = Len(s)
  OBVIOUS
<1>2. PICK f : JoinedBy(s, f) /\ Joined(s) = f[n]
  BY <1>1, JoinedDef
<1>3. PICK g : g = [k \in 0..n |-> <<>>]
  OBVIOUS
<1>4. f[0] = g[0]
  BY <1>2, <1>3 DEF JoinedBy
<1>5. \A i \in 1..n : f[i - 1] = g[i - 1] => f[i] = g[i]
  <2> TAKE i \in 1..n
  <2>1. i - 1 \in 0..n /\ i \in 0..n
    OBVIOUS
  <2>2. f[i] = f[i - 1] \o s[i] /\ s[i] = <<>>
    BY <1>1, <1>2 DEF JoinedBy
  <2>3. <<>> \o <<>> = <<>>
    OBVIOUS
  <2>4. QED
    BY <1>3, <2>1, <2>2, <2>3
<1>6. f[n] = g[n]
  <2>1. Alike(n, f, g)
    BY <1>4, <1>5 DEF Alike
  <2>2. QED
    BY <2>1, StepwiseSame, Zenon
<1>7. g[n] = <<>>
  BY <1>3
<1>8. QED
  BY <1>2, <1>6, <1>7

\* A capture starts with nothing to account for.
LEMMA AccountStart == CaptureStart => RingInv /\ AccountParts
<1> SUFFICES ASSUME CaptureStart PROVE RingInv /\ AccountParts
  OBVIOUS
<1>1. RingInv
  BY RingStart DEF RingInv
<1>2. /\ monitored \in BOOLEAN /\ junk \in Nat
      /\ arrived = 0 /\ lost = 0 /\ kpos = 0 /\ queue = <<>> /\ kdrops = 0
      /\ drops = junk /\ counted = junk /\ pc = "idle" /\ pos = 0 /\ frame = 0
      /\ inBlock = FALSE /\ last = NoSlot /\ dropped = 0 /\ builder = <<>> /\ out = <<>>
      /\ ring = [i \in Slots |-> EmptySlot]
  BY GeometryAssumption DEF CaptureStart, Slots
<1>3. method \in Rings \cup {"packet"}
  BY DEF CaptureStart, Chosen, Rings, None
<1>4. ReaderTyped
  <2>1. queue \in Seq([id : Nat, total : Nat]) /\ builder \in Seq(CaptureRecs)
        /\ out \in Seq(CaptureRecs)
    BY <1>2
  <2>2. QED
    BY <1>2, <1>3, <2>1 DEF ReaderTyped
<1>5. Held = 0 /\ IdsOf(out) = <<>> /\ IdsOf(builder) = <<>>
  BY <1>2, ReportedNone, IdsNone DEF Held
<1>6. method \in Rings => RingOrder /\ Unread = <<>>
  <2> SUFFICES ASSUME method \in Rings PROVE RingOrder /\ Unread = <<>>
    OBVIOUS
  <2>1. Places /\ RowIs
    BY <1>1, PlacesOf, RowIsOf
  <2>2. PICK n \in Nat \ {0} : n = Turn
    BY <2>1 DEF Places
  <2>3. \A k \in 0..n : SlotAt(k) \in Slots
    BY <2>1, <2>2 DEF Places
  <2>4. ASSUME NEW i \in Slots
        PROVE  ~ring[i].user /\ ring[i].frames = <<>>
               /\ UnreadAs(ring, last, pos, frame, i) = <<>>
    <3>1. PICK e : e = <<>>
      OBVIOUS
    <3>2. SubSeq(e, 0 + 1, Len(e)) = e
      BY <3>1
    <3>3. ~ring[i].user /\ ring[i].frames = e
      BY <1>2, <3>1 DEF EmptySlot
    <3>4. QED
      BY <1>2, <3>1, <3>2, <3>3 DEF UnreadAs
  <2>5. OrderAt(0)
    <3>1. kpos = SlotAt(0)
      BY <1>2, <2>1 DEF Places
    <3>2. \A k \in 0..(n - 1) : k \in 0..n /\ ~(k < 0)
      OBVIOUS
    <3>3. \A i \in Slots : Len(ring[i].frames) <= 1
      BY <2>4
    <3>4. QED
      BY <1>2, <2>2, <2>3, <2>4, <3>1, <3>2, <3>3 DEF OrderAt
  <2>6. RingOrder
    BY <2>5, OrderAtIs DEF Ordered
  <2>7. Unread = <<>>
    <3>1. PICK u \in Seq(Seq(Nat)) :
             /\ u = UnreadSlots /\ Len(u) = n /\ Unread = Joined(u)
             /\ \A k \in 1..n : u[k] = UnreadAs(ring, last, pos, frame, SlotAt(k - 1))
      BY <2>1, <2>2 DEF RowIs
    <3>2. \A k \in 1..n : k - 1 \in 0..n
      OBVIOUS
    <3>3. \A k \in 1..n : u[k] = <<>>
      BY <2>3, <2>4, <3>1, <3>2
    <3>4. QED
      BY <3>1, <3>3, JoinedNone
  <2>8. QED
    BY <2>6, <2>7
<1>7. Ids = <<>>
  <2>1. Unread = <<>>
    <3>1. CASE method = "packet"
      BY <1>2, <3>1 DEF Unread
    <3>2. QED
      BY <1>3, <1>6, <3>1
  <2>2. QED
    BY <1>5, <2>1 DEF Ids
<1>8. InOrder
  <2>1. Len(Ids) = 0 /\ DOMAIN Ids = {}
    BY <1>7
  <2>2. \A i \in Slots : DOMAIN ring[i].frames = {}
    BY <1>2 DEF EmptySlot
  <2>3. QED
    BY <1>2, <2>1, <2>2 DEF InOrder
<1>9. Sums
  <2>1. Held + drops + kdrops = lost + junk
    BY <1>2, <1>5
  <2>2. counted - junk = Held
    BY <1>2, <1>5
  <2>3. QED
    BY <2>1, <2>2, Zenon DEF Sums
<1>10. CountsAll => /\ Timely(out) /\ KeptCounted
                    /\ method \in Rings => RingCounts /\ RingCollected
                    /\ method = "packet" => QueueCounts
  <2> SUFFICES ASSUME CountsAll
               PROVE  /\ Timely(out) /\ KeptCounted /\ RingCounts /\ RingCollected
                      /\ QueueCounts
    OBVIOUS
  <2>1. junk = 0
    BY DEF CountsAll
  <2>2. Timely(out) /\ KeptCounted
    BY <1>2 DEF Timely, KeptCounted
  <2>3. RingCounts
    BY <1>2, <1>5, <2>1 DEF RingCounts
  <2>4. RingCollected
    <3>1. DOMAIN Ids = {}
      BY <1>7
    <3>2. QED
      BY <3>1 DEF RingCollected
  <2>5. QueueCounts
    BY <1>2, <1>5, <2>1 DEF QueueCounts
  <2>6. QED
    BY <2>2, <2>3, <2>4, <2>5
<1>11. QED
  BY <1>1, <1>4, <1>6, <1>8, <1>9, <1>10 DEF AccountParts

\* Every step keeps the accounts.
LEMMA AccountStep ==
  ASSUME RingInv, RingInv', AccountParts, CaptureNext
  PROVE  AccountParts'
<1>1. ReaderTyped /\ InOrder /\ Sums /\ (method \in Rings => RingOrder)
  BY DEF AccountParts
<1>2. ReaderTyped'
  BY <1>1, TypedStep
<1>3. InOrder'
  BY <1>1, <1>2, InOrderStep
<1>4. Sums'
  BY <1>1, <1>2, SumsStep
<1>5. method' = method
  BY DEF CaptureNext, Arrive, RetireByTimer, Measure, ReadPacket, Interrupted, SlotReady,
         ReadStats, TakeDrops, BlockFrame, SingleFrame, ReceivePacket
<1>6. method \in Rings => RingOrder'
  BY <1>1, <1>2, EveryStep
<1>7. ASSUME CountsAll'
      PROVE  /\ Timely(out') /\ KeptCounted'
             /\ method \in Rings => RingCounts' /\ RingCollected'
             /\ method = "packet" => QueueCounts'
  <2>1. CountsAll
    BY <1>1, <1>7, CountsAllBefore
  <2>2. /\ Timely(out) /\ KeptCounted
        /\ method \in Rings => RingCounts /\ RingCollected
        /\ method = "packet" => QueueCounts
    BY <2>1 DEF AccountParts
  <2>3. CASE method \in Rings
    <3>1. RingCounts'
      BY <1>1, <2>1, <2>2, <2>3, RingCountsStep
    <3>2. RingCollected'
      BY <1>1, <1>2, <1>3, <2>1, <2>2, <2>3, <3>1, RingCollectedStep
    <3>3. KeptCounted' /\ Timely(out')
      BY <1>1, <2>2, <2>3, InTimeRings
    <3>4. QED
      BY <2>3, <3>1, <3>2, <3>3 DEF Rings
  <2>4. CASE method = "packet"
    <3>1. QueueCounts'
      BY <1>1, <1>2, <2>1, <2>2, <2>4, QueueCountsStep
    <3>2. KeptCounted' /\ Timely(out')
      BY <1>1, <1>2, <2>1, <2>2, <2>4, InTimeQueue
    <3>3. QED
      BY <2>4, <3>1, <3>2 DEF Rings
  <2>5. QED
    BY <1>1, <2>3, <2>4 DEF ReaderTyped
<1>8. QED
  <2>1. CountsAll' => Timely(out)'
    BY <1>7 DEF Timely
  <2>2. QED
    BY <1>2, <1>3, <1>4, <1>5, <1>6, <1>7, <2>1 DEF AccountParts

\* The reader's account of the packets: the order of the slots, and what the counts
\* that the kernel, the counters and the records hold have to do with the packets
\* returned and those in the buffer.
THEOREM AccountInductive == CaptureSpec => []AccountInv
<1>1. CaptureStart => AccountParts
  BY AccountStart
<1>2. ASSUME RingInv, RingInv', AccountParts, [CaptureNext]_captureVars
      PROVE  AccountParts'
  <2>1. CASE CaptureNext
    BY <1>2, <2>1, AccountStep
  <2>2. CASE UNCHANGED captureVars
    <3>1. /\ UNCHANGED <<method, monitored, junk, arrived, lost, ring, kpos, queue, kdrops>>
          /\ UNCHANGED <<drops, counted, pc, pos, frame, inBlock, last, dropped, builder, out>>
      BY <2>2 DEF captureVars, kernelVars, readVars
    <3>2. Slots' = Slots /\ Blocks' = Blocks /\ \A k : SlotAt(k)' = SlotAt(k)
      BY <3>1 DEF Slots, Blocks, SlotAt
    <3>3. \A i : UnreadIn(i)' = UnreadIn(i)
      BY <3>1 DEF UnreadIn
    <3>4. UnreadSlots' = UnreadSlots
      BY <3>1, <3>2, <3>3 DEF UnreadSlots, UnreadIn, SlotAt
    <3>5. Ids' = Ids /\ Held' = Held
      BY <3>1, <3>4 DEF Ids, IdsOf, Unread, Joined, Held, Reported
    <3>6. ReaderTyped' /\ CountsAll' = CountsAll /\ Sums'
      BY <1>2, <3>1, <3>2, <3>5 DEF AccountParts, ReaderTyped, CountsAll, Sums
    <3>7. InOrder'
      BY <1>2, <3>1, <3>2, <3>5 DEF AccountParts, InOrder
    <3>8. method \in Rings => RingOrder'
      BY <1>2, <3>1, <3>2, <3>3 DEF AccountParts, RingOrder, UnreadIn, SlotAt
    <3>9. \A i : Collected(i)' = Collected(i)
      BY <3>1 DEF Collected
    <3>10. /\ KeptCounted' = KeptCounted /\ RingCounts' = RingCounts
           /\ QueueCounts' = QueueCounts /\ Timely(out)' = Timely(out)
      BY <3>1, <3>5 DEF KeptCounted, RingCounts, QueueCounts, Timely, IdsOf, Reported
    <3>11. RingCollected' = RingCollected
      BY <3>1, <3>2, <3>5, <3>9 DEF RingCollected, Contains, Collected
    <3>12. QED
      BY <1>2, <3>1, <3>6, <3>7, <3>8, <3>10, <3>11 DEF AccountParts
  <2>3. QED
    BY <1>2, <2>1, <2>2
<1>3. RingInv => (AccountInv <=> AccountParts)
  BY AccountIsParts
<1>4. QED
  BY <1>1, <1>2, <1>3, RingInductive, PTL DEF CaptureSpec

\* Every packet that arrives is returned once and in order, is still to be read, or
\* is among those dropped, whose number is in the records or in one of the counters.
THEOREM NothingLostUncounted == CaptureSpec => []NothingUnaccounted
<1>1. AccountInv => NothingUnaccounted
  BY DEF AccountInv
<1>2. QED
  BY <1>1, AccountInductive, PTL

\* A packet's record comes after the records of all drops before it.
THEOREM LossInTime == CaptureSpec => []LossReportedInTime
<1>1. AccountInv => LossReportedInTime
  BY DEF AccountInv
<1>2. QED
  BY <1>1, AccountInductive, PTL
=============================================================================
