---------------------------- MODULE PacketCapture ----------------------------
(* Reading packets from an interface: the kernel's side of an AF_PACKET socket
   (a ring of blocks or of frames, or a queue), the event source's thread in
   read(), the counters that it shares with the leap second monitor's thread,
   and the builder that holds the records of one read().

   A packet is the number of its arrival, so what was lost between two packets
   shows in their numbers.                                                    *)
EXTENDS Integers, Sequences, SequencesExt, FiniteSetsExt

CONSTANTS
    PageSize,       \* of virtual memory
    FrameSize,      \* of a frame that holds snaplen octets
    Capacity,       \* the size of buffer asked for
    MaxPackets,     \* bound: packets that arrive
    Truncated,      \* packets longer than what is captured of them
    Junk,           \* bound: what an uninitialised counter may contain
    Wrap            \* one more than the largest unsigned counter

ASSUME GeometryAssumption ==
    /\ {PageSize, FrameSize, Capacity, Wrap} \subseteq Nat \ {0}
    /\ Junk \subseteq 0..(Wrap - 1) /\ Truncated \subseteq Nat
    /\ 3 * FrameSize <= 256 * PageSize

VARIABLES
    method,     \* how the packets are read
    monitored,  \* is a leap second monitor measuring this socket?
    junk,       \* what _drops and _drop_count contained at the start
    arrived,    \* packets that have reached the socket
    lost,       \* how many of them found no room
    ring,       \* the slots of the ring
    kpos,       \* the slot that the kernel fills
    queue,      \* the socket's queue, where there is no ring
    kdrops,     \* the kernel's count of drops since it was last read
    drops,      \* _drops
    counted,    \* _drop_count
    pc,         \* where the event source's thread is
    pos,        \* the slot to read next, _block or _frame_idx
    frame,      \* _frame_idx within the block, of a ring of blocks
    inBlock,    \* is _frame set?
    last,       \* _last_block or _last_tphdr
    dropped,    \* the count to report with the next packet
    builder,    \* records built and not yet returned, the first one last
    out         \* records returned by read()

kernelVars == <<arrived, lost, ring, kpos, queue>>
readVars == <<pos, frame, inBlock, last>>
captureVars == <<method, monitored, junk, kernelVars, kdrops, drops, counted,
                 pc, readVars, dropped, builder, out>>

Rings == {"ringv3", "ringv2", "ringv1"}
None == "none"
NoSlot == -1

(* The smallest block that holds at least three frames, of one page or twice as
   many often enough (as often as the largest snaplen can need). *)
BlockPages == {1, 2, 4, 8, 16, 32, 64, 128, 256}
BlockSize == PageSize * Min({n \in BlockPages : PageSize * n >= 3 * FrameSize})
FramesPerBlock == BlockSize \div FrameSize
BlockCount == Capacity \div BlockSize

(* Without a named method the best ring that can be had, else a plain socket;
   a method that is named is used or the endpoint fails. *)
Chosen(named, supported) ==
    LET had == IF BlockCount = 0 THEN {} ELSE supported IN
    IF named # None
    THEN IF named = "packet" \/ named \in had THEN named ELSE None
    ELSE IF "ringv3" \in had THEN "ringv3"
    ELSE IF "ringv2" \in had THEN "ringv2"
    ELSE IF "ringv1" \in had THEN "ringv1"
    ELSE "packet"

(* The third version hands over blocks of frames, the others single frames. *)
Blocks == method = "ringv3"
SlotCount(m) == IF m = "ringv3" THEN BlockCount ELSE BlockCount * FramesPerBlock
PerSlot == IF Blocks THEN FramesPerBlock ELSE 1
Next1(i) == (i + 1) % SlotCount(method)
EmptySlot == [user |-> FALSE, losing |-> FALSE, frames |-> <<>>]

CaptureStart ==
    /\ \E named \in Rings \cup {"packet", None}, supported \in SUBSET Rings :
          method = Chosen(named, supported)
    /\ method # None
    /\ monitored \in BOOLEAN
    /\ junk \in Junk
    /\ arrived = 0 /\ lost = 0
    /\ ring = [i \in 0..(SlotCount(method) - 1) |-> EmptySlot]
    /\ kpos = 0
    /\ queue = <<>>
    /\ kdrops = 0
    /\ drops = junk /\ counted = junk
    /\ pc = "idle"
    /\ pos = 0 /\ frame = 0 /\ inBlock = FALSE /\ last = NoSlot
    /\ dropped = 0
    /\ builder = <<>>
    /\ out = <<>>

-----------------------------------------------------------------------------
(* The kernel. *)

Retired(s) == [s EXCEPT !.user = TRUE, !.losing = kdrops > 0]

Drop == /\ lost' = lost + 1
        /\ kdrops' = kdrops + 1

(* A slot that is ready goes to the reader when it is full, which for a block
   shows when the next packet comes. *)
StoreInRing(p) ==
    LET s == ring[kpos]
        full == Blocks /\ ~s.user /\ Len(s.frames) = PerSlot
        closed == IF full THEN [ring EXCEPT ![kpos] = Retired(s)] ELSE ring
        at == IF full THEN Next1(kpos) ELSE kpos
        put == [closed[at] EXCEPT !.frames = Append(@, p)]
    IN  IF closed[at].user
        THEN /\ ring' = closed /\ kpos' = at
             /\ Drop
        ELSE /\ ring' = [closed EXCEPT ![at] = IF Blocks THEN put ELSE Retired(put)]
             /\ kpos' = IF Blocks THEN at ELSE Next1(at)
             /\ UNCHANGED <<lost, kdrops>>

(* Every packet in the queue carries the total of drops at its arrival. *)
StoreInQueue(p) ==
    IF Len(queue) = BlockCount * FramesPerBlock
    THEN Drop /\ UNCHANGED queue
    ELSE /\ queue' = Append(queue, [id |-> p, total |-> lost])
         /\ UNCHANGED <<lost, kdrops>>

Arrive ==
    /\ arrived < MaxPackets
    /\ arrived' = arrived + 1
    /\ \/ method \in Rings /\ StoreInRing(arrived + 1) /\ UNCHANGED queue
       \/ method = "packet" /\ StoreInQueue(arrived + 1) /\ UNCHANGED <<ring, kpos>>
    /\ UNCHANGED <<method, monitored, junk, drops, counted, pc, readVars, dropped,
                   builder, out>>

(* A block that is not empty is handed over after 60 ms in any case. *)
RetireByTimer ==
    /\ Blocks
    /\ ~ring[kpos].user /\ ring[kpos].frames # <<>>
    /\ ring' = [ring EXCEPT ![kpos] = Retired(@)]
    /\ kpos' = Next1(kpos)
    /\ UNCHANGED <<method, monitored, junk, arrived, lost, queue, kdrops, drops,
                   counted, pc, readVars, dropped, builder, out>>

-----------------------------------------------------------------------------
(* The counters: reading the kernel's statistics sets them to zero. *)

(* Mutant: the count is overwritten instead of added to. *)
UpdateStatsSet ==
    /\ drops' = kdrops
    /\ kdrops' = 0

UpdateStats ==
    /\ drops' = (drops + kdrops) % Wrap
    /\ kdrops' = 0

Measure ==
    /\ monitored
    /\ UpdateStats
    /\ UNCHANGED <<method, monitored, junk, kernelVars, counted, pc, readVars,
                   dropped, builder, out>>

-----------------------------------------------------------------------------
(* The record builder: next() takes from the end. *)

(* Lengths are in frames: what is captured of a packet has room in one. *)
Captured(p) == 1
OnTheWire(p) == IF p \in Truncated THEN 2 ELSE 1

(* The content is referred to in the buffer, in the length given last. *)
Rec(p, origlen, snaplen) == [kind |-> "packet", id |-> p, count |-> 0, len |-> snaplen]
LostRec(n) == [kind |-> "lost", id |-> 0, count |-> n, len |-> 0]

(* Every caller gives the length captured first, as the header has it. *)
PacketRec(p) == Rec(p, Captured(p), OnTheWire(p))

BuildPacket(p, n) ==
    <<PacketRec(p)>> \o (IF n = 0 THEN <<>> ELSE <<LostRec(n)>>)

(* Mutant: records are returned in the order they were built. *)
ReturnInOrder(built) ==
    /\ out' = Append(out, Head(built))
    /\ builder' = Tail(built)
    /\ pc' = "idle"

(* read() returns the record built last and keeps the others. *)
ReturnFrom(built) ==
    /\ out' = Append(out, Last(built))
    /\ builder' = Front(built)
    /\ pc' = "idle"

-----------------------------------------------------------------------------
(* The event source's thread. *)

Released ==
    IF last = NoSlot THEN ring ELSE [ring EXCEPT ![last] = EmptySlot]

(* Mutant: the last slot is handed back before left-over records are returned. *)
ReadReleasesFirst ==
    /\ pc = "idle"
    /\ ring' = (IF inBlock THEN ring ELSE Released)
    /\ last' = IF inBlock THEN last ELSE NoSlot
    /\ IF builder # <<>>
       THEN ReturnFrom(builder)
       ELSE pc' = (IF inBlock THEN "frame" ELSE "wait") /\ UNCHANGED <<out, builder>>
    /\ UNCHANGED <<method, monitored, junk, arrived, lost, kpos, queue, kdrops,
                   drops, counted, pos, frame, inBlock, dropped>>

(* Left-over records are returned first. Only then is the slot of the packet
   that the caller has been using handed back. *)
ReadPacket ==
    /\ pc = "idle"
    /\ IF builder # <<>>
       THEN ReturnFrom(builder) /\ UNCHANGED <<ring, last>>
       ELSE IF inBlock
       THEN pc' = "frame" /\ UNCHANGED <<ring, last, out, builder>>
       ELSE /\ ring' = Released /\ last' = NoSlot
            /\ pc' = "wait"
            /\ UNCHANGED <<out, builder>>
    /\ UNCHANGED <<method, monitored, junk, arrived, lost, kpos, queue, kdrops,
                   drops, counted, pos, frame, inBlock, dropped>>

(* The wait for a packet ends the thread when it is told to terminate. *)
Interrupted ==
    /\ pc = "wait"
    /\ pc' = "ended"
    /\ UNCHANGED <<method, monitored, junk, kernelVars, kdrops, drops, counted,
                   readVars, dropped, builder, out>>

(* A slot is ready: the kernel's flag says whether to ask for drops. *)
SlotReady ==
    /\ pc = "wait" /\ method \in Rings
    /\ ring[pos].user
    /\ inBlock' = Blocks
    /\ pc' = IF ring[pos].losing THEN "stats" ELSE "frame"
    /\ dropped' = 0
    /\ UNCHANGED <<method, monitored, junk, kernelVars, kdrops, drops, counted,
                   pos, frame, last, builder, out>>

ReadStats ==
    /\ pc = "stats"
    /\ UpdateStats
    /\ pc' = "drops"
    /\ UNCHANGED <<method, monitored, junk, kernelVars, counted, readVars, dropped,
                   builder, out>>

(* A ring of blocks reports drops in a record of their own, and the block's
   first packet at the next read(); the others report them with the packet. *)
TakeDrops ==
    /\ pc = "drops"
    /\ drops' = 0
    /\ IF Blocks /\ drops # 0
       THEN ReturnFrom(<<LostRec(drops)>>) /\ UNCHANGED dropped
       ELSE /\ dropped' = drops
            /\ pc' = "frame"
            /\ UNCHANGED <<builder, out>>
    /\ UNCHANGED <<method, monitored, junk, kernelVars, kdrops, counted, readVars>>

BlockFrame ==
    /\ pc = "frame" /\ Blocks
    /\ ReturnFrom(BuildPacket(ring[pos].frames[frame + 1], 0))
    /\ IF frame + 1 = Len(ring[pos].frames)
       THEN /\ frame' = 0 /\ inBlock' = FALSE
            /\ last' = pos /\ pos' = Next1(pos)
       ELSE /\ frame' = frame + 1
            /\ UNCHANGED <<inBlock, last, pos>>
    /\ UNCHANGED <<method, monitored, junk, kernelVars, kdrops, drops, counted,
                   dropped>>

SingleFrame ==
    /\ pc = "frame" /\ ~Blocks
    /\ ReturnFrom(BuildPacket(ring[pos].frames[1], dropped))
    /\ last' = pos /\ pos' = Next1(pos)
    /\ dropped' = 0
    /\ UNCHANGED <<method, monitored, junk, kernelVars, kdrops, drops, counted,
                   frame, inBlock>>

(* recvmsg: the total of drops comes with a packet once it is not zero. *)
ReceivePacket ==
    /\ pc = "wait" /\ method = "packet" /\ queue # <<>>
    /\ LET p == Head(queue)
           n == IF p.total = 0 THEN 0 ELSE (p.total - counted) % Wrap
       IN  /\ counted' = IF p.total = 0 THEN counted ELSE p.total
           /\ ReturnFrom(BuildPacket(p.id, n))
    /\ queue' = Tail(queue)
    /\ UNCHANGED <<method, monitored, junk, arrived, lost, ring, kpos, kdrops,
                   drops, readVars, dropped>>

CaptureNext ==
    \/ Arrive \/ RetireByTimer \/ Measure
    \/ ReadPacket \/ Interrupted
    \/ SlotReady \/ ReadStats \/ TakeDrops \/ BlockFrame \/ SingleFrame
    \/ ReceivePacket

CaptureSpec == CaptureStart /\ [][CaptureNext]_captureVars

-----------------------------------------------------------------------------
(* The packets in a row of records, and the sum of the drops that it reports. *)
IdsOf(recs) ==
    LET ids[i \in 0..Len(recs)] ==
            IF i = 0 THEN <<>>
            ELSE IF recs[i].kind = "packet" THEN Append(ids[i - 1], recs[i].id)
            ELSE ids[i - 1]
    IN  ids[Len(recs)]
Reported(recs) ==
    LET sum[i \in 0..Len(recs)] == IF i = 0 THEN 0 ELSE sum[i - 1] + recs[i].count
    IN  sum[Len(recs)]

(* Packets in the buffer that read() has not come to yet, oldest first. *)
SlotAt(k) == (pos + k) % SlotCount(method)
UnreadIn(i) ==
    IF i = last THEN <<>>
    ELSE IF i = pos THEN SubSeq(ring[i].frames, frame + 1, Len(ring[i].frames))
    ELSE ring[i].frames
Joined(seqs) ==
    LET row[k \in 0..Len(seqs)] == IF k = 0 THEN <<>> ELSE row[k - 1] \o seqs[k]
    IN  row[Len(seqs)]
UnreadSlots == [k \in 1..SlotCount(method) |-> UnreadIn(SlotAt(k - 1))]
Unread ==
    IF method = "packet" THEN [i \in DOMAIN queue |-> queue[i].id]
    ELSE Joined(UnreadSlots)
Ids == IdsOf(out) \o IdsOf(builder) \o Unread
Held == Reported(out) + Reported(builder) + dropped

(* Every packet that arrived is returned once and in order, is still to be
   read, or was dropped by the kernel; and every drop is reported, or counted
   in exactly one of the places that a later report is made from. *)
NothingUnaccounted ==
    /\ \A i, j \in DOMAIN Ids : i < j => Ids[i] < Ids[j]
    /\ Len(Ids) = arrived - lost
    /\ method \in Rings => (Held + drops + kdrops) % Wrap = (lost + junk) % Wrap
    /\ method = "packet" => Held % Wrap = (counted - junk) % Wrap

(* The slots that len frames lie in, from the m-th of slot i on. *)
Spanned(i, m, len) == {i + k : k \in {x \in 0..len : x * PerSlot < m + len - 1}}

(* The caller uses a packet, and the first len frames of its content are in
   memory that the kernel does not own. *)
InUse == pc = "idle" /\ method \in Rings /\ out # <<>> /\ Last(out).kind = "packet"
Owned(len) ==
    \E i \in DOMAIN ring : \E m \in DOMAIN ring[i].frames :
        /\ ring[i].frames[m] = Last(out).id
        /\ \A s \in Spanned(i, m, len) : s \in DOMAIN ring /\ ring[s].user

(* While the caller uses the packet of the record it got last, the kernel does
   not own the memory that its content is in, or for a packet that was truncated
   the memory that what was captured of it is in. *)
Capturable(rec) == IF rec.id \in Truncated THEN Captured(rec.id) ELSE rec.len
ContentStable == InUse => Owned(Capturable(Last(out)))

(* What basic_packet_socket.h:59-61 says: the record "will remain usable until
   another packet is read", and "the same applies to the packet content". The
   record of a truncated packet takes in memory after what was captured of it. *)
ContentUsable == InUse => Owned(Last(out).len)

(* What ContentStable rests on: every packet whose record is held by the caller
   or the builder between two reads is in a slot that the kernel does not own,
   between a slot's flag and its last frame the slot stays the reader's, and no
   slot has more frames than fit. *)
Slots == 0..(SlotCount(method) - 1)
SlotStates == [user : BOOLEAN, losing : BOOLEAN, frames : Seq(Nat)]
CaptureRecs ==
    {rec \in [kind : {"packet", "lost"}, id : Nat, count : Nat, len : Nat] :
        rec.kind = "packet" => rec.len = OnTheWire(rec.id)}
RingTyped ==
    /\ ring \in [Slots -> SlotStates] /\ kpos \in Slots
    /\ pos \in Slots /\ last \in Slots \cup {NoSlot}
    /\ frame \in Nat /\ inBlock \in BOOLEAN
    /\ {arrived, lost, kdrops, drops, dropped} \subseteq Nat
    /\ pc \in {"idle", "wait", "stats", "drops", "frame", "ended"}
    /\ builder \in Seq(CaptureRecs) /\ out \in Seq(CaptureRecs)
InReadersSlot(p) ==
    \E i \in Slots : ring[i].user /\ Contains(ring[i].frames, p)
ReadersPlace ==
    /\ \A i \in Slots : ring[i].user => ring[i].frames # <<>>
    /\ pc \in {"stats", "drops", "frame"} => ring[pos].user
    /\ pc # "idle" => builder = <<>>
    /\ pc \in {"stats", "drops", "frame"} => inBlock = Blocks
    /\ IF inBlock THEN Blocks /\ ring[pos].user /\ frame < Len(ring[pos].frames)
       ELSE frame = 0
Filled ==
    \A i \in Slots :
        /\ Len(ring[i].frames) <= PerSlot
        /\ ring[i].user \/ ring[i].frames = <<>> \/ (Blocks /\ i = kpos)
LastInSlot == InUse => InReadersSlot(Last(out).id)
RingInv ==
    method \in Rings =>
        /\ RingTyped /\ ReadersPlace /\ Filled /\ LastInSlot
        /\ \A j \in DOMAIN builder :
              builder[j].kind = "packet" => InReadersSlot(builder[j].id)

(* Drops are in the records before the first packet that arrived after them,
   until there have been so many that the counters start again. The monitor's
   measurements take the kernel's flag away, and then a report waits for the
   next loss: nothing is claimed of that. *)
CountsAll == ~monitored /\ junk = 0 /\ lost < Wrap
LossReportedInTime ==
    CountsAll =>
        \A i \in DOMAIN out :
            out[i].kind = "packet" =>
                LET nth == Len(IdsOf(SubSeq(out, 1, i)))
                IN  Reported(SubSeq(out, 1, i)) >= out[i].id - nth

(* What these two rest on. read() keeps a packet at most for the next call, and a
   count only between a slot's flag and its frame. *)
ReaderTyped ==
    /\ method \in Rings \cup {"packet"} /\ monitored \in BOOLEAN
    /\ {junk, arrived, lost, kdrops, drops, counted, dropped} \subseteq Nat
    /\ queue \in Seq([id : Nat, total : Nat])
    /\ builder \in Seq(CaptureRecs) /\ out \in Seq(CaptureRecs)
    /\ builder # <<>> => pc = "idle" /\ builder = <<PacketRec(builder[1].id)>>
    /\ dropped # 0 => pc = "frame" /\ ~Blocks
    /\ method = "packet" => pc \in {"idle", "wait", "ended"} /\ last = NoSlot /\ ~inBlock

(* From the slot to read on, the slots are: handed over and not read, then the
   kernel's, which may have begun to fill the first. The last to have been read
   may still be the reader's, and comes at the end. *)
RingOrder ==
    LET n == SlotCount(method) IN
    \E c \in 0..n :
        /\ kpos = SlotAt(c)
        /\ \A k \in 0..(n - 1) :
              LET i == SlotAt(k) IN
              /\ k < c => ring[i].user /\ i # last
              /\ k >= c => i = last \/ ~ring[i].user
              /\ k > c \/ (k = c /\ ~Blocks) => UnreadIn(i) = <<>>
        /\ last # NoSlot => last = SlotAt(n - 1) /\ c < n /\ ring[last].user
                            /\ pc = "idle" /\ ~inBlock
        /\ ~Blocks => \A i \in Slots : Len(ring[i].frames) <= 1

(* No packet is known before it arrived, and none has more drops before it than
   there have been. *)
InOrder ==
    /\ \A i, j \in DOMAIN Ids : i < j => Ids[i] < Ids[j]
    /\ Len(Ids) = arrived - lost
    /\ \A j \in DOMAIN Ids : Ids[j] <= arrived /\ Ids[j] - j <= lost
    /\ method \in Rings =>
          \A i \in Slots : \A m \in DOMAIN ring[i].frames : ring[i].frames[m] <= arrived

(* What was dropped before a packet is in the records before it, or will be: the
   slot that it is in is the kernel's or says that packets were lost, or the
   queue's total says so. *)
Collected(i) ==
    /\ ring[i].user /\ i # last
    /\ ring[i].losing => i = pos /\ (pc \in {"drops", "frame"} \/ (pc = "idle" /\ inBlock))
RingCounts == Held + drops + kdrops = lost /\ (drops # 0 => pc = "drops")
RingCollected ==
    \A i \in Slots, j \in DOMAIN Ids :
       Collected(i) /\ Contains(ring[i].frames, Ids[j]) => Ids[j] - j <= Held + drops
QueueCounts ==
    /\ Held = counted /\ counted <= lost
    /\ \A m \in DOMAIN queue :
          /\ counted <= queue[m].total /\ queue[m].total <= lost
          /\ queue[m].total = queue[m].id - (Len(Ids) - Len(queue) + m)
          /\ \A l \in 1..m : queue[l].total <= queue[m].total
KeptCounted ==
    builder # <<>> => builder[1].id - (Len(IdsOf(out)) + 1) <= Reported(out)
Collectable ==
    CountsAll =>
        /\ method \in Rings => RingCounts /\ RingCollected
        /\ method = "packet" => QueueCounts
        /\ KeptCounted
AccountInv ==
    /\ ReaderTyped /\ NothingUnaccounted /\ LossReportedInTime
    /\ InOrder /\ Collectable
    /\ method \in Rings => RingOrder
=============================================================================
