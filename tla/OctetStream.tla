----------------------------- MODULE OctetStream -----------------------------
(* An octet writer and an octet reader, each with its buffer, at the two ends
   of a descriptor whose kernel buffer takes and gives any number of octets at
   a time, and which may be interruptible (non-blocking). The n-th octet that
   the writer is given is the number n, so that the order can be seen.        *)
EXTENDS Integers, Sequences, SequencesExt

CONSTANTS
    BufSize,        \* octets of each buffer: 0x40
    KernelRoom,     \* octets that the kernel holds between the two
    Sizes,          \* sizes of the blocks that are written and read
    MaxGiven,       \* bound: octets given to the writer
    MaxWaits        \* bound: times that a write waits

ASSUME StreamAssumption ==
    /\ {BufSize, KernelRoom} \subseteq Nat \ {0} /\ {MaxGiven, MaxWaits} \subseteq Nat
    /\ Sizes \subseteq Nat \ {0}

VARIABLES
    interruptible,  \* O_NONBLOCK
    given,          \* octets given to the writer
    wbuf,           \* from _buffer to _ptr
    wpc,            \* where the writer is
    direct,         \* the octets that file_descriptor::write was given,
    at,             \* how many of them are behind ptr,
    polling,        \* whether it is in wait(POLLOUT),
    block,          \* and the octets that octet_writer::write still has
    sent,           \* everything that the kernel has taken
    taken,          \* how many of them have been read
    rbuf,           \* from _ptr to _end
    wanted,         \* nbyte of the read() in progress
    partial,        \* what it has put in place
    got,            \* what earlier calls have returned
    reached,        \* eof_error was thrown
    failed,         \* a write has thrown
    waits           \* times that a write has had to wait

writerVars == <<given, wbuf, wpc, direct, at, polling, block, failed, waits>>
readerVars == <<rbuf, wanted, partial, got, reached>>
streamVars == <<interruptible, writerVars, sent, taken, readerVars>>

Given(n) == [k \in 1..n |-> k]

StreamStart ==
    /\ interruptible \in BOOLEAN
    /\ given = 0 /\ wbuf = <<>> /\ wpc = "idle"
    /\ direct = <<>> /\ at = 0 /\ polling = FALSE /\ block = <<>>
    /\ sent = <<>> /\ taken = 0
    /\ rbuf = <<>> /\ wanted = 0 /\ partial = <<>> /\ got = <<>> /\ reached = FALSE
    /\ failed = FALSE /\ waits = 0

-----------------------------------------------------------------------------
(* octet_writer: write() and flush(). *)

WriteDirect(octs, then) == direct' = octs /\ at' = 0 /\ wpc' = then

(* With an empty buffer: a small block is copied, a large one written. *)
PlaceEmpty(octs) ==
    IF 2 * Len(octs) >= BufSize
    THEN WriteDirect(octs, "writing") /\ wbuf' = <<>>
    ELSE wbuf' = octs /\ wpc' = "idle" /\ UNCHANGED <<direct, at>>

(* Mutant: a large block is written past what is in the buffer. *)
PlaceFirst(octs) ==
    IF 2 * Len(octs) >= BufSize
    THEN WriteDirect(octs, "writing") /\ UNCHANGED <<wbuf, block>>
    ELSE block' = octs /\ WriteDirect(wbuf, "flushing") /\ UNCHANGED wbuf
Place(octs) ==
    IF wbuf # <<>>
    THEN block' = octs /\ WriteDirect(wbuf, "flushing") /\ UNCHANGED wbuf
    ELSE PlaceEmpty(octs) /\ UNCHANGED block

Put ==
    /\ wpc = "idle"
    /\ \E n \in Sizes :
          LET octs == [k \in 1..n |-> given + k] IN
          /\ given + n <= MaxGiven
          /\ given' = given + n
          /\ IF n <= BufSize - Len(wbuf)
             THEN wbuf' = wbuf \o octs /\ UNCHANGED <<wpc, direct, at, block>>
             ELSE Place(octs)
    /\ UNCHANGED <<interruptible, polling, sent, taken, readerVars, failed, waits>>

StreamFlush ==
    /\ wpc = "idle" /\ wbuf # <<>>
    /\ WriteDirect(wbuf, "flushing")
    /\ block' = <<>>
    /\ UNCHANGED <<interruptible, given, wbuf, polling, sent, taken, readerVars,
                   failed, waits>>

(* The destructor flushes again, also after a write has thrown. *)
DestroyWriter ==
    /\ wpc \in {"idle", "thrown"}
    /\ IF wbuf = <<>> THEN wpc' = "closed" /\ UNCHANGED <<direct, at>>
       ELSE WriteDirect(wbuf, "closing")
    /\ UNCHANGED <<interruptible, given, wbuf, polling, block, sent, taken,
                   readerVars, failed, waits>>

-----------------------------------------------------------------------------
(* file_descriptor::write. What is before the data in memory is unknown. *)

Busy == wpc \in {"writing", "flushing", "closing"}
Room == KernelRoom - (Len(sent) - taken)
Memory(k) == IF k \in DOMAIN direct THEN direct[k] ELSE 0

(* The call has written everything: a flush goes on to the block, if any. *)
Continue ==
    IF wpc = "flushing" /\ block # <<>> THEN PlaceEmpty(block) /\ block' = <<>>
    ELSE /\ direct' = <<>> /\ at' = 0 /\ block' = <<>>
         /\ wbuf' = IF wpc = "writing" THEN wbuf ELSE <<>>
         /\ wpc' = IF wpc = "closing" THEN "closed" ELSE "idle"

KernelTakes ==
    /\ Busy /\ Room > 0
    /\ \E n \in 1..Room :
          /\ n <= Len(direct) - at
          /\ sent' = sent \o [k \in 1..n |-> Memory(at + k)]
          /\ IF at + n = Len(direct) THEN Continue
             ELSE at' = at + n /\ UNCHANGED <<wbuf, wpc, direct, block>>
    /\ polling' = FALSE
    /\ UNCHANGED <<interruptible, given, taken, readerVars, failed, waits>>

(* EAGAIN: wait, and then take the -1 for a count of octets. *)
WouldBlock ==
    /\ Busy /\ interruptible /\ Room <= 0 /\ ~polling /\ waits < MaxWaits
    /\ polling' = TRUE /\ waits' = waits + 1
    /\ at' = at - 1
    /\ UNCHANGED <<interruptible, given, wbuf, wpc, direct, block, sent, taken,
                   readerVars, failed>>

(* The write fails, or the wait ends in a terminate_exception. The destructor
   only reports that. *)
WriteFails ==
    /\ Busy
    /\ wpc' = IF wpc = "closing" THEN "closed" ELSE "thrown"
    /\ direct' = <<>> /\ at' = 0 /\ block' = <<>> /\ polling' = FALSE
    /\ failed' = TRUE
    /\ UNCHANGED <<interruptible, given, wbuf, sent, taken, readerVars, waits>>

-----------------------------------------------------------------------------
(* octet_reader::read. *)

BeginGet ==
    /\ wanted = 0 /\ ~reached
    /\ wanted' \in Sizes
    /\ UNCHANGED <<interruptible, writerVars, sent, taken, rbuf, partial, got, reached>>

(* When the last octet is in place, the call returns. *)
Deliver(octs) ==
    IF wanted = Len(octs)
    THEN got' = got \o partial \o octs /\ partial' = <<>> /\ wanted' = 0
    ELSE /\ partial' = partial \o octs /\ wanted' = wanted - Len(octs)
         /\ UNCHANGED got

FromBuffer ==
    /\ wanted > 0 /\ rbuf # <<>>
    /\ LET n == IF wanted < Len(rbuf) THEN wanted ELSE Len(rbuf) IN
       /\ Deliver(SubSeq(rbuf, 1, n))
       /\ rbuf' = SubSeq(rbuf, n + 1, Len(rbuf))
    /\ UNCHANGED <<interruptible, writerVars, sent, taken, reached>>

(* At least half a buffer: read in place; else refill. *)
FromKernel ==
    /\ wanted > 0 /\ rbuf = <<>> /\ Len(sent) > taken
    /\ \E n \in 1..Len(sent) - taken :
          /\ n <= IF 2 * wanted >= BufSize THEN wanted ELSE BufSize
          /\ taken' = taken + n
          /\ LET octs == SubSeq(sent, taken + 1, taken + n) IN
             IF 2 * wanted >= BufSize THEN Deliver(octs) /\ UNCHANGED rbuf
             ELSE rbuf' = octs /\ UNCHANGED <<wanted, partial, got>>
    /\ UNCHANGED <<interruptible, writerVars, sent, reached>>

StreamEnds ==
    /\ wanted > 0 /\ rbuf = <<>> /\ Len(sent) = taken /\ wpc = "closed"
    /\ reached' = TRUE /\ wanted' = 0
    /\ UNCHANGED <<interruptible, writerVars, sent, taken, rbuf, partial, got>>

StreamNext ==
    \/ Put \/ StreamFlush \/ DestroyWriter
    \/ KernelTakes \/ WouldBlock \/ WriteFails
    \/ BeginGet \/ FromBuffer \/ FromKernel \/ StreamEnds

StreamSpec == StreamStart /\ [][StreamNext]_streamVars

-----------------------------------------------------------------------------
(* The stream carries what it was given: nothing is skipped, ever; nothing is
   repeated or invented as long as no write has failed or had to wait; a writer
   that is destroyed after that leaves nothing behind; and the reader returns
   the octets of the kernel in order, however they come in.                   *)
After(octs, n, o) ==
    o > 1 => \E i \in 1..n :
        octs[i] # 0 /\ octs[i] >= o - 1 /\ \A k \in (i + 1)..n : octs[k] = 0
NothingSkipped == \A j \in DOMAIN sent : After(sent, j - 1, sent[j])
ReadInOrder == got \o partial \o rbuf = SubSeq(sent, 1, taken)
FaithfulStream ==
    /\ NothingSkipped
    /\ ~failed /\ waits = 0 => IsPrefix(sent, Given(given))
    /\ ~failed /\ waits = 0 /\ wpc = "closed" => sent = Given(given)
    /\ ReadInOrder

(* What FaithfulStream rests on: the octets under way are rows of consecutive
   ones, of which each begins where the one before ends, and none begins after
   what has been sent.                                                        *)
Row(octs, before) == \A k \in 1..Len(octs) : octs[k] = before + k
Sendable(o) == After(sent, Len(sent), o)
Ahead == given - Len(wbuf) - Len(block)
Gone == IF at > 0 THEN at ELSE 0
Resumable ==
    \E b \in 0..given : /\ Row(wbuf, b) /\ Sendable(b + Gone + 1)
                        /\ ~failed => b + Len(wbuf) = given
StreamTyped ==
    /\ failed \in BOOLEAN
    /\ {given, waits, taken, wanted} \subseteq Nat /\ at \in Int
    /\ wpc \in {"idle", "writing", "flushing", "closing", "thrown", "closed"}
    /\ {wbuf, direct, block, sent} \subseteq Seq(Nat)
    /\ {rbuf, partial, got} \subseteq Seq(Nat) /\ taken <= Len(sent)
Rows ==
    /\ wpc = "idle" => block = <<>>
    /\ wpc \in {"idle", "flushing"} =>
          Ahead >= 0 /\ Row(wbuf, Ahead) /\ Row(block, given - Len(block))
    /\ wpc = "idle" => Sendable(Ahead + 1)
    /\ wpc = "flushing" => direct = wbuf /\ Sendable(Ahead + Gone + 1)
    /\ wpc = "writing" =>
          /\ wbuf = <<>> /\ block = <<>> /\ Len(direct) <= given
          /\ Row(direct, given - Len(direct))
          /\ Sendable(given - Len(direct) + Gone + 1)
    /\ wpc = "closing" => direct = wbuf
    /\ wpc = "thrown" => at = 0 /\ failed
    /\ wpc \in {"closing", "thrown"} => block = <<>> /\ Resumable
    /\ Busy => at < Len(direct)
Undisturbed ==
    ~failed /\ waits = 0 =>
        /\ at >= 0 /\ Row(sent, 0)
        /\ wpc = "idle" => Len(sent) = Ahead
        /\ wpc \in {"flushing", "closing"} => Len(sent) = Ahead + at
        /\ wpc = "writing" => Len(sent) = given - Len(direct) + at
        /\ wpc = "closed" => Len(sent) = given
StreamInv ==
    StreamTyped /\ Rows /\ Undisturbed /\ NothingSkipped /\ ReadInOrder

(* A write that cannot be completed at once blocks until it can, and then the
   kernel has the octets that were given, once each.                          *)
WaitsFaithfully == ~failed => IsPrefix(sent, Given(given))
=============================================================================
