---------------------------- MODULE SpoolForward ----------------------------
(***************************************************************************)
(* A spool directory being written by one process (FileSessionWriter) and  *)
(* forwarded by another: the thread of horace-forward that runs            *)
(* forward_one_with_retry for this source, the file_session_reader and     *)
(* spoolfile_reader it reads from, and a destination whose session writer  *)
(* stores each record before write() returns, as the mongodb one does.     *)
(*                                                                         *)
(* Faults: a write to the destination may throw, with or without having    *)
(* stored the record; the forwarder may stop at any point, keeping nothing *)
(* but the lock on the directory's files, and be started again; the writer *)
(* may stop, be killed and be started again.                               *)
(***************************************************************************)
EXTENDS FileSessionWriter

CONSTANTS
  NoDelete,     \* the source endpoint's nodelete option
  MaxFaults,    \* bound: writes to the destination that throw
  MaxRestarts,  \* bound: stops of the forwarder
  MaxNext       \* bound: file numbers the reader's retries may run up to

ASSUME ForwardAssumption ==
  /\ NoDelete \in BOOLEAN
  /\ {MaxFaults, MaxRestarts, MaxNext} \subseteq Nat

VARIABLES
  fpc,          \* where forward_one is, or "down"
  at,           \* where spoolfile_reader::_read_direct is
  rfile,        \* number of the spoolfile that _sfr reads, or NoFile
  rnext,        \* the reader's _next_filenum
  scanned,      \* the reader's _minwidth is set
  rpos,         \* records read from rfile
  rts,          \* _session_ts (0 for none)
  rseq,         \* _seqnum
  awaiting,     \* _awaiting_sync
  hand,         \* the record that forward_one has read and not yet disposed of
  dst,          \* base class state of the destination's session writer
  db,           \* documents in the destination, with the session they are under
  faults,
  restarts

readerVars  == <<at, rfile, rnext, scanned, rpos, rts, rseq, awaiting>>
forwardVars == <<fpc, readerVars, hand, dst, db, faults, restarts>>
allVars     == <<storeVars, writerVars, forwardVars>>

ForwardInit ==
  /\ fpc = "down"
  /\ at = "read"
  /\ rfile = NoFile /\ rnext = 0 /\ scanned = FALSE /\ rpos = 0
  /\ rts = 0 /\ rseq = 0 /\ awaiting = FALSE
  /\ hand = NoRec
  /\ dst = FreshWriter
  /\ db = {}
  /\ faults = 0 /\ restarts = 0

-----------------------------------------------------------------------------
(* file_session_reader::read and spoolfile_reader::_read_direct.            *)

Reading == fpc \in {"start", "loop"}

\* The name to look for is fixed when rfile is opened, one below _next_filenum.
NotSuccessor == rnext                                                 \* mutant
Successor == rnext - 1

\* First read: find the oldest spoolfile, or wait until there is one.
Scan ==
  /\ Reading /\ rfile = NoFile /\ ~scanned
  /\ at = "read" /\ dir # {}
  /\ scanned' = TRUE
  /\ rnext' = FirstFilenum
  /\ UNCHANGED <<storeVars, writerVars, fpc, at, rfile, rpos, rts, rseq,
                 awaiting, hand, dst, db, faults, restarts>>

ScanEmpty ==
  /\ Reading /\ rfile = NoFile /\ ~scanned
  /\ at = "read" /\ dir = {}
  /\ at' = "wait"
  /\ UNCHANGED <<storeVars, writerVars, fpc, rfile, rnext, scanned, rpos, rts,
                 rseq, awaiting, hand, dst, db, faults, restarts>>

OpenSpoolfile ==
  /\ Reading /\ rfile = NoFile /\ scanned
  /\ rnext \in dir
  /\ rfile' = rnext /\ rpos' = 0 /\ at' = "read"
  /\ rnext' = rnext + 2
  /\ UNCHANGED <<storeVars, writerVars, fpc, scanned, rts, rseq, awaiting,
                 hand, dst, db, faults, restarts>>

\* The session a record returned by read() leaves the reader in.
ObserveLast(rec) ==                          \* mutant: last, not next number
  IF IsSession(rec) /\ rec.ts # rts
  THEN rts' = rec.ts /\ rseq' = 0
  ELSE /\ rts' = rts
       /\ rseq' = IF IsEvent(rec) THEN rec.seq ELSE rseq
Observe(rec) ==
  IF IsSession(rec) /\ rec.ts # rts
  THEN rts' = rec.ts /\ rseq' = 0
  ELSE /\ rts' = rts
       /\ rseq' = IF IsEvent(rec) THEN rec.seq + 1 ELSE rseq

Return(rec) ==
  /\ hand' = rec
  /\ fpc' = IF fpc = "loop" THEN "put" ELSE "make"

\* There is data.
ReadRecord ==
  /\ Reading /\ rfile # NoFile /\ ~awaiting
  /\ at \in {"read", "last"} /\ rpos < Len(kern[rfile])
  /\ rpos' = rpos + 1
  /\ at' = "read"
  /\ Observe(kern[rfile][rpos + 1])
  /\ Return(kern[rfile][rpos + 1])
  /\ UNCHANGED <<storeVars, writerVars, rfile, rnext, scanned, awaiting, dst,
                 db, faults, restarts>>

\* There is none (yet).
ReadNothing ==
  /\ Reading /\ rfile # NoFile /\ ~awaiting
  /\ at = "read" /\ rpos = Len(kern[rfile])
  /\ at' = "zero"
  /\ UNCHANGED <<storeVars, writerVars, fpc, rfile, rnext, scanned, rpos, rts,
                 rseq, awaiting, hand, dst, db, faults, restarts>>

\* A successor exists: read once more, for what was written before it did.
SeeEnd ==                                    \* mutant: does not read once more
  /\ Reading /\ at = "zero" /\ Successor \in dir
  /\ at' = "read"
  /\ awaiting' = TRUE
  /\ Return(SyncRequest)
  /\ UNCHANGED <<storeVars, writerVars, rfile, rnext, scanned, rpos, rts, rseq,
                 dst, db, faults, restarts>>
SeeSuccessor ==
  /\ Reading /\ at = "zero" /\ Successor \in dir
  /\ at' = "last"
  /\ UNCHANGED <<storeVars, writerVars, fpc, rfile, rnext, scanned, rpos, rts,
                 rseq, awaiting, hand, dst, db, faults, restarts>>

SeeNoSuccessor ==
  /\ Reading /\ at = "zero" /\ Successor \notin dir
  /\ at' = "wait"
  /\ UNCHANGED <<storeVars, writerVars, fpc, rfile, rnext, scanned, rpos, rts,
                 rseq, awaiting, hand, dst, db, faults, restarts>>

\* wait() takes one event from the inotify queue; others may be left.
Wake ==
  /\ Reading /\ at = "wait"
  /\ changed /\ changed' \in BOOLEAN
  /\ at' = "read"
  /\ UNCHANGED <<dir, kern, sealed, writerVars, fpc, rfile, rnext, scanned,
                 rpos, rts, rseq, awaiting, hand, dst, db, faults, restarts>>

\* The end of the spoolfile (also inside a record): eof_error.
ReadEnd ==
  /\ Reading /\ at = "last" /\ rpos = Len(kern[rfile])
  /\ awaiting' = TRUE
  /\ at' = "read"
  /\ Return(SyncRequest)
  /\ UNCHANGED <<storeVars, writerVars, rfile, rnext, scanned, rpos, rts, rseq,
                 dst, db, faults, restarts>>

-----------------------------------------------------------------------------
(* forward_one and forward_one_with_retry.                                  *)

\* An exception: the session writer is destroyed, the reader is reset and
\* forward_one called again, without delay.
RetryAwaiting ==                           \* mutant: _awaiting_sync not reset
  /\ IF rfile = NoFile
     THEN UNCHANGED <<rnext, rts, rseq>>
     ELSE rnext' = rnext - 1 /\ rts' = 0 /\ rseq' = 0
  /\ rfile' = NoFile /\ rpos' = 0 /\ at' = "read"
  /\ fpc' = "start"
  /\ hand' = NoRec
  /\ dst' = FreshWriter
  /\ UNCHANGED <<scanned, restarts, awaiting>>
Retry ==
  /\ IF rfile = NoFile
     THEN UNCHANGED <<rnext, rts, rseq, awaiting>>
     ELSE /\ rnext' = rnext - 1
          /\ rts' = 0 /\ rseq' = 0 /\ awaiting' = FALSE
  /\ rfile' = NoFile /\ rpos' = 0 /\ at' = "read"
  /\ fpc' = "start"
  /\ hand' = NoRec
  /\ dst' = FreshWriter
  /\ UNCHANGED <<scanned, restarts>>

\* The spoolfile to open is not there.  _next_filenum was incremented for its
\* name and for its successor's.
OpenThrows ==
  /\ Reading /\ rfile = NoFile /\ scanned
  /\ rnext \notin dir /\ rnext + 2 <= MaxNext
  /\ rnext' = rnext + 2
  /\ fpc' = "start"
  /\ hand' = NoRec
  /\ dst' = FreshWriter
  /\ UNCHANGED <<storeVars, writerVars, at, rfile, scanned, rpos, rts, rseq,
                 awaiting, db, faults, restarts>>

\* The first record must be a session record.
NotASession ==
  /\ fpc = "make" /\ ~IsSession(hand)
  /\ Retry
  /\ UNCHANGED <<storeVars, writerVars, db, faults>>

Documents(w, rec) ==
  IF rec.chan \in {"session", "event", "end"}
  THEN {[ts |-> w.srec.ts, rec |-> rec]}
  ELSE {}

\* make_session_writer, then the session record is written to it.
PutSession ==
  LET w == FreshWriter IN
  /\ fpc = "make" /\ IsSession(hand) /\ ~Refuses(w, hand)
  /\ dst' = Written(w, hand)
  /\ db' = db \cup Documents(Written(w, hand), hand)
  /\ hand' = NoRec
  /\ fpc' = "loop"
  /\ UNCHANGED <<storeVars, writerVars, readerVars, faults, restarts>>

PutRecord ==
  /\ fpc = "put" /\ ~Refuses(dst, hand) /\ hand.chan # "sync"
  /\ dst' = Written(dst, hand)
  /\ db' = db \cup Documents(Written(dst, hand), hand)
  /\ hand' = NoRec
  /\ fpc' = "loop"
  /\ UNCHANGED <<storeVars, writerVars, readerVars, faults, restarts>>

\* A sync request is answered at once: forward_one reads the reply ...
PutSync ==
  /\ fpc = "put" /\ ~Refuses(dst, hand) /\ hand.chan = "sync"
  /\ dst' = Replied(Written(dst, hand))
  /\ hand' = Written(dst, hand).reply
  /\ fpc' = "ack"
  /\ UNCHANGED <<storeVars, writerVars, readerVars, db, faults, restarts>>

\* The destination fails, before or after it has stored the record.
PutSwallows ==                       \* mutant: the handler ignores the failure
  /\ faults < MaxFaults
  /\ fpc = "put" /\ ~Refuses(dst, hand) /\ hand.chan # "sync"
  /\ faults' = faults + 1
  /\ dst' = Written(dst, hand)
  /\ hand' = NoRec
  /\ fpc' = "loop"
  /\ UNCHANGED <<storeVars, writerVars, readerVars, db, restarts>>
PutThrows ==
  LET w == IF fpc = "make" THEN FreshWriter ELSE dst IN
  /\ faults < MaxFaults
  /\ \/ fpc = "make" /\ IsSession(hand)
     \/ fpc = "put"
  /\ ~Refuses(w, hand)
  /\ faults' = faults + 1
  /\ db' \in {db, db \cup Documents(Written(w, hand), hand)}
  /\ Retry
  /\ UNCHANGED <<storeVars, writerVars>>

\* ... and writes it to the reader, which compares it with what it has read.
\* (The exceptions for a reply that does not match, for a record the
\* destination refuses and for a successor that is not there have no action:
\* ForwardNeverStuck says that they are never raised.)
AckMatches ==
  /\ awaiting
  /\ hand.src = SrcId /\ hand.ts = rts /\ hand.seq = rseq

\* _handle_sync, up to the fsync of the directory.
Unlink ==
  /\ fpc = "ack" /\ AckMatches
  /\ dir' = IF NoDelete THEN dir ELSE dir \ {rfile}
  /\ fpc' = "advance"
  /\ hand' = NoRec
  /\ UNCHANGED <<kern, sealed, changed, writerVars, readerVars, dst, db, faults,
                 restarts>>

\* The rest of it: the next spoolfile is opened.
Advance ==
  /\ fpc = "advance" /\ Successor \in dir
  /\ rfile' = Successor /\ rpos' = 0 /\ at' = "read"
  /\ rnext' = rnext + 1
  /\ awaiting' = FALSE
  /\ fpc' = "loop"
  /\ UNCHANGED <<storeVars, writerVars, scanned, rts, rseq, hand, dst, db,
                 faults, restarts>>

\* A new file_session_reader, with a new inotify watch; the creation of its
\* .rdlock may be the first event.
Start ==
  /\ fpc = "down"
  /\ fpc' = "start"
  /\ changed' \in BOOLEAN
  /\ UNCHANGED <<dir, kern, sealed, writerVars, readerVars, hand, dst, db,
                 faults, restarts>>

\* The forwarder is terminated or killed.
Stop ==
  /\ fpc # "down" /\ restarts < MaxRestarts
  /\ restarts' = restarts + 1
  /\ fpc' = "down"
  /\ at' = "read" /\ rfile' = NoFile /\ rnext' = 0 /\ scanned' = FALSE
  /\ rpos' = 0 /\ rts' = 0 /\ rseq' = 0 /\ awaiting' = FALSE
  /\ hand' = NoRec
  /\ dst' = FreshWriter
  /\ UNCHANGED <<storeVars, writerVars, db, faults>>

\* What the forwarder does of its own accord.
ForwardStep ==
  \/ Scan \/ ScanEmpty \/ OpenSpoolfile \/ OpenThrows
  \/ ReadRecord \/ ReadNothing \/ SeeSuccessor \/ SeeNoSuccessor \/ Wake
  \/ ReadEnd
  \/ NotASession \/ PutSession \/ PutRecord \/ PutSync
  \/ Unlink \/ Advance
  \/ Start

ForwardNext == ForwardStep \/ PutThrows \/ Stop

SInit == StoreInit /\ WriterInit /\ ForwardInit
SNext == (WriterNext /\ UNCHANGED forwardVars) \/ ForwardNext
SSpec == SInit /\ [][SNext]_allVars

\* The forwarder's thread runs, as the operating system schedules it.  Nobody
\* is bound to write any more, or to flush what is in the writer's buffer.
FairSpec ==
  /\ SSpec
  /\ WF_allVars(ForwardStep)

-----------------------------------------------------------------------------
Document(e) == [ts |-> e.ts, rec |-> e]

ForwardTypeOK ==
  /\ fpc \in {"down", "start", "make", "loop", "put", "ack", "advance"}
  /\ at \in {"read", "zero", "last", "wait"}
  /\ rfile \in FileNums \cup {NoFile} /\ rnext \in Nat
  /\ scanned \in BOOLEAN /\ rpos \in Nat
  /\ rts \in 0..MaxTime /\ rseq \in 0..(MaxSeq + 1) /\ awaiting \in BOOLEAN
  /\ hand \in SpoolRecs \cup Replies \cup {NoRec, SyncRequest}
  /\ dst \in WriterState
  /\ db \subseteq [ts : Times, rec : SpoolRecs]
  /\ faults \in Nat /\ restarts \in Nat

\* Types of the whole system.
STypeOK == TypeOK /\ ForwardTypeOK

\* Nothing that its reader could still have found is lost: the events that
\* were in a spoolfile before its successor was created are in the
\* destination, under their own session, when the spoolfile has been deleted.
\* Faults of the destination and restarts at either end included.
NoTimelyLoss ==
  \A n \in FileNums \ dir : \A e \in TimelyEvents(n) : Document(e) \in db

\* Whatever is in the destination is under the session that produced it, and
\* was written by the capturing process; faults and re-forwarding included.
NothingMisattributed ==
  \A d \in db : d.ts = d.rec.ts /\ (IsEvent(d.rec) => d.rec \in OnFile)

\* The exceptions that would reset the reader in a run without faults are not
\* raised: the sync reply agrees with what the reader has counted, the
\* destination refuses no record, and the spoolfile to go on with is there.
ForwardNeverStuck ==
  /\ fpc = "ack" => AckMatches
  /\ fpc = "put" => ~Refuses(dst, hand)
  /\ fpc = "make" /\ IsSession(hand) => ~Refuses(FreshWriter, hand)
  /\ fpc = "advance" => Successor \in dir

\* The number of a new spoolfile has never been used, whatever has been
\* deleted and however often the writer has scanned the directory since.
NumbersNeverReused ==
  wpc = "create" =>
    \A n \in FileNums : n >= nextNum => n \notin dir /\ kern[n] = <<>>

\* Stated by session_reader.h of reset ("any event records which were read
\* since the most recently acknowledged syncrhonisation point should be
\* replayed"): an open reader is at the oldest spoolfile left.
ReadsOldest == (rfile # NoFile /\ fpc # "advance") => rfile = FirstFilenum

\* Stated by file_session_reader.cc of the sync request that leads to deletion
\* ("there is no prospect of further data being read from the current
\* spoolfile"): no event that is ever written to a spoolfile is missing from
\* the destination when the spoolfile has been deleted.
NoLoss ==
  \A n \in FileNums \ dir : \A e \in EventsUpTo(n, Len(kern[n])) :
    Document(e) \in db

\* Every event that is in a spoolfile in time reaches the destination.
TimelyDelivered ==
  \A t \in Times : \A q \in 0..MaxSeq :
    EventRec(t, q) \in AllTimely ~> Document(EventRec(t, q)) \in db

\* Every spoolfile that has a successor is deleted in the end.
SpoolReleased ==
  \A n \in FileNums : sealed[n] # Unsealed ~> n \notin dir
-----------------------------------------------------------------------------
(* The inductive invariant behind NoTimelyLoss, in named parts.             *)

\* Spoolfile numbers have been used without a gap, and the largest is never
\* deleted: the files that have a successor are those below it.
SpoolNumbering ==
  /\ \A n \in FileNums : sealed[n] # Unsealed <=> \E m \in dir : n < m
  /\ \A n \in FileNums : kern[n] # <<>> => \E m \in dir : n <= m
  /\ \A n \in FileNums : sealed[n] <= Len(kern[n])

\* The writer goes on above the largest number; the file it has open, which
\* may have been deleted, is not above that.
WriterNumbering ==
  /\ wpc \notin {"off", "thrown"} =>
       /\ \A m \in dir : m < nextNum
       /\ nextNum > 0 => nextNum - 1 \in dir
  /\ cur # NoFile => \E m \in dir : cur <= m
  /\ wpc = "off" => cur = NoFile
  /\ wpc = "close" => cur < nextNum - 1
  /\ wpc \in {"close", "header"} => nextNum > 0 /\ kern[nextNum - 1] = <<>>
  /\ wpc = "header" => cur = nextNum - 1 /\ buf = <<>>

\* Contents k and buffer b of one spoolfile of session t, together not empty.
OneSession(k, b, t) ==
  /\ \A i \in 1..Len(k) : k[i].ts = t
  /\ \A i \in 1..Len(b) : b[i].ts = t
  /\ Len(k) > 0 => IsSession(k[1])
  /\ Len(k) = 0 => Len(b) > 0 /\ IsSession(b[1])

Contents ==
  /\ SelfContained
  /\ cur # NoFile /\ wpc # "header" =>
       \E t \in Times : OneSession(kern[cur], buf, t) /\ (wpc = "idle" => t = clock)
  /\ ssw.srec # NoRec => ssw.srec.ts = clock
  /\ wpc \in {"create", "close", "header"} =>
       ssw.srec # NoRec /\ pend # NoRec /\ pend.ts = clock

\* Where the reader is, and what the end of a spoolfile tells it.
ReaderPlace ==
  /\ rfile = NoFile => /\ fpc \in {"down", "start"}
                       /\ ~awaiting /\ at \in {"read", "wait"}
  /\ rfile # NoFile =>
       /\ fpc # "down"
       /\ rnext = rfile + 2 /\ rpos <= Len(kern[rfile])
       /\ fpc # "advance" => rfile \in dir
       /\ at = "last" \/ awaiting \/ fpc = "advance" => rfile + 1 \in dir
       /\ awaiting => rpos >= sealed[rfile]
  /\ fpc \in {"down", "start"} => rpos = 0
  /\ fpc \in {"ack", "advance"} => awaiting
  /\ fpc = "make" => rpos <= 1
  /\ fpc \in {"make", "put"} /\ hand = SyncRequest => awaiting

\* The record in hand is the one read last; the session is the file's.
ReaderSession ==
  /\ rpos > 0 => rts = kern[rfile][1].ts
  /\ fpc \in {"make", "put"} /\ hand # SyncRequest =>
       rpos > 0 /\ hand = kern[rfile][rpos]
  /\ fpc \in {"loop", "put", "ack", "advance"} =>
       /\ dst.srec # NoRec
       /\ ~(fpc = "put" /\ IsSession(hand)) => dst.srec.ts = rts

\* All that has been read of the current spoolfile is in the destination, but
\* for the record in hand.
Forwarded ==
  \A i \in 1..rpos :
    LET e == kern[rfile][i] IN
    IsEvent(e) => Document(e) \in db \/ (fpc = "put" /\ hand = e)

IInv == /\ STypeOK
        /\ SpoolNumbering
        /\ WriterNumbering
        /\ Contents
        /\ ReaderPlace
        /\ ReaderSession
        /\ Forwarded
        /\ NoTimelyLoss

\* What NothingMisattributed, ForwardNeverStuck and ImplementsTransfer rest on
\* besides IInv.  Reader and destination count alike, each record when it has
\* it.
CountedAlike ==
  /\ fpc \in {"down", "start"} => rts = 0 /\ rseq = 0
  /\ fpc = "make" /\ IsSession(hand) => Written(FreshWriter, hand).seqnum = rseq
  /\ fpc = "put" => Written(dst, hand).seqnum = rseq
  /\ fpc \in {"loop", "ack", "advance"} => dst.seqnum = rseq
  /\ fpc = "ack" => hand = SyncReply(dst)

\* A session that has ended for the destination has ended in what was read.
Passed == IF fpc = "put" /\ hand # SyncRequest THEN rpos - 1 ELSE rpos
EndWasRead ==
  dst.srec # NoRec /\ dst.ended =>
    \E n \in FileNums : \E i \in 1..Len(kern[n]) :
      kern[n][i] = EndRec(dst.srec.ts) /\ (n < rfile \/ (n = rfile /\ i <= Passed))

TInv == WriterOrder /\ NothingMisattributed /\ CountedAlike /\ EndWasRead
SpoolInv == IInv /\ TInv

-----------------------------------------------------------------------------
\* The abstract specification's view: what the directory holds of the timely
\* events, and which of the timely events the destination has.
Held      == UNION {TimelyEvents(n) : n \in dir}
Delivered == {e \in AllTimely : Document(e) \in db}

Transfer == INSTANCE ReliableTransfer WITH
  Events    <- {EventRec(t, q) : t \in Times, q \in 0..MaxSeq},
  held      <- Held,
  delivered <- Delivered

\* The spool and its forwarder implement a reliable transfer of the events
\* that reach a spoolfile in time.
ImplementsTransfer == Transfer!Spec
=============================================================================
