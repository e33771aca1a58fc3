------------------------- MODULE FileSessionWriter -------------------------
(***************************************************************************)
(* A horace+file destination: file_session_writer, the spoolfile_writer it *)
(* holds and the 64-octet buffer of the file_octet_writer inside that.     *)
(* The process that owns it may stop (running destructors), be killed, and *)
(* start again.                                                            *)
(*                                                                         *)
(* Records written and not yet in the kernel are in `buf'.  A flush moves  *)
(* all that was buffered before it; whether a write flushes, and whether   *)
(* the record that caused it goes with it, depends on octet counts and is  *)
(* left open.                                                              *)
(***************************************************************************)
EXTENDS SpoolStore

CONSTANTS
  MaxTime,        \* bound: sessions started, by every process together
  MaxSeq,         \* bound: largest sequence number of an event
  MaxKills,       \* bound: how often the process is killed
  MaxCreateFaults,\* bound: how often a spoolfile cannot be created
  Capacity,       \* the endpoint's filesize, in the unit of the sizes below
  HeaderSize,     \* size of a session record
  RecordSize,     \* size of any other record
  BufferRecs,     \* records that can sit in the buffer, whole or in part
  ControlChans,   \* the control records that are written besides events
  Unended,        \* a session may start before the last one has ended
  Synced,         \* the caller asks for acknowledgements, as a forwarder does
  SpaceAnswers    \* what the free space check may answer

ASSUME WriterAssumption ==
  /\ {MaxTime, MaxSeq, MaxKills, MaxCreateFaults} \subseteq Nat
  /\ {Capacity, HeaderSize, RecordSize, BufferRecs} \subseteq Nat
  /\ ControlChans \subseteq {"end", "signature"}
  /\ SpaceAnswers \subseteq BOOLEAN /\ {Unended, Synced} \subseteq BOOLEAN

VARIABLES
  wpc,            \* where write() is, or "off" when there is no writer
  ssw,            \* state of the base class
  cur,            \* number of the spoolfile that _sfw writes, or NoFile
  buf,            \* records in _sfw's output buffer
  used,           \* _sfw's _size
  first,          \* _sfw's _first
  nextNum,        \* _next_filenum
  writable,       \* _writable
  pend,           \* the record that write() was called with
  accepted,       \* history: events whose write() returned
  clock,          \* timestamp of the newest session
  kills,
  createFaults

writerVars == <<wpc, ssw, cur, buf, used, first, nextNum, writable, pend,
                accepted, clock, kills, createFaults>>

Times == 1..MaxTime
SizeOf(rec) == IF IsSession(rec) THEN HeaderSize ELSE RecordSize
Session(t) == SessionRec(SrcId, t, "defs")

WriterInit ==
  /\ wpc = "off"
  /\ ssw = FreshWriter
  /\ cur = NoFile /\ buf = <<>> /\ used = 0 /\ first = TRUE
  /\ nextNum = 0
  /\ writable = FALSE
  /\ pend = NoRec
  /\ accepted = {}
  /\ clock = 0 /\ kills = 0 /\ createFaults = 0

-----------------------------------------------------------------------------
(* Octets on their way to the kernel.                                       *)

\* Write recs through the buffer b into spoolfile n.
Buffered(n, b, recs) ==
  LET all == b \o recs IN
  \E j \in {0} \cup Len(b)..Len(all) :
    /\ Len(all) - j <= BufferRecs
    /\ AppendTo(n, SubSeq(all, 1, j))
    /\ buf' = SubSeq(all, j + 1, Len(all))

\* ~file_octet_writer.
FlushAll(n) == AppendTo(n, buf)

-----------------------------------------------------------------------------
(* The file_session_writer.                                                 *)

\* Constructor: the directory is scanned once, under the write lock.
Open ==
  /\ wpc = "off"
  /\ wpc' = "idle"
  /\ ssw' = FreshWriter
  /\ nextNum' = NextFilenum
  /\ writable' = FALSE
  /\ UNCHANGED <<storeVars, cur, buf, used, first, pend, accepted, clock,
                 kills, createFaults>>

\* spoolfile_writer::write would return true.
Fits(rec) == used + SizeOf(rec) <= Capacity \/ first

NeedsSpoolfile(rec) ==
  \/ StartsSession(ssw, rec)
  \/ cur = NoFile
  \/ ~Fits(rec)

Accept(rec) ==
  accepted' = IF IsEvent(rec) THEN accepted \cup {rec} ELSE accepted

\* An event, signature or end record that fits into the current spoolfile.
WriteInPlace(rec) ==
  /\ wpc = "idle" /\ ~Refuses(ssw, rec) /\ ~NeedsSpoolfile(rec)
  /\ Buffered(cur, buf, <<rec>>)
  /\ used' = used + SizeOf(rec)
  /\ first' = FALSE
  /\ ssw' = Written(ssw, rec)
  /\ Accept(rec)
  /\ UNCHANGED <<wpc, cur, nextNum, writable, pend, clock, kills, createFaults>>

\* Otherwise write() starts a spoolfile.  sync() of the old one comes first:
\* an fsync, which moves nothing out of the buffer.
BeginSpoolfile(rec) ==
  /\ wpc = "idle" /\ ~Refuses(ssw, rec) /\ NeedsSpoolfile(rec)
  /\ wpc' = "create"
  /\ pend' = rec
  /\ ssw' = IF StartsSession(ssw, rec) THEN Started(ssw, rec) ELSE ssw
  /\ UNCHANGED <<storeVars, cur, buf, used, first, nextNum, writable, accepted,
                 kills, createFaults>>

\* The new spoolfile_writer is constructed ...
CreateSpoolfile ==
  /\ wpc = "create"
  /\ nextNum <= MaxFile /\ nextNum \notin dir
  /\ CreateFile(nextNum)
  /\ nextNum' = nextNum + 1
  /\ wpc' = "close"
  /\ UNCHANGED <<ssw, cur, buf, used, first, writable, pend, accepted, clock,
                 kills, createFaults>>

\* ... or the file cannot be created, and an exception leaves write().
\* _next_filenum has been incremented.  (That the file exists is ruled out by
\* NumbersNeverReused.)
CreateThrows ==
  /\ wpc = "create"
  /\ createFaults < MaxCreateFaults
  /\ createFaults' = createFaults + 1
  /\ nextNum' = nextNum + 1
  /\ wpc' = "thrown"
  /\ UNCHANGED <<storeVars, ssw, cur, buf, used, first, writable, pend,
                 accepted, clock, kills>>

\* ... and only then assigned to _sfw, which destroys the old one.
CloseUnflushed ==                            \* mutant: the buffer is dropped
  /\ wpc = "close"
  /\ cur' = nextNum - 1
  /\ buf' = <<>> /\ used' = 0 /\ first' = TRUE
  /\ wpc' = "header"
  /\ UNCHANGED <<storeVars, ssw, nextNum, writable, pend, accepted, clock,
                 kills, createFaults>>
CloseOld ==
  /\ wpc = "close"
  /\ IF cur = NoFile THEN UNCHANGED storeVars ELSE FlushAll(cur)
  /\ cur' = nextNum - 1
  /\ buf' = <<>> /\ used' = 0 /\ first' = TRUE
  /\ wpc' = "header"
  /\ UNCHANGED <<ssw, nextNum, writable, pend, accepted, clock, kills,
                 createFaults>>

\* The session record, then the record that did not fit (if it was not the
\* session record itself).
WriteNoHeader ==               \* mutant: only the record that did not fit
  /\ wpc = "header"
  /\ Buffered(cur, buf, <<pend>>)
  /\ used' = RecordSize /\ first' = FALSE
  /\ writable' \in SpaceAnswers
  /\ wpc' = "idle" /\ pend' = NoRec
  /\ ssw' = Written(ssw, pend)
  /\ Accept(pend)
  /\ UNCHANGED <<cur, nextNum, clock, kills, createFaults>>
WriteHeader ==
  LET more == IF IsSession(pend) THEN <<>> ELSE <<pend>>
      fits == IsSession(pend) \/ HeaderSize + RecordSize <= Capacity
  IN
  /\ wpc = "header"
  /\ Buffered(cur, buf, IF fits THEN <<ssw.srec>> \o more ELSE <<ssw.srec>>)
  /\ used' = HeaderSize + (IF fits THEN RecordSize * Len(more) ELSE 0)
  /\ first' = FALSE
  /\ writable' \in SpaceAnswers
  /\ IF fits
     THEN /\ wpc' = "idle" /\ pend' = NoRec
          /\ ssw' = Written(ssw, pend)
          /\ Accept(pend)
     ELSE /\ wpc' = "overfull"
          /\ UNCHANGED <<pend, ssw, accepted>>
  /\ UNCHANGED <<cur, nextNum, clock, kills, createFaults>>

\* writable() asks again only while the last answer was no.
Poll ==
  /\ wpc = "idle" /\ ~writable
  /\ writable' \in SpaceAnswers
  /\ UNCHANGED <<storeVars, wpc, ssw, cur, buf, used, first, nextNum, pend,
                 accepted, clock, kills, createFaults>>

\* handle_sync is an fsync; the base class then makes the reply.  (Only after
\* a session has started, so there is a spoolfile.)
Sync ==
  /\ Synced /\ wpc = "idle" /\ ~Refuses(ssw, SyncRequest)
  /\ ssw' = Written(ssw, SyncRequest)
  /\ UNCHANGED <<storeVars, wpc, cur, buf, used, first, nextNum, writable, pend,
                 accepted, clock, kills, createFaults>>

ReadReply ==
  /\ wpc = "idle" /\ ssw.reply # NoRec
  /\ ssw' = Replied(ssw)
  /\ UNCHANGED <<storeVars, wpc, cur, buf, used, first, nextNum, writable, pend,
                 accepted, clock, kills, createFaults>>

Closed ==
  /\ wpc' = "off"
  /\ cur' = NoFile /\ buf' = <<>> /\ used' = 0 /\ first' = TRUE
  /\ pend' = NoRec
  /\ ssw' = FreshWriter
  /\ UNCHANGED <<nextNum, writable, accepted, clock, createFaults>>

\* Destructor: at an orderly stop, or because write() has thrown.
Destroy ==
  /\ wpc \in {"idle", "thrown", "overfull"}
  /\ IF cur = NoFile THEN UNCHANGED storeVars ELSE FlushAll(cur)
  /\ Closed
  /\ UNCHANGED kills

\* SIGKILL: the kernel keeps what it has, the buffer is gone.
Kill ==
  /\ wpc # "off" /\ kills < MaxKills
  /\ kills' = kills + 1
  /\ Closed
  /\ UNCHANGED storeVars

-----------------------------------------------------------------------------
(* The caller: new_session_writer in a capturing process, or a forwarder.    *)
(* Sessions follow one another with timestamps no earlier session had; in   *)
(* each there are consecutively numbered events, signatures, also after the *)
(* end, and one end record.  A session without one is left behind by a      *)
(* process that was killed; a forwarder then passes on the next session     *)
(* through the same writer (Unended).                                       *)

WriteSession ==
  /\ ssw.ended \/ Unended
  /\ clock < MaxTime
  /\ BeginSpoolfile(Session(clock + 1))
  /\ clock' = clock + 1

ControlRecs ==
  {rec \in {EndRec(clock), SignatureRec(clock)} :
     rec.chan \in ControlChans /\ (rec.chan = "end" => ~ssw.ended)}

NextRecs ==
  IF ~ssw.ended /\ ssw.seqnum <= MaxSeq
  THEN ControlRecs \cup {EventRec(clock, ssw.seqnum)}
  ELSE ControlRecs

WriteRecord ==
  \E rec \in NextRecs :
    \/ WriteInPlace(rec)
    \/ BeginSpoolfile(rec) /\ UNCHANGED clock

WriterNext ==
  \/ Open
  \/ WriteSession
  \/ WriteRecord
  \/ CreateSpoolfile
  \/ CreateThrows
  \/ CloseOld
  \/ WriteHeader
  \/ Poll
  \/ Sync
  \/ ReadReply
  \/ Destroy
  \/ Kill

Init == StoreInit /\ WriterInit
Next == WriterNext
vars == <<storeVars, writerVars>>
Spec == Init /\ [][Next]_vars

-----------------------------------------------------------------------------
SessionRecs == {Session(t) : t \in Times}
EventRecs   == {EventRec(t, n) : t \in Times, n \in 0..MaxSeq}
SpoolRecs   == SessionRecs \cup EventRecs
                 \cup {EndRec(t) : t \in Times} \cup {SignatureRec(t) : t \in Times}
Replies     == [chan : {"sync"}, src : {SrcId}, ts : Times, seq : 0..(MaxSeq + 1)]
WriterState == [srec : SessionRecs \cup {NoRec}, seqnum : 0..(MaxSeq + 1),
                ended : BOOLEAN, reply : Replies \cup {NoRec}]

StoreTypeOK ==
  /\ dir \subseteq FileNums
  /\ kern \in [FileNums -> Seq(SpoolRecs)]
  /\ sealed \in [FileNums -> Nat \cup {Unsealed}]
  /\ changed \in BOOLEAN

WriterTypeOK ==
  /\ wpc \in {"off", "idle", "create", "close", "header", "thrown", "overfull"}
  /\ ssw \in WriterState
  /\ cur \in FileNums \cup {NoFile}
  /\ buf \in Seq(SpoolRecs)
  /\ used \in Nat /\ first \in BOOLEAN
  /\ nextNum \in Nat /\ writable \in BOOLEAN
  /\ pend \in SpoolRecs \cup {NoRec}
  /\ accepted \subseteq EventRecs
  /\ clock \in 0..MaxTime /\ kills \in Nat /\ createFaults \in Nat

\* Types of everything the writer and its directory hold.
TypeOK == StoreTypeOK /\ WriterTypeOK

\* A reader can start at any spoolfile: whatever a file holds begins with a
\* session record, and belongs to that session.  (The records that follow do
\* not name their session: they are attributed to the last session record
\* read.)
SelfContained ==
  \A n \in FileNums : kern[n] # <<>> =>
    /\ IsSession(kern[n][1])
    /\ \A i \in 1..Len(kern[n]) : SameTs(kern[n][i], kern[n][1])

OnFile == UNION {EventsUpTo(n, Len(kern[n])) : n \in FileNums}

\* What reaches the files of a session is a prefix of the events accepted in
\* it, across every change of spoolfile: a kill loses the newest events only.
NoHoles ==
  \A e \in OnFile : \A n \in 0..e.seq : EventRec(e.ts, n) \in OnFile

\* What NoHoles rests on.  Filed is every record on file, Issued what has been
\* written, there or in the buffer.
Elements(recs) == {recs[i] : i \in 1..Len(recs)}
Filed  == UNION {Elements(kern[n]) : n \in FileNums}
Issued == Filed \cup Elements(buf)

\* Records that go to join F, in this order, keep it without holes: each event
\* is new, finds its predecessors there, and no end of its session.
Before(F, recs, i) == F \cup {recs[j] : j \in 1..(i - 1)}
InOrder(F, recs) ==
  \A i \in 1..Len(recs) : IsEvent(recs[i]) =>
    /\ {recs[i], EndRec(recs[i].ts)} \cap Before(F, recs, i) = {}
    /\ \A q \in 0..(recs[i].seq - 1) : EventRec(recs[i].ts, q) \in Before(F, recs, i)

\* The next event of the session is the first that has not been written.
NextInOrder ==
  /\ \A rec \in Issued : rec.ts <= clock
  /\ ssw.srec # NoRec =>
       /\ \A q \in 0..MaxSeq : EventRec(clock, q) \in Issued <=> q < ssw.seqnum
       /\ ~ssw.ended => EndRec(clock) \notin Issued
  /\ wpc \in {"create", "close", "header"} /\ IsEvent(pend) =>
       pend = EventRec(clock, ssw.seqnum) /\ ~ssw.ended

\* Nothing is in files after the one that is open; nothing is buffered for none.
NewestOpen ==
  /\ cur # NoFile => \A n \in FileNums : n > cur => kern[n] = <<>>
  /\ cur = NoFile => buf = <<>>

\* Whoever reads the files in order finds no event after the end of its session.
EndsLast ==
  \A n, m \in FileNums : \A i \in 1..Len(kern[n]), j \in 1..Len(kern[m]) :
    IsEvent(kern[m][j]) /\ kern[n][i] = EndRec(kern[m][j].ts) =>
      m < n \/ (m = n /\ j < i)

WriterOrder == InOrder(Filed, buf) /\ NextInOrder /\ NewestOpen /\ NoHoles /\ EndsLast

\* Stated by spoolfile_writer.h ("Ensure that the spoolfile content has been
\* written durably"): once a sync has been acknowledged, the events it covers
\* are in the kernel.
SyncedReachesKernel ==
  ssw.reply # NoRec =>
    \A e \in accepted :
      (e.ts = ssw.reply.ts /\ e.seq < ssw.reply.seq) => e \in OnFile

\* Stated by file_session_writer.cc ("Spoolfiles should allow at least one
\* non-session record to be written, regardless of size, therefore the above
\* is not expected to fail").
NewSpoolfileTakesRecord == wpc # "overfull"
=============================================================================
