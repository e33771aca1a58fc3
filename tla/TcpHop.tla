------------------------------- MODULE TcpHop -------------------------------
(***************************************************************************)
(* One hop over the horace+tcp endpoint: a horace-forward upstream whose   *)
(* source can be read again (a spool), the tcp_session_writer it writes    *)
(* to, TCP connections, and a horace-forward downstream that runs          *)
(* forward_one_with_retry over a tcp_session_reader for each connection it *)
(* accepts, towards a destination that stores each record at once.         *)
(*                                                                         *)
(* The source is a row of batches, each a session record, its events and a *)
(* sync request, of which the oldest that has not been acknowledged is     *)
(* read again after a reset.  A connection is a queue of records each way; *)
(* it may break at any moment, losing what is in transit.  A record is the *)
(* unit of the octet_writer's buffer and of the kernel's (OctetStream has  *)
(* the octets).                                                            *)
(*                                                                         *)
(* What is written after a write that had to wait, or by a destructor that *)
(* begins a buffer again, is no longer in step with the records: an octet  *)
(* has been inserted, or some are sent twice.  The stream is `torn'.  What *)
(* it carries from there on is garbled: taken to be unreadable, and never  *)
(* for a record that was sent.                                             *)
(*                                                                         *)
(* Neither program blocks SIGPIPE.  A write on a connection that is known  *)
(* to be dead therefore kills the process.  Upstream is then run again,    *)
(* and comes to what a retry would have come to; downstream takes all its  *)
(* threads with it.                                                        *)
(***************************************************************************)
EXTENDS SessionProtocol, Sequences, FiniteSets, SequencesExt

CONSTANTS
  Batches,    \* number of batches in the source
  MaxSeq,     \* last sequence number in each batch
  Conns,      \* connections that may exist at a time
  NoConn,     \* no connection
  OutCap,     \* records that the octet_writer's buffer holds
  NetCap,     \* records that the kernel holds for one direction
  MaxFaults   \* bound: breaks, kills, failures of the destination

ASSUME TcpAssumption ==
  /\ Batches \in Nat \ {0} /\ MaxSeq \in Nat /\ MaxFaults \in Nat
  /\ NoConn \notin Conns
  /\ OutCap \in Nat \ {0} /\ NetCap \in Nat \ {0}

ErrorRec == [chan |-> "error"]
GarbledRec == [chan |-> "garbled"]

VARIABLES
  diode,      \* the endpoints' diode option
  upc,        \* where the upstream forward_one is
  batch,      \* the oldest batch that has not been acknowledged
  pos,        \* records read from it since the reset
  hand,       \* the record that upstream has in hand
  usw,        \* base class state of the tcp_session_writer
  conn,       \* its _fd
  obuf,       \* records in the buffer of its _fdow
  net,        \* the connections
  down,       \* the threads of the downstream forwarder
  db,         \* documents stored at the destination
  waited,     \* has a diode's write had to wait for room?
  killed,     \* how downstream processes have ended: by SIGPIPE, stopped
  faults

upVars   == <<upc, batch, pos, hand, usw, conn, obuf>>
downVars == <<down, db>>
vars     == <<diode, waited, upVars, net, downVars, killed, faults>>

Source(b) ==
  <<SessionRec(SrcId, b, "d")>>
    \o [i \in 1..(MaxSeq + 1) |-> EventRec(b, i - 1)] \o <<SyncRequest>>
Document(e) == [ts |-> e.ts, rec |-> e]

\* No connection.  `up' and `fin': upstream's end is open, downstream's end
\* has been shut down or closed.  `dead': a break or a reset has been seen.
NoNet    == [fwd |-> <<>>, back |-> <<>>, up |-> FALSE, fin |-> FALSE,
             dead |-> FALSE, torn |-> FALSE]
NoThread == [pc |-> "off", hand |-> NoRec, w |-> FreshWriter]

Init ==
  /\ diode \in BOOLEAN
  /\ upc = "start" /\ batch = 1 /\ pos = 0 /\ hand = NoRec
  /\ usw = FreshWriter /\ conn = NoConn /\ obuf = <<>>
  /\ net = [c \in Conns |-> NoNet]
  /\ down = [c \in Conns |-> NoThread]
  /\ db = {} /\ waited = FALSE /\ killed = {} /\ faults = 0

-----------------------------------------------------------------------------
(* Upstream: forward_one over the tcp_session_writer.                       *)

\* The session record is read, a session writer made and the record written.
ReadSession ==
  /\ upc = "start" /\ batch <= Batches
  /\ hand' = Source(batch)[1] /\ pos' = 1
  /\ usw' = FreshWriter
  /\ upc' = "open"
  /\ UNCHANGED <<diode, waited, batch, conn, obuf, net, downVars, killed,
                 faults>>

\* _open: after as many attempts as it takes the connection is established.
Connect(c) ==
  /\ upc = "open"
  /\ ~net[c].up /\ down[c].pc = "off"
  /\ conn' = c /\ obuf' = <<>>
  /\ net' = [net EXCEPT ![c] = [NoNet EXCEPT !.up = TRUE]]
  /\ down' = [down EXCEPT ![c] = [NoThread EXCEPT !.pc = "queued"]]
  /\ upc' = "put"
  /\ UNCHANGED <<diode, waited, batch, pos, hand, usw, db, killed, faults>>

\* The buffer takes a record if there is room, and is flushed first if not.
Room == \/ upc = "put" /\ Len(obuf) < OutCap
        \/ upc = "flush" /\ obuf = <<>>

PutRecord ==
  /\ Room /\ hand.chan # "sync" /\ ~Refuses(usw, hand)
  /\ usw' = Written(usw, hand)
  /\ obuf' = Append(obuf, hand)
  /\ hand' = NoRec /\ upc' = "loop"
  /\ UNCHANGED <<diode, waited, batch, pos, conn, net, downVars, killed,
                 faults>>

\* A sync request.  With a diode the reply is made here and read at once.
PutSyncDiode ==
  /\ upc = "put" /\ hand.chan = "sync" /\ diode
  /\ usw' = Replied(Written(usw, hand))
  /\ hand' = Written(usw, hand).reply
  /\ upc' = "ack"
  /\ UNCHANGED <<diode, waited, batch, pos, conn, obuf, net, downVars, killed,
                 faults>>

\* Without one the request is buffered, and then the base class is asked for
\* a reply that does not exist yet: an exception, for every sync request.
PutSyncThrows ==
  /\ Room /\ hand.chan = "sync" /\ ~diode
  /\ obuf' = Append(obuf, hand)
  /\ upc' = "close"
  /\ UNCHANGED <<diode, waited, batch, pos, hand, usw, conn, net, downVars,
                 killed, faults>>

BeginFlush ==
  /\ upc = "put" /\ Len(obuf) = OutCap /\ ~(hand.chan = "sync" /\ diode)
  /\ upc' = "flush"
  /\ UNCHANGED <<diode, waited, batch, pos, hand, usw, conn, obuf, net,
                 downVars, killed, faults>>

\* What is in the buffer is written to the socket as fast as the kernel takes
\* it, to make room or by the destructor.
OnWire == IF net[conn].torn THEN GarbledRec ELSE Head(obuf)
FlushForgets ==             \* mutant: given up where the kernel has no room
  /\ upc \in {"flush", "close", "stop"} /\ obuf # <<>> /\ ~net[conn].dead
  /\ net' = IF Len(net[conn].fwd) = NetCap THEN net
            ELSE [net EXCEPT ![conn].fwd = Append(@, OnWire),
                             ![conn].dead = down[conn].pc = "off"]
  /\ obuf' = Tail(obuf)
  /\ UNCHANGED <<diode, waited, upc, batch, pos, hand, usw, conn, downVars,
                 killed, faults>>
Flush ==
  /\ upc \in {"flush", "close", "stop"} /\ obuf # <<>>
  /\ ~net[conn].dead /\ Len(net[conn].fwd) < NetCap
  /\ net' = [net EXCEPT ![conn].fwd = Append(@, OnWire),
                        ![conn].dead = down[conn].pc = "off"]
  /\ obuf' = Tail(obuf)
  /\ UNCHANGED <<diode, waited, upc, batch, pos, hand, usw, conn, downVars,
                 killed, faults>>

\* Without room the write waits, and then goes on one octet further back.
FlushWait ==
  /\ upc \in {"flush", "close"} /\ obuf # <<>>
  /\ ~net[conn].dead /\ Len(net[conn].fwd) = NetCap /\ ~net[conn].torn
  /\ net' = [net EXCEPT ![conn].torn = TRUE]
  /\ waited' = diode
  /\ UNCHANGED <<diode, upVars, downVars, killed, faults>>

\* The write fails: an exception, and the destructor tries once more.
FlushThrows ==
  /\ upc = "flush" /\ obuf # <<>> /\ net[conn].dead
  /\ upc' = "close"
  /\ UNCHANGED <<diode, waited, batch, pos, hand, usw, conn, obuf, net,
                 downVars, killed, faults>>

\* Upstream's end of its connection is closed.  Data that it has not read
\* makes the kernel reset the connection.
CloseUp(k) ==
  [net EXCEPT ![k].up = FALSE, ![k].back = <<>>,
              ![k].dead = @ \/ net[k].back # <<>>]

\* The destructor of _fdow has flushed the buffer, or has failed to: the
\* connection is dead, or it cannot wait because of the termination flag.
Flushed ==
  /\ upc \in {"close", "stop"}
  /\ \/ obuf = <<>> \/ net[conn].dead
     \/ upc = "stop" /\ Len(net[conn].fwd) = NetCap

\* The session writer is destroyed and the reader reset (or the process killed,
\* if the destructor wrote on a dead connection, and run again).
Close ==
  /\ Flushed
  /\ net' = CloseUp(conn)
  /\ conn' = NoConn /\ obuf' = <<>> /\ hand' = NoRec /\ pos' = 0
  /\ usw' = FreshWriter /\ upc' = "start"
  /\ UNCHANGED <<diode, waited, batch, downVars, killed, faults>>

Readable(c) == net[c].back # <<>> \/ net[c].fin \/ net[c].dead

\* Whatever is readable, an error record or the end of the connection, ends
\* in an exception (with a diode, because there is no local reply).
Notice ==
  /\ upc = "loop" /\ Readable(conn)
  /\ upc' = "close"
  /\ UNCHANGED <<diode, waited, batch, pos, hand, usw, conn, obuf, net,
                 downVars, killed, faults>>

\* Nothing of the connection is looked at again until the source has given its
\* next record and that has been put, however long the source has none.
Look ==
  /\ upc = "loop" /\ ~Readable(conn)
  /\ upc' = "read"
  /\ UNCHANGED <<diode, waited, batch, pos, hand, usw, conn, obuf, net,
                 downVars, killed, faults>>

ReadNext ==
  /\ upc = "read" /\ batch <= Batches
  /\ hand' = Source(batch)[pos + 1] /\ pos' = pos + 1
  /\ upc' = "put"
  /\ UNCHANGED <<diode, waited, batch, usw, conn, obuf, net, downVars, killed,
                 faults>>

\* The source compares the reply with what it has read, deletes the batch and
\* goes on with the next one.
Acknowledge ==
  /\ upc = "ack" /\ hand.ts = batch /\ hand.seq = MaxSeq + 1
  /\ batch' = batch + 1 /\ pos' = 0
  /\ hand' = NoRec /\ upc' = "loop"
  /\ UNCHANGED <<diode, waited, usw, conn, obuf, net, downVars, killed,
                 faults>>

UpStep ==
  \/ ReadSession \/ (\E c \in Conns : Connect(c))
  \/ PutRecord \/ PutSyncDiode \/ PutSyncThrows
  \/ BeginFlush \/ Flush \/ FlushWait \/ FlushThrows
  \/ Close \/ Notice \/ Look \/ Acknowledge

-----------------------------------------------------------------------------
(* Downstream: one thread for each connection.                              *)

Accept(c) ==
  /\ down[c].pc = "queued"
  /\ down' = [down EXCEPT ![c].pc = "read"]
  /\ UNCHANGED <<diode, waited, upVars, net, db, killed, faults>>

Garbled(c) == net[c].fwd # <<>> /\ Head(net[c].fwd) = GarbledRec

DownRead(c) ==
  /\ down[c].pc = "read" /\ net[c].fwd # <<>> /\ ~Garbled(c)
  /\ down' = [down EXCEPT ![c].pc = "put", ![c].hand = Head(net[c].fwd)]
  /\ net' = [net EXCEPT ![c].fwd = Tail(@)]
  /\ UNCHANGED <<diode, waited, upVars, db, killed, faults>>

\* Octets that make no record: the reader throws, or goes on reading the rest of
\* what it takes for one.
DownReadGarbled(c) ==
  /\ down[c].pc = "read" /\ Garbled(c)
  /\ net' = [net EXCEPT ![c].fwd = Tail(@)]
  /\ UNCHANGED <<diode, waited, upVars, downVars, killed, faults>>

\* The end of the stream, or a reset.
AtEnd(c) == net[c].dead \/ (net[c].fwd = <<>> /\ ~net[c].up)
DownReadThrows(c) ==
  /\ down[c].pc = "read" /\ (AtEnd(c) \/ Garbled(c))
  /\ down' = [down EXCEPT ![c].pc = "error", ![c].hand = NoRec]
  /\ UNCHANGED <<diode, waited, upVars, net, db, killed, faults>>

DownPut(c) ==
  LET rec == down[c].hand  w == down[c].w IN
  /\ down[c].pc = "put" /\ ~Refuses(w, rec)
  /\ down' = [down EXCEPT ![c].pc = IF rec.chan = "sync" THEN "ack" ELSE "read",
                          ![c].w = Written(w, rec)]
  /\ db' = IF rec.chan \in {"session", "event"}
           THEN db \cup {[ts |-> Written(w, rec).srec.ts, rec |-> rec]} ELSE db
  /\ UNCHANGED <<diode, waited, upVars, net, killed, faults>>

\* The destination refuses the record, or fails with or without storing it.
DownPutThrows(c) ==
  LET rec == down[c].hand  w == down[c].w IN
  /\ down[c].pc = "put"
  /\ IF Refuses(w, rec)
     THEN UNCHANGED <<db, faults>>
     ELSE /\ faults < MaxFaults /\ faults' = faults + 1
          /\ db' \in {db} \cup
               IF rec.chan \in {"session", "event"}
               THEN {db \cup {[ts |-> Written(w, rec).srec.ts, rec |-> rec]}}
               ELSE {}
  /\ down' = [down EXCEPT ![c].pc = "error", ![c].hand = NoRec]
  /\ UNCHANGED <<diode, waited, upVars, net, killed>>

\* A record is sent to the source.  The first that is sent when upstream has
\* closed is answered by a reset.
Sent(c, rec) ==
  [net EXCEPT ![c].back = IF net[c].up THEN Append(@, rec) ELSE @,
              ![c].dead = ~net[c].up]

\* The reply of the destination is sent to the source, unless over a diode.
DownAck(c) ==
  LET rec == down[c].w.reply IN
  /\ down[c].pc = "ack" /\ ~(net[c].dead /\ ~diode)
  /\ down' = [down EXCEPT ![c].pc = "read", ![c].w = Replied(@), ![c].hand = NoRec]
  /\ net' = IF diode THEN net ELSE Sent(c, rec)
  /\ UNCHANGED <<diode, waited, upVars, db, killed, faults>>
DownAckThrows(c) ==
  /\ down[c].pc = "ack" /\ net[c].dead /\ ~diode
  /\ down' = [down EXCEPT ![c].pc = "error", ![c].hand = NoRec]
  /\ UNCHANGED <<diode, waited, upVars, net, db, killed, faults>>

\* After any exception: a tcp_session_reader cannot be reset, so an error
\* record is sent.  With a diode, reading is shut down instead.
DownErrorCloses(c) ==                                  \* mutant: no draining
  /\ down[c].pc = "error" /\ ~net[c].dead
  /\ net' = IF diode THEN net ELSE [Sent(c, ErrorRec) EXCEPT ![c].fin = TRUE]
  /\ down' = [down EXCEPT ![c] = NoThread]
  /\ UNCHANGED <<diode, waited, upVars, db, killed, faults>>
DownError(c) ==
  /\ down[c].pc = "error" /\ ~net[c].dead
  /\ net' = IF diode THEN net ELSE [Sent(c, ErrorRec) EXCEPT ![c].fin = TRUE]
  /\ down' = [down EXCEPT ![c].pc = "drain"]
  /\ UNCHANGED <<diode, waited, upVars, db, killed, faults>>

\* Sending it on a dead connection: every thread goes with the process.
DownEnds ==
  /\ down' = [k \in Conns |-> NoThread]
  /\ net' = [k \in Conns |-> IF down[k].pc = "off" THEN net[k] ELSE
               [net[k] EXCEPT !.fwd = <<>>, !.fin = TRUE,
                              !.dead = @ \/ net[k].fwd # <<>>]]
DownKilled(c) ==
  /\ down[c].pc = "error" /\ net[c].dead /\ ~diode
  /\ DownEnds
  /\ killed' = killed \cup {"down"}
  /\ UNCHANGED <<diode, waited, upVars, db, faults>>
\* Shutting down a dead connection throws, which is caught and logged.
DownGivesUp(c) ==
  /\ down[c].pc = "error" /\ net[c].dead /\ diode
  /\ down' = [down EXCEPT ![c] = NoThread]
  /\ net' = [net EXCEPT ![c].fwd = <<>>, ![c].fin = TRUE]
  /\ UNCHANGED <<diode, waited, upVars, db, killed, faults>>

\* Records are read and dropped until there are no more, or one throws.
Drain(c) ==
  /\ down[c].pc = "drain" /\ net[c].fwd # <<>>
  /\ net' = [net EXCEPT ![c].fwd = Tail(@)]
  /\ UNCHANGED <<diode, waited, upVars, down, db, killed, faults>>

\* With reading shut down the end is where there is no record yet; otherwise
\* it is where upstream has closed.  The connection is then closed, by a reset if
\* there is something left.
DrainedWhenShut(c) ==           \* mutant: a diode's reader is not shut down
  AtEnd(c) \/ Garbled(c)
Drained(c) == AtEnd(c) \/ Garbled(c) \/ (diode /\ net[c].fwd = <<>>)
DownClose(c) ==
  /\ down[c].pc = "drain" /\ Drained(c)
  /\ down' = [down EXCEPT ![c] = NoThread]
  /\ net' = [net EXCEPT ![c].fin = TRUE, ![c].dead = @ \/ net[c].fwd # <<>>]
  /\ UNCHANGED <<diode, waited, upVars, db, killed, faults>>

DownStep(c) ==
  \/ Accept(c) \/ DownRead(c) \/ DownReadGarbled(c) \/ DownReadThrows(c) \/ DownPut(c)
  \/ DownAck(c) \/ DownAckThrows(c)
  \/ DownError(c) \/ DownKilled(c) \/ DownGivesUp(c) \/ Drain(c) \/ DownClose(c)

-----------------------------------------------------------------------------
(* Faults of the network and of the upstream process.                       *)

Break(c) ==
  /\ faults < MaxFaults /\ faults' = faults + 1
  /\ net[c].up /\ ~net[c].dead
  /\ net' = [net EXCEPT ![c].fwd = <<>>, ![c].back = <<>>, ![c].dead = TRUE]
  /\ UNCHANGED <<diode, waited, upVars, downVars, killed>>

\* Upstream is told to terminate, and run again later.  The destructor sends a
\* buffer from its beginning, of which the write may have sent a part.
Stop ==
  /\ faults < MaxFaults /\ faults' = faults + 1
  /\ upc \in {"loop", "read", "put", "flush", "ack"}
  /\ upc' = "stop"
  /\ net' = [net EXCEPT ![conn].torn =
               @ \/ (upc = "flush" /\ obuf # <<>> /\ Len(obuf) < OutCap)]
  /\ UNCHANGED <<diode, waited, batch, pos, hand, usw, conn, obuf, downVars,
                 killed>>

\* Upstream is killed, and run again later.
Kill ==
  /\ faults < MaxFaults /\ faults' = faults + 1
  /\ upc \in {"loop", "read", "put", "flush", "ack", "close", "stop"}
  /\ net' = CloseUp(conn)
  /\ conn' = NoConn /\ obuf' = <<>> /\ hand' = NoRec /\ pos' = 0
  /\ usw' = FreshWriter /\ upc' = "start"
  /\ UNCHANGED <<diode, waited, batch, downVars, killed>>

\* Downstream is told to terminate or killed, and run again later.
DownStop ==
  /\ faults < MaxFaults /\ faults' = faults + 1
  /\ DownEnds
  /\ killed' = killed \cup {"stopped"}
  /\ UNCHANGED <<diode, waited, upVars, db>>

Next ==
  \/ UpStep \/ ReadNext \/ Stop \/ Kill \/ DownStop
  \/ \E c \in Conns : DownStep(c) \/ DownPutThrows(c) \/ Break(c)

\* Both programs run, each thread of the second by itself, and a name that
\* can be looked up and connected to is connected to in the end.  The source
\* may have nothing more to give: no fairness for ReadNext.
FairSpec ==
  /\ Init /\ [][Next]_vars
  /\ WF_vars(UpStep)
  /\ \A c \in Conns : WF_vars(DownStep(c))
-----------------------------------------------------------------------------
\* Whatever connections break, and however far an old connection's thread lags
\* behind the new one's: a record that was read as it was sent is stored under
\* the session that produced it.  (Nothing is said of garbled records.)
NothingMisattributed == \A d \in db : d.ts = d.rec.ts

\* Where an event can be that the source has already deleted.
InTransit(e) ==
  \/ e \in ToSet(obuf)
  \/ \E c \in Conns : e \in ToSet(net[c].fwd) \/ down[c].hand = e

\* Over a diode nobody confirms anything.  What the source has deleted on the
\* strength of a reply made locally is still not lost, it is stored or in a
\* buffer on its way, unless something fails or the sender ever had to wait for
\* room in the kernel's buffer.
SentOrStored ==
  \A b \in 1..(batch - 1) : \A n \in 0..MaxSeq :
    Document(EventRec(b, n)) \in db \/ InTransit(EventRec(b, n))
DiodeLosesOnlyToFaults == (diode /\ faults = 0 /\ ~waited) => SentOrStored

\* The same without the second exception, as option `diode' promises it.  The
\* code does not keep this: a wait alone makes it lose records.
DiodeReliable == (diode /\ faults = 0) => SentOrStored

\* While upstream has a bidirectional connection open that was not torn, an error
\* record that was sent over it is not overtaken by a reset: downstream, having
\* sent it, reads until upstream has closed (or is itself stopped).
ErrorNotOvertaken ==
  \A c \in Conns :
    (~diode /\ net[c].up /\ ErrorRec \in ToSet(net[c].back)) =>
      down[c].pc = "drain" \/ net[c].torn \/ {"down", "stopped"} \cap killed # {}

\* Types: records, replies, and the base class of the downstream writers.
Sessions == {SessionRec(SrcId, b, "d") : b \in 1..Batches}
Events   == {EventRec(b, n) : b \in 1..Batches, n \in 0..MaxSeq}
HopRecs  == Sessions \cup Events \cup {SyncRequest}
WireRecs == HopRecs \cup {GarbledRec}
Replies  == [chan : {"sync"}, src : {SrcId}, ts : Nat, seq : Nat]
Writers  ==
  {FreshWriter} \cup [srec : Sessions, seqnum : Nat, ended : {FALSE},
                     reply : Replies \cup {NoRec}]
UpTyped ==
  /\ diode \in BOOLEAN
  /\ upc \in {"start", "open", "put", "flush", "loop", "read", "ack", "close", "stop"}
  /\ batch \in 1..(Batches + 1) /\ pos \in 0..(MaxSeq + 3)
  /\ conn \in Conns \cup {NoConn} /\ (conn = NoConn <=> upc \in {"start", "open"})
  /\ obuf \in Seq(HopRecs)
  /\ upc = "start" => pos = 0
  /\ upc = "open" => pos = 1
  /\ upc \in {"open", "put", "flush", "ack"} => batch <= Batches
  /\ upc \in {"open", "put", "flush"} => pos > 0 /\ hand = Source(batch)[pos]
  /\ upc \in {"loop", "read"} => pos < MaxSeq + 3
  /\ upc = "ack" => pos = MaxSeq + 3
Links ==
  [fwd : Seq(WireRecs), back : Seq(Replies \cup {ErrorRec}),
   up : BOOLEAN, fin : BOOLEAN, dead : BOOLEAN, torn : BOOLEAN]
NetTyped == net \in [Conns -> Links]
DownTyped ==
  /\ down \in [Conns -> [pc : {"off", "queued", "read", "put", "ack", "error",
                               "drain"},
                          hand : HopRecs \cup {NoRec}, w : Writers]]
  /\ \A c \in Conns : down[c].pc = "put" => down[c].hand \in HopRecs
  /\ \A c \in Conns : down[c].pc = "ack" => down[c].w.reply # NoRec
HopTyped ==
  /\ UpTyped /\ NetTyped /\ DownTyped
  /\ waited \in BOOLEAN
  /\ killed \subseteq {"down", "stopped"} /\ faults \in 0..MaxFaults

\* What NothingMisattributed rests on: along a connection, from the session
\* downstream is in to the record upstream has in hand or will read next,
\* every event comes after its session record or an event of its session.
Follows(prev, rec) ==
  IsEvent(rec) => prev.chan \in {"session", "event"} /\ prev.ts = rec.ts
RowFollows(prev, q) ==
  \A i \in 1..Len(q) : Follows(IF i = 1 THEN prev ELSE q[i - 1], q[i])
LastOf(prev, q) == IF q = <<>> THEN prev ELSE q[Len(q)]
Taken(c) == IF down[c].pc = "put" THEN down[c].hand ELSE down[c].w.srec
UnderSession(c) ==
  down[c].pc \in {"queued", "read", "put", "ack"} =>
    /\ down[c].pc = "put" => Follows(down[c].w.srec, down[c].hand)
    /\ RowFollows(Taken(c), net[c].fwd)
    /\ conn = c /\ ~net[c].dead /\ ~net[c].torn =>
         LET sent == LastOf(Taken(c), net[c].fwd) IN
         /\ RowFollows(sent, obuf)
         /\ upc \in {"put", "flush"} => Follows(LastOf(sent, obuf), hand)
         /\ upc \in {"loop", "read"} /\ batch <= Batches =>
              Follows(LastOf(sent, obuf), Source(batch)[pos + 1])

\* What ErrorNotOvertaken rests on: only a torn connection carries garbled
\* records, and the one that an error record is on is not dead.
Guarded(c) ==
  /\ GarbledRec \in ToSet(net[c].fwd) => net[c].torn
  /\ (~diode /\ net[c].up /\ ErrorRec \in ToSet(net[c].back)) =>
       \/ down[c].pc = "drain" /\ ~net[c].dead
       \/ net[c].torn \/ {"down", "stopped"} \cap killed # {}

\* What DiodeLosesOnlyToFaults rests on: without a fault or a wait a diode's
\* connection stays as it was made, carries no sync request and has a thread that does
\* not fail, and what upstream has put is on it or stored.
Intact(c) ==
  /\ net[c].up /\ ~net[c].dead /\ ~net[c].torn /\ ~net[c].fin /\ net[c].back = <<>>
  /\ down[c].pc \in {"queued", "read", "put"}
  /\ {SyncRequest, GarbledRec} \cap (ToSet(obuf) \cup ToSet(net[c].fwd)) = {}
  /\ down[c].pc = "put" => down[c].hand # SyncRequest
OnItsWay(e) ==
  \/ e \in ToSet(obuf) \/ e \in ToSet(net[conn].fwd)
  \/ down[conn].pc = "put" /\ down[conn].hand = e
NumberPut == IF upc \in {"put", "flush"} THEN pos - 1 ELSE pos
PutArrives ==
  \A b \in 1..batch : \A n \in 0..MaxSeq :
    (b < batch \/ n + 2 <= NumberPut) =>
      Document(EventRec(b, n)) \in db \/ OnItsWay(EventRec(b, n))
Lossless ==
  (diode /\ faults = 0 /\ ~waited) =>
    /\ upc \notin {"close", "stop"}
    /\ upc \in {"start", "open"} => batch = 1
    /\ conn # NoConn => Intact(conn)
    /\ PutArrives

HInv ==
  /\ HopTyped /\ NothingMisattributed
  /\ \A c \in Conns : Guarded(c) /\ UnderSession(c)
  /\ Lossless

\* A thread that has met an error does not hang on to its connection for ever,
\* unless upstream waits for good for the next record of its source, the
\* connection being bidirectional.  Over a diode it may wait as it likes.
ErrorHandlingEnds ==
  \A c \in Conns :
    []<>~(~diode /\ upc = "read" /\ conn = c) =>
      (down[c].pc = "error" ~> down[c].pc \in {"off", "queued", "read"})

\* The same without the second condition.  The code does not keep this: upstream
\* looks for an error record only between two records of the source.
ErrorAlwaysEnds ==
  \A c \in Conns : down[c].pc = "error" ~> down[c].pc \in {"off", "queued", "read"}

\* Stated by the manual page horace(1), which makes reliable delivery the rule
\* and the diode the exception: a sync request that is passed to an intact
\* connection is answered by the far end, given a source that always has more.
SyncAnswered ==
  []<>(upc # "read") =>
    ((upc = "put" /\ hand = SyncRequest /\ ~diode) ~> (batch > 1 \/ faults > 0))
=============================================================================
