-------------------------- MODULE SessionProtocol --------------------------
(***************************************************************************)
(* The record vocabulary of HORACE sessions, and the protocol that every   *)
(* session writer inherits from simple_session_writer, as operators on the *)
(* state of that base class:                                               *)
(*                                                                         *)
(*   srec    the session record in force (_srec), or NoRec                 *)
(*   seqnum  one more than the last event's sequence number (_seqnum)      *)
(*   ended   no event may be written (_ended)                              *)
(*   reply   a sync reply waiting to be read (_reply), or NoRec            *)
(*                                                                         *)
(* A record is reduced to the attributes the protocol looks at.  `defs'    *)
(* stands for every attribute of a session record other than its source    *)
(* and timestamp.  Event, end and signature records carry, besides what    *)
(* the program stores in them, the timestamp `ts' of the session that      *)
(* produced them: no guard reads it, the properties do.                    *)
(***************************************************************************)
EXTENDS Naturals

CONSTANT SrcId     \* the source ID a reader or a writer was made for

NoRec == [chan |-> "none", ts |-> 0]

SessionRec(src, ts, defs) ==
  [chan |-> "session", src |-> src, ts |-> ts, defs |-> defs]
EventRec(ts, seq) == [chan |-> "event", ts |-> ts, seq |-> seq]
EndRec(ts)        == [chan |-> "end", ts |-> ts]
SignatureRec(ts)  == [chan |-> "signature", ts |-> ts]
SyncRequest       == [chan |-> "sync"]
SyncReply(w) ==
  [chan |-> "sync", src |-> w.srec.src, ts |-> w.srec.ts, seq |-> w.seqnum]

IsEvent(rec)   == rec.chan = "event"
IsSession(rec) == rec.chan = "session"
SameTs(lhs, rhs) == lhs.ts = rhs.ts

FreshWriter == [srec |-> NoRec, seqnum |-> 0, ended |-> TRUE, reply |-> NoRec]

\* write() throws before any handler is called.
Refuses(w, rec) ==
  \/ w.srec = NoRec /\ ~IsSession(rec)
  \/ w.srec # NoRec /\ w.ended /\ IsEvent(rec)
  \/ /\ IsSession(rec)
     /\ \/ rec.src # SrcId
        \/ w.srec # NoRec /\ SameTs(w.srec, rec) /\ w.srec # rec

\* handle_session_start is called: the timestamp differs from the last one.
\* (A copy of the session record in force needs no action.)
StartsOnce(w, rec) == IsSession(rec) /\ w.srec = NoRec                 \* mutant
StartsSession(w, rec) ==
  IsSession(rec) /\ (w.srec = NoRec \/ ~SameTs(w.srec, rec))

\* The part of _process_session_record that precedes handle_session_start.
StartedNoReset(w, rec) == [w EXCEPT !.srec = rec, !.ended = FALSE]     \* mutant
Started(w, rec) == [w EXCEPT !.srec = rec, !.seqnum = 0, !.ended = FALSE]

\* The next sequence number follows the one in the event.
Numbered(w, rec) == [w EXCEPT !.seqnum = rec.seq + 1]

\* The base class after write() has returned.  Ends and syncs are recorded
\* after their handler, so that a sync reply reports what was handled.
Written(w, rec) ==
  CASE StartsSession(w, rec)      -> Started(w, rec)
    [] rec.chan = "end"           -> [w EXCEPT !.ended = TRUE]
    [] rec.chan = "sync"          -> [w EXCEPT !.reply = SyncReply(w)]
    [] rec.chan = "event"         -> Numbered(w, rec)
    [] OTHER                      -> w

\* The base class after the handler of rec has thrown.
Thrown(w, rec) == IF StartsSession(w, rec) THEN Started(w, rec) ELSE w

\* read() moves the reply out.
Replied(w) == [w EXCEPT !.reply = NoRec]
=============================================================================
