------------------------ MODULE SimpleSessionWriter ------------------------
(***************************************************************************)
(* simple_session_writer on its own, driven by arbitrary records whose     *)
(* handlers may throw.  `handled' is a history variable: the events that   *)
(* the derived class has been told about, through handle_event.  A caller  *)
(* abandons a writer that has thrown (forward_one and new_session_writer   *)
(* both destroy it), which `broken' records.                               *)
(***************************************************************************)
EXTENDS SessionProtocol

CONSTANTS
  Sources,    \* source IDs that session records may carry
  Times,      \* session timestamps
  Defs,       \* the rest of a session record
  MaxSeq      \* largest sequence number of an event

ASSUME WriterAssumption == MaxSeq \in Nat

VARIABLES
  ssw,        \* the base class's state
  broken,     \* write() has thrown
  handled     \* events passed to handle_event, with the session they ran in

vars == <<ssw, broken, handled>>

Records ==
  {SessionRec(s, t, d) : s \in Sources, t \in Times, d \in Defs}
    \cup {EventRec(t, n) : t \in Times, n \in 0..MaxSeq}
    \cup {EndRec(t) : t \in Times} \cup {SignatureRec(t) : t \in Times}
    \cup {SyncRequest, [chan |-> "control"]}

Init ==
  /\ ssw = FreshWriter
  /\ broken = FALSE
  /\ handled = {}

\* What the handler called for rec does, told by the history variable.
Handle(rec) ==
  handled' = IF IsEvent(rec)
             THEN handled \cup {[ts |-> ssw.srec.ts, seq |-> rec.seq]}
             ELSE handled

Write(rec) ==
  /\ ~broken /\ ~Refuses(ssw, rec)
  /\ ssw' = Written(ssw, rec)
  /\ Handle(rec)
  /\ UNCHANGED broken

\* An exception, from the checks of write() or out of the handler.
WriteThrows(rec) ==
  /\ ~broken
  /\ ssw' = IF Refuses(ssw, rec) THEN ssw ELSE Thrown(ssw, rec)
  /\ broken' = TRUE
  /\ UNCHANGED handled

Read ==
  /\ ~broken /\ ssw.reply # NoRec
  /\ ssw' = Replied(ssw)
  /\ UNCHANGED <<broken, handled>>

\* The caller drops the writer and makes a new one for the same source.
Replace ==
  /\ ssw' = FreshWriter
  /\ broken' = FALSE
  /\ handled' = {}

Next ==
  \/ \E rec \in Records : Write(rec) \/ WriteThrows(rec)
  \/ Read
  \/ Replace

Spec == Init /\ [][Next]_vars

-----------------------------------------------------------------------------
\* An unread sync reply never claims an event the derived class was not given:
\* its sequence number is zero, or the event before it was handled in the very
\* session whose timestamp the reply carries.  (The reader deletes a spoolfile
\* on the strength of these two numbers.)
ReplyCoversHandledEvents ==
  (ssw.reply # NoRec /\ ssw.reply.seq > 0) =>
    [ts |-> ssw.reply.ts, seq |-> ssw.reply.seq - 1] \in handled

SessionRecs == {SessionRec(SrcId, t, d) : t \in Times, d \in Defs}
SyncReplies == [chan : {"sync"}, src : {SrcId}, ts : Times, seq : 0..(MaxSeq + 1)]
BaseStates  == [srec : SessionRecs \cup {NoRec}, seqnum : 0..(MaxSeq + 1),
                ended : BOOLEAN, reply : SyncReplies \cup {NoRec}]
TypeOK ==
  /\ ssw \in BaseStates
  /\ broken \in BOOLEAN
  /\ handled \subseteq [ts : Times, seq : 0..MaxSeq]

\* What the reply will be made from claims no more than the reply may: the
\* event before the next sequence number was handled in the session in force.
NumberCovers ==
  ssw.seqnum > 0 =>
    ssw.srec # NoRec /\ [ts |-> ssw.srec.ts, seq |-> ssw.seqnum - 1] \in handled

ReplyInv == TypeOK /\ ReplyCoversHandledEvents /\ NumberCovers
=============================================================================
