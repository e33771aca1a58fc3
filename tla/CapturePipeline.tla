-------------------------- MODULE CapturePipeline --------------------------
(***************************************************************************)
(* horace-capture, run with a hash function and a keyfile: the main        *)
(* thread, a thread per event source, and the signing thread.  They share  *)
(* a new_session_writer and its mutex, an event_signer with a mutex and a  *)
(* condition variable, the termination flag and the pending signals.       *)
(*                                                                         *)
(* Simplifications.  A mutex is free unless some thread is at a place      *)
(* where it holds it; critical sections that nobody can observe are one    *)
(* step.  The hash of a record is a value that no other record has.  What  *)
(* the destination says when asked whether it is writable is open; that    *)
(* the question itself fails (statvfs) is left out, and so are             *)
(* destinations whose write is interrupted by the termination flag, and    *)
(* the leap second monitor.  SIGINT, SIGQUIT and SIGTERM are one signal.   *)
(***************************************************************************)
EXTENDS SessionProtocol, Sequences

CONSTANTS
  Sources,      \* the source endpoints
  WriteFaults,  \* the session writer's write() may throw
  MaxEvents,    \* bound: events captured, in all sessions together
  MaxSessions   \* bound: sessions begun

ASSUME CaptureAssumption ==
  /\ WriteFaults \in BOOLEAN
  /\ {MaxEvents, MaxSessions} \subseteq Nat

VARIABLES
  mpc,          \* where main2 is
  raised,       \* the signal it has taken last, or "none"
  pending,      \* signals pending for the process
  terminating,  \* the termination flag
  clock,        \* timestamp of the last session record made
  sw,           \* _sw: base class state of the session writer, or NoWriter
  out,          \* history: what that session writer has accepted
  seqnum,       \* new_session_writer::_seqnum
  hattr,        \* _hattr, or NoHash
  spc,          \* where each event_source's thread is
  held,         \* the event it has read and not yet finished with, or 0
  captured,     \* history: events read from the sources
  signer,       \* where the signing thread is
  offered,      \* event_signer::_seqnum and _hash (NoHash if empty)
  taken         \* sig_seqnum and sig_hash

mainVars   == <<mpc, raised, clock>>
writerVars == <<sw, out, seqnum, hattr>>
sourceVars == <<spc, held, captured>>
signerVars == <<signer, offered, taken>>
captureVars ==
  <<mainVars, pending, terminating, writerVars, sourceVars, signerVars>>

Signals  == {"ALRM", "TERM"}
Ended    == {"exited", "failed", "threw"}       \* left main2, by return or throw
Killed   == {"segv", "aborted"}
Running  == mpc \notin Ended \cup Killed
NoWriter == [FreshWriter EXCEPT !.srec = [chan |-> "null", ts |-> 0]]

HashOf(chan, data) == [chan |-> chan, ts |-> clock, data |-> data]
NoHash  == [chan |-> "none", ts |-> 0, data |-> 0]
Nothing == [seq |-> 0, of |-> NoHash]

Event(seq, prev, data) ==
  [chan |-> "event", ts |-> clock, seq |-> seq, prev |-> prev, data |-> data]
End(seq, prev) ==
  [chan |-> "end", ts |-> clock, seq |-> seq, prev |-> prev, data |-> 0]
\* make_signature; a signature of the session record has no number.
Signature(target) ==
  [chan |-> "signature", ts |-> clock, seq |-> target.seq, of |-> target.of]
SessionSignature(ts) ==
  [chan |-> "signature", ts |-> ts,
   of |-> [chan |-> "session", ts |-> ts, data |-> 0]]

CaptureInit ==
  /\ mpc = "make" /\ raised = "none" /\ pending = {}
  /\ terminating = FALSE
  /\ clock = 0
  /\ sw = NoWriter /\ out = <<>> /\ seqnum = 0 /\ hattr = NoHash
  /\ spc = [s \in Sources |-> "off"] /\ held = [s \in Sources |-> 0]
  /\ captured = 0
  /\ signer = "off" /\ offered = Nothing /\ taken = Nothing

-----------------------------------------------------------------------------
(* The mutexes, and writing to the session writer.                          *)

WriterFree == \A s \in Sources : spc[s] # "written"      \* nsw::_mutex
SignerFree == signer \notin {"check", "empty"}           \* signer::_mutex

Accepts(rec) == sw # NoWriter /\ ~Refuses(sw, rec)
MayThrow(rec) == WriteFaults \/ ~Accepts(rec)

Put(rec) ==
  /\ Accepts(rec)
  /\ out' = Append(out, rec)
  /\ sw' = Written(sw, rec)

\* _write returned.  Main is told if the destination is full.
WriteReturns(rec) ==
  /\ Put(rec)
  /\ pending' \in {pending, pending \cup {"ALRM"}}

\* _write throws away the session writer and uses it all the same.
WriteCrashes(rec) ==
  /\ MayThrow(rec)
  /\ mpc' = "segv"
  /\ sw' = NoWriter

-----------------------------------------------------------------------------
(* Event sources.                                                           *)

Move(s, from, to) == spc[s] = from /\ spc' = [spc EXCEPT ![s] = to]
SourceMoves(s, from, to) ==
  /\ Move(s, from, to)
  /\ UNCHANGED <<mainVars, pending, terminating, writerVars, held, captured,
                 signerVars>>

\* The flag is looked at even if the thread never blocks.
SourcePolls(s) == SourceMoves(s, "loop", IF terminating THEN "done" ELSE "read")

SourceReads(s) ==
  /\ captured < MaxEvents
  /\ Move(s, "read", "got")
  /\ captured' = captured + 1
  /\ held' = [held EXCEPT ![s] = captured + 1]
  /\ UNCHANGED <<mainVars, pending, terminating, writerVars, signerVars>>

SourceInterrupted(s) == terminating /\ SourceMoves(s, "read", "done")

\* Any other exception ends this source's thread, and only that.
SourceThrows(s) == SourceMoves(s, "read", "done")

\* write_event, up to the return of _write.
NextEvent(s) == Event(seqnum, hattr, held[s])
AppendEvent(s) ==                       \* by itself a mutant: no lock_guard
  /\ Move(s, "got", "written")
  /\ WriteReturns(NextEvent(s))
  /\ hattr' = NoHash
  /\ UNCHANGED <<mainVars, terminating, seqnum, held, captured, signerVars>>
WriteEvent(s) == WriterFree /\ AppendEvent(s)

WriteEventCrashes(s) ==
  /\ WriterFree
  /\ spc[s] = "got"
  /\ WriteCrashes(NextEvent(s))
  /\ hattr' = NoHash
  /\ UNCHANGED <<raised, clock, pending, terminating, out, seqnum,
                 sourceVars, signerVars>>

\* The rest of it: hash, offer to the signer, count, unlock.
Offered(s, number, next) ==
  /\ SignerFree
  /\ Move(s, "written", "loop")
  /\ held' = [held EXCEPT ![s] = 0]
  /\ hattr' = HashOf("event", held[s])
  /\ offered' = [seq |-> number, of |-> hattr']
  /\ signer' = IF signer = "waiting" THEN "lock" ELSE signer
  /\ seqnum' = next
  /\ UNCHANGED <<mainVars, pending, terminating, sw, out, captured, taken>>
OfferCounted(s) == Offered(s, seqnum + 1, seqnum + 1)  \* mutant: counted first
Offer(s)        == Offered(s, seqnum, seqnum + 1)

SourceStep(s) ==
  \/ SourcePolls(s)
  \/ SourceInterrupted(s)
  \/ WriteEvent(s)
  \/ WriteEventCrashes(s)
  \/ Offer(s)

-----------------------------------------------------------------------------
(* The signing thread.                                                      *)

SignerMoves(from, to) ==
  /\ signer = from /\ signer' = to
  /\ UNCHANGED <<mainVars, pending, terminating, writerVars, sourceVars,
                 offered, taken>>

SignerLocks == SignerMoves("lock", "check")
\* The condition of the inner while; the mutex is kept unless there is work.
SignerChecks ==
  SignerMoves("check", IF terminating THEN "done"
                       ELSE IF offered.of = NoHash THEN "empty" ELSE "sleep")
SignerWaits  == SignerMoves("empty", "waiting")
SignerWakes  == SignerMoves("waiting", "lock")      \* spuriously
SignerSleeps == SignerMoves("sleep", IF terminating THEN "done" ELSE "take")

Take ==
  /\ signer = "take" /\ signer' = "sign"
  /\ taken' = offered
  /\ offered' = [offered EXCEPT !.of = NoHash]
  /\ UNCHANGED <<mainVars, pending, terminating, writerVars, sourceVars>>

WriteSignature(next) ==
  /\ signer = "sign" /\ WriterFree
  /\ WriteReturns(Signature(taken))
  /\ signer' = "lock" /\ taken' = Nothing
  /\ offered' = next
  /\ UNCHANGED <<mainVars, terminating, seqnum, hattr, sourceVars>>
SignClears == WriteSignature([offered EXCEPT !.of = NoHash])        \* mutant
Sign       == WriteSignature(offered)

SignCrashes ==
  /\ signer = "sign" /\ WriterFree
  /\ WriteCrashes(Signature(taken))
  /\ UNCHANGED <<raised, clock, pending, terminating, out, seqnum, hattr,
                 sourceVars, signerVars>>

SignerStep ==
  SignerLocks \/ SignerChecks \/ SignerWaits \/ SignerSleeps \/ Take \/ Sign
    \/ SignCrashes

-----------------------------------------------------------------------------
(* The main thread.                                                         *)

\* Main goes on, and changes nothing else of its own.
Proceeds(from, to) == mpc = from /\ mpc' = to /\ UNCHANGED clock
MainMoves(from, to) ==
  /\ Proceeds(from, to)
  /\ UNCHANGED <<raised, pending, terminating, writerVars, sourceVars, signerVars>>

MakeWriter ==
  /\ clock < MaxSessions
  /\ Proceeds("make", "poll")
  /\ sw' = FreshWriter /\ out' = <<>> /\ seqnum' = 0 /\ hattr' = NoHash
  /\ UNCHANGED <<raised, pending, terminating, sourceVars, signerVars>>

\* Not writable: sleep for a second, unless there is a signal.
PollUnwritable == MainMoves("poll", "nap")
NapOver == pending = {} /\ MainMoves("nap", "poll")
NapInterrupted ==
  /\ pending # {}
  /\ Proceeds("nap", "failed")
  /\ \E sig \in pending : raised' = sig /\ pending' = pending \ {sig}
  /\ UNCHANGED <<terminating, writerVars, sourceVars, signerVars>>

\* Writable: the signer's thread starts when it is constructed.
StartSigner ==
  /\ Proceeds("poll", "begin")
  /\ signer' = "lock" /\ offered' = Nothing /\ taken' = Nothing
  /\ UNCHANGED <<raised, pending, terminating, writerVars, sourceVars>>

\* begin_session, then start() of all sources.
BeginSession ==
  /\ mpc = "begin" /\ mpc' = "wait"
  /\ clock' = clock + 1
  /\ LET srec == SessionRec(SrcId, clock + 1, 0)
         sig  == SessionSignature(clock + 1)
     IN /\ Accepts(srec)
        /\ sw' = Written(Written(sw, srec), sig)
        /\ out' = <<srec, sig>>
  /\ spc' = [s \in Sources |-> "loop"]
  /\ UNCHANGED <<raised, pending, terminating, seqnum, hattr, held,
                 captured, signerVars>>

\* An exception destroys the signer while its thread is running.
BeginThrows == WriteFaults /\ MainMoves("begin", "aborted")

TakeSignal ==
  /\ Proceeds("wait", "join")
  /\ \E sig \in pending : raised' = sig /\ pending' = pending \ {sig}
  /\ terminating' = TRUE
  /\ UNCHANGED <<writerVars, sourceVars, signerVars>>

JoinOne ==                                     \* mutant: one thread is enough
  (\E s \in Sources : spc[s] = "done") /\ MainMoves("join", "stopsigner")
JoinSources ==
  (\A s \in Sources : spc[s] = "done") /\ MainMoves("join", "stopsigner")

\* event_signer::stop locks and unlocks the mutex before it notifies.
PassUnlocked == MainMoves("stopsigner", "notify")          \* mutant: no mutex
PassMutex    == SignerFree /\ MainMoves("stopsigner", "notify")

NotifySigner ==
  /\ Proceeds("notify", "joinsigner")
  /\ signer' = IF signer = "waiting" THEN "lock" ELSE signer
  /\ UNCHANGED <<raised, pending, terminating, writerVars, sourceVars, offered, taken>>

JoinSigner == signer = "done" /\ MainMoves("joinsigner", "end")

\* end_session, and what main2 does with the signal after it.
EndRecords ==
  LET hash == HashOf("end", 0)
  IN <<End(seqnum, hattr), Signature([seq |-> seqnum, of |-> hash])>>
EndSession ==
  /\ Accepts(EndRecords[1])
  /\ Proceeds("end", IF raised = "ALRM" THEN "drain" ELSE "exited")
  /\ out' = out \o EndRecords
  /\ sw' = NoWriter
  /\ hattr' = NoHash
  /\ UNCHANGED <<raised, pending, terminating, seqnum, sourceVars, signerVars>>

EndThrows ==
  /\ WriteFaults
  /\ Proceeds("end", "threw")
  /\ out' \in {out, Append(out, EndRecords[1])}
  /\ hattr' = NoHash
  /\ UNCHANGED <<raised, pending, terminating, sw, seqnum, sourceVars, signerVars>>

\* Outstanding signals are consumed: alarms, and one other, if there is one.
DrainTo(flag) ==
  /\ Proceeds("drain", "make")
  /\ \/ /\ pending \subseteq {"ALRM"}
        /\ raised' = "none" /\ pending' = {}
     \/ /\ "TERM" \in pending
        /\ raised' = "TERM"
        /\ pending' \in {pending \ {"TERM"}, pending \ Signals}
  /\ terminating' = flag
  /\ UNCHANGED <<writerVars, sourceVars, signerVars>>
DrainFlagKept == DrainTo(TRUE)                  \* mutant: the flag stays set
Drain         == DrainTo(FALSE)

MainStep ==
  \/ MakeWriter \/ PollUnwritable \/ NapOver \/ NapInterrupted
  \/ StartSigner \/ BeginSession \/ BeginThrows
  \/ TakeSignal \/ JoinSources \/ PassMutex \/ NotifySigner \/ JoinSigner
  \/ EndSession \/ EndThrows \/ Drain

-----------------------------------------------------------------------------
(* Somebody asks the program to terminate.                                  *)

Ask ==
  /\ "TERM" \notin pending
  /\ pending' = pending \cup {"TERM"}
  /\ UNCHANGED <<mpc, raised, clock, terminating, writerVars, sourceVars, signerVars>>

CaptureNext ==
  /\ Running
  /\ \/ MainStep
     \/ \E s \in Sources : SourceStep(s) \/ SourceReads(s) \/ SourceThrows(s)
     \/ SignerStep \/ SignerWakes
     \/ Ask

CaptureSpec == CaptureInit /\ [][CaptureNext]_captureVars

\* No thread that can go on is kept from doing so for ever, and a source that
\* finds the signer's mutex free again and again locks it in the end (the
\* signer may be woken spuriously without end).  Nobody is bound to capture an
\* event, to fail, or to send a signal.
FairCapture ==
  /\ CaptureSpec
  /\ WF_captureVars(Running /\ MainStep)
  /\ \A s \in Sources : SF_captureVars(Running /\ SourceStep(s))
  /\ WF_captureVars(Running /\ SignerStep)
-----------------------------------------------------------------------------
(* Properties.                                                              *)

Positions == 1 .. Len(out)
IsEnd(rec)       == rec.chan = "end"
IsSignature(rec) == rec.chan = "signature"
HashOfRec(rec) ==
  [chan |-> rec.chan, ts |-> rec.ts,
   data |-> IF IsSession(rec) THEN 0 ELSE rec.data]
IsSignatureOf(sig, rec) ==
  IsSignature(sig) /\ ~IsSignature(rec) /\ sig.of = HashOfRec(rec)

Hashes == [chan : {"none", "session", "event", "end"}, ts : Nat, data : Nat]
Offers == [seq : Nat, of : Hashes]
CaptureRecs ==
  [chan : {"session"}, src : {SrcId}, ts : Nat, defs : {0}]
    \cup [chan : {"event", "end"}, ts : Nat, seq : Nat, prev : Hashes, data : Nat]
    \cup [chan : {"signature"}, ts : Nat, seq : Nat, of : Hashes]
    \cup [chan : {"signature"}, ts : Nat, of : Hashes]

\* Every variable keeps its type.
CTyped ==
  /\ mpc \in {"make", "poll", "nap", "begin", "wait", "join", "stopsigner",
              "notify", "joinsigner", "end", "drain"} \cup Ended \cup Killed
  /\ raised \in Signals \cup {"none"} /\ pending \in SUBSET Signals
  /\ terminating \in BOOLEAN
  /\ clock \in 0 .. MaxSessions /\ captured \in 0 .. MaxEvents
  /\ out \in Seq(CaptureRecs)
  /\ seqnum \in Nat /\ hattr \in Hashes
  /\ spc \in [Sources -> {"off", "loop", "read", "got", "written", "done"}]
  /\ held \in [Sources -> 0 .. MaxEvents]
  /\ signer \in {"off", "lock", "check", "empty", "waiting", "sleep", "take",
                 "sign", "done"}
  /\ offered \in Offers /\ taken \in Offers

\* Every variable keeps its type, and no event is counted that was not read.
CTypeOK == CTyped /\ seqnum <= captured

\* Whatever the threads do, the records form a chain: the n-th event and the
\* end carry the number of events before them and the hash of the last one,
\* or none if there is none.  Hash and number belong together although they
\* are set by one thread, in one call, and used by another, in its next.
LastEvent(recs, n, j) ==
  /\ j \in 1 .. n /\ IsEvent(recs[j])
  /\ \A k \in 1 .. n : IsEvent(recs[k]) => k <= j
NoEvent(recs, n) == \A k \in 1 .. n : ~IsEvent(recs[k])
Linked(recs, n, rec) ==
  \/ NoEvent(recs, n) /\ rec.seq = 0 /\ rec.prev = NoHash
  \/ \E j \in 1 .. n : /\ LastEvent(recs, n, j)
                       /\ rec.seq = recs[j].seq + 1
                       /\ rec.prev = HashOfRec(recs[j])
Chained(recs) ==
  \A i \in 1 .. Len(recs) :
    IsEvent(recs[i]) \/ IsEnd(recs[i]) => Linked(recs, i - 1, recs[i])
ChainUnbroken == Chained(out)

\* A signature is of a record that precedes it, and has that record's number;
\* a later signature is of a later record.  (The signer takes number and hash
\* after a delay in which other events arrive.)
SignedBefore(recs, n, j) ==
  \A k \in 1 .. n : IsSignature(recs[k]) =>
    \E l \in 1 .. j - 1 : IsSignatureOf(recs[k], recs[l])
Signs(recs, sig, n) ==
  \E j \in 1 .. n :
    /\ IsSignatureOf(sig, recs[j])
    /\ IsSession(recs[j]) \/ sig.seq = recs[j].seq
    /\ SignedBefore(recs, n, j)
SignedInOrder(recs) ==
  \A i \in 1 .. Len(recs) : IsSignature(recs[i]) => Signs(recs, recs[i], i - 1)
SignaturesFollow == SignedInOrder(out)

\* No thread ever has a record for a session writer that would refuse it, or
\* for one that is gone: nothing is written before the session record or after
\* the end, whenever the stop arrives.
StreamAccepted ==
  Running =>
    /\ \A s \in Sources : spc[s] = "got" => Accepts(NextEvent(s))
    /\ signer = "sign" => Accepts(Signature(taken))
    /\ mpc = "end" => Accepts(EndRecords[1])

\* While main waits for a signal, capture is on: no thread is told to stop by
\* a flag that was left over from the session before.
CapturesUntilSignal == mpc \in {"begin", "wait"} => ~terminating /\ signer # "done"

\* What ChainUnbroken and StreamAccepted rest on: which threads may be at work
\* at each place of main2, that one source at a time is in write_event, and that
\* the number and hash kept for the next record are those of the last event, or
\* are about to become so.
AtWork == {"loop", "read", "got", "written"}
Places ==
  /\ \A s \in Sources : spc[s] \in AtWork => mpc \in {"wait", "join"}
  /\ signer \in {"off", "done"} \/
       mpc \in {"begin", "wait", "join", "stopsigner", "notify", "joinsigner"}
  /\ mpc \in {"make", "poll", "nap", "begin", "wait"} => ~terminating
  /\ mpc = "begin" => /\ offered.of = NoHash
                      /\ signer \in {"lock", "check", "empty", "waiting"}
  /\ mpc = "wait" => signer # "done"
OneWriter ==
  \A s, t \in Sources : spc[s] = "written" /\ spc[t] = "written" => s = t
InSession == {"wait", "join", "stopsigner", "notify", "joinsigner", "end"}
OpenWriter(ts, n) ==
  [FreshWriter EXCEPT !.srec = SessionRec(SrcId, ts, 0), !.seqnum = n,
                      !.ended = FALSE]
SessionOpen ==
  /\ mpc \in {"poll", "nap", "begin"} =>
       /\ sw = FreshWriter /\ out = <<>> /\ seqnum = 0 /\ hattr = NoHash
       /\ clock < MaxSessions
  /\ mpc \in InSession =>
       sw = OpenWriter(clock, sw.seqnum)
NextLink ==
  mpc \in InSession =>
    /\ \A i \in Positions : IsEvent(out[i]) => out[i].ts = clock
    /\ \A s \in Sources : spc[s] = "written" =>
         \E j \in Positions : /\ LastEvent(out, Len(out), j)
                              /\ out[j].seq = seqnum /\ out[j].data = held[s]
    /\ WriterFree => Linked(out, Len(out), End(seqnum, hattr))
CInv ==
  /\ CTyped /\ ChainUnbroken
  /\ Running => Places /\ OneWriter /\ SessionOpen /\ NextLink

\* What SignaturesFollow rests on: a signature that is offered or taken is of
\* an event in the stream, none that has been made is of a later one, and what
\* is offered is later than what is taken, as is what the source that holds
\* the mutex has written than both.
TargetAt(recs, target, j) ==
  /\ IsEvent(recs[j])
  /\ target.of = HashOfRec(recs[j]) /\ target.seq = recs[j].seq
TakenBefore(n) == signer = "sign" => \E j \in 1 .. n : TargetAt(out, taken, j)
OfferedBefore(n) ==
  offered.of # NoHash => \E j \in 1 .. n : TargetAt(out, offered, j)
SigningInOrder ==
  mpc \in InSession =>
    /\ signer \in {"sleep", "take"} => offered.of # NoHash
    /\ signer = "sign" => \E j \in Positions :
         TargetAt(out, taken, j) /\ SignedBefore(out, Len(out), j)
    /\ offered.of # NoHash => \E j \in Positions :
         /\ TargetAt(out, offered, j) /\ SignedBefore(out, Len(out), j)
         /\ TakenBefore(j - 1)
    /\ ~WriterFree => \A j \in Positions : LastEvent(out, Len(out), j) =>
         /\ SignedBefore(out, Len(out), j)
         /\ TakenBefore(j - 1) /\ OfferedBefore(j - 1)
SInv == SignaturesFollow /\ SigningInOrder
CaptureInv == CInv /\ SInv

\* A failed write to the destination is tried again, and does not end the
\* program (new_session_writer.h promises it for _write).
WritesRetried == mpc # "segv"

\* A stop that has been taken is completed: every thread notices it wherever
\* it is, and the session is ended.
ShutdownCompletes == mpc = "join" ~> (mpc = "make" \/ ~Running)

\* Every event that was written is signed in the end, by its own signature or
\* by that of a later record in the chain, even if no other event follows.
InStream(d) == \E i \in Positions : IsEvent(out[i]) /\ out[i].data = d
Signed(d) ==
  \E i, j, k \in Positions :
    /\ i <= j /\ IsEvent(out[i]) /\ out[i].data = d
    /\ IsSignatureOf(out[k], out[j])
EventsSigned ==
  \A d \in 1 .. MaxEvents :
    InStream(d) ~> (Signed(d) \/ mpc \in {"threw"} \cup Killed)
=============================================================================
