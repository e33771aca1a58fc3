------------------------------ MODULE NtpClient ------------------------------
(* The clock endpoint's reader: for each record it makes a client, asks the
   local NTP server for its associations and then for the variables of each,
   over a socket that may lose, repeat, delay and reorder datagrams, and builds
   the record from what was answered.                                         *)
EXTENDS Integers, Sequences, FiniteSets, FiniteSetsExt, SequencesExt

CONSTANTS
    Assocs,         \* associations that the server has, beside 0
    Unquoted,       \* those whose host name the server does not quote
    ListTries,      \* times the list is asked for
    Rounds,         \* times each association is asked for
    MaxReads,       \* bound: records read
    MaxFaults       \* bound: datagrams lost or repeated

ASSUME NtpAssumption ==
    /\ Assocs \subseteq Nat \ {0} /\ Unquoted \subseteq Assocs
    /\ {ListTries, Rounds} \subseteq Nat \ {0}
    /\ {MaxReads, MaxFaults} \subseteq Nat

VARIABLES
    npc,        \* where the reader is
    reads,      \* records begun
    tries,      \* requests for the list, or rounds
    seqnum,     \* _seqnum
    requests,   \* _requests: association by sequence number
    responses,  \* _responses: fragments by sequence number
    peers,      \* _peers: null, or the fragments that the peer was made from
    todo,       \* associations left in this round
    asked,      \* requests on their way to the server
    answers,    \* datagrams on their way to the client
    faults,     \* datagrams lost or repeated
    assocAttrs, \* associations whose attributes are in the builder's list
    built       \* the association attributes of each record

ntpVars == <<npc, reads, tries, seqnum, requests, responses, peers, todo, asked,
             answers, faults, assocAttrs, built>>

Null == {}
ListReq(s) == [opcode |-> 1, seq |-> s, assoc |-> 0]
PeerReq(s, a) == [opcode |-> 2, seq |-> s, assoc |-> a]

(* A response of two fragments; the first one says that more will follow. *)
Fragment(r, o) ==
    [opcode |-> r.opcode, seq |-> r.seq, assoc |-> r.assoc, offset |-> o, more |-> o = 0]
FragmentsOf(r) == {Fragment(r, o) : o \in IF r.opcode = 1 THEN {1} ELSE {0, 1}}

(* Complete: from offset 0 on, every fragment is there up to one without more. *)
Complete(fragments) ==
    LET at(o) == {f \in fragments : f.offset = o} IN
    /\ at(0) # {}
    /\ (\E f \in at(0) : f.more) => at(1) # {}

RespondsTo(d, r) == d.opcode = r.opcode /\ d.seq = r.seq /\ d.assoc = r.assoc

NtpStart ==
    /\ npc = "idle" /\ reads = 0 /\ tries = 0 /\ seqnum = 1
    /\ requests = <<>> /\ responses = <<>> /\ peers = [a \in {0} |-> Null]
    /\ todo = {} /\ asked = {} /\ answers = {} /\ faults = 0
    /\ assocAttrs = {} /\ built = <<>>

-----------------------------------------------------------------------------
(* The server and the network between. *)

Answer ==
    \E r \in asked :
        /\ asked' = asked \ {r}
        /\ answers' = answers \cup FragmentsOf(r)
        /\ UNCHANGED <<npc, reads, tries, seqnum, requests, responses, peers, todo,
                       faults, assocAttrs, built>>

Lose ==
    /\ faults < MaxFaults
    /\ \/ \E r \in asked : asked' = asked \ {r} /\ UNCHANGED answers
       \/ \E d \in answers : answers' = answers \ {d} /\ UNCHANGED asked
    /\ faults' = faults + 1
    /\ UNCHANGED <<npc, reads, tries, seqnum, requests, responses, peers, todo,
                   assocAttrs, built>>

(* A datagram that has been received may come again. *)
Received(d) ==
    \/ answers' = answers \ {d} /\ UNCHANGED faults
    \/ faults < MaxFaults /\ faults' = faults + 1 /\ UNCHANGED answers

-----------------------------------------------------------------------------
(* The list of associations. A new client has a new socket. *)

BeginRead ==
    /\ npc = "idle" /\ reads < MaxReads
    /\ reads' = reads + 1
    /\ npc' = "list" /\ tries' = 1
    /\ seqnum' = 2
    /\ requests' = <<>> /\ responses' = <<>> /\ peers' = [a \in {0} |-> Null]
    /\ asked' = {ListReq(1)} /\ answers' = {}
    /\ UNCHANGED <<todo, faults, assocAttrs, built>>

(* Whatever datagram comes first is taken for the list. *)
ReceiveList ==
    /\ npc = "list"
    /\ \E d \in answers : Received(d)
    /\ peers' = [a \in Assocs \cup {0} |-> Null]
    /\ npc' = "round" /\ tries' = 1
    /\ todo' = Assocs \cup {0}
    /\ UNCHANGED <<reads, seqnum, requests, responses, asked, assocAttrs, built>>

(* No answer within 100 ms: ask again, or go on with association 0 alone. *)
ListTimeout ==
    /\ npc = "list"
    /\ IF tries < ListTries
       THEN /\ tries' = tries + 1
            /\ asked' = asked \cup {ListReq(1)}
            /\ UNCHANGED <<npc, todo>>
       ELSE /\ npc' = "round" /\ tries' = 1
            /\ todo' = {0}
            /\ UNCHANGED asked
    /\ UNCHANGED <<reads, seqnum, requests, responses, peers, answers, faults,
                   assocAttrs, built>>

-----------------------------------------------------------------------------
(* The associations: up to three rounds, of those that are still missing. *)

Missing == {a \in DOMAIN peers : peers[a] = Null}

(* They are gone through in ascending order. *)
ComesNext(a) == a \in todo /\ \A other \in todo : a <= other

AskPeer ==
    /\ npc = "round"
    /\ \E a \in Missing :
          LET request == PeerReq(seqnum, a) IN
          /\ ComesNext(a)
          /\ requests' = Append(requests, request)
          /\ asked' = asked \cup {request}
    /\ seqnum' = seqnum + 1
    /\ responses' = Append(responses, {})
    /\ npc' = "peer"
    /\ UNCHANGED <<reads, tries, peers, todo, answers, faults, assocAttrs, built>>

SkipPeer ==
    /\ npc = "round"
    /\ \E a \in todo \ Missing : ComesNext(a) /\ todo' = todo \ {a}
    /\ UNCHANGED <<npc, reads, tries, seqnum, requests, responses, peers, asked,
                   answers, faults, assocAttrs, built>>

NextRound ==
    /\ npc = "round" /\ todo = {}
    /\ IF Missing # {} /\ tries < Rounds
       THEN /\ tries' = tries + 1
            /\ todo' = DOMAIN peers
            /\ UNCHANGED npc
       ELSE npc' = "build" /\ UNCHANGED <<tries, todo>>
    /\ UNCHANGED <<reads, seqnum, requests, responses, peers, asked, answers, faults,
                   assocAttrs, built>>

(* The n-th request of this client has the sequence number n + 1. *)
Current == Len(requests)
Asking == requests[Current].assoc
(* Mutant: a fragment counts for the request that is waited for. *)
CurrentRequest(d) == IF d.opcode = 2 THEN {Current} ELSE {}
RequestOf(d) == {n \in 1..Len(requests) : RespondsTo(d, requests[n])}

(* Fragments of earlier requests are taken in, and may complete a peer; those
   of the current request end the wait when they complete it. *)
ReceiveFragment ==
    /\ npc = "peer"
    /\ \E d \in answers :
          /\ Received(d)
          /\ responses' = [n \in DOMAIN responses |->
                 IF n \in RequestOf(d) THEN responses[n] \cup {d} ELSE responses[n]]
          /\ peers' = [a \in DOMAIN peers |->
                 IF \E n \in RequestOf(d) :
                        requests[n].assoc = a /\ Complete(responses'[n])
                 THEN responses'[CHOOSE n \in RequestOf(d) : TRUE] ELSE peers[a]]
    /\ IF Complete(responses'[Current])
       THEN npc' = "round" /\ todo' = todo \ {Asking}
       ELSE UNCHANGED <<npc, todo>>
    /\ UNCHANGED <<reads, tries, seqnum, requests, asked, assocAttrs, built>>

PeerTimeout ==
    /\ npc = "peer"
    /\ npc' = "round" /\ todo' = todo \ {Asking}
    /\ UNCHANGED <<reads, tries, seqnum, requests, responses, peers, asked, answers,
                   faults, assocAttrs, built>>

-----------------------------------------------------------------------------
(* The record. A host name without quotes makes build() throw in the middle of
   an association: the reader goes on, with the associations before it, and the
   attributes added so far stay in the builder for the next record. *)

Bad == (Unquoted \cap DOMAIN peers)
BuiltBefore == IF Bad = {} THEN DOMAIN peers ELSE {a \in DOMAIN peers : a < Min(Bad)}
Attributes(a) == {a} \cup (IF a = 0 THEN assocAttrs ELSE {})

Build ==
    /\ npc = "build" /\ Missing = {}
    /\ built' = Append(built, [a \in BuiltBefore |-> Attributes(a)])
    /\ assocAttrs' = IF Bad = {} THEN {} ELSE {Min(Bad)}
    /\ npc' = "idle"
    /\ UNCHANGED <<reads, tries, seqnum, requests, responses, peers, todo, asked,
                   answers, faults>>

(* build() calls a member of a peer that is missing. *)
BuildCrashes ==
    /\ npc = "build" /\ Missing # {}
    /\ npc' = "crashed"
    /\ UNCHANGED <<reads, tries, seqnum, requests, responses, peers, todo, asked,
                   answers, faults, assocAttrs, built>>

(* Nobody listens: the send fails, and the record has no associations. *)
Refused ==
    /\ npc \in {"list", "peer"}
    /\ built' = Append(built, <<>>)
    /\ npc' = "idle"
    /\ UNCHANGED <<reads, tries, seqnum, requests, responses, peers, todo, asked,
                   answers, faults, assocAttrs>>

NtpNext ==
    \/ Answer \/ Lose
    \/ BeginRead \/ ReceiveList \/ ListTimeout
    \/ AskPeer \/ SkipPeer \/ NextRound \/ ReceiveFragment \/ PeerTimeout
    \/ Build \/ BuildCrashes \/ Refused

NtpSpec == NtpStart /\ [][NtpNext]_ntpVars

-----------------------------------------------------------------------------
(* What is recorded of a peer comes from one response, to a request for that
   peer, however late or mixed the datagrams come; a response whose fragments
   were all received while the client was waiting is not wasted; and the client
   crashes only over a peer that it has asked about in every round. *)
PeersSound ==
    /\ \A a \in Assocs \cap DOMAIN peers :
          peers[a] # Null =>
              \E n \in DOMAIN requests :
                  requests[n].assoc = a /\ peers[a] = FragmentsOf(requests[n])
    /\ \A n \in DOMAIN responses :
          Complete(responses[n]) => peers[requests[n].assoc] # Null
    /\ npc = "crashed" =>
          \E a \in Missing :
              Cardinality({n \in DOMAIN requests : requests[n].assoc = a}) = Rounds

(* What a request has brought so far, and where its fragments come from. *)
NtpTyped ==
    /\ npc \in {"idle", "list", "round", "peer", "build", "crashed"}
    /\ tries \in Nat /\ seqnum \in Nat
    /\ requests \in Seq([opcode : {2}, seq : Nat, assoc : Nat])
    /\ responses \in Seq(SUBSET [opcode : {2}, seq : Nat, assoc : Nat, offset : {0, 1},
                                more : BOOLEAN])
    /\ Len(responses) = Len(requests)
    /\ npc # "idle" => seqnum = Len(requests) + 2
    /\ npc = "list" => requests = <<>> /\ DOMAIN peers = {0}
    /\ npc = "peer" => requests # <<>>
    /\ DOMAIN peers \subseteq Nat
    /\ todo \subseteq Nat /\ (npc \in {"round", "peer"} => todo \subseteq DOMAIN peers)
Traced ==
    /\ \A n \in DOMAIN requests :
          /\ requests[n].seq = n + 1 /\ requests[n].assoc \in DOMAIN peers
          /\ responses[n] \subseteq FragmentsOf(requests[n])
    /\ asked \subseteq {ListReq(1)} \cup ToSet(requests)
    /\ \A d \in answers : \E r \in {ListReq(1)} \cup ToSet(requests) : d \in FragmentsOf(r)

(* A peer that is missing has been asked about once in every round, this one
   included when its turn has come.                                           *)
TimesAsked(a) == Cardinality({n \in DOMAIN requests : requests[n].assoc = a})
AskedEachRound ==
    /\ npc \in {"round", "peer"} => tries \in 1..Rounds
    /\ npc \in {"round", "peer"} => \A a \in Missing :
          TimesAsked(a) = IF a \in todo /\ ~(npc = "peer" /\ a = Asking)
                          THEN tries - 1 ELSE tries
    /\ npc \in {"build", "crashed"} => \A a \in Missing : TimesAsked(a) = Rounds

NtpInv == NtpTyped /\ Traced /\ AskedEachRound /\ PeersSound
=============================================================================
