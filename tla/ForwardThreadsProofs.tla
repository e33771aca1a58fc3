------------------------ MODULE ForwardThreadsProofs ------------------------
(***************************************************************************)
(* Proofs about ForwardThreads, for any finite set of processes, any       *)
(* sources and any number of starts: until the first orderly stop one      *)
(* process at a time has the lock of a source, through any kills; no       *)
(* source is accepted twice; an orderly stop leaves nothing behind.        *)
(***************************************************************************)
EXTENDS ForwardThreads, FiniteSetTheorems, SequenceTheorems, TLAPS

-----------------------------------------------------------------------------
(* The inductive invariant.                                                 *)

Stopped == {"off", "exited", "aborted"}

LocksTyped ==
  /\ name \in [Sources -> {0} \cup Files]
  /\ lock \in [Sources -> [Files -> SUBSET Procs]]
  /\ fd \in [Procs -> [Sources -> {0} \cup Files]]
ThreadsTyped ==
  /\ mpc \in [Procs -> {"push", "wait", "join"} \cup Stopped]
  /\ apc \in [Procs -> {"off", "watch", "list", "poll", "accept", "open", "lock",
                        "push", "scan", "done"}]
  /\ cur \in [Procs -> Sources \cup {"all"}]
  /\ thr \in [Procs -> [Sources -> {"none", "run", "unlink", "done"}]]
ListenerTyped ==
  /\ dirs \subseteq Sources
  /\ accepted \in [Procs -> SUBSET Sources] /\ pending \in [Procs -> SUBSET Sources]
  /\ event \in [Procs -> BOOLEAN]
MainTyped ==
  /\ vec \in [Procs -> Seq(Sources \cup {"all"})]
  /\ iter \in [Procs -> Nat \X Nat]
  /\ torn \in [Procs -> BOOLEAN] /\ term \in [Procs -> BOOLEAN]
  /\ starts \in Nat /\ orderly \in BOOLEAN
PTyped == LocksTyped /\ ThreadsTyped /\ ListenerTyped /\ MainTyped

\* A process that is not running has no thread in forward_all.
Idle == \A p \in Procs : mpc[p] \in Stopped => apc[p] = "off"

\* A source is pending or accepted, never both, and has a thread only once it
\* is accepted; the one that is being accepted has none.
Listening ==
  \A p \in Procs :
    /\ pending[p] \cap accepted[p] = {}
    /\ apc[p] \in {"open", "lock", "push"} => cur[p] \in accepted[p]
    /\ apc[p] \in {"open", "lock"} => thr[p][cur[p]] = "none"
    /\ \A s \in Sources : thr[p][s] # "none" => s \in accepted[p]

\* A lock file is open while its thread runs, until it has been unlinked, and
\* between the opening and the locking of a new one.
Descriptors ==
  \A p \in Procs : \A s \in Sources :
    fd[p][s] # 0 <=> \/ thr[p][s] \in {"run", "unlink"}
                     \/ apc[p] = "lock" /\ cur[p] = s

\* A file is locked by one process at most, which has it open and whose thread
\* runs; and the thread of a source runs with its lock.
Owners ==
  /\ \A s \in Sources : \A i \in Files : \A p \in lock[s][i] :
       /\ fd[p][s] = i /\ thr[p][s] = "run"
       /\ \A q \in lock[s][i] : q = p
  /\ \A p \in Procs : \A s \in Sources : thr[p][s] = "run" => p \in lock[s][fd[p][s]]

\* Only a stop takes the name from a lock file: before the first, whoever has
\* the lock file of a source open has the one that is named.
Named ==
  ~orderly => \A p \in Procs : \A s \in Sources :
                /\ ~term[p] /\ thr[p][s] # "unlink"
                /\ fd[p][s] # 0 => fd[p][s] = name[s]

\* Every thread has its handle in the vector, or is about to have it.
Has(v, h) == \E k \in 1..Len(v) : v[k] = h
Handles ==
  \A p \in Procs : ~torn[p] =>
    /\ mpc[p] \in {"wait", "join"} => Has(vec[p], "all")
    /\ \A s \in Sources : thr[p][s] # "none" =>
         Has(vec[p], s) \/ (apc[p] = "push" /\ cur[p] = s)

\* What main has passed in the vector has ended.
Joined ==
  \A p \in Procs : mpc[p] = "join" =>
    /\ iter[p][1] <= iter[p][2] + 1 /\ iter[p][2] <= Len(vec[p])
    /\ \A k \in 1..Len(vec[p]) : k < iter[p][1] => Ended(p, vec[p][k])

PInv ==
  /\ PTyped /\ Idle /\ Listening /\ Descriptors /\ Owners /\ Named /\ Handles
  /\ Joined
-----------------------------------------------------------------------------
(* Facts about single operators.                                            *)

\* There is always a file that nobody has open: one more than processes.
LEMMA FreeFile ==
  ASSUME NEW s \in Sources, fd \in [Procs -> [Sources -> {0} \cup Files]]
  PROVE  \E k \in Files : \A q \in Procs : fd[q][s] # k
<1> DEFINE open == [q \in Procs |-> fd[q][s]]
           used == {fd[q][s] : q \in Procs}
<1>1. IsFiniteSet(Procs) /\ Cardinality(Procs) \in Nat
  BY ThreadsAssumption, FS_CardinalityType
<1>2. open \in Surjection(Procs, used)
  BY DEF Surjection
<1>3. IsFiniteSet(used) /\ Cardinality(used) <= Cardinality(Procs)
  BY <1>1, <1>2, FS_Surjection
<1>4. IsFiniteSet(Files) /\ Cardinality(Files) = Cardinality(Procs) + 1
  BY <1>1, FS_Interval DEF Files
<1>5. SUFFICES ASSUME Files \subseteq used PROVE FALSE
  OBVIOUS
<1>6. Cardinality(Files) <= Cardinality(used)
  BY <1>3, <1>5, FS_Subset
<1>7. Cardinality(used) \in Nat
  BY <1>3, FS_CardinalityType
<1>8. QED
  BY <1>1, <1>3, <1>4, <1>6, <1>7

\* What is opened is a file: the one named, or one that nobody has open.
LEMMA Opened ==
  ASSUME PTyped, NEW p \in Procs, NEW s \in Sources, OpenLockfile(p, s)
  PROVE  \E i \in Files :
           /\ IF name[s] # 0 THEN i = name[s] ELSE \A q \in Procs : fd[q][s] # i
           /\ name' = [name EXCEPT ![s] = i]
           /\ fd' = [fd EXCEPT ![p][s] = i]
<1> DEFINE Free(k) == \A q \in Procs : fd[q][s] # k
           i == IF name[s] # 0 THEN name[s] ELSE CHOOSE k \in Files : Free(k)
<1>1. \E k \in Files : Free(k)
  BY FreeFile DEF PTyped, LocksTyped
<1>2. (CHOOSE k \in Files : Free(k)) \in Files /\ Free(CHOOSE k \in Files : Free(k))
  BY <1>1
<1>3. i \in Files /\ (IF name[s] # 0 THEN i = name[s] ELSE Free(i))
  BY <1>2 DEF PTyped, LocksTyped
<1>4. name' = [name EXCEPT ![s] = i] /\ fd' = [fd EXCEPT ![p][s] = i]
  BY DEF OpenLockfile
<1>5. QED
  BY <1>3, <1>4

\* What is appended is had, as is what was had before.
LEMMA HasAppend ==
  ASSUME NEW S, NEW v \in Seq(S), NEW x \in S
  PROVE  /\ Has(Append(v, x), x)
         /\ \A h : Has(v, h) => Has(Append(v, x), h)
<1> DEFINE w == Append(v, x)
<1>1. /\ Len(v) \in Nat /\ Len(w) = Len(v) + 1 /\ w[Len(v) + 1] = x
      /\ \A k \in 1..Len(v) : w[k] = v[k]
  OBVIOUS
<1> HIDE DEF w
<1>2. Has(w, x) /\ \A h : Has(v, h) => Has(w, h)
  BY <1>1 DEF Has
<1>3. QED
  BY <1>2 DEF w

LEMMA FilesPositive == 0 \notin Files
BY DEF Files

\* A set any two members of which are the same has at most one.
LEMMA AtMostOne ==
  ASSUME NEW S, \A p, q \in S : p = q
  PROVE  Cardinality(S) <= 1
<1>1. CASE S = {}
  BY <1>1, FS_EmptySet
<1>2. CASE S # {}
  <2>1. PICK p \in S : TRUE
    BY <1>2
  <2>2. S = {p}
    BY <2>1
  <2>3. Cardinality({p}) = 1
    BY FS_Singleton
  <2>4. QED
    BY <2>2, <2>3
<1>3. QED
  BY <1>1, <1>2
-----------------------------------------------------------------------------
(* The steps.                                                               *)

\* The ends of a process are one to the proofs.
LEMMA StepCases ==
  ASSUME [Next]_vars
  PROVE  \/ UNCHANGED vars
         \/ \E s \in Sources : MakeSource(s)
         \/ \E p \in Procs :
              \/ Watch(p) \/ FirstScan(p) \/ Poll(p) \/ AwaitEvent(p) \/ ScanAgain(p)
              \/ OpenReader(p) \/ LockReader(p) \/ PushSource(p)
              \/ \E s \in Sources : TakePending(p, s) \/ Unlock(p, s) \/ Unlink(p, s)
              \/ Start(p) \/ PushAll(p) \/ Signal(p) \/ Join(p)
              \/ \E how \in Stopped : Ends(p, how)
BY DEF Next, ProcStep, AllStep, MainStep, ThreadStep, Exit, Abort, Kill, Stopped

\* OpenReader opens the named lock file, or one that nobody has open.
OpenOutcome(p, t, i) ==
  /\ t = cur[p] /\ t \in accepted[p] /\ apc[p] = "open" /\ thr[p][t] = "none"
  /\ IF name[t] # 0 THEN i = name[t] ELSE \A q \in Procs : fd[q][t] # i
  /\ name' = [name EXCEPT ![t] = i]
  /\ fd' = [fd EXCEPT ![p][t] = i]

LEMMA OpenedByReader ==
  ASSUME PTyped, Listening, NEW p \in Procs, OpenReader(p)
  PROVE  \E t \in Sources, i \in Files : OpenOutcome(p, t, i)
<1>1. /\ cur[p] \in Sources /\ cur[p] \in accepted[p] /\ apc[p] = "open"
      /\ thr[p][cur[p]] = "none" /\ OpenLockfile(p, cur[p])
  BY DEF PTyped, ListenerTyped, Listening, OpenReader
<1>2. QED
  BY <1>1, Opened DEF OpenOutcome

\* The two outcomes of LockReader.
LockOutcome(p, t, i) ==
  /\ t = cur[p] /\ t \in accepted[p] /\ i = fd[p][t] /\ apc[p] = "lock"
  /\ thr[p][t] = "none"
  /\ \/ /\ lock[t][i] = {}
        /\ lock' = [lock EXCEPT ![t][i] = {p}] /\ UNCHANGED fd
        /\ thr' = [thr EXCEPT ![p][t] = "run"]
        /\ apc' = [apc EXCEPT ![p] = "push"]
     \/ /\ fd' = [fd EXCEPT ![p][t] = 0]
        /\ apc' = [apc EXCEPT ![p] = "done"]
        /\ UNCHANGED <<lock, thr>>

LEMMA Locked ==
  ASSUME PTyped, Listening, Descriptors, NEW p \in Procs, LockReader(p)
  PROVE  \E t \in Sources, i \in Files : LockOutcome(p, t, i)
<1>1. /\ cur[p] \in Sources /\ cur[p] \in accepted[p] /\ apc[p] = "lock"
      /\ thr[p][cur[p]] = "none" /\ fd[p][cur[p]] \in Files
  BY DEF PTyped, LocksTyped, ListenerTyped, Listening, Descriptors, LockReader
<1>2. CASE lock[cur[p]][fd[p][cur[p]]] = {}
  BY <1>1, <1>2 DEF LockOutcome, LockReader, TryLock
<1>3. CASE lock[cur[p]][fd[p][cur[p]]] # {}
  BY <1>1, <1>3 DEF LockOutcome, LockReader, TryLock
<1>4. QED
  BY <1>2, <1>3

LEMMA LocksTypedStep ==
  ASSUME PTyped, Listening, Descriptors, [Next]_vars
  PROVE  LocksTyped'
<1>1. CASE UNCHANGED vars
  BY <1>1 DEF PTyped, LocksTyped, vars, lockVars
<1>2. ASSUME NEW s \in Sources, MakeSource(s)
      PROVE  LocksTyped'
  BY <1>2 DEF PTyped, LocksTyped, MakeSource, lockVars
<1>3. ASSUME NEW p \in Procs,
             \/ Watch(p) \/ FirstScan(p) \/ Poll(p) \/ AwaitEvent(p)
               \/ ScanAgain(p)
      PROVE  LocksTyped'
  BY <1>3 DEF PTyped, LocksTyped, Watch, FirstScan, Poll,
            AwaitEvent, ScanAgain,
            lockVars
<1>4. ASSUME NEW p \in Procs, NEW s \in Sources, TakePending(p, s)
      PROVE  LocksTyped'
  BY <1>4 DEF PTyped, LocksTyped, TakePending, lockVars
<1>5. ASSUME NEW p \in Procs, OpenReader(p)
      PROVE  LocksTyped'
  <2>0. PICK t \in Sources, i \in Files : OpenOutcome(p, t, i)
    BY <1>5, OpenedByReader
  <2>1. /\ name' = [name EXCEPT ![t] = i]
        /\ fd' = [fd EXCEPT ![p][t] = i]
    BY <2>0 DEF OpenOutcome
  <2>2. QED
    BY <1>5, <2>1 DEF PTyped, LocksTyped, OpenReader
<1>6. ASSUME NEW p \in Procs, LockReader(p)
      PROVE  LocksTyped'
  <2>0. PICK t \in Sources, i \in Files : LockOutcome(p, t, i)
    BY <1>6, Locked
  <2>1. \/ lock' = [lock EXCEPT ![t][i] = {p}] /\ UNCHANGED fd
        \/ fd' = [fd EXCEPT ![p][t] = 0] /\ UNCHANGED lock
    BY <2>0 DEF LockOutcome
  <2>2. /\ lock \in [Sources -> [Files -> SUBSET Procs]]
        /\ fd \in [Procs -> [Sources -> {0} \cup Files]]
    BY DEF PTyped, LocksTyped
  <2>3. CASE lock' = [lock EXCEPT ![t][i] = {p}] /\ UNCHANGED fd
    <3>1. lock' \in [Sources -> [Files -> SUBSET Procs]]
      BY <2>2, <2>3
    <3>2. QED
      BY <1>6, <2>2, <2>3, <3>1 DEF PTyped, LocksTyped, LockReader
  <2>4. CASE fd' = [fd EXCEPT ![p][t] = 0] /\ UNCHANGED lock
    <3>1. fd' \in [Procs -> [Sources -> {0} \cup Files]]
      BY <2>2, <2>4
    <3>2. QED
      BY <1>6, <2>2, <2>4, <3>1 DEF PTyped, LocksTyped, LockReader
  <2>5. QED
    BY <2>1, <2>3, <2>4
<1>7. ASSUME NEW p \in Procs, PushSource(p)
      PROVE  LocksTyped'
  BY <1>7 DEF PTyped, LocksTyped, PushSource, lockVars
<1>8. ASSUME NEW p \in Procs, NEW s \in Sources, Unlock(p, s)
      PROVE  LocksTyped'
  <2>1. lock \in [Sources -> [Files -> SUBSET Procs]] /\ fd[p][s] \in Files
    BY <1>8 DEF PTyped, LocksTyped, Descriptors, Unlock
  <2>2. lock' = [lock EXCEPT ![s][fd[p][s]] = {}]
    BY <1>8 DEF Unlock
  <2>3. lock' \in [Sources -> [Files -> SUBSET Procs]]
    BY <2>1, <2>2
  <2>4. QED
    BY <1>8, <2>3 DEF PTyped, LocksTyped, Unlock
<1>9. ASSUME NEW p \in Procs, NEW s \in Sources, Unlink(p, s)
      PROVE  LocksTyped'
  <2>1. fd \in [Procs -> [Sources -> {0} \cup Files]]
    BY DEF PTyped, LocksTyped
  <2>2. fd' = [fd EXCEPT ![p][s] = 0]
    BY <1>9 DEF Unlink
  <2>3. fd' \in [Procs -> [Sources -> {0} \cup Files]]
    BY <2>1, <2>2
  <2>4. QED
    BY <1>9, <2>3 DEF PTyped, LocksTyped, Unlink
<1>10. ASSUME NEW p \in Procs, Start(p) \/ PushAll(p) \/ Signal(p) \/ Join(p)
       PROVE  LocksTyped'
  BY <1>10 DEF PTyped, LocksTyped, Start, PushAll, Signal, Join, lockVars
<1>11. ASSUME NEW p \in Procs, NEW how \in Stopped, Ends(p, how)
       PROVE  LocksTyped'
  BY <1>11 DEF PTyped, LocksTyped, Ends
<1>12. QED
  BY <1>1, <1>2, <1>3, <1>4, <1>5, <1>6, <1>7, <1>8, <1>9, <1>10, <1>11, StepCases

LEMMA ThreadsTypedStep ==
  ASSUME PTyped, Listening, Descriptors, [Next]_vars
  PROVE  ThreadsTyped'
<1>1. CASE UNCHANGED vars
  BY <1>1 DEF PTyped, ThreadsTyped, vars, allVars, mainVars
<1>2. ASSUME NEW s \in Sources, MakeSource(s)
      PROVE  ThreadsTyped'
  BY <1>2 DEF PTyped, ThreadsTyped, MakeSource, mainVars
<1>3. ASSUME NEW p \in Procs,
             \/ Watch(p) \/ FirstScan(p) \/ Poll(p) \/ AwaitEvent(p)
               \/ ScanAgain(p)
      PROVE  ThreadsTyped'
  BY <1>3 DEF PTyped, ThreadsTyped, Watch, FirstScan, Poll,
            AwaitEvent, ScanAgain,
            mainVars
<1>4. ASSUME NEW p \in Procs, NEW s \in Sources, TakePending(p, s)
      PROVE  ThreadsTyped'
  BY <1>4 DEF PTyped, ThreadsTyped, TakePending, mainVars
<1>5. ASSUME NEW p \in Procs, OpenReader(p)
      PROVE  ThreadsTyped'
  BY <1>5 DEF PTyped, ThreadsTyped, OpenReader, mainVars
<1>6. ASSUME NEW p \in Procs, LockReader(p)
      PROVE  ThreadsTyped'
  <2>0. PICK t \in Sources, i \in Files : LockOutcome(p, t, i)
    BY <1>6, Locked
  <2>1. \/ /\ thr' = [thr EXCEPT ![p][t] = "run"]
           /\ apc' = [apc EXCEPT ![p] = "push"]
        \/ apc' = [apc EXCEPT ![p] = "done"] /\ UNCHANGED thr
    BY <2>0 DEF LockOutcome
  <2>2. UNCHANGED <<mpc, cur>>
    BY <1>6 DEF LockReader, mainVars
  <2>3. thr \in [Procs -> [Sources -> {"none", "run", "unlink", "done"}]]
    BY DEF PTyped, ThreadsTyped
  <2>4. thr' \in [Procs -> [Sources -> {"none", "run", "unlink", "done"}]]
    BY <2>1, <2>3
  <2>5. apc' = [apc EXCEPT ![p] = "push"] \/ apc' = [apc EXCEPT ![p] = "done"]
    BY <2>1
  <2>6. QED
    BY <2>2, <2>4, <2>5 DEF PTyped, ThreadsTyped
<1>7. ASSUME NEW p \in Procs, PushSource(p)
      PROVE  ThreadsTyped'
  BY <1>7 DEF PTyped, ThreadsTyped, PushSource
<1>8. ASSUME NEW p \in Procs, NEW s \in Sources, Unlock(p, s) \/ Unlink(p, s)
      PROVE  ThreadsTyped'
  <2>1. thr \in [Procs -> [Sources -> {"none", "run", "unlink", "done"}]]
    BY DEF PTyped, ThreadsTyped
  <2>2. \/ thr' = [thr EXCEPT ![p][s] = "unlink"] \/ thr' = [thr EXCEPT ![p][s] = "done"]
    BY <1>8 DEF Unlock, Unlink
  <2>3. thr' \in [Procs -> [Sources -> {"none", "run", "unlink", "done"}]]
    BY <2>1, <2>2
  <2>4. QED
    BY <1>8, <2>3 DEF PTyped, ThreadsTyped, Unlock, Unlink, allVars, mainVars
<1>9. ASSUME NEW p \in Procs, Start(p) \/ PushAll(p) \/ Signal(p) \/ Join(p)
      PROVE  ThreadsTyped'
  BY <1>9 DEF PTyped, ThreadsTyped, Start, PushAll, Signal, Join, allVars
<1>10. ASSUME NEW p \in Procs, NEW how \in Stopped, Ends(p, how)
       PROVE  ThreadsTyped'
  BY <1>10 DEF PTyped, ThreadsTyped, Ends
<1>11. QED
  BY <1>1, <1>2, <1>3, <1>4, <1>5, <1>6, <1>7, <1>8, <1>9, <1>10, StepCases

LEMMA ListenerTypedStep ==
  ASSUME PTyped, Listening, Descriptors, [Next]_vars
  PROVE  ListenerTyped'
<1>1. CASE UNCHANGED vars
  BY <1>1 DEF PTyped, ListenerTyped, vars, allVars
<1>2. ASSUME NEW s \in Sources, MakeSource(s)
      PROVE  ListenerTyped'
  BY <1>2 DEF PTyped, ListenerTyped, MakeSource
<1>3. ASSUME NEW p \in Procs,
             \/ Watch(p) \/ FirstScan(p) \/ Poll(p) \/ AwaitEvent(p)
               \/ ScanAgain(p)
      PROVE  ListenerTyped'
  BY <1>3 DEF PTyped, ListenerTyped, Watch, FirstScan, Scan, Poll, AwaitEvent, ScanAgain
<1>4. ASSUME NEW p \in Procs, NEW s \in Sources, TakePending(p, s)
      PROVE  ListenerTyped'
  BY <1>4 DEF PTyped, ListenerTyped, TakePending
<1>5. ASSUME NEW p \in Procs, OpenReader(p) \/ LockReader(p) \/ PushSource(p)
      PROVE  ListenerTyped'
  BY <1>5 DEF PTyped, ListenerTyped, OpenReader, LockReader, PushSource
<1>6. ASSUME NEW p \in Procs, NEW s \in Sources, Unlock(p, s) \/ Unlink(p, s)
      PROVE  ListenerTyped'
  BY <1>6 DEF PTyped, ListenerTyped, Unlock, Unlink, allVars
<1>7. ASSUME NEW p \in Procs, Start(p) \/ PushAll(p) \/ Signal(p) \/ Join(p)
      PROVE  ListenerTyped'
  BY <1>7 DEF PTyped, ListenerTyped, Start, PushAll, Signal, Join, allVars
<1>8. ASSUME NEW p \in Procs, NEW how \in Stopped, Ends(p, how)
      PROVE  ListenerTyped'
  BY <1>8 DEF PTyped, ListenerTyped, Ends
<1>9. QED
  BY <1>1, <1>2, <1>3, <1>4, <1>5, <1>6, <1>7, <1>8, StepCases

LEMMA MainTypedStep ==
  ASSUME PTyped, Listening, Descriptors, [Next]_vars
  PROVE  MainTyped'
<1>1. CASE UNCHANGED vars
  BY <1>1 DEF PTyped, MainTyped, vars, mainVars
<1>2. ASSUME NEW s \in Sources, MakeSource(s)
      PROVE  MainTyped'
  BY <1>2 DEF PTyped, MainTyped, MakeSource, mainVars
<1>3. ASSUME NEW p \in Procs,
             \/ Watch(p) \/ FirstScan(p) \/ Poll(p) \/ AwaitEvent(p)
               \/ ScanAgain(p)
      PROVE  MainTyped'
  BY <1>3 DEF PTyped, MainTyped, Watch, FirstScan, Poll,
            AwaitEvent, ScanAgain,
            mainVars
<1>4. ASSUME NEW p \in Procs, NEW s \in Sources, TakePending(p, s)
      PROVE  MainTyped'
  BY <1>4 DEF PTyped, MainTyped, TakePending, mainVars
<1>5. ASSUME NEW p \in Procs, OpenReader(p) \/ LockReader(p)
      PROVE  MainTyped'
  BY <1>5 DEF PTyped, MainTyped, OpenReader, LockReader, mainVars
<1>6. ASSUME NEW p \in Procs, PushSource(p)
      PROVE  MainTyped'
  <2>1. cur[p] \in Sources \cup {"all"} /\ (mpc[p] = "join") \in BOOLEAN
    BY DEF PTyped, ThreadsTyped
  <2>2. QED
    BY <1>6, <2>1 DEF PTyped, MainTyped, PushSource
<1>7. ASSUME NEW p \in Procs, NEW s \in Sources, Unlock(p, s) \/ Unlink(p, s)
      PROVE  MainTyped'
  BY <1>7 DEF PTyped, MainTyped, Unlock, Unlink, mainVars
<1>8. ASSUME NEW p \in Procs, Start(p)
      PROVE  MainTyped'
  BY <1>8 DEF PTyped, MainTyped, Start
<1>9. ASSUME NEW p \in Procs, Join(p)
      PROVE  MainTyped'
  <2>1. iter \in [Procs -> Nat \X Nat] /\ iter' = [iter EXCEPT ![p] = <<@[1] + 1, @[2]>>]
    BY <1>9 DEF PTyped, MainTyped, Join
  <2>2. <<iter[p][1] + 1, iter[p][2]>> \in Nat \X Nat
    BY <2>1
  <2>3. iter' \in [Procs -> Nat \X Nat]
    BY <2>1, <2>2
  <2>4. QED
    BY <1>9, <2>3 DEF PTyped, MainTyped, Join
<1>10. ASSUME NEW p \in Procs, Signal(p)
       PROVE  MainTyped'
  <2>1. Len(vec[p]) \in Nat
    BY DEF PTyped, MainTyped
  <2>2. QED
    BY <1>10, <2>1 DEF PTyped, MainTyped, Signal
<1>11. ASSUME NEW p \in Procs, PushAll(p)
       PROVE  MainTyped'
  <2>1. vec' = vec \/ vec' = [vec EXCEPT ![p] = Append(@, "all")]
    BY <1>11 DEF PushAll
  <2>2. vec \in [Procs -> Seq(Sources \cup {"all"})]
    BY DEF PTyped, MainTyped
  <2>3. vec' \in [Procs -> Seq(Sources \cup {"all"})]
    <3>1. Append(vec[p], "all") \in Seq(Sources \cup {"all"})
      BY <2>2, AppendProperties
    <3>2. QED
      BY <2>1, <2>2, <3>1
  <2>4. QED
    BY <1>11, <2>3 DEF PTyped, MainTyped, PushAll
<1>12. ASSUME NEW p \in Procs, NEW how \in Stopped, Ends(p, how)
       PROVE  MainTyped'
  BY <1>12 DEF PTyped, MainTyped, Ends
<1>13. QED
  BY <1>1, <1>2, <1>3, <1>4, <1>5, <1>6, <1>7, <1>8, <1>9, <1>10, <1>11, <1>12, StepCases

LEMMA TypedStep ==
  ASSUME PTyped, Listening, Descriptors, [Next]_vars
  PROVE  PTyped'
BY LocksTypedStep, ThreadsTypedStep, ListenerTypedStep, MainTypedStep DEF PTyped

LEMMA IdleStep ==
  ASSUME PTyped, Idle, [Next]_vars
  PROVE  Idle'
<1>1. CASE UNCHANGED vars
  BY <1>1 DEF Idle, vars, allVars, mainVars
<1>2. ASSUME NEW s \in Sources, MakeSource(s)
      PROVE  Idle'
  BY <1>2 DEF Idle, MakeSource, mainVars
<1>3. ASSUME NEW p \in Procs,
             \/ Watch(p) \/ FirstScan(p) \/ Poll(p) \/ AwaitEvent(p)
               \/ ScanAgain(p) \/ OpenReader(p) \/ LockReader(p)
               \/ PushSource(p)
      PROVE  Idle'
  BY <1>3 DEF PTyped, ThreadsTyped, Idle, Watch, FirstScan, Poll,
            AwaitEvent, ScanAgain,
            OpenReader, LockReader, PushSource, mainVars
<1>4. ASSUME NEW p \in Procs, NEW s \in Sources, TakePending(p, s)
      PROVE  Idle'
  BY <1>4 DEF PTyped, ThreadsTyped, Idle, TakePending, mainVars
<1>5. ASSUME NEW p \in Procs, NEW s \in Sources, Unlock(p, s) \/ Unlink(p, s)
      PROVE  Idle'
  BY <1>5 DEF Idle, Unlock, Unlink, mainVars, allVars
<1>6. ASSUME NEW p \in Procs, Start(p) \/ PushAll(p) \/ Signal(p) \/ Join(p)
      PROVE  Idle'
  BY <1>6 DEF PTyped, ThreadsTyped, Idle, Start, PushAll, Signal, Join, allVars, Stopped
<1>7. ASSUME NEW p \in Procs, NEW how \in Stopped, Ends(p, how)
      PROVE  Idle'
  BY <1>7 DEF PTyped, ThreadsTyped, Idle, Ends
<1>8. QED
  BY <1>1, <1>2, <1>3, <1>4, <1>5, <1>6, <1>7, StepCases

LEMMA ListeningStep ==
  ASSUME PTyped, Listening, Descriptors, [Next]_vars
  PROVE  Listening'
<1>1. CASE UNCHANGED vars
  BY <1>1 DEF Listening, vars, allVars
<1>2. ASSUME NEW s \in Sources, MakeSource(s)
      PROVE  Listening'
  BY <1>2 DEF Listening, MakeSource
<1>3. ASSUME NEW p \in Procs, Watch(p) \/ Poll(p) \/ AwaitEvent(p)
      PROVE  Listening'
  BY <1>3 DEF PTyped, ThreadsTyped, ListenerTyped, Listening, Watch, Poll, AwaitEvent
<1>4. ASSUME NEW p \in Procs, FirstScan(p) \/ ScanAgain(p)
      PROVE  Listening'
  BY <1>4 DEF PTyped, ThreadsTyped, ListenerTyped, Listening, FirstScan, ScanAgain,
            Scan
<1>5. ASSUME NEW p \in Procs, NEW s \in Sources, TakePending(p, s)
      PROVE  Listening'
  BY <1>5 DEF PTyped, ThreadsTyped, ListenerTyped, Listening, TakePending
<1>6. ASSUME NEW p \in Procs, OpenReader(p) \/ PushSource(p)
      PROVE  Listening'
  BY <1>6 DEF PTyped, ThreadsTyped, ListenerTyped, Listening, OpenReader, PushSource
<1>7. ASSUME NEW p \in Procs, LockReader(p)
      PROVE  Listening'
  <2>0. PICK t \in Sources, i \in Files : LockOutcome(p, t, i)
    BY <1>7, Locked
  <2>1. /\ t = cur[p] /\ t \in accepted[p]
        /\ thr' = [thr EXCEPT ![p][t] = "run"] \/ thr' = thr
        /\ apc' = [apc EXCEPT ![p] = "push"] \/ apc' = [apc EXCEPT ![p] = "done"]
    BY <2>0 DEF LockOutcome
  <2>2. UNCHANGED <<cur, accepted, pending>>
    BY <1>7 DEF LockReader
  <2>3. QED
    BY <2>1, <2>2 DEF PTyped, ThreadsTyped, ListenerTyped, Listening
<1>8. ASSUME NEW p \in Procs, NEW s \in Sources, Unlock(p, s)
      PROVE  Listening'
  BY <1>8 DEF PTyped, ThreadsTyped, ListenerTyped, Listening, Unlock, allVars
<1>9. ASSUME NEW p \in Procs, NEW s \in Sources, Unlink(p, s)
      PROVE  Listening'
  BY <1>9 DEF PTyped, ThreadsTyped, ListenerTyped, Listening, Unlink, allVars
<1>10. ASSUME NEW p \in Procs, Start(p)
       PROVE  Listening'
  BY <1>10 DEF PTyped, ThreadsTyped, ListenerTyped, Listening, Start
<1>11. ASSUME NEW p \in Procs, PushAll(p) \/ Signal(p) \/ Join(p)
       PROVE  Listening'
  BY <1>11 DEF Listening, PushAll, Signal, Join, allVars
<1>12. ASSUME NEW p \in Procs, NEW how \in Stopped, Ends(p, how)
       PROVE  Listening'
  <2>1. /\ apc' = [apc EXCEPT ![p] = "off"] /\ cur' = [cur EXCEPT ![p] = "all"]
        /\ thr' = [thr EXCEPT ![p] = [t \in Sources |-> "none"]]
        /\ accepted' = [accepted EXCEPT ![p] = {}] /\ pending' = [pending EXCEPT ![p] = {}]
    BY <1>12 DEF Ends
  <2>2. QED
    BY <2>1 DEF PTyped, ThreadsTyped, ListenerTyped, Listening
<1>13. QED
  BY <1>1, <1>2, <1>3, <1>4, <1>5, <1>6, <1>7, <1>8, <1>9, <1>10, <1>11, <1>12, StepCases

LEMMA DescriptorsStep ==
  ASSUME PTyped, Idle, Listening, Descriptors, [Next]_vars
  PROVE  Descriptors'
<1>1. CASE UNCHANGED vars
  BY <1>1 DEF Descriptors, vars, allVars, lockVars
<1>2. ASSUME NEW s \in Sources, MakeSource(s)
      PROVE  Descriptors'
  BY <1>2 DEF Descriptors, MakeSource, lockVars
<1>3. ASSUME NEW p \in Procs,
             \/ Watch(p) \/ FirstScan(p) \/ Poll(p) \/ AwaitEvent(p)
               \/ ScanAgain(p)
      PROVE  Descriptors'
  BY <1>3 DEF PTyped, LocksTyped, ThreadsTyped, Descriptors, Watch, FirstScan, Poll,
            AwaitEvent, ScanAgain,
            lockVars
<1>4. ASSUME NEW p \in Procs, NEW s \in Sources, TakePending(p, s)
      PROVE  Descriptors'
  BY <1>4 DEF PTyped, LocksTyped, ThreadsTyped, Descriptors, TakePending, lockVars
<1>5. ASSUME NEW p \in Procs, OpenReader(p)
      PROVE  Descriptors'
  <2>0. PICK t \in Sources, i \in Files : OpenOutcome(p, t, i)
    BY <1>5, OpenedByReader
  <2>1. t = cur[p] /\ apc[p] = "open" /\ thr[p][t] = "none" /\ fd' = [fd EXCEPT ![p][t] = i]
    BY <2>0 DEF OpenOutcome
  <2>2. apc' = [apc EXCEPT ![p] = "lock"] /\ UNCHANGED <<cur, thr>>
    BY <1>5 DEF OpenReader
  <2>3. QED
    BY <2>1, <2>2, FilesPositive DEF PTyped, LocksTyped, ThreadsTyped, Descriptors
<1>6. ASSUME NEW p \in Procs, LockReader(p)
      PROVE  Descriptors'
  <2>0. PICK t \in Sources, i \in Files : LockOutcome(p, t, i)
    BY <1>6, Locked
  <2>1. /\ t = cur[p] /\ i = fd[p][t] /\ apc[p] = "lock" /\ thr[p][t] = "none"
        /\ \/ /\ UNCHANGED fd /\ thr' = [thr EXCEPT ![p][t] = "run"]
              /\ apc' = [apc EXCEPT ![p] = "push"]
           \/ /\ fd' = [fd EXCEPT ![p][t] = 0] /\ UNCHANGED thr
              /\ apc' = [apc EXCEPT ![p] = "done"]
    BY <2>0 DEF LockOutcome
  <2>2. UNCHANGED cur
    BY <1>6 DEF LockReader
  <2>3. CASE thr' = [thr EXCEPT ![p][t] = "run"] /\ UNCHANGED fd
             /\ apc' = [apc EXCEPT ![p] = "push"]
    BY <2>1, <2>2, <2>3, FilesPositive DEF PTyped, LocksTyped, ThreadsTyped, Descriptors
  <2>4. CASE fd' = [fd EXCEPT ![p][t] = 0] /\ UNCHANGED thr
             /\ apc' = [apc EXCEPT ![p] = "done"]
    BY <2>1, <2>2, <2>4, FilesPositive DEF PTyped, LocksTyped, ThreadsTyped, Descriptors
  <2>5. QED
    BY <2>1, <2>3, <2>4
<1>7. ASSUME NEW p \in Procs, PushSource(p)
      PROVE  Descriptors'
  BY <1>7 DEF PTyped, LocksTyped, ThreadsTyped, Descriptors, PushSource, lockVars
<1>8. ASSUME NEW p \in Procs, NEW s \in Sources, Unlock(p, s)
      PROVE  Descriptors'
  BY <1>8 DEF PTyped, LocksTyped, ThreadsTyped, Descriptors, Unlock, allVars
<1>9. ASSUME NEW p \in Procs, NEW s \in Sources, Unlink(p, s)
      PROVE  Descriptors'
  BY <1>9 DEF PTyped, LocksTyped, ThreadsTyped, Descriptors, Listening, Unlink,
            allVars
<1>10. ASSUME NEW p \in Procs, Start(p)
       PROVE  Descriptors'
  BY <1>10 DEF PTyped, LocksTyped, ThreadsTyped, Descriptors, Idle, Stopped, Start,
            lockVars
<1>11. ASSUME NEW p \in Procs, PushAll(p) \/ Signal(p) \/ Join(p)
       PROVE  Descriptors'
  BY <1>11 DEF Descriptors, PushAll, Signal, Join, allVars, lockVars
<1>12. ASSUME NEW p \in Procs, NEW how \in Stopped, Ends(p, how)
       PROVE  Descriptors'
  <2>1. /\ apc' = [apc EXCEPT ![p] = "off"] /\ cur' = [cur EXCEPT ![p] = "all"]
        /\ thr' = [thr EXCEPT ![p] = [t \in Sources |-> "none"]]
        /\ fd' = [fd EXCEPT ![p] = [t \in Sources |-> 0]]
    BY <1>12 DEF Ends
  <2>2. QED
    BY <2>1 DEF PTyped, LocksTyped, ThreadsTyped, Descriptors
<1>13. QED
  BY <1>1, <1>2, <1>3, <1>4, <1>5, <1>6, <1>7, <1>8, <1>9, <1>10, <1>11, <1>12, StepCases

LEMMA OwnersStep ==
  ASSUME PTyped, Listening, Descriptors, Owners, [Next]_vars
  PROVE  Owners'
<1>1. CASE UNCHANGED vars
  BY <1>1 DEF Owners, vars, lockVars
<1>2. ASSUME NEW s \in Sources, MakeSource(s)
      PROVE  Owners'
  BY <1>2 DEF Owners, MakeSource, lockVars
<1>3. ASSUME NEW p \in Procs,
             \/ Watch(p) \/ FirstScan(p) \/ Poll(p) \/ AwaitEvent(p)
               \/ ScanAgain(p)
      PROVE  Owners'
  BY <1>3 DEF Owners, Watch, FirstScan, Poll, AwaitEvent, ScanAgain, lockVars
<1>4. ASSUME NEW p \in Procs, NEW s \in Sources, TakePending(p, s)
      PROVE  Owners'
  BY <1>4 DEF Owners, TakePending, lockVars
<1>5. ASSUME NEW p \in Procs, OpenReader(p)
      PROVE  Owners'
  <2>0. PICK t \in Sources, i \in Files : OpenOutcome(p, t, i)
    BY <1>5, OpenedByReader
  <2>1. t = cur[p] /\ thr[p][t] = "none" /\ fd' = [fd EXCEPT ![p][t] = i]
    BY <2>0 DEF OpenOutcome
  <2>2. UNCHANGED <<lock, thr>>
    BY <1>5 DEF OpenReader
  <2>3. QED
    BY <2>1, <2>2 DEF PTyped, LocksTyped, ThreadsTyped, Owners
<1>6. ASSUME NEW p \in Procs, LockReader(p)
      PROVE  Owners'
  <2>0. PICK t \in Sources, i \in Files : LockOutcome(p, t, i)
    BY <1>6, Locked
  <2>1. /\ t = cur[p] /\ t \in accepted[p] /\ i = fd[p][t] /\ apc[p] = "lock"
        /\ thr[p][t] = "none"
        /\ \/ /\ lock[t][i] = {}
              /\ lock' = [lock EXCEPT ![t][i] = {p}] /\ UNCHANGED fd
              /\ thr' = [thr EXCEPT ![p][t] = "run"]
              /\ apc' = [apc EXCEPT ![p] = "push"]
           \/ /\ fd' = [fd EXCEPT ![p][t] = 0]
              /\ apc' = [apc EXCEPT ![p] = "done"]
              /\ UNCHANGED <<lock, thr>>
    BY <2>0 DEF LockOutcome
  <2>2. CASE /\ lock[t][i] = {} /\ UNCHANGED fd
             /\ lock' = [lock EXCEPT ![t][i] = {p}]
             /\ thr' = [thr EXCEPT ![p][t] = "run"]
    BY <2>1, <2>2 DEF PTyped, LocksTyped, ThreadsTyped, Owners
  <2>3. CASE fd' = [fd EXCEPT ![p][t] = 0] /\ UNCHANGED <<lock, thr>>
    BY <2>1, <2>3 DEF PTyped, LocksTyped, ThreadsTyped, Owners
  <2>4. QED
    BY <2>1, <2>2, <2>3
<1>7. ASSUME NEW p \in Procs, PushSource(p)
      PROVE  Owners'
  BY <1>7 DEF Owners, PushSource, lockVars
<1>8. ASSUME NEW p \in Procs, NEW s \in Sources, Unlock(p, s)
      PROVE  Owners'
  <2>1. /\ fd[p][s] \in Files /\ p \in lock[s][fd[p][s]] /\ UNCHANGED fd
        /\ lock' = [lock EXCEPT ![s][fd[p][s]] = {}]
        /\ thr' = [thr EXCEPT ![p][s] = "unlink"]
    BY <1>8 DEF PTyped, LocksTyped, Descriptors, Owners, Unlock
  <2>2. QED
    BY <2>1 DEF PTyped, LocksTyped, ThreadsTyped, Owners
<1>9. ASSUME NEW p \in Procs, NEW s \in Sources, Unlink(p, s)
      PROVE  Owners'
  <2>1. /\ thr[p][s] = "unlink" /\ UNCHANGED lock /\ fd' = [fd EXCEPT ![p][s] = 0]
        /\ thr' = [thr EXCEPT ![p][s] = "done"]
    BY <1>9 DEF Unlink
  <2>2. QED
    BY <2>1 DEF PTyped, LocksTyped, ThreadsTyped, Owners
<1>10. ASSUME NEW p \in Procs, Start(p) \/ PushAll(p) \/ Signal(p) \/ Join(p)
       PROVE  Owners'
  BY <1>10 DEF Owners, Start, PushAll, Signal, Join, lockVars
<1>11. ASSUME NEW p \in Procs, NEW how \in Stopped, Ends(p, how)
       PROVE  Owners'
  <2>1. /\ thr' = [thr EXCEPT ![p] = [t \in Sources |-> "none"]]
        /\ fd' = [fd EXCEPT ![p] = [t \in Sources |-> 0]]
        /\ lock' = [t \in Sources |-> [i \in Files |-> lock[t][i] \ {p}]]
    BY <1>11 DEF Ends
  <2>2. \A t \in Sources : \A i \in Files : lock'[t][i] = lock[t][i] \ {p}
    BY <2>1
  <2>3. \A q \in Procs : \A t \in Sources :
           /\ fd'[q][t] = IF q = p THEN 0 ELSE fd[q][t]
           /\ thr'[q][t] = IF q = p THEN "none" ELSE thr[q][t]
    BY <2>1 DEF PTyped, LocksTyped, ThreadsTyped
  <2>4. lock \in [Sources -> [Files -> SUBSET Procs]]
    BY DEF PTyped, LocksTyped
  <2>5. \A q \in Procs : \A t \in Sources : thr[q][t] = "run" => fd[q][t] \in Files
    BY DEF PTyped, LocksTyped, Descriptors
  <2>6. QED
    BY <2>2, <2>3, <2>4, <2>5 DEF Owners
<1>12. QED
  BY <1>1, <1>2, <1>3, <1>4, <1>5, <1>6, <1>7, <1>8, <1>9, <1>10, <1>11, StepCases

LEMMA NamedStep ==
  ASSUME PTyped, Listening, Descriptors, Named, [Next]_vars
  PROVE  Named'
<1>1. CASE UNCHANGED vars
  BY <1>1 DEF Named, vars, lockVars, mainVars
<1>2. ASSUME NEW s \in Sources, MakeSource(s)
      PROVE  Named'
  BY <1>2 DEF Named, MakeSource, lockVars, mainVars
<1>3. ASSUME NEW p \in Procs,
             \/ Watch(p) \/ FirstScan(p) \/ Poll(p) \/ AwaitEvent(p)
               \/ ScanAgain(p)
      PROVE  Named'
  BY <1>3 DEF Named, Watch, FirstScan, Poll,
            AwaitEvent, ScanAgain,
            lockVars, mainVars
<1>4. ASSUME NEW p \in Procs, NEW s \in Sources, TakePending(p, s)
      PROVE  Named'
  BY <1>4 DEF Named, TakePending, lockVars, mainVars
<1>5. ASSUME NEW p \in Procs, OpenReader(p)
      PROVE  Named'
  <2>0. PICK t \in Sources, i \in Files : OpenOutcome(p, t, i)
    BY <1>5, OpenedByReader
  <2>1. /\ IF name[t] # 0 THEN i = name[t] ELSE \A q \in Procs : fd[q][t] # i
        /\ name' = [name EXCEPT ![t] = i] /\ fd' = [fd EXCEPT ![p][t] = i]
    BY <2>0 DEF OpenOutcome
  <2>2. UNCHANGED <<thr, term, orderly>>
    BY <1>5 DEF OpenReader, mainVars
  <2>3. QED
    BY <2>1, <2>2 DEF PTyped, LocksTyped, Named
<1>6. ASSUME NEW p \in Procs, LockReader(p)
      PROVE  Named'
  <2>0. PICK t \in Sources, i \in Files : LockOutcome(p, t, i)
    BY <1>6, Locked
  <2>1. \/ UNCHANGED fd /\ thr' = [thr EXCEPT ![p][t] = "run"]
        \/ fd' = [fd EXCEPT ![p][t] = 0] /\ UNCHANGED thr
    BY <2>0 DEF LockOutcome
  <2>2. UNCHANGED <<name, term, orderly>>
    BY <1>6 DEF LockReader, mainVars
  <2>3. CASE UNCHANGED fd /\ thr' = [thr EXCEPT ![p][t] = "run"]
    BY <2>2, <2>3 DEF PTyped, LocksTyped, ThreadsTyped, Named
  <2>4. CASE fd' = [fd EXCEPT ![p][t] = 0] /\ UNCHANGED thr
    BY <2>2, <2>4 DEF PTyped, LocksTyped, Named
  <2>5. QED
    BY <2>1, <2>3, <2>4
<1>7. ASSUME NEW p \in Procs, PushSource(p)
      PROVE  Named'
  BY <1>7 DEF Named, PushSource, lockVars
<1>8. ASSUME NEW p \in Procs, NEW s \in Sources, Unlock(p, s)
      PROVE  Named'
  <2>1. term[p] /\ UNCHANGED orderly
    BY <1>8 DEF Unlock, mainVars
  <2>2. QED
    BY <2>1 DEF Named
<1>9. ASSUME NEW p \in Procs, NEW s \in Sources, Unlink(p, s)
      PROVE  Named'
  <2>1. thr[p][s] = "unlink" /\ UNCHANGED orderly
    BY <1>9 DEF Unlink, mainVars
  <2>2. QED
    BY <2>1 DEF Named
<1>10. ASSUME NEW p \in Procs, Start(p) \/ PushAll(p) \/ Join(p)
       PROVE  Named'
  BY <1>10 DEF Named, Start, PushAll, Join, lockVars
<1>11. ASSUME NEW p \in Procs, Signal(p)
       PROVE  Named'
  BY <1>11 DEF Named, Signal
<1>12. ASSUME NEW p \in Procs, NEW how \in Stopped, Ends(p, how)
       PROVE  Named'
  <2>1. /\ thr' = [thr EXCEPT ![p] = [t \in Sources |-> "none"]]
        /\ fd' = [fd EXCEPT ![p] = [t \in Sources |-> 0]]
        /\ term' = [term EXCEPT ![p] = FALSE] /\ UNCHANGED <<name, orderly>>
    BY <1>12 DEF Ends
  <2>2. QED
    BY <2>1 DEF PTyped, LocksTyped, ThreadsTyped, MainTyped, Named
<1>13. QED
  BY <1>1, <1>2, <1>3, <1>4, <1>5, <1>6, <1>7, <1>8, <1>9, <1>10, <1>11, <1>12, StepCases

LEMMA HandlesStep ==
  ASSUME PTyped, Idle, Handles, [Next]_vars
  PROVE  Handles'
<1>1. CASE UNCHANGED vars
  BY <1>1 DEF Handles, vars, mainVars, allVars
<1>2. ASSUME NEW s \in Sources, MakeSource(s)
      PROVE  Handles'
  BY <1>2 DEF Handles, MakeSource, mainVars
<1>3. ASSUME NEW p \in Procs,
             \/ Watch(p) \/ FirstScan(p) \/ Poll(p) \/ AwaitEvent(p)
               \/ ScanAgain(p)
      PROVE  Handles'
  BY <1>3 DEF PTyped, ThreadsTyped, Handles, Watch, FirstScan, Poll,
            AwaitEvent, ScanAgain,
            mainVars
<1>4. ASSUME NEW p \in Procs, NEW s \in Sources, TakePending(p, s)
      PROVE  Handles'
  BY <1>4 DEF PTyped, ThreadsTyped, Handles, TakePending, mainVars
<1>5. ASSUME NEW p \in Procs, OpenReader(p)
      PROVE  Handles'
  BY <1>5 DEF PTyped, ThreadsTyped, Handles, OpenReader, mainVars
<1>6. ASSUME NEW p \in Procs, LockReader(p)
      PROVE  Handles'
  <2>1. \/ /\ thr' = [thr EXCEPT ![p][cur[p]] = "run"]
           /\ apc' = [apc EXCEPT ![p] = "push"]
        \/ apc' = [apc EXCEPT ![p] = "done"] /\ UNCHANGED thr
    BY <1>6 DEF LockReader
  <2>2. apc[p] = "lock" /\ UNCHANGED <<mpc, vec, torn, cur>>
    BY <1>6 DEF LockReader, mainVars
  <2>3. CASE /\ thr' = [thr EXCEPT ![p][cur[p]] = "run"]
             /\ apc' = [apc EXCEPT ![p] = "push"]
    BY <2>2, <2>3 DEF PTyped, ThreadsTyped, Handles
  <2>4. CASE apc' = [apc EXCEPT ![p] = "done"] /\ UNCHANGED thr
    BY <2>2, <2>4 DEF PTyped, ThreadsTyped, Handles
  <2>5. QED
    BY <2>1, <2>3, <2>4
<1>7. ASSUME NEW p \in Procs, PushSource(p)
      PROVE  Handles'
  <2>1. vec[p] \in Seq(Sources \cup {"all"}) /\ cur[p] \in Sources \cup {"all"}
    BY DEF PTyped, ThreadsTyped, MainTyped
  <2>2. vec' = [vec EXCEPT ![p] = Append(@, cur[p])] /\ vec'[p] = Append(vec[p], cur[p])
    BY <1>7 DEF PTyped, MainTyped, PushSource
  <2>3. /\ Has(vec'[p], cur[p])
        /\ \A h : Has(vec[p], h) => Has(vec'[p], h)
        /\ \A q \in Procs : q # p => vec'[q] = vec[q]
    BY <2>1, <2>2, HasAppend DEF PTyped, MainTyped
  <2>4. /\ UNCHANGED <<mpc, cur, thr>> /\ apc' = [apc EXCEPT ![p] = "poll"]
        /\ torn' = [torn EXCEPT ![p] = @ \/ mpc[p] = "join"]
    BY <1>7 DEF PushSource
  <2>5. QED
    BY <2>3, <2>4 DEF PTyped, ThreadsTyped, MainTyped, Handles
<1>8. ASSUME NEW p \in Procs, NEW s \in Sources, Unlock(p, s) \/ Unlink(p, s)
      PROVE  Handles'
  <2>1. /\ thr[p][s] # "none" /\ UNCHANGED <<mpc, apc, cur, vec, torn>>
        /\ \/ thr' = [thr EXCEPT ![p][s] = "unlink"]
           \/ thr' = [thr EXCEPT ![p][s] = "done"]
    BY <1>8 DEF Unlock, Unlink, mainVars, allVars
  <2>2. \A q \in Procs : \A t \in Sources : q # p \/ t # s => thr'[q][t] = thr[q][t]
    BY <2>1 DEF PTyped, ThreadsTyped
  <2>3. QED
    BY <2>1, <2>2 DEF Handles
<1>9. ASSUME NEW p \in Procs, Start(p)
      PROVE  Handles'
  <2>1. mpc[p] \in Stopped /\ apc[p] = "off"
    BY <1>9 DEF Start, Stopped, Idle
  <2>2. /\ mpc' = [mpc EXCEPT ![p] = "push"] /\ apc' = [apc EXCEPT ![p] = "watch"]
        /\ UNCHANGED <<torn, vec, thr, cur>>
    BY <1>9 DEF Start
  <2>3. \A q \in Procs : /\ mpc'[q] \in {"wait", "join"} => mpc[q] \in {"wait", "join"}
                         /\ apc[q] = "push" => apc'[q] = "push"
    BY <2>1, <2>2 DEF PTyped, ThreadsTyped
  <2>4. QED
    BY <2>2, <2>3 DEF Handles
<1>10. ASSUME NEW p \in Procs, PushAll(p)
       PROVE  Handles'
  <2>1. CASE apc[p] = "push"
    <3>1. /\ torn' = [torn EXCEPT ![p] = TRUE] /\ mpc' = [mpc EXCEPT ![p] = "wait"]
          /\ thr' = thr /\ cur' = cur /\ apc' = apc
          /\ \A q \in Procs : q # p => vec'[q] = vec[q]
      BY <1>10, <2>1 DEF PTyped, MainTyped, PushAll, allVars
    <3>2. QED
      BY <3>1 DEF PTyped, ThreadsTyped, MainTyped, Handles
  <2>2. CASE apc[p] # "push"
    <3>1. vec' = [vec EXCEPT ![p] = Append(@, "all")] /\ vec[p] \in Seq(Sources \cup {"all"})
      BY <1>10, <2>2 DEF PTyped, MainTyped, PushAll
    <3>2. /\ Has(vec'[p], "all")
          /\ \A h : Has(vec[p], h) => Has(vec'[p], h)
          /\ \A q \in Procs : q # p => vec'[q] = vec[q]
      BY <3>1, HasAppend DEF PTyped, MainTyped
    <3>3. /\ UNCHANGED <<apc, cur, thr>> /\ mpc' = [mpc EXCEPT ![p] = "wait"]
          /\ torn' = [torn EXCEPT ![p] = @ \/ apc[p] = "push"]
      BY <1>10 DEF PushAll, allVars
    <3>4. QED
      BY <2>2, <3>2, <3>3 DEF PTyped, ThreadsTyped, MainTyped, Handles
  <2>3. QED
    BY <2>1, <2>2
<1>11. ASSUME NEW p \in Procs, Signal(p)
       PROVE  Handles'
  BY <1>11 DEF PTyped, ThreadsTyped, MainTyped, Handles, Signal, allVars
<1>12. ASSUME NEW p \in Procs, Join(p)
       PROVE  Handles'
  BY <1>12 DEF Handles, Join, allVars
<1>13. ASSUME NEW p \in Procs, NEW how \in Stopped, Ends(p, how)
       PROVE  Handles'
  <2>1. /\ mpc' = [mpc EXCEPT ![p] = how] /\ how \in Stopped
        /\ apc' = [apc EXCEPT ![p] = "off"] /\ cur' = [cur EXCEPT ![p] = "all"]
        /\ thr' = [thr EXCEPT ![p] = [t \in Sources |-> "none"]]
        /\ vec' = [vec EXCEPT ![p] = <<>>] /\ torn' = [torn EXCEPT ![p] = FALSE]
    BY <1>13 DEF Ends
  <2>2. QED
    BY <2>1 DEF PTyped, ThreadsTyped, MainTyped, Handles, Stopped
<1>14. QED
  BY <1>1, <1>2, <1>3, <1>4, <1>5, <1>6, <1>7, <1>8, <1>9, <1>10, <1>11, <1>12, <1>13, StepCases

\* While main, its position and the vector stay, what has ended need only stay so.
LEMMA JoinedSame ==
  ASSUME PTyped, Joined, UNCHANGED <<mpc, vec, iter>>,
         \A q \in Procs : apc[q] = "done" => apc'[q] = "done",
         \A q \in Procs : \A t \in Sources : thr[q][t] = "done" => thr'[q][t] = "done"
  PROVE  Joined'
<1>1. \A q \in Procs : \A k \in 1..Len(vec[q]) : vec[q][k] \in Sources \cup {"all"}
  BY DEF PTyped, MainTyped
<1>2. \A q \in Procs : \A h \in Sources \cup {"all"} : Ended(q, h) => Ended(q, h)'
  BY DEF Ended
<1>3. QED
  BY <1>1, <1>2 DEF Joined

LEMMA JoinedStep ==
  ASSUME PTyped, Idle, Listening, Descriptors, Joined, [Next]_vars
  PROVE  Joined'
<1>1. CASE UNCHANGED vars
  <2>1. /\ \A q \in Procs : apc[q] = "done" => apc'[q] = "done"
        /\ \A q \in Procs : \A t \in Sources : thr[q][t] = "done" => thr'[q][t] = "done"
    BY <1>1 DEF PTyped, ThreadsTyped, vars, mainVars, allVars
  <2>2. QED
    BY <1>1, <2>1, JoinedSame DEF vars, mainVars, allVars
<1>2. ASSUME NEW s \in Sources, MakeSource(s)
      PROVE  Joined'
  <2>1. /\ \A q \in Procs : apc[q] = "done" => apc'[q] = "done"
        /\ \A q \in Procs : \A t \in Sources : thr[q][t] = "done" => thr'[q][t] = "done"
    BY <1>2 DEF PTyped, ThreadsTyped, MakeSource, mainVars
  <2>2. QED
    BY <1>2, <2>1, JoinedSame DEF MakeSource, mainVars
<1>3. ASSUME NEW p \in Procs,
             \/ Watch(p) \/ FirstScan(p) \/ Poll(p) \/ AwaitEvent(p)
               \/ ScanAgain(p)
      PROVE  Joined'
  <2>1. /\ \A q \in Procs : apc[q] = "done" => apc'[q] = "done"
        /\ \A q \in Procs : \A t \in Sources : thr[q][t] = "done" => thr'[q][t] = "done"
    BY <1>3 DEF PTyped, ThreadsTyped, Watch, FirstScan, Poll, AwaitEvent, ScanAgain, mainVars
  <2>2. QED
    BY <1>3, <2>1, JoinedSame DEF Watch, FirstScan, Poll, AwaitEvent, ScanAgain, mainVars
<1>4. ASSUME NEW p \in Procs, NEW s \in Sources, TakePending(p, s)
      PROVE  Joined'
  <2>1. /\ \A q \in Procs : apc[q] = "done" => apc'[q] = "done"
        /\ \A q \in Procs : \A t \in Sources : thr[q][t] = "done" => thr'[q][t] = "done"
    BY <1>4 DEF PTyped, ThreadsTyped, TakePending, mainVars
  <2>2. QED
    BY <1>4, <2>1, JoinedSame DEF TakePending, mainVars
<1>5. ASSUME NEW p \in Procs, OpenReader(p)
      PROVE  Joined'
  <2>1. /\ \A q \in Procs : apc[q] = "done" => apc'[q] = "done"
        /\ \A q \in Procs : \A t \in Sources : thr[q][t] = "done" => thr'[q][t] = "done"
    BY <1>5 DEF PTyped, ThreadsTyped, OpenReader, mainVars
  <2>2. QED
    BY <1>5, <2>1, JoinedSame DEF OpenReader, mainVars
<1>6. ASSUME NEW p \in Procs, LockReader(p)
      PROVE  Joined'
  <2>0. PICK t \in Sources, i \in Files : LockOutcome(p, t, i)
    BY <1>6, Locked
  <2>1. /\ apc[p] = "lock" /\ thr[p][t] = "none"
        /\ thr' = [thr EXCEPT ![p][t] = "run"] \/ thr' = thr
        /\ apc' = [apc EXCEPT ![p] = "push"] \/ apc' = [apc EXCEPT ![p] = "done"]
    BY <2>0 DEF LockOutcome
  <2>2. /\ \A q \in Procs : apc[q] = "done" => apc'[q] = "done"
        /\ \A q \in Procs : \A x \in Sources : thr[q][x] = "done" => thr'[q][x] = "done"
    BY <2>1 DEF PTyped, ThreadsTyped
  <2>3. QED
    BY <1>6, <2>2, JoinedSame DEF LockReader, mainVars
<1>7. ASSUME NEW p \in Procs, PushSource(p)
      PROVE  Joined'
  <2> DEFINE EndedNext(q, h) == IF h = "all" THEN apc'[q] = "done" ELSE thr'[q][h] = "done"
  <2>1. vec[p] \in Seq(Sources \cup {"all"}) /\ cur[p] \in Sources \cup {"all"}
    BY DEF PTyped, ThreadsTyped, MainTyped
  <2>2. vec' = [vec EXCEPT ![p] = Append(@, cur[p])] /\ vec'[p] = Append(vec[p], cur[p])
    BY <1>7 DEF PTyped, MainTyped, PushSource
  <2>3. /\ Len(vec[p]) \in Nat /\ Len(vec'[p]) = Len(vec[p]) + 1
        /\ \A k \in 1..Len(vec[p]) : vec'[p][k] = vec[p][k]
        /\ \A q \in Procs : q # p => vec'[q] = vec[q]
    BY <2>1, <2>2 DEF PTyped, MainTyped
  <2>4. UNCHANGED <<mpc, iter>> /\ iter \in [Procs -> Nat \X Nat]
    BY <1>7 DEF PTyped, MainTyped, PushSource
  <2>5. \A q \in Procs : \A h : Ended(q, h) => EndedNext(q, h)
    BY <1>7 DEF PTyped, ThreadsTyped, PushSource, Ended
  <2>6. SUFFICES ASSUME NEW q \in Procs, mpc[q] = "join"
                 PROVE  /\ iter[q][1] <= iter[q][2] + 1 /\ iter[q][2] <= Len(vec'[q])
                        /\ \A k \in 1..Len(vec'[q]) : k < iter[q][1] => EndedNext(q, vec'[q][k])
    BY <2>4 DEF Joined, Ended
  <2>7. CASE q = p
    <3>1. iter[p][1] \in Nat /\ iter[p][2] \in Nat /\ iter[p][1] <= Len(vec[p]) + 1
      BY <2>3, <2>4, <2>6, <2>7 DEF Joined
    <3>2. ASSUME NEW k \in 1..Len(vec'[p]), k < iter[p][1]
          PROVE  EndedNext(p, vec'[p][k])
      <4>1. k \in 1..Len(vec[p]) /\ vec'[p][k] = vec[p][k]
        BY <2>3, <3>1, <3>2
      <4>2. Ended(p, vec[p][k])
        BY <2>6, <2>7, <3>2, <4>1 DEF Joined
      <4>3. QED
        BY <2>5, <4>1, <4>2
    <3>3. QED
      BY <2>3, <2>6, <2>7, <3>1, <3>2 DEF Joined
  <2>8. CASE q # p
    BY <2>3, <2>5, <2>6, <2>8 DEF Joined
  <2>9. QED
    BY <2>7, <2>8
<1>8. ASSUME NEW p \in Procs, NEW s \in Sources, Unlock(p, s)
      PROVE  Joined'
  <2>1. /\ \A q \in Procs : apc[q] = "done" => apc'[q] = "done"
        /\ \A q \in Procs : \A t \in Sources : thr[q][t] = "done" => thr'[q][t] = "done"
    BY <1>8 DEF PTyped, ThreadsTyped, Unlock, mainVars, allVars
  <2>2. QED
    BY <1>8, <2>1, JoinedSame DEF Unlock, mainVars, allVars
<1>9. ASSUME NEW p \in Procs, NEW s \in Sources, Unlink(p, s)
      PROVE  Joined'
  <2>1. /\ \A q \in Procs : apc[q] = "done" => apc'[q] = "done"
        /\ \A q \in Procs : \A t \in Sources : thr[q][t] = "done" => thr'[q][t] = "done"
    BY <1>9 DEF PTyped, ThreadsTyped, Unlink, mainVars, allVars
  <2>2. QED
    BY <1>9, <2>1, JoinedSame DEF Unlink, mainVars, allVars
<1>10. ASSUME NEW p \in Procs, Start(p)
       PROVE  Joined'
  <2>1. mpc' = [mpc EXCEPT ![p] = "push"] /\ UNCHANGED <<vec, iter, thr>>
    BY <1>10 DEF Start
  <2>2. apc' = [apc EXCEPT ![p] = "watch"]
    BY <1>10 DEF Start
  <2>3. QED
    BY <2>1, <2>2 DEF PTyped, ThreadsTyped, Joined, Ended
<1>11. ASSUME NEW p \in Procs, PushAll(p)
       PROVE  Joined'
  <2>1. mpc' = [mpc EXCEPT ![p] = "wait"] /\ UNCHANGED <<apc, iter, thr>>
    BY <1>11 DEF PushAll, allVars
  <2>2. \A q \in Procs : q # p => vec'[q] = vec[q]
    BY <1>11 DEF PTyped, MainTyped, PushAll
  <2>3. QED
    BY <2>1, <2>2 DEF PTyped, ThreadsTyped, Joined, Ended
<1>12. ASSUME NEW p \in Procs, Signal(p)
       PROVE  Joined'
  <2>1. mpc' = [mpc EXCEPT ![p] = "join"] /\ UNCHANGED <<apc, vec, thr>>
    BY <1>12 DEF Signal, allVars
  <2>2. iter' = [iter EXCEPT ![p] = <<1, Len(vec[p])>>] /\ Len(vec[p]) \in Nat
    BY <1>12 DEF PTyped, MainTyped, Signal
  <2>3. QED
    BY <2>1, <2>2 DEF PTyped, ThreadsTyped, MainTyped, Joined, Ended
<1>13. ASSUME NEW p \in Procs, Join(p)
       PROVE  Joined'
  <2> DEFINE EndedNext(q, h) == IF h = "all" THEN apc'[q] = "done" ELSE thr'[q][h] = "done"
  <2>1. /\ mpc[p] = "join" /\ iter[p][1] <= iter[p][2] /\ Ended(p, vec[p][iter[p][1]])
        /\ iter' = [iter EXCEPT ![p] = <<@[1] + 1, @[2]>>] /\ iter \in [Procs -> Nat \X Nat]
        /\ UNCHANGED <<mpc, apc, vec, thr>>
    BY <1>13 DEF PTyped, MainTyped, Join, allVars
  <2>2. \A q \in Procs : \A h : Ended(q, h) => EndedNext(q, h)
    BY <2>1 DEF Ended
  <2>3. /\ iter[p][1] \in Nat /\ iter[p][2] \in Nat
        /\ iter'[p][1] = iter[p][1] + 1 /\ iter'[p][2] = iter[p][2]
        /\ \A q \in Procs : q # p => iter'[q] = iter[q]
    BY <2>1
  <2>4. \A q \in Procs : Len(vec[q]) \in Nat
    BY DEF PTyped, MainTyped
  <2>5. SUFFICES ASSUME NEW q \in Procs, mpc[q] = "join"
                 PROVE  /\ iter'[q][1] <= iter'[q][2] + 1 /\ iter'[q][2] <= Len(vec[q])
                        /\ \A k \in 1..Len(vec[q]) : k < iter'[q][1] => EndedNext(q, vec[q][k])
    BY <2>1 DEF Joined, Ended
  <2>6. CASE q = p
    <3>1. /\ iter[p][2] <= Len(vec[p]) /\ Len(vec[p]) \in Nat
          /\ \A k \in 1..Len(vec[p]) : k < iter[p][1] => Ended(p, vec[p][k])
      BY <2>4, <2>5, <2>6 DEF Joined
    <3>2. \A k \in 1..Len(vec[p]) :
             k < iter[p][1] + 1 => k < iter[p][1] \/ k = iter[p][1]
      BY <2>3
    <3>3. \A k \in 1..Len(vec[p]) : k < iter[p][1] + 1 => Ended(p, vec[p][k])
      BY <2>1, <3>1, <3>2
    <3>4. QED
      BY <2>1, <2>2, <2>3, <2>6, <3>1, <3>3
  <2>7. CASE q # p
    BY <2>2, <2>3, <2>5, <2>7 DEF Joined
  <2>8. QED
    BY <2>6, <2>7
<1>14. ASSUME NEW p \in Procs, NEW how \in Stopped, Ends(p, how)
       PROVE  Joined'
  <2>1. /\ mpc' = [mpc EXCEPT ![p] = how] /\ how # "join"
        /\ apc' = [apc EXCEPT ![p] = "off"]
        /\ thr' = [thr EXCEPT ![p] = [t \in Sources |-> "none"]]
        /\ vec' = [vec EXCEPT ![p] = <<>>] /\ iter' = [iter EXCEPT ![p] = <<1, 0>>]
    BY <1>14 DEF Ends, Stopped
  <2>2. QED
    BY <2>1 DEF PTyped, ThreadsTyped, MainTyped, Joined, Ended
<1>15. QED
  BY <1>1, <1>2, <1>3, <1>4, <1>5, <1>6, <1>7, <1>8, <1>9, <1>10, <1>11, <1>12, <1>13,
     <1>14, StepCases

-----------------------------------------------------------------------------
(* The theorems.                                                            *)

LEMMA ThreadsInit == Init => PInv
<1> SUFFICES ASSUME Init PROVE PInv
  OBVIOUS
<1>1. LocksTyped
  BY DEF Init, LocksTyped
<1>2. ThreadsTyped
  BY DEF Init, ThreadsTyped, Stopped
<1>3. ListenerTyped
  BY DEF Init, ListenerTyped
<1>4. MainTyped
  <2>1. vec \in [Procs -> Seq(Sources \cup {"all"})] /\ iter \in [Procs -> Nat \X Nat]
    BY DEF Init
  <2>2. QED
    BY <2>1 DEF Init, MainTyped
<1>5. Idle /\ Listening /\ Named
  BY DEF Init, Idle, Listening, Named
<1>6. Descriptors /\ Owners
  BY DEF Init, Descriptors, Owners
<1>7. Handles /\ Joined
  BY DEF Init, Handles, Joined
<1>8. QED
  BY <1>1, <1>2, <1>3, <1>4, <1>5, <1>6, <1>7 DEF PInv, PTyped

LEMMA ThreadsStep == PInv /\ [Next]_vars => PInv'
BY TypedStep, IdleStep, ListeningStep, DescriptorsStep, OwnersStep, NamedStep, HandlesStep,
   JoinedStep DEF PInv

\* PInv is an invariant of horace-forward's processes, and the type invariant in
\* it: what each thread, descriptor and lock is at agrees with the others.
THEOREM ThreadsInductive == FairSpec => []PInv
BY ThreadsInit, ThreadsStep, PTL DEF FairSpec

\* However many processes are started on one filestore and killed, a reader has
\* the lock of its source as long as it forwards, and until the first orderly
\* stop no other process has it too (lockfile.cc).
THEOREM OneForwarder == FairSpec => []ExclusiveThroughKills
<1>1. PInv => ExclusiveThroughKills
  <2> SUFFICES ASSUME PInv, NEW s \in Sources
               PROVE  /\ \A p \in Procs : thr[p][s] = "run" => Holds(p, s)
                      /\ ~orderly => Cardinality({p \in Procs : Holds(p, s)}) <= 1
    BY DEF ExclusiveThroughKills
  <2>1. \A p \in Procs : thr[p][s] = "run" => Holds(p, s)
    BY DEF PInv, Descriptors, Owners, Holds
  <2>2. ASSUME ~orderly
        PROVE  Cardinality({p \in Procs : Holds(p, s)}) <= 1
    <3>1. ASSUME NEW p \in Procs, NEW q \in Procs, Holds(p, s), Holds(q, s)
          PROVE  p = q
      <4>1. fd[p][s] = fd[q][s] /\ fd[p][s] \in Files
        BY <2>2, <3>1 DEF PInv, PTyped, LocksTyped, Named, Holds
      <4>2. QED
        BY <3>1, <4>1 DEF PInv, Owners, Holds
    <3>2. QED
      BY <3>1, AtMostOne
  <2>3. QED
    BY <2>1, <2>2
<1>2. QED
  BY <1>1, ThreadsInductive, PTL

\* The listener never takes on a source that its process has a thread for
\* (file_session_listener.cc).
THEOREM NeverTwice == FairSpec => []AcceptedOnce
<1>1. PInv => AcceptedOnce
  BY DEF PInv, Listening, AcceptedOnce
<1>2. QED
  BY <1>1, ThreadsInductive, PTL

\* Where nothing overlapped, main returns only when every thread has ended and
\* every lock of the process has gone (main of horace-forward.cc).
THEOREM NothingLeft == FairSpec => CleanExit
<1> DEFINE Clean ==
      \A p \in Procs : mpc[p] = "join" /\ mpc'[p] = "exited" /\ ~torn[p] =>
        /\ apc[p] = "done"
        /\ \A s \in Sources : thr[p][s] \in {"none", "done"} /\ ~Holds(p, s)
<1>1. PInv /\ [Next]_vars => [Clean]_vars
  <2> SUFFICES ASSUME PInv, [Next]_vars, NEW p \in Procs,
                      mpc[p] = "join", mpc'[p] = "exited", ~torn[p]
               PROVE  /\ apc[p] = "done"
                      /\ \A s \in Sources : thr[p][s] \in {"none", "done"} /\ ~Holds(p, s)
    OBVIOUS
  <2>1. iter[p][1] > iter[p][2] /\ Len(vec[p]) = iter[p][2]
    <3>1. ASSUME NEW q \in Procs, NEW how, Ends(q, how)
          PROVE  q = p /\ how = "exited"
      BY <3>1 DEF PInv, PTyped, ThreadsTyped, Ends
    <3>2. CASE \E q \in Procs : Exit(q) \/ Abort(q) \/ Kill(q)
      BY <3>1, <3>2 DEF Exit, Abort, Kill
    <3>3. CASE \E q \in Procs : PushAll(q) \/ Join(q) \/ Start(q) \/ Signal(q)
      BY <3>3 DEF PInv, PTyped, ThreadsTyped, PushAll, Join, Start, Signal
    <3>4. CASE UNCHANGED mpc
      BY <3>4
    <3>5. QED
      <4>1. ASSUME NEW q \in Procs, AllStep(q) \/ \E s \in Sources : ThreadStep(q, s)
            PROVE  UNCHANGED mpc
        BY <4>1 DEF AllStep, ThreadStep, Watch, FirstScan, Poll, TakePending, AwaitEvent,
                    ScanAgain, OpenReader, LockReader, PushSource, Unlock, Unlink, mainVars
      <4>2. ASSUME NEW s \in Sources, MakeSource(s)
            PROVE  UNCHANGED mpc
        BY <4>2 DEF MakeSource, mainVars
      <4>3. QED
        BY <3>2, <3>3, <3>4, <4>1, <4>2 DEF Next, ProcStep, MainStep, vars, mainVars
  <2>2. \A k \in 1..Len(vec[p]) : Ended(p, vec[p][k])
    <3>1. iter[p][1] \in Nat /\ iter[p][2] \in Nat
      BY DEF PInv, PTyped, MainTyped
    <3>2. \A k \in 1..Len(vec[p]) : k < iter[p][1]
      BY <2>1, <3>1
    <3>3. QED
      BY <3>2 DEF PInv, Joined
  <2>3. apc[p] = "done"
    BY <2>2 DEF PInv, Handles, Has, Ended
  <2>4. ASSUME NEW s \in Sources, thr[p][s] # "none"
        PROVE  thr[p][s] = "done"
    <3>1. Has(vec[p], s)
      BY <2>3, <2>4 DEF PInv, Handles
    <3>2. s # "all"
      BY ThreadsAssumption
    <3>3. QED
      BY <2>2, <3>1, <3>2 DEF Has, Ended
  <2>5. ASSUME NEW s \in Sources
        PROVE  ~Holds(p, s)
    BY <2>3, <2>4, <2>5 DEF PInv, PTyped, LocksTyped, Descriptors, Holds
  <2>6. QED
    BY <2>3, <2>4, <2>5
<1>2. QED
  BY <1>1, ThreadsInductive, PTL DEF FairSpec, CleanExit
=============================================================================
