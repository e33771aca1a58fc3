--------------------------- MODULE ForwardThreads ---------------------------
(***************************************************************************)
(* The threads of horace-forward over a horace+file filestore, and the     *)
(* lock files by which several such processes keep out of each other's     *)
(* way: main, forward_all with its file_session_listener, and one thread   *)
(* per source (whose forwarding is SpoolForward).  Sources are directories *)
(* that appear at any time.                                                *)
(*                                                                         *)
(* main and forward_all share the vector `threads' without a lock.  Where  *)
(* their accesses overlap the outcome is a choice: a handle is lost, or    *)
(* the process aborts.                                                     *)
(***************************************************************************)
EXTENDS Naturals, FiniteSets, Sequences

CONSTANTS
  Procs,      \* processes that forward from the one filestore, finitely many
  Sources,    \* source IDs, the names of directories
  MaxStarts   \* bound: times that some process is started

ASSUME ThreadsAssumption ==
  IsFiniteSet(Procs) /\ MaxStarts \in Nat /\ "all" \notin Sources

VARIABLES
  dirs,       \* the sources whose directory exists
  name,       \* name[s]: the file that s's .rdlock names (0: none)
  lock,       \* lock[s][i]: the process that has file i locked, or {}
  fd,         \* fd[p][s]: the lock file that p has open (0: none)
  mpc,        \* main
  apc,        \* forward_all
  cur,        \* cur[p]: the source that accept() is making a reader for
  thr,        \* thr[p][s]: the thread of source s
  accepted,   \* the listener's _accepted
  pending,    \* the listener's _pending
  event,      \* there is something in the listener's inotify queue
  vec,        \* threads: a sequence of handles, sources and "all"
  iter,       \* main's position in vec and its end, once it joins
  torn,       \* accesses to vec have overlapped
  term,       \* the terminate flag
  starts,
  orderly     \* some process has been told to stop

lockVars == <<name, lock, fd>>
mainVars == <<mpc, vec, iter, torn, term, starts, orderly>>
allVars  == <<apc, cur, accepted, pending, event>>
vars     == <<dirs, lockVars, mainVars, allVars, thr>>

\* A file per process that may have one open, and one that is named only.
Files == 1..(Cardinality(Procs) + 1)

Init ==
  /\ dirs = {}
  /\ name = [s \in Sources |-> 0]
  /\ lock = [s \in Sources |-> [i \in Files |-> {}]]
  /\ fd = [p \in Procs |-> [s \in Sources |-> 0]]
  /\ mpc = [p \in Procs |-> "off"] /\ apc = [p \in Procs |-> "off"]
  /\ cur = [p \in Procs |-> "all"]
  /\ thr = [p \in Procs |-> [s \in Sources |-> "none"]]
  /\ accepted = [p \in Procs |-> {}] /\ pending = [p \in Procs |-> {}]
  /\ event = [p \in Procs |-> FALSE]
  /\ vec = [p \in Procs |-> <<>>] /\ iter = [p \in Procs |-> <<1, 0>>]
  /\ torn = [p \in Procs |-> FALSE] /\ term = [p \in Procs |-> FALSE]
  /\ starts = 0 /\ orderly = FALSE

\* directory_maker, by whoever captures: every watch on the filestore sees it.
MakeSource(s) ==
  /\ s \notin dirs
  /\ dirs' = dirs \cup {s}
  /\ event' = [p \in Procs |-> event[p] \/ apc[p] \notin {"off", "watch"}]
  /\ UNCHANGED <<lockVars, mainVars, apc, cur, accepted, pending, thr>>

-----------------------------------------------------------------------------
(* Lock files.                                                              *)

\* open with O_CREAT: the file named, or a new one that nobody has open.
OpenLockfile(p, s) ==
  LET i == IF name[s] # 0 THEN name[s]
           ELSE CHOOSE k \in Files : \A q \in Procs : fd[q][s] # k
  IN /\ name' = [name EXCEPT ![s] = i]
     /\ fd' = [fd EXCEPT ![p][s] = i]

\* flock(LOCK_EX|LOCK_NB).
TryLockShared(p, s) ==                                     \* mutant: LOCK_SH
  lock' = [lock EXCEPT ![s][fd[p][s]] = @ \cup {p}] /\ UNCHANGED fd
TryLock(p, s) ==
  IF lock[s][fd[p][s]] = {}
  THEN lock' = [lock EXCEPT ![s][fd[p][s]] = {p}] /\ UNCHANGED fd
  ELSE fd' = [fd EXCEPT ![p][s] = 0] /\ UNCHANGED lock

Holds(p, s) == fd[p][s] # 0 /\ p \in lock[s][fd[p][s]]

\* The process ends: its threads and its memory go, and the kernel closes every
\* descriptor, which releases its locks.  Names of lock files stay.
Ends(p, how) ==
  /\ mpc' = [mpc EXCEPT ![p] = how] /\ apc' = [apc EXCEPT ![p] = "off"]
  /\ cur' = [cur EXCEPT ![p] = "all"]
  /\ thr' = [thr EXCEPT ![p] = [s \in Sources |-> "none"]]
  /\ accepted' = [accepted EXCEPT ![p] = {}] /\ pending' = [pending EXCEPT ![p] = {}]
  /\ event' = [event EXCEPT ![p] = FALSE] /\ term' = [term EXCEPT ![p] = FALSE]
  /\ vec' = [vec EXCEPT ![p] = <<>>] /\ iter' = [iter EXCEPT ![p] = <<1, 0>>]
  /\ torn' = [torn EXCEPT ![p] = FALSE]
  /\ lock' = [s \in Sources |-> [i \in Files |-> lock[s][i] \ {p}]]
  /\ fd' = [fd EXCEPT ![p] = [s \in Sources |-> 0]]
  /\ UNCHANGED <<dirs, name, starts, orderly>>

-----------------------------------------------------------------------------
(* forward_all and file_session_listener.                                   *)

\* The constructor: the watch is set up before the directory is scanned.
Watch(p) ==
  /\ apc[p] = "watch"
  /\ apc' = [apc EXCEPT ![p] = "list"]
  /\ event' = [event EXCEPT ![p] = FALSE]
  /\ UNCHANGED <<dirs, lockVars, mainVars, cur, accepted, pending, thr>>

ScanAll(p) == pending' = [pending EXCEPT ![p] = @ \cup dirs]    \* mutant
Scan(p) == pending' = [pending EXCEPT ![p] = @ \cup (dirs \ accepted[p])]

FirstScanNone(p) ==                  \* mutant: only new directories are seen
  /\ apc[p] = "list"
  /\ apc' = [apc EXCEPT ![p] = "poll"]
  /\ UNCHANGED <<dirs, lockVars, mainVars, cur, accepted, pending, event, thr>>
FirstScan(p) ==
  /\ apc[p] = "list"
  /\ Scan(p)
  /\ apc' = [apc EXCEPT ![p] = "poll"]
  /\ UNCHANGED <<dirs, lockVars, mainVars, cur, accepted, event, thr>>

Poll(p) ==
  /\ apc[p] = "poll"
  /\ apc' = [apc EXCEPT ![p] = IF term[p] THEN "done" ELSE "accept"]
  /\ UNCHANGED <<dirs, lockVars, mainVars, cur, accepted, pending, event, thr>>

\* A source moves from pending to accepted before its reader exists.
TakePending(p, s) ==
  /\ apc[p] = "accept" /\ s \in pending[p]
  /\ cur' = [cur EXCEPT ![p] = s]
  /\ accepted' = [accepted EXCEPT ![p] = @ \cup {s}]
  /\ pending' = [pending EXCEPT ![p] = @ \ {s}]
  /\ apc' = [apc EXCEPT ![p] = "open"]
  /\ UNCHANGED <<dirs, lockVars, mainVars, event, thr>>

\* Nothing is pending: wait for an event, and scan again.
AwaitEvent(p) ==
  /\ apc[p] = "accept" /\ pending[p] = {} /\ (event[p] \/ term[p])
  /\ apc' = [apc EXCEPT ![p] = IF term[p] THEN "done" ELSE "scan"]
  /\ event' \in {event, [event EXCEPT ![p] = FALSE]}
  /\ UNCHANGED <<dirs, lockVars, mainVars, cur, accepted, pending, thr>>

ScanAgain(p) ==
  /\ apc[p] = "scan"
  /\ Scan(p)
  /\ apc' = [apc EXCEPT ![p] = "accept"]
  /\ UNCHANGED <<dirs, lockVars, mainVars, cur, accepted, event, thr>>

\* The constructor of file_session_reader opens .rdlock and locks it.
OpenReader(p) ==
  /\ apc[p] = "open"
  /\ OpenLockfile(p, cur[p])
  /\ apc' = [apc EXCEPT ![p] = "lock"]
  /\ UNCHANGED <<dirs, lock, mainVars, cur, accepted, pending, event, thr>>

\* If that throws, forward_all reports it and returns: no more sources.  If not,
\* a thread is started for the reader.
LockReader(p) ==
  /\ apc[p] = "lock"
  /\ TryLock(p, cur[p])
  /\ IF lock[cur[p]][fd[p][cur[p]]] = {}
     THEN /\ thr' = [thr EXCEPT ![p][cur[p]] = "run"]
          /\ apc' = [apc EXCEPT ![p] = "push"]
     ELSE apc' = [apc EXCEPT ![p] = "done"] /\ UNCHANGED thr
  /\ UNCHANGED <<dirs, name, mainVars, cur, accepted, pending, event>>

\* push_back by forward_all.  If main is iterating it keeps its old end, and
\* its iterators dangle when the vector has been reallocated.
PushSource(p) ==
  /\ apc[p] = "push"
  /\ vec' = [vec EXCEPT ![p] = Append(@, cur[p])]
  /\ torn' = [torn EXCEPT ![p] = @ \/ mpc[p] = "join"]
  /\ apc' = [apc EXCEPT ![p] = "poll"]
  /\ UNCHANGED <<dirs, lockVars, mpc, iter, term, starts, orderly, cur,
                 accepted, pending, event, thr>>

AllStep(p) ==
  \/ Watch(p) \/ FirstScan(p) \/ Poll(p) \/ (\E s \in Sources : TakePending(p, s))
  \/ AwaitEvent(p) \/ ScanAgain(p) \/ OpenReader(p) \/ LockReader(p)
  \/ PushSource(p)

-----------------------------------------------------------------------------
(* The thread of a source: it forwards until it meets the terminate flag,   *)
(* then the reader is destroyed, and with it the lockfile.                  *)

UnlockNever(p, s) == FALSE     \* mutant: the thread does not see the flag
Unlock(p, s) ==
  /\ thr[p][s] = "run" /\ term[p]
  /\ lock' = [lock EXCEPT ![s][fd[p][s]] = {}]
  /\ thr' = [thr EXCEPT ![p][s] = "unlink"]
  /\ UNCHANGED <<dirs, name, fd, mainVars, allVars>>

\* Whatever file has the name now.
Unlink(p, s) ==
  /\ thr[p][s] = "unlink"
  /\ name' = [name EXCEPT ![s] = 0]
  /\ fd' = [fd EXCEPT ![p][s] = 0]
  /\ thr' = [thr EXCEPT ![p][s] = "done"]
  /\ UNCHANGED <<dirs, lock, mainVars, allVars>>

ThreadStep(p, s) == Unlock(p, s) \/ Unlink(p, s)

-----------------------------------------------------------------------------
(* main.                                                                    *)

Start(p) ==
  /\ mpc[p] \in {"off", "exited", "aborted"} /\ starts < MaxStarts
  /\ mpc' = [mpc EXCEPT ![p] = "push"]
  /\ apc' = [apc EXCEPT ![p] = "watch"]
  /\ starts' = starts + 1
  /\ UNCHANGED <<dirs, lockVars, vec, iter, torn, term, orderly, cur, accepted,
                 pending, event, thr>>

\* push_back by main of forward_all's own thread, which runs already.
PushAll(p) ==
  /\ mpc[p] = "push"
  /\ vec' \in {[vec EXCEPT ![p] = Append(@, "all")]} \cup
       IF apc[p] = "push" THEN {vec} ELSE {}
  /\ torn' = [torn EXCEPT ![p] = @ \/ apc[p] = "push"]
  /\ mpc' = [mpc EXCEPT ![p] = "wait"]
  /\ UNCHANGED <<dirs, lockVars, iter, term, starts, orderly, allVars, thr>>

\* A signal: the flag is set, and the loop over the threads entered.
Signal(p) ==
  /\ mpc[p] = "wait"
  /\ term' = [term EXCEPT ![p] = TRUE]
  /\ iter' = [iter EXCEPT ![p] = <<1, Len(vec[p])>>]
  /\ torn' = [torn EXCEPT ![p] = @ \/ apc[p] = "push"]
  /\ mpc' = [mpc EXCEPT ![p] = "join"]
  /\ orderly' = TRUE
  /\ UNCHANGED <<dirs, lockVars, vec, starts, allVars, thr>>

EndedAll(p, h) == apc[p] = "done"                    \* mutant: no other join
Ended(p, h) ==
  IF h = "all" THEN apc[p] = "done" ELSE thr[p][h] = "done"
Join(p) ==
  /\ mpc[p] = "join" /\ iter[p][1] <= iter[p][2]
  /\ Ended(p, vec[p][iter[p][1]])
  /\ iter' = [iter EXCEPT ![p] = <<@[1] + 1, @[2]>>]
  /\ UNCHANGED <<dirs, lockVars, mpc, vec, torn, term, starts, orderly, allVars,
                 thr>>

\* main returns.
Exit(p) ==
  /\ mpc[p] = "join" /\ iter[p][1] > iter[p][2] /\ Len(vec[p]) = iter[p][2]
  /\ Ends(p, "exited")

\* A thread that can still be joined is destroyed with the vector, or the loop
\* over a vector that has changed under it fails.
Abort(p) ==
  /\ mpc[p] = "join" /\ torn[p]
  /\ \/ iter[p][1] > iter[p][2] /\ Len(vec[p]) > iter[p][2]
     \/ iter[p][1] <= iter[p][2]
  /\ Ends(p, "aborted")

\* SIGKILL, or a machine that is switched off.
Kill(p) == mpc[p] \in {"push", "wait", "join"} /\ Ends(p, "off")

MainStep(p) == PushAll(p) \/ Join(p) \/ Exit(p) \/ Abort(p)

ProcStep(p) == AllStep(p) \/ MainStep(p) \/ \E s \in Sources : ThreadStep(p, s)
Next ==
  \/ \E s \in Sources : MakeSource(s)
  \/ \E p \in Procs : ProcStep(p) \/ Start(p) \/ Signal(p) \/ Kill(p)

\* Every thread of every process is scheduled.
FairSpec ==
  /\ Init /\ [][Next]_vars
  /\ \A p \in Procs :
       /\ WF_vars(AllStep(p)) /\ WF_vars(MainStep(p))
       /\ \A s \in Sources : WF_vars(ThreadStep(p, s))
-----------------------------------------------------------------------------
\* A reader, as long as it forwards, has the lock of its source; and until some
\* process is told to stop, whatever is killed and started again, only one does.
ExclusiveThroughKills ==
  \A s \in Sources :
    /\ \A p \in Procs : thr[p][s] = "run" => Holds(p, s)
    /\ ~orderly => Cardinality({p \in Procs : Holds(p, s)}) <= 1

\* The listener never makes a second reader for a source that it has a thread
\* for: the lock of the first would end forward_all, and with it all listening.
AcceptedOnce ==
  \A p \in Procs : apc[p] \in {"open", "lock"} => thr[p][cur[p]] = "none"

\* A stop during which no source was being accepted leaves nothing behind: when
\* main returns every thread has ended and none of its locks is left.
CleanExit ==
  [][\A p \in Procs : mpc[p] = "join" /\ mpc'[p] = "exited" /\ ~torn[p] =>
       /\ apc[p] = "done"
       /\ \A s \in Sources : thr[p][s] \in {"none", "done"} /\ ~Holds(p, s)]_vars

\* However a source's appearance falls between watch, scan and wait: it is
\* taken on, unless its process has stopped listening.
EverySourceServed ==
  \A p \in Procs : \A s \in Sources :
    (s \in dirs /\ apc[p] \notin {"off", "done"}) ~>
      (s \in accepted[p] \/ apc[p] \in {"off", "done"})

\* Every stop completes, also one that meets a source being accepted.
StopCompletes == \A p \in Procs : mpc[p] = "join" ~> mpc[p] # "join"

\* Stated by lockfile.h ("While an instance of this class exists, no other
\* process will be able to acquire a lock for the same pathname"): two
\* processes never hold the lock of one source.
LockExclusive ==
  \A s \in Sources : Cardinality({p \in Procs : Holds(p, s)}) <= 1
=============================================================================
