----------------------------- MODULE SpoolStore -----------------------------
(***************************************************************************)
(* One source's directory in a filestore, as the kernel keeps it: what the *)
(* spoolfile writer of one process and the spoolfile reader of another     *)
(* share.  There is no other channel between the two.                      *)
(*                                                                         *)
(* Spoolfile contents are sequences of records.  A record whose octets     *)
(* have only partly reached the kernel is not there yet: a reader that     *)
(* meets one blocks inside it exactly as it would block in front of it,    *)
(* and at the end of the file both raise the same eof_error.               *)
(***************************************************************************)
EXTENDS SessionProtocol, Integers, Sequences

CONSTANTS
  MaxFile     \* bound: the largest file number (2^64 - 2 in the program)

ASSUME MaxFileAssumption == MaxFile \in Nat

VARIABLES
  dir,        \* numbers of the spoolfiles that have a name in the directory
  kern,       \* number |-> the records in that file (kept once unlinked, as
              \* an inode is while it is open)
  sealed,     \* history: number |-> how many records the file held when its
              \* successor was created, or Unsealed
  changed     \* the reader's inotify queue holds unread events

storeVars == <<dir, kern, sealed, changed>>

FileNums == 0..MaxFile
NoFile   == -1
Unsealed == -1

\* filestore_scanner: zero for an empty directory.
FirstFilenum == CHOOSE n \in dir : \A m \in dir : n <= m
NewestFilenum == IF dir = {} THEN 0                                   \* mutant
                 ELSE CHOOSE n \in dir : \A m \in dir : m <= n
NextFilenum ==
  IF dir = {} THEN 0
  ELSE (CHOOSE n \in dir : \A m \in dir : m <= n) + 1

StoreInit ==
  /\ dir = {}
  /\ kern = [n \in FileNums |-> <<>>]
  /\ sealed = [n \in FileNums |-> Unsealed]
  /\ changed = FALSE

\* open(O_CREAT|O_EXCL) of spoolfile n: IN_CREATE.
CreateUnseen(n) ==                             \* mutant: creation not watched
  /\ dir' = dir \cup {n}
  /\ kern' = [kern EXCEPT ![n] = <<>>]
  /\ sealed' = IF n = 0 THEN sealed
               ELSE [sealed EXCEPT ![n - 1] = Len(kern[n - 1])]
  /\ UNCHANGED changed
CreateFile(n) ==
  /\ dir' = dir \cup {n}
  /\ kern' = [kern EXCEPT ![n] = <<>>]
  /\ sealed' = IF n = 0 THEN sealed
               ELSE [sealed EXCEPT ![n - 1] = Len(kern[n - 1])]
  /\ changed' = TRUE

\* write() on the descriptor of spoolfile n: IN_MODIFY if the file still has a
\* name and anything at all was written.
AppendTo(n, recs) ==
  /\ kern' = [kern EXCEPT ![n] = @ \o recs]
  /\ changed' = (changed \/ (n \in dir /\ recs # <<>>))
  /\ UNCHANGED <<dir, sealed>>

\* The events among the first k records of spoolfile n.
EventsUpTo(n, k) == {kern[n][i] : i \in {j \in 1..k : IsEvent(kern[n][j])}}

\* The events of spoolfile n that its reader was bound to find: those that
\* were in the file before it had a successor.
TimelyEvents(n) ==
  EventsUpTo(n, IF sealed[n] = Unsealed THEN Len(kern[n]) ELSE sealed[n])
AllTimely == UNION {TimelyEvents(n) : n \in FileNums}
=============================================================================
