# libholmes-horace: a verification project

HORACE captures events (packets, syslog messages, clock readings) on one
machine and carries them, as sessions of numbered records, to an archive. Its
promise is that captured events are neither lost nor attributed to the wrong
session on the way. These modules say what that promise is, as precisely as the
code keeps it, and check and prove it.

## 1. The system

| Part | State | Operations | Talks to |
|---|---|---|---|
| `simple_session_writer` (base of all destinations) | session in force, next sequence number, ended flag, pending sync reply | `write`, `read`, `readable`; virtual `handle_*` | derived writers, through the `handle_*` callbacks |
| `horace+file` destination (`file_session_writer`, `spoolfile_writer`, `file_octet_writer`) | next file number, open spoolfile, its size and its 64-octet buffer, cached `_writable` | one handler per record type, `sync`, `writable` | the directory |
| `horace+file` source (`file_session_reader`, `spoolfile_reader`, `directory_watcher`) | next file number, open spoolfile, position, session and sequence number read, `_awaiting_sync` | `read`, `write` (acknowledgement), `reset` | the directory, inotify |
| filestore (`filestore_scanner`, `spoolfile`) | numbered files in one directory per source | scan, create, unlink | shared by writer and reader, of two processes; nothing else is |
| `horace-forward` | a reader and a writer per source, one thread each | `forward_one`, `forward_one_with_retry`, `forward_all`, `main` | readers, writers |
| `file_session_listener` | pending and accepted sources | `accept` | the filestore, `forward_all` |
| `mongodb` destination | bulk operation, session | `handle_*` | database |
| `lockfile` | a file that is locked and named while it exists | construct (open, lock), destroy (unlock, unlink) | other processes on the filestore |
| `horace+tcp` | a connection, buffers both ways | reader, writer, listener | the other `horace-forward` |
| `octet_writer`, `octet_reader`, `file_descriptor` | buffers of 64 octets, the termination flag in waits | `write`, `flush`, `read` | every file and connection |
| `horace-capture` (`new_session_writer`, `event_source`, `event_signer`) | sequence number, hash chain, one thread per source and one for signing | `begin_session`, `write_event`, `write_signature`, `end_session` | event readers, a session writer |
| `terminate_flag`, `signal_set` | flag and pipe; masked signals | set, poll, wait | every thread |
| leap seconds (`leap_second_monitor`, `leap_second_corrector`) | queue of clock states; set of measured sockets | `correct`, `record_clock_state`, `attach` | packet sockets |
| packet capture (`ring_buffer_v1..3`, `basic_packet_socket`, `packet_record_builder`) | ring indices, drop counts | `read`, `drops`, `update_stats` | kernel, leap second monitor |
| `address_filter`, netblocks | lists of netblocks, compiled program | parse, `build`, `attach` | kernel |
| clock: `ntp_client`, `ntp_response`, `ntp_peer` | request number, fragments, variables | `read` | an NTP server over UDP |
| `syslog_parser` | position in a datagram | `parse` | its event reader |
| `unix_socket` | a name in the filesystem | construct (look, connect, unlink, bind), destroy | other processes |
| encodings (`record`, `attribute`, `attribute_list`, base-128 integers) | types defined in the session | read, write | all |

Behaviours that are hard to get right, and what makes each part correct:

* **Writer and reader share only a directory.** The reader finds out that a
  spoolfile is complete by seeing that its successor exists, and then deletes
  it once the destination has acknowledged it. Correct means: nothing that was
  there is deleted unforwarded, nothing is waited for in vain.
* **Buffers and kills.** What has been written, has reached the kernel, is on
  disk and has been acknowledged are four different things.
* **Failure in mid-spoolfile.** A destination fails, having stored the record
  or not; the forwarder makes a new writer and resets the reader.
* **Numbers.** File numbers are remembered in the directory alone, from which
  files disappear; sequence numbers are counted on both sides of a connection
  and must agree.
* **Threads** (signer, event sources, monitor, one forwarder per source) and
  **signals** that suspend, resume or stop capture.

`PROJECT.json` lists them, with their lines, under `hazards`.

## 2. The modules

| Module | Models | Uses |
|---|---|---|
| `SessionProtocol` | the records, and what `simple_session_writer` does with one, as operators on its state | |
| `SimpleSessionWriter` | that class alone, driven by every mixture of records, its handlers throwing anywhere | `SessionProtocol` |
| `SpoolStore` | one source's directory as the kernel keeps it: names, contents, inotify; `filestore_scanner`'s first and next number | `SessionProtocol` |
| `FileSessionWriter` | the `horace+file` destination and the process around it | `SpoolStore` |
| `ReliableTransfer` | the abstract specification: captured, delivered, released | |
| `SpoolForward` | that writer composed with a forwarder: `file_session_reader`, `spoolfile_reader`, `forward_one_with_retry`, and a destination that stores each record | `FileSessionWriter`, `ReliableTransfer` |
| `TcpHop` | `horace-forward` at both ends of `horace+tcp`, with or without the `diode` option, and the connections between them | `SessionProtocol` |
| `ForwardThreads` | several `horace-forward` processes on one filestore: `main`, `forward_all`, `file_session_listener`, `lockfile`, a thread per source | |
| `CapturePipeline` | the threads of `horace-capture`: main, event sources, signer, their mutexes, the termination flag, signals | `SessionProtocol` |
| `PacketCapture` | the four ways of reading packets, the kernel's side of the ring, drop counts and their reports | |
| `LeapSeconds` | time system detector, monitor thread, corrector | |
| `NtpClient` | the clock endpoint's requests, fragments, retries and rounds | |
| `NtpVariables` | what `ntp_peer` makes of the text of a response | |
| `OctetStream` | `octet_writer`, `file_descriptor::write`, `octet_reader` on a descriptor | |
| `Encodings` | records to octets and back, with the types a session defines | |
| `Netblocks` | the parsers of IPv4 and IPv6 netblocks | |
| `AddressFilter` | the compiler of the packet filter, and the kernel running it | `Bitwise` |
| `SyslogParser` | the parser, on lexemes | |
| `UnixSocket` | binding and unlinking of unix sockets | |
| `SpoolForwardProofs`, `SpoolTransferProofs` | what is proved of `SpoolForward`: safety; order, counting and the refinement | TLAPS |
| `CapturePipelineProofs` | of `CapturePipeline`: the chain, the signatures | TLAPS |
| `TcpHopProofs`, `ForwardThreadsProofs` | of the modules of these names | TLAPS |
| `ComponentProofs` | of `SimpleSessionWriter`, `UnixSocket` and `NtpClient` | TLAPS |
| `PacketCaptureProofs` | of `PacketCapture`: contents, and accounts of packets and drops | TLAPS |
| `DataPathProofs` | of `OctetStream` and `LeapSeconds` | TLAPS |
| `MCSpoolForward`, `MCCapturePipeline`, `MCComponents` | values for TLC; the last also puts the components that work by themselves side by side | |

`MCComponents` extends eleven modules whose components do not talk to each other
(or only through a value, such as a packet count, that either module leaves
open). `subject` says which one a behaviour is about; all the others stay in one
of their initial states. It saves a run for each, and nothing is claimed of their
combination.

### How state and steps correspond to the code

*Records.* A record keeps the attributes that the protocol reads: channel,
source, timestamp, sequence number. All other content of a session record is one
value (`defs`), which is what a comparison of two session records needs. Events,
ends and signatures also carry the timestamp of the session that produced them.
The program does not store it (that is why every spoolfile must begin with a
session record) and no guard reads it; properties do.

*Base class.* `ssw` is `(_srec, _seqnum, _ended, _reply)`. `Refuses` gathers the
exceptions of `write` before any handler is called, `Written` what it leaves
behind on return, `Thrown` what it leaves behind when the handler throws (a new
session has been recorded before `handle_session_start`).

*Spool writer.* One `write()` is a chain of steps (`wpc`) because the reader sees
the directory in between: `BeginSpoolfile` (`sync` of the old file: an `fsync`
that moves nothing out of the buffer), `CreateSpoolfile` (constructor of the new
`spoolfile_writer`), `CloseOld` (the assignment to `_sfw` destroys the old one,
which flushes), `WriteHeader` (the session record, then the record that did not
fit). `cur`, `used`, `first`, `nextNum`, `writable` are `_sfw`, `_size`,
`_first`, `_next_filenum`, `_writable`. `buf` holds what has been written and
has not reached the kernel. A flush happens when 64 octets are exceeded; whether
a given record causes one, and goes with it, depends on octet counts and is a
choice in `Buffered`. `accepted`, `clock` and `sealed` are history. Two constants
say who the caller is: `Synced`, one that asks for acknowledgements, as a
forwarder does; `Unended`, one through which a session may start before the last
one has ended.

*Directory.* `kern[n]` is what the kernel has of file n, in whole records: a
reader that meets half a record blocks within it just as it would block in front
of it, and reports the end of the file in the same way. `sealed[n]` remembers
how much was there when the successor was created. `changed` says that the
reader's inotify queue is not empty.

*Spool reader and forwarder.* `at` is the place in `_read_direct`'s loop: `read`,
`zero` (no data), `last` (successor seen, one more try), `wait`. `rnext` is
`_next_filenum`, two above the open file. `fpc` follows `forward_one`:
`start`/`loop` reading the first/another record, `make`/`put` writing it to a
new/the existing session writer, `ack` handing the sync reply to the reader,
`advance` between the unlink and the opening of the next file. `Retry` is the
`catch` in `forward_one_with_retry`, with `reset()`. Faults: `Kill` (SIGKILL of
the writer), `Destroy` (orderly stop or exception), `CreateThrows` (no spoolfile
can be created), `PutThrows` (the destination fails, having stored the record or
not), `Stop` (the forwarder stops or is killed, at any point).

*TCP.* `upc` is the place of the upstream `forward_one`: `open` is `_open`'s loop,
`loop` the look at what the destination may have sent (`Notice`, `Look`), `read` the
source's `read()`, which may take for ever and during which the connection is not
looked at (`ReadNext`), `put` and `flush` a write and the flush that makes room for
it, `close` and `stop` the destruction of the session writer after an exception and
after the termination flag. `obuf` is the octet_writer's buffer, `net[c]` the kernel's side
of a connection: records each way, which ends are open, whether a reset has been
seen, and whether the octets are still in step with the records. A write that finds
no room inserts an octet when it goes on (`FlushWait`; `OctetStream` has the octets),
and a destructor sends a buffer from its beginning of which a part may have been
sent: the connection is `torn`, and what is put on it from there on is `GarbledRec`,
which the far end reads as nothing or throws at. `waited` remembers that a diode's
write had to wait. `down[c]` is the downstream thread of that connection with its own base
class state. A thread that meets an exception sends an error record
(`DownError`), reads on until the far end has closed (`Drain`, `DownClose`), and
ends, because a `tcp_session_reader` cannot be reset. The source is a row of
batches, of which the oldest one not acknowledged is read again: what
`SpoolForward` shows of a spool. Both ends may fail, stop, be killed by a signal
or by SIGPIPE (`killed`), and old threads lag behind new connections.

*Threads of `horace-forward`.* `mpc[p]`, `apc[p]`, `thr[p][s]` are the places of
main, of `forward_all` and of the thread of source `s` in process `p`. `vec` is
the vector of threads that main and `forward_all` share without a lock. `iter` is
main's place in its loop over it and the end that it has evaluated. Where the
accesses overlap the outcome is a choice (a lost handle, an abort) and `torn`
remembers it. A lock file is a file `i` with an owner `lock[s][i]`; `name[s]` is
the file that the pathname leads to, `fd[p][s]` the one a process has open. So
opening, locking, unlocking and unlinking are four steps, and a process can lock
a file that has just lost its name.

*Capture.* `mpc`, `spc[s]` and `signer` are the places of main, of the thread of
source `s`, and of the signing thread. A mutex is free unless some thread is at a
place where it holds it: `new_session_writer::_mutex` while a source is in
`written` (between the write and the offer to the signer), `event_signer::_mutex`
while the signer is in `check` or `empty`; other critical sections are one step,
because nobody can observe them half done. `seqnum` and `hattr` are `_seqnum` and
`_hattr`; `offered` is what the signer has been offered and `taken` what it has
taken out to sign; `pending` are the signals pending for the process; `out` is
the history of what the session writer accepted. A hash is the channel and the
content of what it is a hash of. The write in `_write` may report that the
destination is full, which sends `SIGALRM` to main (`WriteReturns`), or throw
(`WriteCrashes`). `Drain` is the loop over `sigtimedwait`: it takes a pending
SIGTERM along with the alarms, as the code does. A hash function and a keyfile
are given; `statvfs` does not fail when `writable()` asks; the destination does
not poll the termination flag during a write (a file or a database, not TCP); the
three signals that end the program are one.

*Packets.* A packet is the number of its arrival. `method` is one of `packet`
(`recvmsg`), `ringv1`, `ringv2` (frames), `ringv3` (blocks); a slot of `ring` belongs to the
kernel or to the user. The kernel clears its counters when they are read, and
the event reader and the monitor both read them: `Measure` is the monitor's turn.
Counters that the constructor leaves alone start with any value of `Junk`, and
wrap at `Wrap`. Lengths are in frames: what is captured of a packet has room in one,
and a packet of `Truncated` had two on the wire. `Rec` has the parameters of
`build_packet` in the order of its definition, `PacketRec` the arguments in the order
of its callers, which is the other one: so `len`, how much of the buffer a record
refers to, is the original length. `Spanned` is the slots that this lies in.

*Leap seconds.* Time is in quarters of a second; the clock repeats its second
4..7 when there is a leap second. The monitor measures clock and packet count
before, during and after; the reader corrects one packet after another, at any
later time. A measurement is four steps: the count, the look at `_packets` (no longer
locked), the clock, the push (`Measure1`, `TakeIndex`, `ReadClock`,
`RecordClockState`). A correction is up to three: the loop that discards expired
measurements (`Expire`), the second look at the queue, for the reference (`Correct`,
`FindEmpty`), the clock if there was none (`CorrectByClock`). The queue has no lock,
so that the steps of the two threads fall between each other. A result is `raced` if
what had been pushed between the looks was an expired measurement that came to the
front, or one for this packet after the queue was found empty. `_packets` starts with
whatever it contains (`Uncleared`).

*NTP.* The network loses, repeats, delays and reorders datagrams; `asked` and
`answers` are what is under way. The client's request number, its fragments by
offset, its timeouts, the retries of the list and the rounds over the
associations are as in the code. `NtpVariables` has texts as sequences of pieces
between commas; a number is its sign and its digits.

*Octets.* The n-th octet written is the number n. The kernel takes and gives any
number at a time; `direct` and `at` are the block that `file_descriptor::write`
was given and how much of it is behind the pointer, so that the octet in front of
the pointer can be named. A write may fail, and the destructor flushes after
that.

*Encodings.* The widths are constants (an octet of three bits, a word of three
octets) so that every boundary is within reach. Every sample attribute is
inserted in every order, written and read; and every short string of octets is
read from scratch, and written and read again if it was accepted.

*Netblocks, filter, syslog.* Texts are sequences of tokens, parsed one at a time as
the code does, with the index variables that it keeps. The filter program is a
sequence of instructions with relative jumps of limited reach; `Accepts` runs it
on a frame, as the kernel does.

*Unix sockets.* Looking, connecting, unlinking and binding are separate steps of
each process; `named` is whose socket has the pathname.

*What no action stands for.* In `SpoolForward` the exceptions for a reply that
does not match, for a record the destination refuses, and for a successor that is
missing after an acknowledgement have no action: `ForwardNeverStuck` says that
they are never raised, so that the omission loses no behaviour. In
`CapturePipeline` a record that would be refused makes the step a `Crashes`
action; `EndSession` has no such alternative, and `StreamAccepted` says that the
end is never refused either.

## 3. What the runs check

| Run | Question | Properties |
|---|---|---|
| `spool_forward` | With faults, kills and restarts at both ends, is anything deleted before it was delivered? Do the counters of both ends agree? Is a file number ever used twice? Can every file be read by itself, and are the files of a session a prefix of it? | `SpoolInv`, `NoTimelyLoss`, `NothingMisattributed`, `ForwardNeverStuck`, `NumbersNeverReused`, `SelfContained`, `NoHoles`, `ImplementsTransfer` |
| `live_spool_forward` | Without kills of the writer and failures of the destination, is everything delivered and deleted in the end, a restart of the forwarder and a spoolfile that cannot be created included? | `TimelyDelivered`, `SpoolReleased` |
| `tcp_hop` | Can a lagging thread of an old connection store anything under a wrong session? What can a diode lose that has not had to wait? Does the report of an error get through a connection that is in step, and does the thread that sent it end, unless upstream's source has nothing more? | `NothingMisattributed`, `DiodeLosesOnlyToFaults`, `ErrorNotOvertaken`, `ErrorHandlingEnds` |
| `forward_threads` | Two processes on one filestore, started, stopped and killed at any moment while sources appear: is a source forwarded by one of them only, taken on once, and taken on at all? Does every stop complete, and leave nothing behind? | `ExclusiveThroughKills`, `AcceptedOnce`, `CleanExit`, `EverySourceServed`, `StopCompletes` |
| `capture_pipeline` | Whatever two sources, the signer, alarms, SIGTERM and failed writes do: do records chain, are signatures of what precedes them, is every event signed, does every stop complete, and does nothing stop that was not told to? | `CaptureInv`, `ChainUnbroken`, `SignaturesFollow`, `StreamAccepted`, `CapturesUntilSignal`, `ShutdownCompletes`, `EventsSigned` |
| `components` | Each component by itself against the kernel, a faulty network, or a definition of what it should compute (below) | 14 invariants |
| `find_*` | Section 5 | one each |

The invariants of `components`:

| Property | Module | What it says |
|---|---|---|
| `NothingUnaccounted` | `PacketCapture` | every packet that arrived is returned once and in order, is still to be read, or was dropped; every drop is reported, or counted where a later report is made from |
| `ContentStable` | `PacketCapture` | the kernel does not own the memory that the record in use refers to; of a truncated packet, the memory of what was captured of it |
| `LossReportedInTime` | `PacketCapture` | drops are reported before the first packet that came after them |
| `LeapSecondExact` | `LeapSeconds` | however late a packet is read, it is recorded at the time it arrived, unless a measurement came between the corrector's looks at the queue and misled it |
| `PeersSound` | `NtpClient` | what is recorded of a peer comes from one response to a request for that peer |
| `VariablesExact` | `NtpVariables` | the attributes are those that the server said, with the numbers it said |
| `FaithfulStream` | `OctetStream` | nothing is skipped, ever; nothing is repeated as long as no write has failed or had to wait |
| `WrittenIsRead`, `ReadIsExact` | `Encodings` | a record is read back as it was written; an integer that comes in is read exactly or refused; a record takes as many octets as it says |
| `ParsedExactly` | `Netblocks` | a text is accepted if and only if it is a netblock, with its value (`Netblocks` is the set of those, defined on the finished text) |
| `FilterExact` | `AddressFilter` | a frame is captured if and only if neither address is excluded |
| `Reconstructible` | `SyslogParser` | the datagram can be put together again from its record |
| `CapturingIsHeard` | `UnixSocket` | nobody takes the name of a socket in use |
| `ReplyCoversHandledEvents` | `SimpleSessionWriter` | a reply acknowledges only what was handled |

*Timely* events are those that were in a spoolfile before its successor was
created: the ones that the reader's rule (read once more after having seen the
successor) is bound to find. Section 5 is about the others.

Types are invariants of `spool_forward` and `capture_pipeline` (within `SpoolInv`
and `CaptureInv`) and, for all constants, of `ForwardThreads`, `TcpHop`,
`SimpleSessionWriter`, `UnixSocket`, `NtpClient`, `PacketCapture`, `OctetStream`
and `LeapSeconds` (within the inductive invariants of section 4). The other
modules have properties that compare whole values and would not survive a wrong
type.

`HInv` of `TcpHop` and `ReplyInv`, `UnixInv`, `NtpInv`, `RingInv`, `AccountInv`,
`StreamInv`, `LeapInv` of the components are inductive invariants that imply the property
listed for their module. No run lists them beside it: to look at one by itself,
add its name to the `INVARIANTS` of `MCTcpHop.cfg` or `MCComponents.cfg`.

### Bounds

Spool: `MaxFile`, `MaxTime`, `MaxSeq`, `MaxKills`, `MaxCreateFaults`, `MaxFaults`,
`MaxRestarts` and `MaxNext` bound file numbers, sessions, sequence numbers,
kills, failures to create a file, faults of the destination, stops of the
forwarder, and the number that a failing reader may run up to. Three spoolfiles
(0 to 2) let one be deleted while the next is being read and a third created; two
sessions let a file change coincide with a change of session; two events per
session (in `spool_forward`) let the second follow the first in another file. One fault,
one kill and one restart, at any moment and in any order, cover every pair of
places that two actors can be in. A capacity of two units, in both runs of the
spool, makes every event start a new file, which is where the races are.
In `spool_forward` one record can stay in the buffer, which is enough for a kill
to lose it and for a later write or the change of file to flush it; syncs, end records
and a file that cannot be created are in `live_spool_forward`, where a session has one
event and an end, each in a spoolfile of its own.
The theorems of section 4 have no bounds.

`TcpHop`: two batches let one be acknowledged while the next is on its way, two
connections let the thread of an old one still work when a new one is used, a
buffer of two records and a kernel that holds one let a flush find no room, or
room for each record in turn. Two events in a batch (0 to `MaxSeq` = 1) let the
second be torn off from the first. One fault, at any moment; the exceptions that the
code itself causes (a sync over a connection that is not a diode, a torn stream) are
no faults, so that a fault can happen during the recovery from one.

`ForwardThreads`: two processes and two starts (each runs, or one runs again after
it was stopped or killed); one source is enough for the locks, which are
independent of each other. The theorems have any number of each.

`CapturePipeline`: `MaxEvents` bounds the events of all sessions and
`MaxSessions` the sessions. Two sources race for each mutex; two events let one
be written while another waits to be signed, by the same source or by the other;
the second session is the one that a left-over alarm, flag or
hash would reach. Writes may fail at any point.

`components`: nine packets go one and a half times round a ring of six, which is filled,
emptied and overrun, the second and the fifth are truncated; counters wrap at 16, or
start at 3. Two packets, which three measurements can fall between, can be before, in and after the
leap second, and a measurement up to `Lateness` late; each thread can be at any of its
steps. One lost or repeated datagram, two reads, two rounds: an answer
to the first request can come in the second read. Octet buffers of four, a kernel
that holds three and seven octets meet every way a block, a buffer and a short
write can overlap; one wait. Three octets in a word and six bits in an int put
the limits of `_grow` and of every length at values that the samples straddle.
Three fields in an IPv6 address are enough for a compressed field at the start,
in the middle, at the end and for nothing, with a dotted tail. Two netblocks of
each kind give the jumps of the filter their targets, and `JumpSize` 16 puts the
limit of the one long jump among the lists of two. Three processes: one whose socket is stale, one that
starts, one that has been refused. `MCComponents` has the values of the data
parsers with the reason for each.

The models stop when their bounds are used up, and so may the programs, so
deadlock is not checked.

### Fairness

`FairSpec` of `SpoolForward` has weak fairness of `ForwardStep`: the forwarding
thread runs whenever it can, which is what the scheduler gives a thread that is
not blocked; it includes `Start`, as whoever stops a forwarder starts it again.
There is no fairness for the writer (nobody is bound to capture another event or
to flush the buffer), none for faults, and none for `Wake` by itself: a reader
that waits with an empty queue waits for ever.

`FairSpec` of `TcpHop` has weak fairness of the upstream forwarder and of each
thread downstream. A connection that can be made is made in the end: `_open` has
no limit of attempts. The source's `read()` is not fair, since a spool that is drained
gives nothing until somebody captures more. Nothing that breaks, stops or kills is
fair.

`FairSpec` of `ForwardThreads` has weak fairness of every thread of every
process; the threads of sources run until they see the termination flag, and
nobody is bound to start, stop or kill a process.

`FairCapture` has weak fairness of main and of the signer, and strong fairness
of each source. A mutex that is free again and again is had in the end: the
signer may be woken spuriously without end and lock its mutex each time, which
weak fairness of a source would let it do for ever. The signer needs no more than
weak fairness, because events are finite and so it cannot be kept from a mutex
for ever by sources. Nobody is bound to capture an event (`SourceReads`), to
fail (`SourceThrows`), to wake spuriously, or to send SIGTERM.

## 4. What is proved

`SpoolForwardProofs` proves, for every value of the constants that the named
assumptions `MaxFileAssumption`, `WriterAssumption`, `ForwardAssumption` allow
(the bounds are natural numbers, the options Boolean):

* `TypeCorrect`: `SSpec => []STypeOK`
* `Safety`: `SSpec => []NoTimelyLoss`
* `SpoolfilesSelfContained`: `SSpec => []SelfContained`
* `FreshNumbers`: `SSpec => []NumbersNeverReused`
* `Inductive`: `SSpec => []IInv`, from which the others follow.

`NoTimelyLoss` is not inductive. That a spoolfile may be deleted follows from
where its reader is, and why the reader may be there from what the directory
looked like earlier. `IInv` adds:

* `SpoolNumbering`, `WriterNumbering`: numbers are used without a gap, the
  largest is never deleted, the writer continues above it. So a file has a
  successor exactly when it is sealed, and nothing is ever in a file above the
  largest number.
* `Contents`: each file, together with the buffer that will be added to it,
  belongs to one session and begins with its session record.
* `ReaderPlace`: once the reader has seen the successor (`at = "last"`), the
  file is sealed; when it has then seen the end, it has read at least up to the
  seal.
* `ReaderSession`: the session that the reader and the destination are in is the
  one the file belongs to.
* `Forwarded`: what has been read is in the destination, but for the record in
  hand.

`SpoolTransferProofs` proves under the same assumptions:

* `PrefixOnFile`: `SSpec => []NoHoles`
* `RightlyAttributed`: `SSpec => []NothingMisattributed`
* `NeverStuck`: `SSpec => []ForwardNeverStuck`
* `Refinement`: `SSpec => ImplementsTransfer`
* `TransferInductive`: `SSpec => []SpoolInv`, from which the others follow.

`SpoolInv` is `IInv` and `TInv`, which says what happens to the order of records
and to the counters:

* `WriterOrder`: what a session has issued, in its files and then in the buffer,
  is in the order of its numbers with no gap after what is in the files, and an
  end is the last record of its session. Hence `NoHoles`: a kill takes the buffer,
  which is the newest part.
* `CountedAlike`: the number that the reader compares the reply with is what the
  destination's base class has counted, wherever the forwarder is between reading
  a record and writing it. Hence no reply that does not match.
* `EndWasRead`: a session that has ended for the destination has an end record
  that was read. As `WriterOrder` makes it the last, no event follows, and the
  destination refuses nothing.

The refinement maps `held` to the timely events in the directory and `delivered`
to those of the timely events that the destination has. One lemma is about the
writer (`WriterCaptures`): a step that appends or seals adds events to `held` and
can add to `delivered` only what is not new, since nothing is in the destination
that is not in a file; any other step stutters. One is about the forwarder
(`ForwarderDelivers`): storing a record delivers it, an unlink releases only what
`NoTimelyLoss` says has been delivered, and everything else, faults included,
stutters.

`CapturePipelineProofs` proves, for any set of sources and all bounds, from
`CaptureAssumption` alone:

* `CaptureTyped`: `CaptureSpec => []CTyped`
* `ChainNeverBroken`: `CaptureSpec => []ChainUnbroken`
* `NothingRefused`: `CaptureSpec => []StreamAccepted`
* `CaptureOn`: `CaptureSpec => []CapturesUntilSignal`
* `CaptureInductive`: `CaptureSpec => []CInv`, from which the others follow.

That the next record will fit the chain is not in `ChainUnbroken`, and depends on
who is at work. `CInv` adds, for as long as the program runs:

* `Places`: sources are at work only between their start and their join, the
  signer between its own, and the flag is not set before main has a signal.
* `OneWriter`: one source at a time is in `write_event`.
* `SessionOpen`: the session writer is fresh, or in the session that main began.
* `NextLink`: while no source holds the mutex, number and hash kept for the next
  record are those that follow the last event; while one does, the last event is
  its own, with the number that it has not yet counted on from.

`SignaturesInOrder`, `CaptureSpec => []SignaturesFollow`, is proved there too, from
`SigningInductive`: `CaptureSpec => []CaptureInv`. That the next signature will be
in order depends on what the signer holds and has been offered, and
`SigningInOrder` puts these in order: each is the hash and the number of an event of the
session; what has been signed comes before what has been taken, that before
what is offered, and that before what the source in `written` is about to offer.

`TcpHopProofs` proves, for any number of batches and connections and any sizes of
the buffers, from `HopAssumption`:

* `StoredUnderSession`: `FairSpec => []NothingMisattributed`
* `DiodeLossless`: `FairSpec => []DiodeLosesOnlyToFaults`
* `ErrorHeard`: `FairSpec => []ErrorNotOvertaken`
* `HopInductive`: `FairSpec => []HInv`, from which the others follow.

What `HInv` adds is about records on their way:

* `UnderSession`: from the session that a downstream thread is in, through the
  kernel and the upstream buffer, to the next record of the source, every event
  comes after its session record or another event of its session. It is stated
  for every connection, old ones included, because their threads go on storing.
* `Guarded`: only a torn connection carries what is garbled, and one that an error
  record is on, being in step, is not dead. Hence `ErrorNotOvertaken`.
* `Lossless`: as long as no fault has happened and no write has waited, a diode's
  connection is as it was made, in step, and nothing asks it for a reply, and what
  upstream has put is in the buffer, on the connection, in the thread's hand or stored.

The premise `~waited` of `DiodeLosesOnlyToFaults` is what remains of the promise:
without it the statement is `DiodeReliable`, which the code does not keep (section 5).

`ComponentProofs` proves three components for all constants:

* `ReplyCovers`: `[]ReplyCoversHandledEvents` of `SimpleSessionWriter`. `NumberCovers`
  is the addition: the number from which a reply will be made covers only what was
  handled in the session in force, also after a handler has thrown.
* `CaptureHeard`: `[]CapturingIsHeard` of `UnixSocket`, for any number of processes. By
  `OneAtATime`, unless two have changed at once, a name in use is that of a
  process that captures, what is about to be unlinked is stale, and whoever is
  connected to another has found the name taken.
* `PeersAreSound`: `[]PeersSound` of `NtpClient`, for any network and number of peers
  and rounds. `Traced` says where every fragment and request under way comes from,
  `AskedEachRound` how often a missing peer has been asked about.

`PacketCaptureProofs` proves, for all four ways to capture, any number of packets, any
size of counter, and any sizes of frames, pages and ring that `GeometryAssumption`
allows (three frames fit into 256 pages, which is more than the default snapshot
length of 256 KiB needs with pages of 4 KiB; a counter starts with a value that it can
hold):

* `ContentKept`: `CaptureSpec => []ContentStable`
* `NothingLostUncounted`: `CaptureSpec => []NothingUnaccounted`
* `LossInTime`: `CaptureSpec => []LossReportedInTime`
* `RingInductive`: `CaptureSpec => []RingInv`, for the first, and `AccountInductive`:
  `CaptureSpec => []AccountInv`, for the others.

`RingInv` adds where the reader is (`ReadersPlace`: between a slot's flag and its last
frame that slot stays the reader's), that the packet in use and every one whose record is
still in the builder are in slots of the reader's (`LastInSlot`), and that no slot has
more frames than fit (`Filled`), so that what was captured of a packet ends within its
slot (`InOneSlot`). `CaptureRecs` says how long a record is: as long as the packet was. `AccountInv` says where everything is that a later
report is made from:

* `RingOrder`: from the slot to read on come the slots handed over and not read, then
  the kernel's, which may have begun to fill the first of them; the one read last may
  still be the reader's and comes at the end. So what is not read yet is in the order
  of its arrival, however often the kernel and the reader have gone round. Without it
  neither "in order" nor "once" survives a step.
* `InOrder`: packets in records and in the buffer are in the order of their arrival,
  there are as many as have come and not been dropped, and before the j-th of them,
  packet number p, p - j have been dropped, of all those that were.
* `ReaderTyped`: read() keeps at most one packet for the next call, and a count only
  between a slot's flag and its frame.
* `Collectable`, for `LossReportedInTime` and hence only while `CountsAll` (the monitor
  takes no counts, counters start at zero and have not wrapped): with a ring all drops
  are in the records, in the hand of the reader or in the kernel (`RingCounts`), and those
  before a packet in a slot that does not say "losing" are no longer in the kernel
  (`RingCollected`); with a queue every packet carries the drops before it (`QueueCounts`);
  a packet that is kept has had them reported (`KeptCounted`).

Each step is shown to do one of four things to the packets: one is added at the end,
one is dropped and counted, one goes from the buffer to the records, or nothing
changes. The counts are sums modulo `Wrap`, so that any of the counters may have
started again. `IdsOf`, `Reported` and `Joined` are recursive functions over sequences;
`StepwiseExists` and `StepwiseSame` give by induction over the natural numbers (as sets
of numbers, without an operator parameter) what they are for every sequence, and
`ReportedAppend`, `IdsAppend`, `JoinedAppend`, `JoinedRotate` and `JoinedTake` what one
more element does to them.

`DataPathProofs` proves two more:

* `OctetsFaithful`: `[]FaithfulStream` of `OctetStream`, for any sizes of buffers and
  blocks. By `Rows` the octets in the buffer, in the call to `file_descriptor::write`
  and in the block behind it are rows of consecutive ones, of which each begins
  where the one before ends, and none begins after what has been sent. This holds
  after waits and failures too, which send octets again but skip none.
  `Undisturbed` has the exact counts as long as there were neither.
* `TimestampsExact`: `[]LeapSecondExact` of `LeapSeconds`, for any number of packets,
  any delay of the reader and any interleaving of its looks at the queue with the
  monitor's steps. `Covered`: the first measurement whose count
  reaches a packet was made at the right time for it (`InTime`); `InHand`: so is the one
  that the monitor has in hand; `Uncovered`: a packet near the
  leap second that none covers yet will be covered by the next, which is due within
  half a second of its arrival. What is left out of it is a packet whose correction was
  `raced`; without that exception it is `RacedExact` (section 5). `TimeAssumption` says that a measurement is at most a
  quarter second late (`Lateness`): together with the half second between
  measurements that is less than the second that the clock repeats, and with half
  a second of lateness the theorem would not hold.

`ForwardThreadsProofs` proves, for any finite set of processes, any sources and
any number of starts, from `ThreadsAssumption`:

* `OneForwarder`: `FairSpec => []ExclusiveThroughKills`
* `NeverTwice`: `FairSpec => []AcceptedOnce`
* `NothingLeft`: `FairSpec => CleanExit`
* `ThreadsInductive`: `FairSpec => []PInv`, from which the others follow.

`ExclusiveThroughKills` speaks of a lock by its holder, but the code takes a lock
by a name: two files could have been locked under the same name one after
another. `PInv` relates the two:

* `Descriptors`: a process has a lock file open exactly while its thread is
  between opening and unlinking it, or is about to lock it.
* `Owners`: a file is locked by one process at most, which has it open; and a
  running thread has its lock.
* `Named`: as long as nothing has been stopped in order, every file that is open
  is the one that has the name. An orderly stop is what breaks it, which is
  `find_lock_exclusive`.
* `Listening`: a source is pending or accepted, never both, and has no thread
  before it is accepted: hence `AcceptedOnce`.
* `Handles`: every thread has its handle in the vector, unless accesses have
  overlapped; `Joined`: what main has passed in its loop has ended. Hence
  `CleanExit`. That a kill empties everything a process had is `Idle`.

Each proof has one lemma per conjunct, and in each one step per action; actions
that leave a conjunct's variables alone are treated together.

The encoding of tlapm for its SMT solver gives `Len` and `Seq` axioms that are meant for
sequences but are asserted of all values. A leaf that speaks of a function with 0 in its domain
and of `<<>>` or `Len` could use that. Every leaf has therefore also been proved
with these axioms restricted to sequences.

Only model-checked, and why:

* liveness (`TimelyDelivered`, `SpoolReleased`, `ErrorHandlingEnds`,
  `EverySourceServed`, `StopCompletes`, `ShutdownCompletes`, `EventsSigned`): it
  depends on fairness and `ENABLED`, which are out of the prover's reach;
* `WrittenIsRead`, `ReadIsExact`, `ParsedExactly`, `FilterExact`, `VariablesExact`,
  `Reconstructible`: they compare what a loop has computed with a definition of
  what it should, on data of any shape, so that each would need an induction of its
  own over its data. `Encodings` has `RECURSIVE` operators, too, and `AddressFilter`
  uses `Bitwise`, about which the prover cannot say anything.

## 5. Where the code and its own words disagree

Each of the first six is a run that TLC finds to violate what is quoted in
`PROJECT.json`.

* **The last records of a spoolfile can be deleted unread**
  (`find_late_flush`). `_begin_spoolfile` creates the new file before the old
  writer's destructor flushes its buffer. No fault is needed.
* **A reset skips the rest of the spoolfile** (`find_reset_skips`). `reset()`
  subtracts one from a number that is two ahead. `NoTimelyLoss` holds in spite of
  it, because a skipped file is not deleted either: its events are forwarded
  after a restart.
* **A failed write ends `horace-capture`** (`find_write_retry`).
  `new_session_writer.h` says of `_write` that it retries; the `catch` destroys
  the session writer, and the retry uses it.
* **A sync over TCP is never answered** (`find_sync_answered`).
  `handle_sync` of a bidirectional `tcp_session_writer` reads the reply from the
  base class before there is one; the exception drops the connection, and the
  same records are sent again without end.
* **Two processes can hold one lock** (`find_lock_exclusive`). A `lockfile` is
  unlocked before it is unlinked, and whatever has the name is unlinked.
* **An octet is sent again after a wait** (`find_octets_resent`). When
  `file_descriptor::write` finds no room, the -1 is added to the pointer.

These are stated in the modules and are refuted by the same means: add the name to
the `INVARIANTS` (`PROPERTIES` for `ErrorAlwaysEnds`) of the module's `.cfg`.

* `SyncedReachesKernel` of `FileSessionWriter`: a sync is acknowledged for
  records that are still in a buffer, since `spoolfile_writer::sync` calls
  `fsync` and does not flush the `file_octet_writer`.
* `NewSpoolfileTakesRecord` of `FileSessionWriter`: with a small `filesize` the
  session record uses up the exemption that two comments promise to the first
  event, and the record is refused for good.
* `DiodeReliable` of `TcpHop`: a diode loses nothing unless something fails. One wait
  for room (`file_descriptor.cc:99`) puts the stream out of step, and the source has
  deleted what follows: `tcp_session_writer.cc` acknowledges it locally. The manual
  page promises no more for a diode (`horace.1:151`), but does not say that a full
  buffer is enough.
* `ErrorAlwaysEnds` of `TcpHop`: a thread downstream that has met an error ends. It
  sends the error, "Check whether a record is readable from the destination endpoint
  (error or warning)" (`horace-forward.cc:112`) is done before the source's `read()` only,
  and a drained spool does not return from that: the error is never noticed, and the
  drain at `tcp_session_reader.cc:43` waits for a connection that nobody closes.
* `ContentUsable` of `PacketCapture`: all that a record refers to stays until the next
  read, as `basic_packet_socket.h:59` says ("The same applies to the packet content").
  `packet_record_builder.h:64` declares `(snaplen, origlen)`, and all callers pass
  these; the definition (`packet_record_builder.cc:24`) has them the other way round.
  So the record of a truncated packet is as long as the packet was on the wire, its end
  is in other frames, which may be the kernel's (`ring_buffer_v3.cc:134` says that
  the "packet content should be constant"), and the attribute `packet_len` has what was
  captured. In `packet_socket.cc:101` and `unix_socket.cc:117` the record goes beyond the
  receive buffer of the socket. TLC shows the ring's case in nine steps.
* `RacedExact` of `LeapSeconds`: every timestamp is exact. `leap_second_corrector.cc:30`
  says of what is left in the queue that "the first of these must necessarily apply to
  the timestamp", but the monitor can push between that loop (`:34`) and the second look
  (`:52`), and then an expired measurement is the reference: a packet is put a second
  off, although every measurement was in time.
* `TimelyDelivered` with a kill of the writer (`MaxKills = 1`): a spoolfile left
  without a session record is skipped but not deleted, its successor is; after a
  restart it is the oldest, and its successor is waited for without end.

Others were met while modelling. The models do what the code does, and the
properties are worded so as not to claim more:

* `reset()` when the spoolfile to open is missing leaves the number two ahead,
  and so on at each failure (`file_session_reader.cc:163`): `MaxNext`.
* `empty()` looks at the IPv4 netblocks only (`address_filter.cc:133`;
  `filter.h:19` promises otherwise): a filter of IPv6 netblocks is never
  attached. `FilterExact` is about a filter that is.
* Frames that arrive between the opening of a socket and the attaching of its
  filter are captured (`horace-capture.cc:200`).
* A syslog version above 1 is recognised and then not recorded, and an hour up to
  59 is accepted (`syslog_parser.cc:317`, `:171`).
* An NTP variable at the very end of the text, with no comma behind it, is not
  recorded (`ntp_peer.cc:19`). After three rounds without an answer a peer is
  null, and `build()` uses it; `PeersSound` says when.
* Two processes that start or stop on one unix socket at the same time can
  unlink each other's (`unix_socket.cc:66`): `raced`.
* Neither end of a TCP connection blocks SIGPIPE, so an error record written to a
  connection that is gone kills the forwarder (`tcp_session_reader.cc:32`):
  `DownKilled`, `killed`.
* A loop that discards left-over alarms takes a SIGTERM along
  (`horace-capture.cc:244`): `Drain`.
* `horace-forward`'s vector of threads is appended to by one thread while another
  iterates over it: `torn`, `Abort`.

## 6. Not modelled

`PROJECT.json` gives the reason for each component. Left out for good:

* hashes, keys, logging, URIs and start-up: wrappers, formatting and wiring;
* BSON and the write concern of the database; DNS beyond "a name is connected to
  in the end"; the arithmetic of the free space checker, whose answer is a choice;
* `read()` of a spoolfile that fails with an error (`spoolfile_reader.cc:22` takes
  the -1 for a count): what is parsed after it is whatever the buffer contains;
* event readers attaching to the leap second monitor's set while it iterates
  (`leap_second_monitor.cc:20`), and an operation of the corrector's queue that is cut
  into by one of the other thread: data races on containers, whose outcomes cannot be
  listed. What is modelled of the queue is the order of its operations;
* what a torn stream is read as: that no octets out of step make a record that was
  not sent is taken for granted. `NothingMisattributed` and `ErrorNotOvertaken` say
  nothing of such records;
* the value of the attribute `packet_len`;
* `new_session_writer` over a destination whose write the termination flag
  interrupts: the hash that was moved into the record is lost with it
  (`new_session_writer.cc:141`);
* receiving of datagrams by the syslog and unix readers, and assembly of the
  clock record, which only copy.

`NewSpoolfileTakesRecord` (`spoolfile_writer.cc:56`, section 5) and the monitor's set are
hazards too; those that a run's property is about are in `PROJECT.json`.

## 7. Plan

Done: the spool, the TCP hop, the threads of both programs, the capture
components, the parsers and encodings. What is left:

1. `VariablesExact` and `Reconstructible`, by an induction like the one for `Reported`.
2. `CapturePipeline` without hashing or signing, and over a TCP destination.
3. The free space checker's hysteresis, and the filestore scanner's order of a
   listing.
