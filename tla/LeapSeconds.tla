----------------------------- MODULE LeapSeconds -----------------------------
(* Timestamps around a leap second: the system clock, which repeats a second,
   the monitor's thread, which measures clock and packet count three times,
   and the reader's thread, which corrects the timestamp of one packet after
   another, however late. The queue of measurements between them has no lock:
   each of its operations is a step, and those of one thread fall between any
   two of the other.

   Time is in quarters of a second from 23:59:59: the leap second is 4..7, the
   next day begins at 8. The clock shows 4 when the day should be over.        *)
EXTENDS Integers, Sequences, SequencesExt

CONSTANTS
    MaxStamps,      \* bound: packets
    EndOfTime,      \* bound: when the model stops the clock
    Lateness,       \* how much later than planned a measurement may be made:
                    \* with the two quarters between them, less than a second
    Uncleared       \* bound: what the uninitialised _packets may contain

ASSUME TimeAssumption ==
    /\ {MaxStamps, EndOfTime, Lateness} \subseteq Nat
    /\ Uncleared \subseteq Nat /\ 0 \in Uncleared
    /\ Lateness <= 1

VARIABLES
    detecting,  \* detect_leap_seconds
    now,        \* true time
    state,      \* of the clock: TIME_INS, TIME_OOP or TIME_WAIT
    stamps,     \* packets in the buffer, with true and recorded time
    kpackets,   \* the kernel's count of packets since it was last read
    packets,    \* _packets
    cleared,    \* what _packets contained at the start
    index,      \* _index
    states,     \* _clock_states
    results,    \* packets read, with true and corrected time
    measured,   \* measurements made by the monitor
    measuring,  \* how far it is with one: "no", "counted", "taken" or "read"
    measurement,\* the one that it has in hand
    due,        \* when the next measurement is planned
    looking     \* how far the reader is with a packet: "no", "expired" or "empty"

clockVars == <<now, state>>
countVars == <<kpackets, packets>>
monitorVars == <<measured, measuring, measurement, due>>
correctorVars == <<index, results, looking>>
leapVars == <<detecting, cleared, clockVars, countVars, monitorVars, correctorVars,
              stamps, states>>

(* What -T and the system's time zone files make of leap seconds: nothing is
   captured when they contradict each other. *)
Valid(asked, detected) ==
    CASE asked = "posix"  -> detected = "posix"
      [] asked = "utc"    -> detected = "posix"
      [] asked = "tai-10" -> detected = "tai-10"
      [] OTHER            -> FALSE
Detects(asked) == asked = "utc"

(* The second before the leap second, the leap second and the day after begin
   with the state that ntpd has asked the kernel for. *)
StateAt(t) == IF t < 4 THEN "INS" ELSE IF t < 8 THEN "OOP" ELSE "WAIT"

Unmeasured == [index |-> 0, time |-> 0, state |-> "INS"]

(* The monitor starts with the program. It waits for 23:59:59.25, or when
   that is past begins at once, until the first second of the day is over. *)
LeapStart ==
    /\ \E asked \in {"posix", "utc", "tai-10", "local"}, detected \in {"posix", "tai-10"} :
          Valid(asked, detected) /\ detecting = Detects(asked)
    /\ now \in -1..8
    /\ state = StateAt(now)
    /\ stamps = <<>> /\ kpackets = 0
    /\ cleared \in Uncleared /\ packets = cleared
    /\ index = 0 /\ states = <<>> /\ results = <<>>
    /\ measured = 0 /\ measuring = "no" /\ measurement = Unmeasured /\ looking = "no"
    /\ due = IF now < 1 THEN 1 ELSE now

-----------------------------------------------------------------------------
(* The clock. *)

Reading == IF state = "INS" THEN now ELSE now - 4

(* The steps of a measurement take less than a quarter second, and none is made
   later than Lateness after the moment planned for it. *)
Punctual ==
    /\ measuring = "no"
    /\ (detecting /\ measured < 3) => now < due + Lateness

(* The second is inserted, and its end noticed, within a quarter second. *)
Applied == ~(now = 4 /\ state = "INS") /\ ~(now = 8 /\ state = "OOP")

Tick ==
    /\ now < EndOfTime
    /\ Punctual /\ Applied
    /\ now' = now + 1
    /\ UNCHANGED <<detecting, cleared, state, countVars, monitorVars, correctorVars,
                   stamps, states>>

Apply ==
    /\ ~Applied
    /\ state' = StateAt(now)
    /\ UNCHANGED <<detecting, cleared, now, countVars, monitorVars, correctorVars,
                   stamps, states>>

-----------------------------------------------------------------------------
Stamp ==
    /\ Len(stamps) + Len(results) < MaxStamps
    /\ stamps' = Append(stamps, [at |-> now, ts |-> Reading])
    /\ kpackets' = kpackets + 1
    /\ UNCHANGED <<detecting, cleared, clockVars, packets, monitorVars, correctorVars,
                   states>>

(* Mutant: the monitor counts what it has read from the kernel this time. *)
CountLatest ==
    /\ packets' = kpackets
    /\ kpackets' = 0
CountPackets ==
    /\ packets' = packets + kpackets
    /\ kpackets' = 0

(* The reader asks for drops, which counts packets too. *)
ReadDrops ==
    /\ looking = "no" /\ stamps # <<>>
    /\ CountPackets
    /\ UNCHANGED <<detecting, cleared, clockVars, monitorVars, correctorVars, stamps,
                   states>>

-----------------------------------------------------------------------------
(* The monitor: it counts, then takes _packets, which is no longer locked, then
   reads the clock, then adds to the queue. *)

Measure1 ==
    /\ detecting /\ measured < 3 /\ measuring = "no"
    /\ now >= due
    /\ CountPackets
    /\ measuring' = "counted"
    /\ UNCHANGED <<detecting, cleared, clockVars, measured, measurement, due,
                   correctorVars, stamps, states>>

TakeIndex ==
    /\ measuring = "counted"
    /\ measurement' = [measurement EXCEPT !.index = packets]
    /\ measuring' = "taken"
    /\ UNCHANGED <<detecting, cleared, clockVars, countVars, measured, due,
                   correctorVars, stamps, states>>

ReadClock ==
    /\ measuring = "taken"
    /\ measurement' = [index |-> measurement.index, time |-> Reading, state |-> state]
    /\ measuring' = "read"
    /\ UNCHANGED <<detecting, cleared, clockVars, countVars, measured, due,
                   correctorVars, stamps, states>>

RecordClockState ==
    /\ measuring = "read"
    /\ states' = Append(states, measurement)
    /\ measurement' = Unmeasured
    /\ measuring' = "no"
    /\ measured' = measured + 1
    /\ due' = now + 2
    /\ UNCHANGED <<detecting, cleared, clockVars, countVars, correctorVars, stamps>>

-----------------------------------------------------------------------------
(* The reader. *)

LastSecond(ts) == ts \in 0..3
FirstSecond(ts) == ts \in 4..7
NearMidnight(ts) == LastSecond(ts) \/ FirstSecond(ts)

(* The true time that an uncorrected timestamp stands for. *)
Plain(ts) == IF LastSecond(ts) \/ ts < 0 THEN ts ELSE ts + 4

(* With the leap second indicator, LastSecond of the day is the leap second;
   FirstSecond is taken back a second first. *)
Indicated(ts) == IF LastSecond(ts) THEN ts + 4 ELSE ts

InLeapSecond(ts, ref) ==
    \/ LastSecond(ts) /\ ref.state = "WAIT"
    \/ LastSecond(ts) /\ ref.state = "OOP" /\ ts <= ref.time
    \/ FirstSecond(ts) /\ ref.state = "OOP" /\ ts > ref.time
    \/ FirstSecond(ts) /\ ref.state = "INS"

Corrected(ts, ref) == IF InLeapSecond(ts, ref) THEN Indicated(ts) ELSE Plain(ts)

Finish(utc, look) ==
    /\ results' = Append(results, [at |-> Head(stamps).at, utc |-> utc, look |-> look])
    /\ stamps' = Tail(stamps)

PassOn ==
    /\ ~detecting /\ stamps # <<>>
    /\ Finish(Plain(Head(stamps).ts), "clean")
    /\ UNCHANGED <<detecting, cleared, clockVars, countVars, monitorVars, index,
                   looking, states>>

(* Expired measurements are taken from the front: what is left, now, begins with
   one made after this packet had arrived. *)
Expired(n) == \A i \in 1..n : states[i].index <= index
Expire ==
    /\ detecting /\ looking = "no" /\ stamps # <<>>
    /\ index' = index + 1
    /\ \E n \in 0..Len(states) :
          /\ Expired(n) /\ (n < Len(states) => states[n + 1].index > index)
          /\ states' = SubSeq(states, n + 1, Len(states))
    /\ looking' = "expired"
    /\ UNCHANGED <<detecting, cleared, clockVars, countVars, monitorVars, results,
                   stamps>>

(* The queue is looked at again for the reference: what is now at its front may
   have been added since, and expired already. *)
Correct ==
    /\ looking = "expired"
    /\ \/ /\ ~NearMidnight(Head(stamps).ts)
          /\ Finish(Plain(Head(stamps).ts), "clean")
       \/ /\ NearMidnight(Head(stamps).ts) /\ states # <<>>
          /\ Finish(Corrected(Head(stamps).ts, Head(states)),
                     IF Head(states).index < index THEN "raced" ELSE "clean")
    /\ looking' = "no"
    /\ UNCHANGED <<detecting, cleared, clockVars, countVars, monitorVars, index,
                   states>>

(* An empty queue is followed by a look at the clock, when it need not be empty
   any longer. *)
FindEmpty ==
    /\ looking = "expired" /\ NearMidnight(Head(stamps).ts) /\ states = <<>>
    /\ looking' = "empty"
    /\ UNCHANGED <<detecting, cleared, clockVars, countVars, monitorVars, index,
                   results, stamps, states>>

CorrectByClock ==
    /\ looking = "empty"
    /\ Finish(Corrected(Head(stamps).ts, [time |-> Reading, state |-> state]),
               IF \E i \in 1..Len(states) : states[i].index >= index
               THEN "raced" ELSE "clean")
    /\ looking' = "no"
    /\ UNCHANGED <<detecting, cleared, clockVars, countVars, monitorVars, index,
                   states>>

LeapNext ==
    \/ Tick \/ Apply \/ Stamp
    \/ ReadDrops \/ PassOn \/ Expire \/ Correct \/ FindEmpty \/ CorrectByClock
    \/ Measure1 \/ TakeIndex \/ ReadClock \/ RecordClockState

LeapSpec == LeapStart /\ [][LeapNext]_leapVars

-----------------------------------------------------------------------------
(* However late it is read, a packet is recorded at the time it arrived, leap
   second included, as long as the monitor's measurements are made in time, the
   count they are matched by began at zero, and nothing that reached the queue
   between the reader's looks at it misled the reader: an expired measurement
   that came to its front, or one for this packet after it was found empty. *)
ResultsExact ==
    \A i \in DOMAIN results : results[i].look = "clean" => results[i].utc = results[i].at
LeapSecondExact == detecting /\ cleared = 0 => ResultsExact

(* What the corrector's comments say: whatever is left in the queue "must
   necessarily apply to the timestamp" (leap_second_corrector.cc:30-33), and less
   than a second from it "the correct outcome is assured" (:73-75). It is not when
   a measurement is added between the two looks at the queue.                 *)
RacedExact ==
    detecting /\ cleared = 0 => \A i \in DOMAIN results : results[i].utc = results[i].at

(* What LeapSecondExact rests on. The count that goes with a measurement is of
   packets that had arrived; a packet near the leap second that no measurement
   covers yet is one that the next will cover in time, and the one in hand does. *)
Stamps == [at : Int, ts : Int]
ClockStates == [index : Nat, time : Int, state : {"INS", "OOP", "WAIT"}]
LeapTyped ==
    /\ now \in Int /\ state \in {"INS", "OOP", "WAIT"}
    /\ state = "INS" => now <= 4
    /\ state = "OOP" => now \in 4..8
    /\ state = "WAIT" => now >= 8
    /\ stamps \in Seq(Stamps) /\ states \in Seq(ClockStates)
    /\ {kpackets, packets, index} \subseteq Nat
    /\ results \in Seq([at : Int, utc : Int, look : {"clean", "raced"}])
    /\ measured \in 0..3 /\ due \in Int
    /\ measuring \in {"no", "counted", "taken", "read"} /\ measurement \in ClockStates
    /\ looking \in {"no", "expired", "empty"}
    /\ looking # "no" => stamps # <<>> /\ index > 0

TrueTime(s) == IF s.state = "INS" THEN s.time ELSE s.time + 4
Stamped(p) ==
    /\ p.at <= now
    /\ \/ p.ts = p.at /\ p.at <= 4
       \/ p.ts = p.at - 4 /\ p.at >= 4 /\ state # "INS"
Risky(p) == p.ts = p.at /\ p.at >= 0
InTime(p, s) ==
    /\ p.at <= TrueTime(s)
    /\ s.state = "INS" => p.ts = p.at /\ s.time <= 4
    /\ s.state = "OOP" => s.time \in 0..4
    /\ s.state = "WAIT" => s.time >= 4
    /\ Risky(p) => TrueTime(s) - p.at < 4
Covers(i, n) ==
    states[i].index >= n /\ (i = 1 \/ states[i - 1].index < n)

\* The packets read before those in stamps, and those a measurement counts.
Before == IF looking = "no" THEN index ELSE index - 1
Tally == IF measuring = "counted" THEN packets ELSE measurement.index
NoneCovers(j) == \A i \in 1..Len(states) : states[i].index < Before + j

Counted ==
    /\ Before + Len(stamps) = packets + kpackets
    /\ \A i \in 1..Len(states) : states[i].index <= packets
    /\ \A k \in 1..Len(states) : \A i \in 1..k : states[i].index <= states[k].index
InHand ==
    /\ measuring # "no" =>
          \A j \in 1..Len(stamps) : Before + j > Tally => stamps[j].at = now
    /\ measuring \in {"taken", "read"} =>
          /\ measurement.index <= packets
          /\ \A i \in 1..Len(states) : states[i].index <= measurement.index
    /\ measuring = "read" =>
          \A j \in 1..Len(stamps) :
              (NoneCovers(j) /\ Before + j <= measurement.index)
                  => InTime(stamps[j], measurement)
Planned ==
    /\ 1 + 2 * measured <= due /\ due <= now + 2
    /\ measured < 3 => now <= due + Lateness
    /\ measuring # "no" => measured < 3 /\ now >= due
AllStamped == \A j \in 1..Len(stamps) : Stamped(stamps[j])
Uncovered ==
    \A j \in 1..Len(stamps) :
        (NoneCovers(j) /\ Risky(stamps[j]))
            => measured < 3 /\ due <= stamps[j].at + 2
Covered ==
    \A j \in 1..Len(stamps), i \in 1..Len(states) :
        Covers(i, Before + j) => InTime(stamps[j], states[i])
OnTrack ==
    LeapTyped /\ AllStamped /\ Counted /\ InHand /\ Planned /\ Uncovered /\ Covered
    /\ ResultsExact
LeapInv == detecting /\ cleared = 0 => OnTrack
=============================================================================
