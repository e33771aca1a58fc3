---------------------------- MODULE AddressFilter ----------------------------
(* The filter that horace-capture -x attaches to its packet sockets: the list
   of netblocks, the program compiled from it and kept, and what the kernel
   makes of that program for each frame.

   A word is of MaskBits bits; an IPv6 address is four of them. The octets of a
   frame are known by the offsets that the program loads them from.            *)
EXTENDS Integers, Sequences, SequencesExt, Bitwise

CONSTANTS
    MaskBits,       \* bits of a word: an IPv4 address, a quarter of an IPv6 one
    JumpSize,       \* how far a jump reaches, and one more
    Blocks4,        \* netblocks, of a prefix (one word) and a length
    Blocks6,        \* netblocks, of a prefix (four words) and a length
    Addresses6,     \* IPv6 addresses that occur in frames
    MaxBlocks       \* bound: -x options of each kind

ASSUME FilterAssumption == {MaskBits, JumpSize} \subseteq Nat \ {0} /\ MaxBlocks \in Nat

VARIABLES
    inet4_netblocks, inet6_netblocks,   \* the lists
    modified,   \* _modified
    fprog,      \* _fprog, a sequence of instructions
    socket,     \* "options", "none", "open", "filtered", or "ended" (thrown)
    received    \* the frame received last, whether filtered, and its fate

filterVars == <<inet4_netblocks, inet6_netblocks, modified, fprog, socket, received>>

NoFrame == [type |-> 0, src |-> <<0>>, dst |-> <<0>>, filtered |-> FALSE, taken |-> TRUE]

FilterStart ==
    /\ inet4_netblocks = <<>> /\ inet6_netblocks = <<>>
    /\ modified = TRUE /\ fprog = <<>>
    /\ socket = "options" /\ received = NoFrame

-----------------------------------------------------------------------------
(* The instructions. *)

Load(k) == [op |-> "ld", k |-> k, jt |-> 0, jf |-> 0]
AndWith(k) == [op |-> "and", k |-> k, jt |-> 0, jf |-> 0]
JumpIfEqual(jt, jf, k) == [op |-> "jeq", k |-> k, jt |-> jt, jf |-> jf]
Return(k) == [op |-> "ret", k |-> k, jt |-> 0, jf |-> 0]

(* -(1UL << n), cut to a word. *)
UpperBits(n) == (-(2 ^ n)) % 2 ^ MaskBits

ipv6_mask(index, len) ==
    CASE index >= len             -> 0
      [] index + MaskBits <= len  -> 2 ^ MaskBits - 1
      [] OTHER                    -> UpperBits(index + MaskBits - len)

Test4(offset, nb) ==
    <<Load(offset)>>
    \o (IF nb.length # MaskBits THEN <<AndWith(UpperBits(MaskBits - nb.length))>> ELSE <<>>)
    \o <<JumpIfEqual(0, 1, nb.prefix), Return(0)>>

Test6(offset, nb) ==
    FlattenSeq([i \in 1..4 |->
        <<Load(offset + 4 * (i - 1)), AndWith(ipv6_mask((i - 1) * MaskBits, nb.length)),
          JumpIfEqual(0, 10 - 3 * (i - 1), nb.prefix[i])>>])
    \o <<Return(0)>>

Each(Test(_, _), offset, blocks) ==
    FlattenSeq([i \in DOMAIN blocks |-> Test(offset, blocks[i])])

inet4_count ==
    6 * Len(inet4_netblocks) + 1
    + 2 * Len(SelectSeq(inet4_netblocks, LAMBDA nb : nb.length # MaskBits))

(* Mutant: the jump is taken to reach one instruction further. *)
TooManyByOne == inet4_count > JumpSize - 1
TooMany == 1 + inet4_count > JumpSize - 1

Compiled ==
    <<Load(12), JumpIfEqual(2, 0, 4), JumpIfEqual((1 + inet4_count) % JumpSize, 0, 6),
      Return(1)>>
    \o Each(Test4, 26, inet4_netblocks) \o Each(Test4, 30, inet4_netblocks) \o <<Return(1)>>
    \o Each(Test6, 22, inet6_netblocks) \o Each(Test6, 38, inet6_netblocks) \o <<Return(1)>>

-----------------------------------------------------------------------------
(* What the kernel does with a program. *)

FrameWord(f, k) ==
    CASE k = 12                     -> f.type
      [] f.type = 4 /\ k = 26       -> f.src[1]
      [] f.type = 4 /\ k = 30       -> f.dst[1]
      [] f.type = 6 /\ k \in 22..34 -> f.src[(k - 22) \div 4 + 1]
      [] f.type = 6 /\ k \in 38..50 -> f.dst[(k - 38) \div 4 + 1]
      [] OTHER                      -> 0

Accepts(program, f) ==
    LET run[pc \in 1..Len(program), a \in Nat] ==
            LET i == program[pc]
            IN  CASE i.op = "ld"  -> run[pc + 1, FrameWord(f, i.k)]
                  [] i.op = "and" -> run[pc + 1, a & i.k]
                  [] i.op = "jeq" -> run[pc + 1 + (IF a = i.k THEN i.jt ELSE i.jf), a]
                  [] i.op = "ret" -> i.k = 1
    IN  run[1, 0]

Addresses4 == {<<a>> : a \in 0..(2 ^ MaskBits - 1)}
Frames ==
    [type : {4}, src : Addresses4, dst : Addresses4]
    \cup [type : {6}, src : Addresses6, dst : Addresses6]
    \cup [type : {0}, src : {<<0>>}, dst : {<<0>>}]

-----------------------------------------------------------------------------
(* The options come before the first socket. *)
Exclude ==
    /\ socket = "options"
    /\ \/ /\ Len(inet4_netblocks) < MaxBlocks
          /\ \E nb \in Blocks4 : inet4_netblocks' = Append(inet4_netblocks, nb)
          /\ UNCHANGED inet6_netblocks
       \/ /\ Len(inet6_netblocks) < MaxBlocks
          /\ \E nb \in Blocks6 : inet6_netblocks' = Append(inet6_netblocks, nb)
          /\ UNCHANGED inet4_netblocks
    /\ UNCHANGED <<modified, fprog, socket, received>>

OpenSocket ==
    /\ socket \in {"options", "none"}
    /\ socket' = "open"
    /\ UNCHANGED <<inet4_netblocks, inet6_netblocks, modified, fprog, received>>

Empty == inet4_netblocks = <<>>

Attach ==
    /\ socket = "open" /\ ~Empty
    /\ ~(modified /\ TooMany)
    /\ fprog' = IF modified THEN Compiled ELSE fprog
    /\ modified' = FALSE
    /\ socket' = "filtered"
    /\ UNCHANGED <<inet4_netblocks, inet6_netblocks, received>>

CompileThrows ==
    /\ socket = "open" /\ ~Empty
    /\ modified /\ TooMany
    /\ socket' = "ended"
    /\ UNCHANGED <<inet4_netblocks, inet6_netblocks, modified, fprog, received>>

(* From when it is opened a socket takes all frames, until it is filtered. *)
ReceiveFrame ==
    /\ socket \in {"open", "filtered"}
    /\ \E f \in Frames :
          received' = [type |-> f.type, src |-> f.src, dst |-> f.dst,
                    filtered |-> socket = "filtered",
                    taken |-> socket = "open" \/ Accepts(fprog, f)]
    /\ UNCHANGED <<inet4_netblocks, inet6_netblocks, modified, fprog, socket>>

(* For the next source endpoint, or after capture has been suspended. *)
CloseSocket ==
    /\ socket = "filtered" \/ (socket = "open" /\ Empty)
    /\ socket' = "none"
    /\ received' = NoFrame
    /\ UNCHANGED <<inet4_netblocks, inet6_netblocks, modified, fprog>>

FilterNext ==
    \/ Exclude \/ OpenSocket \/ Attach \/ CompileThrows \/ ReceiveFrame \/ CloseSocket

-----------------------------------------------------------------------------
AsNumber(words) == FoldLeft(LAMBDA n, w : n * 2 ^ MaskBits + w, 0, words)

(* The network of that length which the address belongs to is the netblock's. *)
Within(address, prefix, len) ==
    LET size == 2 ^ (MaskBits * Len(address) - len)
    IN  AsNumber(address) - (AsNumber(address) % size) = AsNumber(prefix)

Excluded(f) ==
    \E address \in {f.src, f.dst} :
        \/ f.type = 4 /\ \E i \in DOMAIN inet4_netblocks :
              LET nb == inet4_netblocks[i] IN Within(address, <<nb.prefix>>, nb.length)
        \/ f.type = 6 /\ \E i \in DOMAIN inet6_netblocks :
              LET nb == inet6_netblocks[i] IN Within(address, nb.prefix, nb.length)

(* Once the filter is attached, a frame is captured exactly if neither of its
   addresses is in an excluded netblock, for every list of netblocks that is not
   refused: whatever their lengths, and as far as the jumps of the program reach.
   A netblock with bits set beyond its length has no addresses.               *)
FilterExact == received.filtered => (received.taken <=> ~Excluded(received))
=============================================================================
