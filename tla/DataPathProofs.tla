--------------------------- MODULE DataPathProofs ---------------------------
(***************************************************************************)
(* Proofs about the streams of octets to and from descriptors, and about   *)
(* the timestamps of packets around a leap second.                         *)
(***************************************************************************)
EXTENDS OctetStream, LeapSeconds, SequenceTheorems, TLAPS

-----------------------------------------------------------------------------
(* OctetStream.                                                             *)

\* An octet that may come next may be followed by an earlier one.
LEMMA AfterEarlier ==
  ASSUME NEW octs, NEW n \in Nat, \A i \in 1..n : octs[i] \in Int,
         NEW o \in Int, NEW p \in Int, p <= o, After(octs, n, o)
  PROVE  After(octs, n, p)
BY DEF After

\* What may come next depends on the octets before only.
LEMMA AfterSame ==
  ASSUME NEW s, NEW t, NEW n \in Nat, \A i \in 1..n : t[i] = s[i], NEW o,
         After(s, n, o)
  PROVE  After(t, n, o)
<1>1. SUFFICES ASSUME o > 1
               PROVE  \E i \in 1..n : /\ t[i] # 0 /\ t[i] >= o - 1
                                      /\ \A k \in (i + 1)..n : t[k] = 0
  BY DEF After
<1>2. PICK i \in 1..n : /\ s[i] # 0 /\ s[i] >= o - 1
                        /\ \A k \in (i + 1)..n : s[k] = 0
  BY <1>1 DEF After
<1>3. \A k \in (i + 1)..n : k \in 1..n
  OBVIOUS
<1>4. t[i] # 0 /\ t[i] >= o - 1
  BY <1>2
<1>5. \A k \in (i + 1)..n : t[k] = 0
  BY <1>2, <1>3
<1>6. QED
  BY <1>4, <1>5

\* Unknown octets do not change what may come next.
LEMMA AfterUnknown ==
  ASSUME NEW t, NEW l \in Nat, NEW m \in Nat, NEW o, After(t, l, o),
         \A k \in 1..m : t[l + k] = 0
  PROVE  After(t, l + m, o)
<1>1. SUFFICES ASSUME o > 1
               PROVE  \E i \in 1..(l + m) :
                         /\ t[i] # 0 /\ t[i] >= o - 1
                         /\ \A k \in (i + 1)..(l + m) : t[k] = 0
  BY DEF After
<1>2. PICK i \in 1..l : /\ t[i] # 0 /\ t[i] >= o - 1
                        /\ \A k \in (i + 1)..l : t[k] = 0
  BY <1>1 DEF After
<1>3. ASSUME NEW k \in (i + 1)..(l + m) PROVE t[k] = 0
  <2>1. CASE k <= l
    BY <1>2, <2>1
  <2>2. CASE k > l
    <3>1. k - l \in 1..m /\ l + (k - l) = k
      BY <2>2
    <3>2. QED
      BY <3>1
  <2>3. QED
    BY <2>1, <2>2
<1>4. i \in 1..(l + m)
  OBVIOUS
<1>5. QED
  BY <1>2, <1>3, <1>4

\* The kernel takes m octets of a row that begins behind b, of which some that
\* precede the row are unknown when a < 0: nothing is skipped within them, and
\* what the row continues with may come next.
LEMMA RowTaken ==
  ASSUME NEW t, NEW l \in Nat, NEW m \in Nat, NEW b \in Nat, NEW a \in Int,
         \A k \in 1..m : t[l + k] = IF a + k > 0 THEN b + a + k ELSE 0,
         After(t, l, b + (IF a > 0 THEN a ELSE 0) + 1)
  PROVE  After(t, l + m, b + (IF a + m > 0 THEN a + m ELSE 0) + 1)
<1>1. CASE m = 0
  <2>1. l + m = l /\ a + m = a
    BY <1>1
  <2>2. QED
    BY <2>1
<1>2. CASE m > 0 /\ a + m > 0
  <2>1. m \in 1..m /\ t[l + m] = b + a + m
    BY <1>2
  <2>2. (IF a + m > 0 THEN a + m ELSE 0) = a + m
    BY <1>2
  <2>3. l + m \in 1..(l + m) /\ t[l + m] # 0 /\ t[l + m] >= (b + (a + m) + 1) - 1
    BY <1>2, <2>1
  <2>4. \A k \in (l + m + 1)..(l + m) : t[k] = 0
    OBVIOUS
  <2>5. After(t, l + m, b + (a + m) + 1)
    BY <2>3, <2>4 DEF After
  <2>6. QED
    BY <2>2, <2>5
<1>3. CASE m > 0 /\ ~(a + m > 0)
  <2>1. ~(a > 0) /\ \A k \in 1..m : ~(a + k > 0)
    BY <1>3
  <2>2. \A k \in 1..m : t[l + k] = 0
    BY <2>1
  <2>3. After(t, l, b + 0 + 1)
    BY <2>1
  <2>4. After(t, l + m, b + 0 + 1)
    BY <2>2, <2>3, AfterUnknown
  <2>5. QED
    BY <1>3, <2>4
<1>4. QED
  BY <1>1, <1>2, <1>3

LEMMA RowIsSent ==
  ASSUME NEW s \in Seq(Nat), NEW more \in Seq(Nat), NEW b \in Nat, NEW a \in Int,
         \A k \in 1..Len(more) : more[k] = IF a + k > 0 THEN b + a + k ELSE 0,
         After(s, Len(s), b + (IF a > 0 THEN a ELSE 0) + 1),
         \A j \in DOMAIN s : After(s, j - 1, s[j])
  PROVE  /\ \A j \in DOMAIN (s \o more) : After(s \o more, j - 1, (s \o more)[j])
         /\ After(s \o more, Len(s \o more),
                  b + (IF a + Len(more) > 0 THEN a + Len(more) ELSE 0) + 1)
<1> DEFINE t == s \o more
<1>1. PICK l \in Nat : l = Len(s)
  OBVIOUS
<1>2. PICK m \in Nat : m = Len(more)
  OBVIOUS
<1>3. /\ t \in Seq(Nat) /\ Len(t) = l + m
      /\ \A i \in 1..(l + m) : t[i] = IF i <= l THEN s[i] ELSE more[i - l]
  BY <1>1, <1>2, ConcatProperties
<1>4. DOMAIN t = 1..(l + m) /\ DOMAIN s = 1..l
  BY <1>1, <1>3, LenProperties
<1> HIDE DEF t
<1>5. \A i \in 1..l : t[i] = s[i]
  BY <1>3
<1>6. ASSUME NEW k \in 1..m PROVE t[l + k] = IF a + k > 0 THEN b + a + k ELSE 0
  <2>1. l + k \in 1..(l + m) /\ ~(l + k <= l) /\ (l + k) - l = k
    OBVIOUS
  <2>2. t[l + k] = more[k]
    BY <1>3, <2>1
  <2>3. more[k] = IF a + k > 0 THEN b + a + k ELSE 0
    BY <1>2
  <2>4. QED
    BY <2>2, <2>3
<1>7. After(t, l, b + (IF a > 0 THEN a ELSE 0) + 1)
  <2>1. After(s, l, b + (IF a > 0 THEN a ELSE 0) + 1)
    BY <1>1
  <2>2. QED
    BY <1>5, <2>1, AfterSame
<1>8. ASSUME NEW k \in 0..m
      PROVE  After(t, l + k, b + (IF a + k > 0 THEN a + k ELSE 0) + 1)
  <2>1. ASSUME NEW i \in 1..k
        PROVE  t[l + i] = IF a + i > 0 THEN b + a + i ELSE 0
    <3>1. i \in 1..m
      OBVIOUS
    <3>2. QED
      BY <1>6, <3>1
  <2>2. k \in Nat
    OBVIOUS
  <2>3. QED
    BY ONLY <1>7, <2>1, <2>2, RowTaken, l \in Nat, b \in Nat, a \in Int
<1>9. ASSUME NEW j \in 1..(l + m) PROVE After(t, j - 1, t[j])
  <2>1. CASE j <= l
    <3>1. j \in 1..l
      BY <2>1
    <3>a. After(s, j - 1, s[j]) /\ t[j] = s[j]
      BY <1>4, <1>5, <3>1
    <3>2. j - 1 \in Nat /\ \A i \in 1..(j - 1) : t[i] = s[i]
      BY <1>5, <2>1
    <3>3. QED
      BY <3>a, <3>2, AfterSame
  <2>2. CASE j > l
    <3>1. PICK k \in 1..m : j = l + k
      <4>1. j - l \in 1..m /\ j = l + (j - l)
        BY <2>2
      <4>2. QED
        BY <4>1
    <3>2. CASE a + k > 0
      <4>1. k - 1 \in 0..m /\ l + (k - 1) = j - 1
        BY <3>1
      <4>2. b + (IF a + (k - 1) > 0 THEN a + (k - 1) ELSE 0) + 1 = b + a + k
        BY <3>2
      <4>3. t[j] = b + a + k
        BY <1>6, <3>1, <3>2
      <4>4. After(t, l + (k - 1), b + (IF a + (k - 1) > 0 THEN a + (k - 1) ELSE 0) + 1)
        BY <1>8, <4>1
      <4>5. QED
        BY <4>1, <4>2, <4>3, <4>4
    <3>3. CASE ~(a + k > 0)
      <4>1. t[j] = 0
        BY <1>6, <3>1, <3>3
      <4>2. QED
        BY <4>1 DEF After
    <3>4. QED
      BY <3>2, <3>3
  <2>3. QED
    BY <2>1, <2>2
<1>10. After(t, l + m, b + (IF a + m > 0 THEN a + m ELSE 0) + 1)
  <2>1. m \in 0..m
    OBVIOUS
  <2>2. QED
    BY <1>8, <2>1
<1>11. QED
  BY <1>2, <1>3, <1>4, <1>9, <1>10 DEF t

\* A row that is continued is a row.
LEMMA RowGrows ==
  ASSUME NEW s \in Seq(Nat), NEW more \in Seq(Nat), NEW b \in Int, Row(s, b),
         Row(more, b + Len(s))
  PROVE  /\ s \o more \in Seq(Nat) /\ Len(s \o more) = Len(s) + Len(more)
         /\ Row(s \o more, b)
<1> DEFINE t == s \o more
<1>1. PICK l \in Nat : l = Len(s)
  OBVIOUS
<1>2. PICK m \in Nat : m = Len(more)
  OBVIOUS
<1>3. /\ t \in Seq(Nat) /\ Len(t) = l + m
      /\ \A i \in 1..(l + m) : t[i] = IF i <= l THEN s[i] ELSE more[i - l]
  BY <1>1, <1>2, ConcatProperties
<1> HIDE DEF t
<1>4. (\A k \in 1..l : s[k] = b + k) /\ (\A k \in 1..m : more[k] = b + l + k)
  BY <1>1, <1>2 DEF Row
<1>5. ASSUME NEW i \in 1..(l + m) PROVE t[i] = b + i
  <2>1. CASE i <= l
    <3>1. i \in 1..l /\ t[i] = s[i]
      BY <1>3, <2>1
    <3>2. QED
      BY <1>4, <3>1
  <2>2. CASE i > l
    <3>1. i - l \in 1..m /\ b + l + (i - l) = b + i
      BY <2>2
    <3>2. t[i] = more[i - l]
      BY <1>3, <2>2
    <3>3. QED
      BY <1>4, <3>1, <3>2
  <2>3. QED
    BY <2>1, <2>2
<1>6. QED
  BY <1>1, <1>2, <1>3, <1>5 DEF t, Row

\* A block of consecutive octets is a sequence.
LEMMA BlockIsRow ==
  ASSUME NEW n \in Nat, NEW b \in Nat
  PROVE  LET octs == [k \in 1..n |-> b + k] IN
         octs \in Seq(Nat) /\ Len(octs) = n /\ Row(octs, b)
<1> DEFINE octs == [k \in 1..n |-> b + k]
<1>1. octs \in Seq(Nat)
  OBVIOUS
<1>2. Len(octs) = n
  <2>1. DOMAIN octs = 1..Len(octs) /\ Len(octs) \in Nat
    BY <1>1, LenProperties
  <2>2. 1..Len(octs) = 1..n
    BY <2>1
  <2>3. QED
    BY <2>1, <2>2
<1>3. Row(octs, b)
  BY <1>2 DEF Row
<1>4. QED
  BY <1>1, <1>2, <1>3

LEMMA RowEmpty == \A b : Row(<<>>, b)
BY DEF Row

\* Where file_descriptor::write takes n octets from, and what the kernel then
\* has. The octets that it is given are the row that begins behind b.
LEMMA KernelSends ==
  ASSUME StreamTyped, NothingSkipped, NEW b \in Nat, Row(direct, b),
         Sendable(b + Gone + 1),
         NEW n \in Nat, n > 0, n <= Len(direct) - at,
         sent' = sent \o [k \in 1..n |-> Memory(at + k)]
  PROVE  /\ sent' \in Seq(Nat) /\ Len(sent') = Len(sent) + n
         /\ NothingSkipped'
         /\ After(sent', Len(sent'), b + (IF at + n > 0 THEN at + n ELSE 0) + 1)
         /\ at >= 0 /\ Row(sent, 0) /\ Len(sent) = b + at => Row(sent', 0)
         /\ SubSeq(sent', 1, taken) = SubSeq(sent, 1, taken)
<1> DEFINE more == [k \in 1..n |-> Memory(at + k)]
<1>1. /\ at \in Int /\ taken \in Nat /\ taken <= Len(sent)
      /\ direct \in Seq(Nat) /\ sent \in Seq(Nat)
  BY DEF StreamTyped
<1>2. DOMAIN direct = 1..Len(direct) /\ Len(direct) \in Nat
  BY <1>1, LenProperties
<1>3. ASSUME NEW k \in 1..n
      PROVE  Memory(at + k) = (IF at + k > 0 THEN b + at + k ELSE 0)
  <2>1. CASE at + k > 0
    <3>1. at + k \in 1..Len(direct)
      BY <1>1, <1>2, <2>1
    <3>2. direct[at + k] = b + (at + k)
      BY <3>1 DEF Row
    <3>3. QED
      BY <1>1, <1>2, <2>1, <3>1, <3>2 DEF Memory
  <2>2. CASE ~(at + k > 0)
    <3>1. ~(at + k \in 1..Len(direct))
      BY <1>1, <1>2, <2>2
    <3>2. QED
      BY <1>2, <2>2, <3>1 DEF Memory
  <2>3. QED
    BY <2>1, <2>2
<1>4. ASSUME NEW k \in 1..n PROVE Memory(at + k) \in Nat
  <2>1. \A i \in 1..Len(direct) : direct[i] \in Nat
    BY <1>1, ElementOfSeq
  <2>2. QED
    BY <1>2, <2>1 DEF Memory
<1>5. more \in Seq(Nat)
  BY <1>4
<1>6. Len(more) = n
  <2>1. DOMAIN more = 1..Len(more) /\ Len(more) \in Nat
    BY <1>5, LenProperties
  <2>2. 1..Len(more) = 1..n
    BY <2>1
  <2>3. QED
    BY <2>1, <2>2
<1>7. \A k \in 1..n : more[k] = IF at + k > 0 THEN b + at + k ELSE 0
  BY <1>3
<1>8. sent' = sent \o more
  OBVIOUS
<1> HIDE DEF more
<1>9. /\ \A j \in DOMAIN sent' : After(sent', j - 1, sent'[j])
      /\ After(sent', Len(sent'), b + (IF at + n > 0 THEN at + n ELSE 0) + 1)
  <2>1. \A k \in 1..Len(more) : more[k] = IF at + k > 0 THEN b + at + k ELSE 0
    BY <1>6, <1>7
  <2>2. After(sent, Len(sent), b + (IF at > 0 THEN at ELSE 0) + 1)
    BY DEF Sendable, Gone
  <2>3. \A j \in DOMAIN sent : After(sent, j - 1, sent[j])
    BY DEF NothingSkipped
  <2>4. QED
    BY <1>1, <1>5, <1>6, <1>8, <2>1, <2>2, <2>3, RowIsSent
<1>10. sent' \in Seq(Nat) /\ Len(sent') = Len(sent) + n
  <2>1. sent \o more \in Seq(Nat) /\ Len(sent \o more) = Len(sent) + Len(more)
    BY <1>1, <1>5, ConcatProperties, Zenon
  <2>2. QED
    BY <1>6, <1>8, <2>1
<1>11. ASSUME at >= 0, Row(sent, 0), Len(sent) = b + at
       PROVE  Row(sent', 0)
  <2>1. ASSUME NEW k \in 1..n PROVE more[k] = 0 + Len(sent) + k
    BY <1>1, <1>7, <1>11
  <2>2. Row(more, 0 + Len(sent))
    BY <1>6, <2>1 DEF Row
  <2>3. Row(sent \o more, 0)
    BY ONLY <1>1, <1>5, <1>11, <2>2, RowGrows, 0 \in Int, Zenon
  <2>4. QED
    BY <1>8, <2>3
<1>12. SubSeq(sent', 1, taken) = SubSeq(sent, 1, taken)
  <2>1. CASE taken = 0
    BY <2>1, SubSeqEmpty
  <2>2. CASE taken # 0
    <3>1. 1 \in 1..Len(sent) /\ taken \in 1..Len(sent)
      BY <1>1, <2>2
    <3>2. QED
      BY <1>1, <1>5, <1>8, <3>1, SubSeqOfConcat1
  <2>3. QED
    BY <2>1, <2>2
<1>13. QED
  BY <1>9, <1>10, <1>11, <1>12 DEF NothingSkipped

LEMMA StreamBegins == StreamStart => StreamInv
<1> SUFFICES ASSUME StreamStart PROVE StreamInv
  OBVIOUS
<1>1. <<>> \in Seq(Nat) /\ Len(<<>>) = 0
  OBVIOUS
<1>2. StreamTyped
  <2>1. /\ given = 0 /\ waits = 0 /\ taken = 0 /\ wanted = 0 /\ at = 0
        /\ failed = FALSE /\ wpc = "idle"
        /\ wbuf = <<>> /\ direct = <<>> /\ block = <<>> /\ sent = <<>>
        /\ rbuf = <<>> /\ partial = <<>> /\ got = <<>>
    BY DEF StreamStart
  <2>2. Len(sent) = 0
    BY <1>1, <2>1
  <2>a. failed \in BOOLEAN
    BY <2>1, Zenon
  <2>3. /\ at \in Int
        /\ wpc \in {"idle", "writing", "flushing", "closing", "thrown", "closed"}
        /\ {given, waits, taken, wanted} \subseteq Nat /\ taken <= Len(sent)
    BY <2>1, <2>2
  <2>4. {wbuf, direct, block, sent} \subseteq Seq(Nat)
    BY <1>1, <2>1, Zenon
  <2>5. {rbuf, partial, got} \subseteq Seq(Nat)
    BY <1>1, <2>1, Zenon
  <2>6. QED
    BY <2>a, <2>3, <2>4, <2>5 DEF StreamTyped
<1>3. Rows
  BY <1>1, RowEmpty DEF StreamStart, Rows, Ahead, Sendable, After, Busy
<1>4. Undisturbed
  <2>1. /\ given = 0 /\ at = 0 /\ wpc = "idle"
        /\ Len(wbuf) = 0 /\ Len(block) = 0 /\ Len(sent) = 0
    BY <1>1, Zenon DEF StreamStart
  <2>2. Row(sent, 0)
    BY RowEmpty DEF StreamStart
  <2>3. QED
    BY <2>1, <2>2 DEF Undisturbed, Ahead
<1>5. NothingSkipped
  BY DEF StreamStart, NothingSkipped
<1>6. ReadInOrder
  BY SubSeqEmpty, ConcatEmptySeq DEF StreamStart, ReadInOrder
<1>7. QED
  BY <1>2, <1>3, <1>4, <1>5, <1>6 DEF StreamInv

\* What the kernel has stays in order while the writer only moves octets.
LEMMA KernelUntouched ==
  ASSUME StreamInv, UNCHANGED <<sent, taken, readerVars>>
  PROVE  NothingSkipped' /\ ReadInOrder'
BY DEF StreamInv, NothingSkipped, ReadInOrder, readerVars, After

LEMMA PutKeeps == StreamInv /\ Put => StreamInv'
<1> SUFFICES ASSUME StreamInv, Put PROVE StreamInv'
  OBVIOUS
<1> USE DEF StreamInv
<1>1. PICK n \in Sizes :
          /\ given' = given + n
          /\ IF n <= BufSize - Len(wbuf)
             THEN /\ wbuf' = wbuf \o [k \in 1..n |-> given + k]
                  /\ UNCHANGED <<wpc, direct, at, block>>
             ELSE Place([k \in 1..n |-> given + k])
  BY DEF Put
<1> DEFINE octs == [k \in 1..n |-> given + k]
<1>2. /\ wpc = "idle" /\ block = <<>> /\ Ahead >= 0 /\ Row(wbuf, Ahead)
      /\ Sendable(Ahead + 1)
  BY DEF Put, Rows
<1>3. /\ given \in Nat /\ at \in Int /\ wbuf \in Seq(Nat) /\ direct \in Seq(Nat)
      /\ sent \in Seq(Nat) /\ Len(wbuf) \in Nat /\ Len(sent) \in Nat
      /\ n \in Nat \ {0} /\ BufSize \in Nat
  BY StreamAssumption DEF StreamTyped
<1>4. octs \in Seq(Nat) /\ Len(octs) = n /\ Row(octs, given)
  BY <1>3, BlockIsRow
<1>6. n <= BufSize - Len(wbuf) =>
        wbuf' = wbuf \o octs /\ UNCHANGED <<wpc, direct, at, block>>
  BY <1>1
<1>7. given' = given + n
  BY <1>1
<1> HIDE DEF octs
<1>8. Len(<<>>) = 0 /\ <<>> \in Seq(Nat) /\ Len(block) = 0
  BY <1>2
<1>9. Ahead = given - Len(wbuf)
  BY <1>2, <1>3, <1>8 DEF Ahead
<1>10. UNCHANGED <<interruptible, polling, sent, taken, readerVars, failed, waits>>
  BY DEF Put
<1>11. UNCHANGED <<sent, taken, wanted, rbuf, partial, got, failed, waits>>
  BY <1>10 DEF readerVars
<1>12. NothingSkipped' /\ ReadInOrder'
  BY <1>10, KernelUntouched
<1>13. \A o : Sendable(o) => Sendable(o)'
  BY <1>11 DEF Sendable
<1>14. CASE n <= BufSize - Len(wbuf)
  <2>1. wbuf' = wbuf \o octs /\ UNCHANGED <<wpc, direct, at, block>>
    BY <1>6, <1>14
  <2>2. /\ wbuf' \in Seq(Nat) /\ Len(wbuf') = Len(wbuf) + n
        /\ Row(wbuf', Ahead)
    <3>1. Row(octs, Ahead + Len(wbuf))
      <4>1. Ahead + Len(wbuf) = given
        BY <1>3, <1>9
      <4>2. QED
        BY <1>4, <4>1
    <3>2. Ahead \in Int
      BY <1>3, <1>9
    <3>3. QED
      BY <1>2, <1>3, <1>4, <2>1, <3>1, <3>2, RowGrows
  <2>3. Ahead' = Ahead
    BY <1>2, <1>3, <1>7, <1>8, <1>9, <2>1, <2>2 DEF Ahead
  <2>4. StreamTyped'
    BY <1>3, <1>7, <1>11, <2>1, <2>2 DEF StreamTyped
  <2>5. Rows'
    BY <1>2, <1>13, <2>1, <2>2, <2>3, RowEmpty DEF Rows, Busy
  <2>6. Undisturbed'
    BY <1>2, <1>11, <2>1, <2>3 DEF Undisturbed
  <2>7. QED
    BY <1>12, <2>4, <2>5, <2>6
<1>15. CASE ~(n <= BufSize - Len(wbuf)) /\ wbuf # <<>>
  <2>1. /\ block' = octs /\ direct' = wbuf /\ at' = 0 /\ wpc' = "flushing"
        /\ wbuf' = wbuf
    BY <1>1, <1>15 DEF Place, WriteDirect, octs
  <2>a. Len(block') = n
    BY <1>4, <2>1, Zenon
  <2>2. Ahead' = Ahead
    BY <1>3, <1>7, <1>8, <1>9, <2>1, <2>a DEF Ahead
  <2>3. StreamTyped'
    BY <1>3, <1>4, <1>7, <1>11, <2>1 DEF StreamTyped
  <2>4. Rows'
    <3>1. Gone' = 0 /\ Len(wbuf) > 0
      BY <1>3, <1>15, <2>1, EmptySeq DEF Gone
    <3>2. Row(block', given' - Len(block'))
      <4>1. given' - Len(block') = given
        BY <1>3, <1>7, <2>a
      <4>2. QED
        BY <1>4, <2>1, <4>1
    <3>3. Ahead' + Gone' + 1 = Ahead + 1
      BY <1>3, <1>9, <2>2, <3>1
    <3>4. Sendable(Ahead + Gone + 1)'
      BY <1>2, <1>11, <3>3 DEF Sendable
    <3>5. QED
      BY <1>2, <2>1, <2>2, <3>1, <3>2, <3>4 DEF Rows, Busy
  <2>5. Undisturbed'
    BY <1>2, <1>3, <1>9, <1>11, <2>1, <2>2 DEF Undisturbed
  <2>6. QED
    BY <1>12, <2>3, <2>4, <2>5
<1>16. CASE ~(n <= BufSize - Len(wbuf)) /\ wbuf = <<>>
  <2>1. PlaceEmpty(octs) /\ block' = <<>>
    BY <1>1, <1>2, <1>16 DEF Place, octs
  <2>2. Ahead = given /\ Len(wbuf) = 0
    BY <1>3, <1>8, <1>9, <1>16
  <2>3. CASE 2 * Len(octs) >= BufSize
    <3>1. direct' = octs /\ at' = 0 /\ wpc' = "writing" /\ wbuf' = <<>>
      BY <2>1, <2>3 DEF PlaceEmpty, WriteDirect
    <3>2. StreamTyped'
      BY <1>3, <1>4, <1>7, <1>8, <1>11, <2>1, <3>1 DEF StreamTyped
    <3>a. Len(direct') = n
      BY <1>4, <3>1, Zenon
    <3>b. Gone' = 0
      BY <3>1 DEF Gone
    <3>3. given' - Len(direct') = given /\ Gone' = 0 /\ Len(direct') = n
      BY <1>3, <1>7, <3>a, <3>b
    <3>4. Sendable(given - Len(direct) + Gone + 1)'
      BY <1>2, <1>3, <1>11, <2>2, <3>3 DEF Sendable
    <3>5. Row(direct', given' - Len(direct'))
      BY <1>4, <3>1, <3>3
    <3>6. Rows'
      BY <1>3, <1>7, <2>1, <3>1, <3>3, <3>4, <3>5 DEF Rows, Busy
    <3>7. Undisturbed'
      BY <1>2, <1>3, <1>11, <2>2, <3>1, <3>3 DEF Undisturbed
    <3>8. QED
      BY <1>12, <3>2, <3>6, <3>7
  <2>4. CASE ~(2 * Len(octs) >= BufSize)
    <3>1. UNCHANGED <<direct, at>> /\ wpc' = "idle" /\ wbuf' = octs
      BY <2>1, <2>4 DEF PlaceEmpty
    <3>2. StreamTyped'
      BY <1>3, <1>4, <1>7, <1>8, <1>11, <2>1, <3>1 DEF StreamTyped
    <3>a. Len(wbuf') = n /\ Len(block') = 0
      BY <1>4, <1>8, <2>1, <3>1, Zenon
    <3>3. Ahead' = Ahead
      BY <1>3, <1>7, <2>2, <3>a DEF Ahead
    <3>4. Rows'
      BY <1>2, <1>4, <1>13, <2>1, <2>2, <3>1, <3>3, RowEmpty DEF Rows, Busy
    <3>5. Undisturbed'
      BY <1>2, <1>11, <3>1, <3>3 DEF Undisturbed
    <3>6. QED
      BY <1>12, <3>2, <3>4, <3>5
  <2>5. QED
    BY <2>3, <2>4
<1>17. QED
  BY <1>14, <1>15, <1>16

LEMMA StreamFlushKeeps == StreamInv /\ StreamFlush => StreamInv'
<1> SUFFICES ASSUME StreamInv, StreamFlush PROVE StreamInv'
  OBVIOUS
<1>1. /\ wpc = "idle" /\ block = <<>> /\ Ahead >= 0 /\ Row(wbuf, Ahead)
      /\ Row(block, given - Len(block)) /\ Sendable(Ahead + 1)
  BY DEF StreamFlush, StreamInv, Rows
<1>2. /\ direct' = wbuf /\ at' = 0 /\ wpc' = "flushing" /\ block' = <<>>
      /\ UNCHANGED <<given, wbuf, sent, taken, failed, waits, readerVars>>
      /\ wbuf # <<>>
  BY DEF StreamFlush, WriteDirect
<1>3. UNCHANGED <<wanted, rbuf, partial, got>>
  BY <1>2 DEF readerVars
<1>4. StreamTyped'
  <2>1. <<>> \in Seq(Nat)
    OBVIOUS
  <2>2. QED
    BY <1>2, <1>3, <2>1 DEF StreamInv, StreamTyped
<1>5. given \in Nat /\ Len(wbuf) \in Nat /\ Len(wbuf) > 0 /\ Len(sent) \in Nat
  BY <1>2, EmptySeq DEF StreamInv, StreamTyped
<1>6. Ahead' = Ahead /\ Gone' = 0 /\ Len(block) = 0
  BY <1>1, <1>2 DEF Ahead, Gone
<1>7. Ahead + 0 + 1 = Ahead + 1 /\ Ahead \in Int
  BY <1>5, <1>6 DEF Ahead
<1>8. Rows'
  <2>1. Sendable(Ahead + Gone + 1)'
    BY <1>1, <1>2, <1>6, <1>7 DEF Sendable
  <2>2. Row(block', given' - Len(block'))
    BY <1>1, <1>2
  <2>3. QED
    BY <1>1, <1>2, <1>5, <1>6, <2>1, <2>2 DEF Rows, Busy
<1>9. Undisturbed'
  BY <1>1, <1>2, <1>6, <1>7 DEF StreamInv, Undisturbed
<1>10. NothingSkipped' /\ ReadInOrder'
  BY <1>2, KernelUntouched
<1>11. QED
  BY <1>4, <1>8, <1>9, <1>10 DEF StreamInv

LEMMA DestroyWriterKeeps == StreamInv /\ DestroyWriter => StreamInv'
<1> SUFFICES ASSUME StreamInv, DestroyWriter PROVE StreamInv'
  OBVIOUS
<1>1. /\ wpc \in {"idle", "thrown"}
      /\ UNCHANGED <<given, wbuf, block, sent, taken, failed, waits, readerVars>>
  BY DEF DestroyWriter
<1>2. UNCHANGED <<wanted, rbuf, partial, got>>
  BY <1>1 DEF readerVars
<1>3. NothingSkipped' /\ ReadInOrder'
  BY <1>1, KernelUntouched
<1>4. given \in Nat /\ wbuf \in Seq(Nat) /\ Len(wbuf) \in Nat /\ Len(<<>>) = 0
  BY DEF StreamInv, StreamTyped
<1>5. block = <<>> /\ Len(block) = 0
  BY <1>1, <1>4 DEF StreamInv, Rows
<1>6. Ahead = given - Len(wbuf)
  BY <1>4, <1>5 DEF Ahead
<1>7. CASE wbuf = <<>>
  <2>1. wpc' = "closed" /\ UNCHANGED <<direct, at>>
    BY <1>7 DEF DestroyWriter
  <2>2. StreamTyped'
    BY <1>1, <1>2, <2>1 DEF StreamInv, StreamTyped
  <2>3. Rows'
    BY <2>1 DEF Rows, Busy
  <2>4. Undisturbed'
    <3>1. Ahead = given
      BY <1>4, <1>6, <1>7
    <3>2. wpc = "thrown" => failed
      BY DEF StreamInv, Rows
    <3>3. QED
      BY <1>1, <2>1, <3>1, <3>2 DEF StreamInv, Undisturbed
  <2>5. QED
    BY <1>3, <2>2, <2>3, <2>4 DEF StreamInv
<1>8. CASE wbuf # <<>>
  <2>1. direct' = wbuf /\ at' = 0 /\ wpc' = "closing"
    BY <1>8 DEF DestroyWriter, WriteDirect
  <2>2. StreamTyped'
    BY <1>1, <1>2, <2>1 DEF StreamInv, StreamTyped
  <2>3. Gone' = 0 /\ Len(wbuf) > 0
    BY <1>4, <1>8, <2>1, EmptySeq DEF Gone
  <2>4. PICK b \in 0..given : /\ Row(wbuf, b) /\ Sendable(b + 1)
                              /\ ~failed => b + Len(wbuf) = given
    <3>1. CASE wpc = "idle"
      <4>1. Ahead >= 0 /\ Row(wbuf, Ahead) /\ Sendable(Ahead + 1)
        BY <3>1 DEF StreamInv, Rows
      <4>2. Ahead \in 0..given /\ Ahead + Len(wbuf) = given
        BY <1>4, <1>6, <4>1
      <4>3. QED
        BY <4>1, <4>2
    <3>2. CASE wpc = "thrown"
      <4>1. PICK b \in 0..given : /\ Row(wbuf, b) /\ Sendable(b + Gone + 1)
                                  /\ ~failed => b + Len(wbuf) = given
        BY <3>2 DEF StreamInv, Rows, Resumable
      <4>2. Gone = 0
        BY <3>2 DEF StreamInv, Rows, Gone
      <4>3. b + Gone + 1 = b + 1
        BY <4>2
      <4>4. QED
        BY <4>1, <4>3
    <3>3. QED
      BY <1>1, <3>1, <3>2
  <2>5. b + Gone' + 1 = b + 1
    BY <2>3
  <2>6. Rows'
    <3>1. Sendable(b + Gone + 1)'
      <4>1. After(sent, Len(sent), b + Gone' + 1)
        BY <2>4, <2>5, Zenon DEF Sendable
      <4>2. QED
        BY <1>1, <4>1, Zenon DEF Sendable
    <3>2. Row(wbuf', b) /\ (~failed' => b + Len(wbuf') = given') /\ b \in 0..given'
      <4>1. wbuf' = wbuf /\ given' = given /\ failed' = failed
        BY <1>1
      <4>2. Row(wbuf, b) /\ (~failed => b + Len(wbuf) = given) /\ b \in 0..given
        BY <2>4, Zenon
      <4>3. QED
        BY <4>1, <4>2, Zenon
    <3>3. Resumable'
      BY <3>1, <3>2, Zenon DEF Resumable
    <3>4. direct' = wbuf' /\ block' = <<>> /\ at' < Len(direct')
      BY <1>1, <1>5, <2>1, <2>3
    <3>5. QED
      BY <2>1, <3>3, <3>4 DEF Rows, Busy
  <2>7. Undisturbed'
    <3>1. Ahead' = Ahead
      BY <1>1 DEF Ahead
    <3>2. wpc = "thrown" => failed
      BY DEF StreamInv, Rows
    <3>3. Ahead \in Int
      BY <1>4, <1>6
    <3>4. QED
      BY <1>1, <2>1, <3>1, <3>2, <3>3 DEF StreamInv, Undisturbed
  <2>8. QED
    BY <1>3, <2>2, <2>6, <2>7 DEF StreamInv
<1>9. QED
  BY <1>7, <1>8

LEMMA WouldBlockKeeps == StreamInv /\ WouldBlock => StreamInv'
<1> SUFFICES ASSUME StreamInv, WouldBlock PROVE StreamInv'
  OBVIOUS
<1>1. /\ Busy /\ at' = at - 1 /\ waits' = waits + 1
      /\ UNCHANGED <<given, wbuf, wpc, direct, block, sent, taken, failed, readerVars>>
  BY DEF WouldBlock
<1>2. UNCHANGED <<wanted, rbuf, partial, got>>
  BY <1>1 DEF readerVars
<1>3. NothingSkipped' /\ ReadInOrder'
  BY <1>1, KernelUntouched
<1>4. /\ given \in Nat /\ waits \in Nat /\ at \in Int /\ sent \in Seq(Nat)
      /\ Len(wbuf) \in Nat /\ Len(block) \in Nat /\ Len(direct) \in Nat
  BY DEF StreamInv, StreamTyped
<1>5. StreamTyped'
  BY <1>1, <1>2 DEF StreamInv, StreamTyped
<1>6. Gone \in Nat /\ Gone' \in Nat /\ Gone' <= Gone
  BY <1>1, <1>4 DEF Gone
<1>7. ASSUME NEW o \in Int, Sendable(o + Gone + 1)
      PROVE  Sendable(o + Gone + 1)'
  <2>1. \A i \in 1..Len(sent) : sent[i] \in Int
    BY <1>4
  <2>a. PICK g \in Nat : g = Gone
    BY <1>6
  <2>b. PICK h \in Nat : h = Gone'
    BY <1>6
  <2>e. h <= g
    BY <1>6, <2>a, <2>b
  <2>c. o + h + 1 <= o + g + 1
    BY <2>e
  <2>d. o + h + 1 \in Int /\ o + g + 1 \in Int
    OBVIOUS
  <2>2. o + Gone' + 1 <= o + Gone + 1 /\ o + Gone' + 1 \in Int /\ o + Gone + 1 \in Int
    BY <2>a, <2>b, <2>c, <2>d, Zenon
  <2>3. After(sent, Len(sent), o + Gone + 1) /\ Len(sent) \in Nat
    BY <1>4, <1>7 DEF Sendable
  <2>4. After(sent, Len(sent), o + Gone' + 1)
    BY <2>1, <2>2, <2>3, AfterEarlier
  <2>5. QED
    BY <1>1, <2>4 DEF Sendable
<1>8. Rows'
  <2>1. Ahead \in Int /\ Ahead' = Ahead /\ given - Len(direct) \in Int
    BY <1>1, <1>4 DEF Ahead
  <2>2. wpc = "flushing" => Sendable(Ahead + Gone + 1)'
    BY <1>7, <2>1 DEF StreamInv, Rows
  <2>3. wpc = "writing" => Sendable(given - Len(direct) + Gone + 1)'
    <3>1. wpc = "writing" => Sendable((given - Len(direct)) + Gone + 1)
      BY DEF StreamInv, Rows
    <3>2. QED
      BY <1>1, <1>7, <2>1, <3>1
  <2>4. wpc = "closing" => Resumable'
    <3>1. SUFFICES ASSUME wpc = "closing" PROVE Resumable'
      OBVIOUS
    <3>2. PICK b \in 0..given : /\ Row(wbuf, b) /\ Sendable(b + Gone + 1)
                                /\ ~failed => b + Len(wbuf) = given
      BY <3>1 DEF StreamInv, Rows, Resumable
    <3>3. b \in Int
      BY <1>4
    <3>4. Sendable(b + Gone + 1)'
      <4>1. Sendable(b + Gone + 1)
        BY <3>2, Zenon
      <4>2. QED
        BY <1>7, <3>3, <4>1
    <3>5. Row(wbuf', b) /\ (~failed' => b + Len(wbuf') = given') /\ b \in 0..given'
      <4>1. wbuf' = wbuf /\ given' = given /\ failed' = failed
        BY <1>1
      <4>2. Row(wbuf, b) /\ (~failed => b + Len(wbuf) = given) /\ b \in 0..given
        BY <3>2, Zenon
      <4>3. QED
        BY <4>1, <4>2, Zenon
    <3>6. QED
      BY <3>4, <3>5, Zenon DEF Resumable
  <2>5. at < Len(direct) /\ at' < Len(direct)
    BY <1>1, <1>4 DEF StreamInv, Rows
  <2>6. wpc \in {"writing", "flushing", "closing"}
    BY <1>1 DEF Busy
  <2>7. CASE wpc = "flushing"
    BY <1>1, <2>1, <2>2, <2>5, <2>7 DEF StreamInv, Rows, Busy
  <2>8. CASE wpc = "writing"
    BY <1>1, <2>3, <2>5, <2>8 DEF StreamInv, Rows, Busy
  <2>9. CASE wpc = "closing"
    BY <1>1, <2>4, <2>5, <2>9 DEF StreamInv, Rows, Busy
  <2>10. QED
    BY <2>6, <2>7, <2>8, <2>9
<1>9. Undisturbed'
  BY <1>1, <1>4 DEF Undisturbed
<1>10. QED
  BY <1>3, <1>5, <1>8, <1>9 DEF StreamInv

LEMMA WriteFailsKeeps == StreamInv /\ WriteFails => StreamInv'
<1> SUFFICES ASSUME StreamInv, WriteFails PROVE StreamInv'
  OBVIOUS
<1>1. /\ Busy /\ direct' = <<>> /\ at' = 0 /\ block' = <<>> /\ failed' = TRUE
      /\ UNCHANGED <<given, wbuf, sent, taken, waits, readerVars>>
      /\ wpc' = IF wpc = "closing" THEN "closed" ELSE "thrown"
  BY DEF WriteFails
<1>2. UNCHANGED <<wanted, rbuf, partial, got>>
  BY <1>1 DEF readerVars
<1>3. NothingSkipped' /\ ReadInOrder'
  BY <1>1, KernelUntouched
<1>4. /\ given \in Nat /\ at \in Int /\ sent \in Seq(Nat) /\ wbuf \in Seq(Nat)
      /\ Len(wbuf) \in Nat /\ Len(block) \in Nat /\ Len(sent) \in Nat
      /\ <<>> \in Seq(Nat) /\ Len(<<>>) = 0
  BY DEF StreamInv, StreamTyped
<1>5. wpc \in {"writing", "flushing", "closing"}
  BY <1>1 DEF Busy
<1>6. wpc' \in {"thrown", "closed"} /\ (wpc' = "closed" <=> wpc = "closing")
  BY <1>1, <1>5
<1>7. StreamTyped'
  BY <1>1, <1>2, <1>4, <1>6 DEF StreamInv, StreamTyped
<1>8. Undisturbed'
  BY <1>1 DEF Undisturbed
<1>9. Gone' = 0
  BY <1>1 DEF Gone
<1>10. CASE wpc = "closing"
  <2>1. wpc' = "closed"
    BY <1>6, <1>10
  <2>2. Rows'
    BY <2>1 DEF Rows, Busy
  <2>3. QED
    BY <1>3, <1>7, <1>8, <2>2 DEF StreamInv
<1>11. CASE wpc \in {"writing", "flushing"}
  <2>1. wpc' = "thrown"
    BY <1>6, <1>11
  <2>2. \E b \in 0..given : Row(wbuf, b) /\ After(sent, Len(sent), b + 1)
    <3>1. CASE wpc = "writing"
      <4>1. wbuf = <<>>
        BY <3>1 DEF StreamInv, Rows
      <4>2. Row(wbuf, 0) /\ 0 \in 0..given
        BY <1>4, <4>1, RowEmpty
      <4>3. After(sent, Len(sent), 0 + 1)
        BY DEF After
      <4>4. QED
        BY <4>2, <4>3
    <3>2. CASE wpc = "flushing"
      <4>1. Ahead >= 0 /\ Row(wbuf, Ahead) /\ Sendable(Ahead + Gone + 1)
        BY <3>2 DEF StreamInv, Rows
      <4>2. Ahead \in 0..given /\ Gone \in Nat
        BY <1>4, <4>1 DEF Ahead, Gone
      <4>3. \A i \in 1..Len(sent) : sent[i] \in Int
        BY <1>4
      <4>4. /\ Ahead + 1 <= Ahead + Gone + 1 /\ Ahead + 1 \in Int
            /\ Ahead + Gone + 1 \in Int
        BY <4>2
      <4>5. After(sent, Len(sent), Ahead + 1)
        BY <1>4, <4>1, <4>3, <4>4, AfterEarlier DEF Sendable
      <4>6. QED
        BY <4>1, <4>2, <4>5
    <3>3. QED
      BY <1>11, <3>1, <3>2
  <2>3. PICK b \in 0..given : Row(wbuf, b) /\ After(sent, Len(sent), b + 1)
    BY <2>2
  <2>4. b + Gone' + 1 = b + 1
    BY <1>9
  <2>5. Sendable(b + Gone + 1)' /\ Row(wbuf', b) /\ b \in 0..given'
    BY <1>1, <2>3, <2>4 DEF Sendable
  <2>6. Resumable'
    BY <1>1, <2>5, Zenon DEF Resumable
  <2>7. Rows'
    BY <1>1, <2>1, <2>6 DEF Rows, Busy
  <2>8. QED
    BY <1>3, <1>7, <1>8, <2>7 DEF StreamInv
<1>12. QED
  BY <1>5, <1>10, <1>11

\* The octets that file_descriptor::write was given are the row behind some b.
LEMMA WriteHasBase ==
  ASSUME StreamInv, Busy
  PROVE  \E b \in 0..given :
            /\ Row(direct, b) /\ Sendable(b + Gone + 1)
            /\ wpc = "flushing" => b = Ahead
            /\ wpc = "writing" => b = given - Len(direct)
            /\ wpc = "closing" /\ ~failed => b + Len(wbuf) = given
<1>1. /\ given \in Nat /\ Len(wbuf) \in Nat /\ Len(block) \in Nat
      /\ Len(direct) \in Nat
  BY DEF StreamInv, StreamTyped
<1>2. CASE wpc = "flushing"
  <2>1. Ahead >= 0 /\ Row(direct, Ahead) /\ Sendable(Ahead + Gone + 1)
    BY <1>2 DEF StreamInv, Rows
  <2>2. Ahead \in 0..given
    BY <1>1, <2>1 DEF Ahead
  <2>3. QED
    BY <1>2, <2>1, <2>2
<1>3. CASE wpc = "writing"
  <2>1. /\ Row(direct, given - Len(direct)) /\ Len(direct) <= given
        /\ Sendable(given - Len(direct) + Gone + 1)
    BY <1>3 DEF StreamInv, Rows
  <2>2. given - Len(direct) \in 0..given
    BY <1>1, <2>1
  <2>3. QED
    BY <1>3, <2>1, <2>2
<1>4. CASE wpc = "closing"
  <2>1. direct = wbuf /\ Resumable
    BY <1>4 DEF StreamInv, Rows
  <2>2. PICK b \in 0..given : /\ Row(wbuf, b) /\ Sendable(b + Gone + 1)
                              /\ ~failed => b + Len(wbuf) = given
    BY <2>1 DEF Resumable
  <2>3. Row(direct, b)
    BY <2>1, <2>2
  <2>4. QED
    BY <1>4, <2>2, <2>3
<1>5. QED
  BY <1>2, <1>3, <1>4 DEF Busy

LEMMA KernelTakesKeeps == StreamInv /\ KernelTakes => StreamInv'
<1> SUFFICES ASSUME StreamInv, KernelTakes PROVE StreamInv'
  OBVIOUS
<1>1. /\ Busy
      /\ UNCHANGED <<given, taken, failed, waits, wanted, rbuf, partial, got>>
  BY DEF KernelTakes, readerVars
<1>2. PICK n \in Nat :
         /\ n > 0 /\ n <= Len(direct) - at
         /\ sent' = sent \o [k \in 1..n |-> Memory(at + k)]
         /\ IF at + n = Len(direct) THEN Continue
            ELSE at' = at + n /\ UNCHANGED <<wbuf, wpc, direct, block>>
  BY DEF KernelTakes
<1>3. /\ given \in Nat /\ at \in Int /\ sent \in Seq(Nat) /\ wbuf \in Seq(Nat)
      /\ direct \in Seq(Nat) /\ block \in Seq(Nat) /\ taken \in Nat
      /\ Len(sent) \in Nat /\ taken <= Len(sent)
      /\ Len(wbuf) \in Nat /\ Len(block) \in Nat /\ Len(direct) \in Nat
      /\ <<>> \in Seq(Nat) /\ Len(<<>>) = 0
  BY DEF StreamInv, StreamTyped
<1>4. PICK b \in 0..given :
         /\ Row(direct, b) /\ Sendable(b + Gone + 1)
         /\ wpc = "flushing" => b = Ahead
         /\ wpc = "writing" => b = given - Len(direct)
         /\ wpc = "closing" /\ ~failed => b + Len(wbuf) = given
  BY <1>1, WriteHasBase
<1> DEFINE m == IF at + n > 0 THEN at + n ELSE 0
<1>5. /\ sent' \in Seq(Nat) /\ Len(sent') = Len(sent) + n
      /\ NothingSkipped'
      /\ After(sent', Len(sent'), b + m + 1)
      /\ at >= 0 /\ Row(sent, 0) /\ Len(sent) = b + at => Row(sent', 0)
      /\ SubSeq(sent', 1, taken) = SubSeq(sent, 1, taken)
  <2>1. b \in Nat
    BY <1>3
  <2>2. sent' = sent \o [k \in 1..n |-> Memory(at + k)]
    BY <1>2
  <2>3. StreamTyped /\ NothingSkipped
    BY DEF StreamInv
  <2>4. Row(direct, b) /\ Sendable(b + Gone + 1)
    BY <1>4
  <2>5. n > 0 /\ n <= Len(direct) - at
    BY <1>2
  <2>6. QED
    BY ONLY <2>1, <2>2, <2>3, <2>4, <2>5, n \in Nat, KernelSends, Zenon
<1>6. ReadInOrder'
  BY <1>1, <1>5 DEF StreamInv, ReadInOrder
<1>7. /\ sent' \in Seq(Nat) /\ Len(sent') \in Nat /\ taken' <= Len(sent')
      /\ {given', waits', taken', wanted'} \subseteq Nat
      /\ {rbuf', partial', got'} \subseteq Seq(Nat)
  <2>1. /\ {given, waits, taken, wanted} \subseteq Nat
        /\ {rbuf, partial, got} \subseteq Seq(Nat)
    BY DEF StreamInv, StreamTyped
  <2>2. sent' \in Seq(Nat) /\ Len(sent') \in Nat /\ taken <= Len(sent')
    <3>1. sent' \in Seq(Nat) /\ Len(sent') = Len(sent) + n
      BY <1>5
    <3>2. QED
      BY <1>3, <3>1
  <2>3. QED
    BY <1>1, <2>1, <2>2, Zenon
<1>8. failed' \in BOOLEAN
  BY <1>1, Zenon DEF StreamInv, StreamTyped
<1>9. m \in Nat
  BY <1>2, <1>3
\* As long as nothing was disturbed, what was sent is all that precedes direct
\* and what is behind at.
<1>10. ~failed /\ waits = 0 =>
          /\ at >= 0 /\ Len(sent) = b + at /\ Row(sent', 0)
          /\ Len(sent') = b + at + n
  <2>1. SUFFICES ASSUME ~failed, waits = 0
                 PROVE  /\ at >= 0 /\ Len(sent) = b + at /\ Row(sent', 0)
                        /\ Len(sent') = b + at + n
    OBVIOUS
  <2>2. /\ at >= 0 /\ Row(sent, 0)
        /\ wpc \in {"flushing", "closing"} => Len(sent) = Ahead + at
        /\ wpc = "writing" => Len(sent) = given - Len(direct) + at
    BY <2>1 DEF StreamInv, Undisturbed
  <2>3. wpc = "closing" => b = Ahead
    <3>1. SUFFICES ASSUME wpc = "closing" PROVE b = Ahead
      OBVIOUS
    <3>2. b + Len(wbuf) = given
      BY <1>4, <2>1, <3>1
    <3>3. Len(block) = 0
      BY <1>3, <3>1 DEF StreamInv, Rows
    <3>4. QED
      BY <1>3, <3>2, <3>3 DEF Ahead
  <2>4. wpc \in {"writing", "flushing", "closing"}
    BY <1>1 DEF Busy
  <2>5. Len(sent) = b + at
    BY <1>4, <2>2, <2>3, <2>4
  <2>6. QED
    BY <1>3, <1>5, <2>2, <2>5
<1> HIDE DEF m
<1>11. CASE at + n # Len(direct)
  <2>1. at' = at + n /\ UNCHANGED <<wbuf, wpc, direct, block>>
    BY <1>2, <1>11
  <2>2. Gone' = m
    BY <2>1 DEF Gone, m
  <2>3. Sendable(b + Gone + 1)'
    <3>1. b + Gone' + 1 = b + m + 1
      BY <2>2
    <3>2. QED
      BY <1>5, <3>1 DEF Sendable
  <2>4. StreamTyped'
    <3>1. wpc' = wpc /\ at' \in Int /\ {wbuf', direct', block', sent'} \subseteq Seq(Nat)
      BY <1>2, <1>3, <1>5, <2>1
    <3>2. QED
      BY <1>7, <1>8, <3>1 DEF StreamInv, StreamTyped
  <2>5. Ahead' = Ahead
    BY <1>1, <2>1 DEF Ahead
  <2>6. Rows'
    <3>1. at' < Len(direct')
      <4>1. n <= Len(direct) - at
        BY <1>2
      <4>a. PICK d \in Nat : d = Len(direct)
        BY <1>3
      <4>b. at \in Int /\ n \in Int /\ n <= d - at /\ at + n # d
        BY <1>3, <1>11, <4>1, <4>a
      <4>2. at + n < Len(direct)
        BY <4>a, <4>b
      <4>3. QED
        BY <2>1, <4>2
    <3>2. CASE wpc = "flushing"
      <4>1. Sendable(Ahead + Gone + 1)'
        BY <1>4, <2>3, <2>5, <3>2
      <4>2. QED
        BY <1>1, <2>1, <2>5, <3>1, <3>2, <4>1 DEF StreamInv, Rows, Busy
    <3>3. CASE wpc = "writing"
      <4>1. Sendable(given - Len(direct) + Gone + 1)'
        BY <1>1, <1>4, <2>1, <2>3, <3>3
      <4>2. QED
        BY <1>1, <2>1, <3>1, <3>3, <4>1 DEF StreamInv, Rows, Busy
    <3>4. CASE wpc = "closing"
      <4>1. direct = wbuf
        BY <3>4 DEF StreamInv, Rows
      <4>2. Row(wbuf', b)
        BY <1>4, <2>1, <4>1
      <4>3. ~failed' => b + Len(wbuf') = given'
        <5>1. wpc = "closing" /\ ~failed => b + Len(wbuf) = given
          BY <1>4
        <5>2. wbuf' = wbuf /\ given' = given /\ failed' = failed
          BY <1>1, <2>1
        <5>3. QED
          BY <3>4, <5>1, <5>2, Zenon
      <4>4. b \in 0..given'
        BY <1>1
      <4>5. Resumable'
        BY <2>3, <4>2, <4>3, <4>4, Zenon DEF Resumable
      <4>6. QED
        BY <1>1, <2>1, <3>1, <3>4, <4>5 DEF StreamInv, Rows, Busy
    <3>5. QED
      BY <1>1, <3>2, <3>3, <3>4 DEF Busy
  <2>7. Undisturbed'
    <3>1. SUFFICES ASSUME ~failed', waits' = 0
                   PROVE  /\ at' >= 0 /\ Row(sent', 0)
                          /\ wpc' = "idle" => Len(sent') = Ahead'
                          /\ wpc' \in {"flushing", "closing"} =>
                                Len(sent') = Ahead' + at'
                          /\ wpc' = "writing" =>
                                Len(sent') = given' - Len(direct') + at'
                          /\ wpc' = "closed" => Len(sent') = given'
      BY DEF Undisturbed
    <3>2. ~failed /\ waits = 0
      BY <1>1, <3>1
    <3>3. at >= 0 /\ Len(sent) = b + at /\ Row(sent', 0) /\ Len(sent') = b + at + n
      BY <1>10, <3>2
    <3>4. wpc' \in {"writing", "flushing", "closing"} /\ wpc' = wpc
      BY <1>1, <2>1 DEF Busy
    <3>5. at' >= 0 /\ Len(sent') = b + at'
      BY <1>2, <1>3, <2>1, <3>3
    <3>6. /\ wpc \in {"flushing", "closing"} => Len(sent) = Ahead + at
          /\ wpc = "writing" => Len(sent) = given - Len(direct) + at
      BY <3>2 DEF StreamInv, Undisturbed
    <3>7. Ahead \in Int
      BY <1>3 DEF Ahead
    <3>8. wpc \in {"flushing", "closing"} => b = Ahead
      BY <1>3, <3>3, <3>6, <3>7
    <3>9. QED
      BY <1>1, <1>4, <2>1, <2>5, <3>3, <3>4, <3>5, <3>8
  <2>8. QED
    BY <1>5, <1>6, <2>4, <2>6, <2>7 DEF StreamInv
<1>12. CASE at + n = Len(direct)
  <2>1. Continue /\ m = Len(direct)
    BY <1>2, <1>3, <1>12 DEF m
  <2>2. After(sent', Len(sent'), b + Len(direct) + 1)
    BY <1>5, <2>1
  <2>3. ~failed /\ waits = 0 =>
           at >= 0 /\ Row(sent', 0) /\ Len(sent') = b + Len(direct)
    <3>1. b \in Int
      BY <1>3
    <3>2. at + n = Len(direct) /\ at \in Int /\ n \in Int
      BY <1>3, <1>12
    <3>a. b + at + n = b + Len(direct)
      BY <3>1, <3>2
    <3>3. QED
      BY <1>10, <3>a
  <2>4. CASE wpc = "closing"
    <3>1. /\ direct' = <<>> /\ at' = 0 /\ block' = <<>> /\ wbuf' = <<>>
          /\ wpc' = "closed"
      BY <2>1, <2>4 DEF Continue
    <3>2. StreamTyped'
      BY <1>3, <1>7, <1>8, <3>1 DEF StreamTyped
    <3>3. Rows'
      BY <3>1 DEF Rows, Busy
    <3>4. Undisturbed'
      <4>1. direct = wbuf
        BY <2>4 DEF StreamInv, Rows
      <4>2. ~failed => b + Len(direct) = given
        BY <1>4, <2>4, <4>1
      <4>3. QED
        BY <1>1, <2>3, <3>1, <4>2 DEF Undisturbed
    <3>5. QED
      BY <1>5, <1>6, <3>2, <3>3, <3>4 DEF StreamInv
  <2>5. CASE wpc = "writing"
    <3>1. wbuf = <<>> /\ block = <<>> /\ b = given - Len(direct)
      BY <1>4, <2>5 DEF StreamInv, Rows
    <3>2. /\ direct' = <<>> /\ at' = 0 /\ block' = <<>> /\ wbuf' = <<>>
          /\ wpc' = "idle"
      BY <2>1, <2>5, <3>1 DEF Continue
    <3>3. StreamTyped'
      BY <1>3, <1>7, <1>8, <3>2 DEF StreamTyped
    <3>4. Ahead' = given /\ b + Len(direct) = given
      BY <1>1, <1>3, <3>1, <3>2 DEF Ahead
    <3>5. Sendable(Ahead + 1)'
      BY <2>2, <3>4 DEF Sendable
    <3>6. Rows'
      BY <1>1, <1>3, <3>2, <3>4, <3>5, RowEmpty DEF Rows, Busy
    <3>7. Undisturbed'
      BY <1>1, <2>3, <3>2, <3>4 DEF Undisturbed
    <3>8. QED
      BY <1>5, <1>6, <3>3, <3>6, <3>7 DEF StreamInv
  <2>6. CASE wpc = "flushing" /\ block = <<>>
    <3>1. direct = wbuf /\ b = Ahead
      BY <1>4, <2>6 DEF StreamInv, Rows
    <3>2. /\ direct' = <<>> /\ at' = 0 /\ block' = <<>> /\ wbuf' = <<>>
          /\ wpc' = "idle"
      BY <2>1, <2>6 DEF Continue
    <3>3. StreamTyped'
      BY <1>3, <1>7, <1>8, <3>2 DEF StreamTyped
    <3>4. Ahead' = given /\ b + Len(direct) = given
      <4>1. b = given - Len(direct) - 0
        BY <1>3, <2>6, <3>1 DEF Ahead
      <4>2. Len(wbuf') = 0 /\ Len(block') = 0
        BY <1>3, <3>2
      <4>3. QED
        BY <1>1, <1>3, <4>1, <4>2 DEF Ahead
    <3>5. Sendable(Ahead + 1)'
      BY <2>2, <3>4 DEF Sendable
    <3>6. Rows'
      BY <1>1, <1>3, <3>2, <3>4, <3>5, RowEmpty DEF Rows, Busy
    <3>7. Undisturbed'
      BY <1>1, <2>3, <3>2, <3>4 DEF Undisturbed
    <3>8. QED
      BY <1>5, <1>6, <3>3, <3>6, <3>7 DEF StreamInv
  <2>7. CASE wpc = "flushing" /\ block # <<>>
    <3>1. /\ direct = wbuf /\ b = Ahead /\ Row(block, given - Len(block))
          /\ PlaceEmpty(block) /\ block' = <<>>
      BY <1>4, <2>1, <2>7 DEF StreamInv, Rows, Continue
    <3>2. b + Len(direct) = given - Len(block) /\ given - Len(block) \in Nat
      <4>1. b = given - Len(direct) - Len(block)
        BY <3>1 DEF Ahead
      <4>2. QED
        BY <1>3, <4>1
    <3>3. Len(block) > 0
      BY <1>3, <2>7, EmptySeq
    <3>4. After(sent', Len(sent'), given - Len(block) + 1)
      BY <2>2, <3>2
    <3>5. CASE 2 * Len(block) >= BufSize
      <4>1. direct' = block /\ at' = 0 /\ wpc' = "writing" /\ wbuf' = <<>>
        BY <3>1, <3>5 DEF PlaceEmpty, WriteDirect
      <4>2. StreamTyped'
        BY <1>3, <1>7, <1>8, <3>1, <4>1 DEF StreamTyped
      <4>3. given' - Len(direct') = given - Len(block) /\ Gone' = 0
        BY <1>1, <4>1 DEF Gone
      <4>4. Sendable(given - Len(direct) + Gone + 1)'
        <5>1. given' - Len(direct') + Gone' + 1 = given - Len(block) + 1
          BY <3>2, <4>3
        <5>2. QED
          BY <3>4, <5>1 DEF Sendable
      <4>5. Row(direct', given' - Len(direct'))
        BY <3>1, <4>1, <4>3
      <4>6. Len(direct') <= given' /\ at' < Len(direct')
        BY <1>1, <1>3, <3>2, <3>3, <4>1
      <4>7. Rows'
        BY <3>1, <4>1, <4>4, <4>5, <4>6 DEF Rows, Busy
      <4>8. Undisturbed'
        <5>1. ~failed /\ waits = 0 =>
                 Row(sent', 0) /\ Len(sent') = given' - Len(direct') + at'
          BY <2>3, <3>2, <4>1, <4>3
        <5>2. QED
          BY <1>1, <4>1, <5>1 DEF Undisturbed
      <4>9. QED
        BY <1>5, <1>6, <4>2, <4>7, <4>8 DEF StreamInv
    <3>6. CASE ~(2 * Len(block) >= BufSize)
      <4>1. wbuf' = block /\ wpc' = "idle" /\ UNCHANGED <<direct, at>>
        BY <3>1, <3>6 DEF PlaceEmpty
      <4>2. StreamTyped'
        BY <1>3, <1>7, <1>8, <3>1, <4>1 DEF StreamTyped
      <4>3. Ahead' = given - Len(block)
        <5>1. Len(wbuf') = Len(block) /\ Len(block') = 0
          BY <1>3, <3>1, <4>1
        <5>2. QED
          BY <1>1, <1>3, <5>1 DEF Ahead
      <4>4. Sendable(Ahead + 1)'
        BY <3>4, <4>3 DEF Sendable
      <4>5. Row(wbuf', Ahead') /\ Row(block', given' - Len(block')) /\ Ahead' >= 0
        BY <3>1, <3>2, <4>1, <4>3, RowEmpty
      <4>6. Rows'
        BY <3>1, <4>1, <4>4, <4>5 DEF Rows, Busy
      <4>7. Undisturbed'
        BY <1>1, <2>3, <3>2, <4>1, <4>3 DEF Undisturbed
      <4>8. QED
        BY <1>5, <1>6, <4>2, <4>6, <4>7 DEF StreamInv
    <3>7. QED
      BY <3>5, <3>6
  <2>8. QED
    BY <1>1, <2>4, <2>5, <2>6, <2>7 DEF Busy
<1>13. QED
  BY <1>11, <1>12

\* The readers' actions leave the writer alone.
LEMMA WriterUntouched ==
  ASSUME StreamInv, UNCHANGED <<writerVars, sent>>
  PROVE  Rows' /\ Undisturbed' /\ NothingSkipped'
<1>1. UNCHANGED <<given, wbuf, wpc, direct, at, block, failed, waits, sent>>
  BY DEF writerVars
<1>2. Ahead' = Ahead /\ Gone' = Gone /\ Busy' = Busy
  BY <1>1 DEF Ahead, Gone, Busy
<1>3. Resumable' = Resumable
  BY <1>1, <1>2 DEF Resumable, Sendable
<1>4. Rows'
  BY <1>1, <1>2, <1>3 DEF StreamInv, Rows, Sendable
<1>5. Undisturbed'
  BY <1>1, <1>2 DEF StreamInv, Undisturbed
<1>6. NothingSkipped'
  BY <1>1 DEF StreamInv, NothingSkipped
<1>7. QED
  BY <1>4, <1>5, <1>6

\* Octets may be put together in any order of grouping.
LEMMA ConcatOctets ==
  \A f, o, g \in Seq(Nat) : (f \o o) \o g = f \o (o \o g)
<1> SUFFICES ASSUME NEW f \in Seq(Nat), NEW o \in Seq(Nat), NEW g \in Seq(Nat)
             PROVE  (f \o o) \o g = f \o (o \o g)
  OBVIOUS
<1>1. QED
  BY ConcatAssociative

\* What is put in place goes behind what was there before.
LEMMA Delivered ==
  ASSUME StreamTyped, NEW octs \in Seq(Nat), Len(octs) <= wanted, Deliver(octs)
  PROVE  /\ got' \in Seq(Nat) /\ partial' \in Seq(Nat) /\ wanted' \in Nat
         /\ got' \o partial' = got \o partial \o octs
<1>1. /\ got \in Seq(Nat) /\ partial \in Seq(Nat) /\ wanted \in Nat
      /\ Len(octs) \in Nat
  BY DEF StreamTyped
<1>2. got \o partial \in Seq(Nat) /\ partial \o octs \in Seq(Nat)
      /\ got \o partial \o octs \in Seq(Nat)
  BY <1>1, ConcatProperties
<1>3. CASE wanted = Len(octs)
  <2>1. got' = got \o partial \o octs /\ partial' = <<>> /\ wanted' = 0
    BY <1>3 DEF Deliver
  <2>2. <<>> \in Seq(Nat)
    OBVIOUS
  <2>3. QED
    BY <1>2, <2>1, <2>2, ConcatEmptySeq
<1>4. CASE wanted # Len(octs)
  <2>1. got' = got /\ partial' = partial \o octs /\ wanted' = wanted - Len(octs)
    BY <1>4 DEF Deliver
  <2>2. (got \o partial) \o octs = got \o (partial \o octs)
    BY <1>1, ConcatOctets, Zenon
  <2>3. wanted' \in Nat
    BY <1>1, <2>1
  <2>4. got' \o partial' = got \o partial \o octs
    BY <2>1, <2>2
  <2>5. QED
    BY <1>1, <1>2, <2>1, <2>3, <2>4
<1>5. QED
  BY <1>3, <1>4

LEMMA ReaderTyped ==
  ASSUME StreamInv, UNCHANGED <<writerVars, sent>>,
         wanted' \in Nat, taken' \in Nat, taken' <= Len(sent),
         {rbuf', partial', got'} \subseteq Seq(Nat)
  PROVE  StreamTyped'
<1>1. UNCHANGED <<given, wbuf, wpc, direct, at, block, failed, waits, sent>>
  BY DEF writerVars
<1>2. failed' \in BOOLEAN /\ wpc' = wpc
  BY <1>1, Zenon DEF StreamInv, StreamTyped
<1>3. QED
  BY <1>1, <1>2 DEF StreamInv, StreamTyped

LEMMA BeginGetKeeps == StreamInv /\ BeginGet => StreamInv'
<1> SUFFICES ASSUME StreamInv, BeginGet PROVE StreamInv'
  OBVIOUS
<1>1. UNCHANGED <<writerVars, sent, taken, rbuf, partial, got>> /\ wanted' \in Nat
  BY StreamAssumption DEF BeginGet
<1>2. StreamTyped'
  BY <1>1, ReaderTyped DEF StreamInv, StreamTyped
<1>3. ReadInOrder'
  BY <1>1 DEF StreamInv, ReadInOrder
<1>4. QED
  BY <1>1, <1>2, <1>3, WriterUntouched DEF StreamInv

LEMMA StreamEndsKeeps == StreamInv /\ StreamEnds => StreamInv'
<1> SUFFICES ASSUME StreamInv, StreamEnds PROVE StreamInv'
  OBVIOUS
<1>1. UNCHANGED <<writerVars, sent, taken, rbuf, partial, got>> /\ wanted' \in Nat
  BY DEF StreamEnds
<1>2. StreamTyped'
  BY <1>1, ReaderTyped DEF StreamInv, StreamTyped
<1>3. ReadInOrder'
  BY <1>1 DEF StreamInv, ReadInOrder
<1>4. QED
  BY <1>1, <1>2, <1>3, WriterUntouched DEF StreamInv

LEMMA FromBufferKeeps == StreamInv /\ FromBuffer => StreamInv'
<1> SUFFICES ASSUME StreamInv, FromBuffer PROVE StreamInv'
  OBVIOUS
<1> DEFINE n == IF wanted < Len(rbuf) THEN wanted ELSE Len(rbuf)
           octs == SubSeq(rbuf, 1, n)
           rest == SubSeq(rbuf, n + 1, Len(rbuf))
<1>1. /\ UNCHANGED <<writerVars, sent, taken>>
      /\ Deliver(octs) /\ rbuf' = rest
  BY DEF FromBuffer
<1>2. /\ rbuf \in Seq(Nat) /\ got \in Seq(Nat) /\ partial \in Seq(Nat)
      /\ Len(rbuf) \in Nat /\ wanted \in Nat
      /\ taken \in Nat /\ taken <= Len(sent)
  BY DEF StreamInv, StreamTyped
<1>3. n \in 0..Len(rbuf) /\ n <= wanted
  BY <1>2
<1> HIDE DEF n
<1>4. \A i \in 1..Len(rbuf) : rbuf[i] \in Nat
  BY <1>2
<1>5. octs \in Seq(Nat) /\ rest \in Seq(Nat) /\ Len(octs) = n
  <2>1. \A i \in 1..n : rbuf[i] \in Nat
    BY <1>2, <1>3, <1>4
  <2>2. \A i \in (n + 1)..Len(rbuf) : rbuf[i] \in Nat
    BY <1>2, <1>3, <1>4
  <2>3. n \in Int /\ n + 1 \in Int /\ 1 \in Int /\ Len(rbuf) \in Int
    BY <1>2, <1>3
  <2>4. octs \in Seq(Nat) /\ Len(octs) = IF 1 <= n THEN n - 1 + 1 ELSE 0
    BY <2>1, <2>3, SubSeqProperties
  <2>5. rest \in Seq(Nat)
    BY <2>2, <2>3, SubSeqProperties
  <2>6. QED
    BY <1>3, <2>4, <2>5
<1>6. octs \o rest = rbuf
  <2>1. SubSeq(rbuf, 1, Len(rbuf)) = rbuf
    BY <1>2, SubSeqFull
  <2>2. 1 \in 1..(Len(rbuf) + 1) /\ n \in (1 - 1)..Len(rbuf) /\ Len(rbuf) \in n..Len(rbuf)
    BY <1>2, <1>3
  <2>3. SubSeq(rbuf, 1, n) \o SubSeq(rbuf, n + 1, Len(rbuf)) = SubSeq(rbuf, 1, Len(rbuf))
    BY <1>2, <2>2, ConcatAdjacentSubSeq
  <2>4. QED
    BY <2>1, <2>3
<1> HIDE DEF octs, rest
<1>7. /\ got' \in Seq(Nat) /\ partial' \in Seq(Nat) /\ wanted' \in Nat
      /\ got' \o partial' = got \o partial \o octs
  BY <1>1, <1>3, <1>5, Delivered DEF StreamInv
<1>8. StreamTyped'
  BY <1>1, <1>2, <1>5, <1>7, ReaderTyped
<1>9. ReadInOrder'
  <2>1. got \o partial \in Seq(Nat)
    BY <1>2, ConcatProperties
  <2>2. ((got \o partial) \o octs) \o rest = (got \o partial) \o (octs \o rest)
    BY ONLY <1>5, <2>1, ConcatOctets, Zenon
  <2>3. got' \o partial' \o rbuf' = got \o partial \o rbuf
    BY <1>1, <1>6, <1>7, <2>2
  <2>4. QED
    BY <1>1, <2>3 DEF StreamInv, ReadInOrder
<1>10. QED
  BY <1>1, <1>8, <1>9, WriterUntouched DEF StreamInv

LEMMA FromKernelKeeps == StreamInv /\ FromKernel => StreamInv'
<1> SUFFICES ASSUME StreamInv, FromKernel PROVE StreamInv'
  OBVIOUS
<1>1. PICK n \in 1..(Len(sent) - taken) :
          /\ n <= IF 2 * wanted >= BufSize THEN wanted ELSE BufSize
          /\ taken' = taken + n
          /\ IF 2 * wanted >= BufSize
             THEN Deliver(SubSeq(sent, taken + 1, taken + n)) /\ UNCHANGED rbuf
             ELSE /\ rbuf' = SubSeq(sent, taken + 1, taken + n)
                  /\ UNCHANGED <<wanted, partial, got>>
  BY DEF FromKernel
<1> DEFINE octs == SubSeq(sent, taken + 1, taken + n)
<1>2. UNCHANGED <<writerVars, sent>> /\ rbuf = <<>>
  BY DEF FromKernel
<1>3. /\ sent \in Seq(Nat) /\ got \in Seq(Nat) /\ partial \in Seq(Nat)
      /\ Len(sent) \in Nat /\ wanted \in Nat
      /\ taken \in Nat /\ taken <= Len(sent) /\ n \in Nat /\ taken + n <= Len(sent)
      /\ n > 0
  BY DEF StreamInv, StreamTyped
<1>4. octs \in Seq(Nat) /\ Len(octs) = n
  <2>1. \A i \in 1..Len(sent) : sent[i] \in Nat
    BY <1>3
  <2>2. \A i \in (taken + 1)..(taken + n) : sent[i] \in Nat
    BY <1>3, <2>1
  <2>3. taken + 1 \in Int /\ taken + n \in Int
    BY <1>3
  <2>4. /\ octs \in Seq(Nat)
        /\ Len(octs) = IF taken + 1 <= taken + n
                       THEN (taken + n) - (taken + 1) + 1 ELSE 0
    BY <2>2, <2>3, SubSeqProperties
  <2>5. QED
    BY <1>3, <2>4
<1>5. SubSeq(sent, 1, taken) \o octs = SubSeq(sent, 1, taken + n)
  <2>1. /\ 1 \in 1..(Len(sent) + 1) /\ taken \in (1 - 1)..Len(sent)
        /\ taken + n \in taken..Len(sent)
    BY <1>3
  <2>2. QED
    BY <1>3, <2>1, ConcatAdjacentSubSeq
<1>6. got \o partial = SubSeq(sent, 1, taken)
  <2>1. got \o partial \in Seq(Nat)
    BY <1>3, ConcatProperties
  <2>2. (got \o partial) \o <<>> = got \o partial
    BY <2>1, ConcatEmptySeq
  <2>3. QED
    BY <1>2, <2>2 DEF StreamInv, ReadInOrder
<1>7. taken' = taken + n
  BY <1>1
<1>8. CASE 2 * wanted >= BufSize
  <2>1. Deliver(octs) /\ rbuf' = rbuf /\ n <= wanted
    BY <1>1, <1>8
  <2>2. <<>> \in Seq(Nat)
    OBVIOUS
  <2> HIDE DEF octs
  <2>3. /\ got' \in Seq(Nat) /\ partial' \in Seq(Nat) /\ wanted' \in Nat
        /\ got' \o partial' = got \o partial \o octs
    BY <1>4, <2>1, Delivered DEF StreamInv
  <2>4. got' \o partial' \in Seq(Nat)
    BY <2>3, ConcatProperties
  <2>5. got' \o partial' \o rbuf' = SubSeq(sent', 1, taken')
    <3>1. (got' \o partial') \o <<>> = got' \o partial'
      BY <2>4, ConcatEmptySeq
    <3>2. QED
      BY <1>2, <1>5, <1>6, <1>7, <2>1, <2>3, <3>1
  <2>6. StreamTyped'
    <3>1. taken' \in Nat /\ taken' <= Len(sent) /\ rbuf' = <<>>
      BY <1>2, <1>3, <1>7, <2>1
    <3>2. QED
      BY <1>2, <2>2, <2>3, <3>1, ReaderTyped
  <2>7. QED
    BY <1>2, <2>5, <2>6, WriterUntouched DEF StreamInv, ReadInOrder
<1>9. CASE ~(2 * wanted >= BufSize)
  <2>1. rbuf' = octs /\ wanted' = wanted /\ partial' = partial /\ got' = got
    BY <1>1, <1>9
  <2> HIDE DEF octs
  <2>2. got' \o partial' \o rbuf' = SubSeq(sent', 1, taken')
    BY <1>2, <1>5, <1>6, <1>7, <2>1
  <2>3. StreamTyped'
    <3>1. taken' \in Nat /\ taken' <= Len(sent)
      BY <1>3, <1>7
    <3>2. QED
      BY <1>2, <1>3, <1>4, <2>1, <3>1, ReaderTyped
  <2>4. QED
    BY <1>2, <2>2, <2>3, WriterUntouched DEF StreamInv, ReadInOrder
<1>10. QED
  BY <1>8, <1>9

LEMMA StreamStutters == StreamInv /\ UNCHANGED streamVars => StreamInv'
<1> SUFFICES ASSUME StreamInv, UNCHANGED streamVars PROVE StreamInv'
  OBVIOUS
<1>1. /\ UNCHANGED <<writerVars, sent>>
      /\ UNCHANGED <<taken, rbuf, wanted, partial, got>>
  BY DEF streamVars, readerVars
<1>2. StreamTyped'
  BY <1>1, ReaderTyped DEF StreamInv, StreamTyped
<1>3. ReadInOrder'
  BY <1>1 DEF StreamInv, ReadInOrder
<1>4. QED
  BY <1>1, <1>2, <1>3, WriterUntouched DEF StreamInv

\* StreamInv: the octets under way are rows that follow each other (the buffers
\* of octet_writer, and what file_descriptor::write and the kernel have).
THEOREM StreamInductive == StreamSpec => []StreamInv
<1>1. StreamInv /\ [StreamNext]_streamVars => StreamInv'
  <2> SUFFICES ASSUME StreamInv, [StreamNext]_streamVars PROVE StreamInv'
    OBVIOUS
  <2>1. CASE Put
    BY <2>1, PutKeeps
  <2>2. CASE StreamFlush
    BY <2>2, StreamFlushKeeps
  <2>3. CASE DestroyWriter
    BY <2>3, DestroyWriterKeeps
  <2>4. CASE KernelTakes
    BY <2>4, KernelTakesKeeps
  <2>5. CASE WouldBlock
    BY <2>5, WouldBlockKeeps
  <2>6. CASE WriteFails
    BY <2>6, WriteFailsKeeps
  <2>7. CASE BeginGet
    BY <2>7, BeginGetKeeps
  <2>8. CASE FromBuffer
    BY <2>8, FromBufferKeeps
  <2>9. CASE FromKernel
    BY <2>9, FromKernelKeeps
  <2>10. CASE StreamEnds
    BY <2>10, StreamEndsKeeps
  <2>11. CASE UNCHANGED streamVars
    BY <2>11, StreamStutters
  <2>12. QED
    BY <2>1, <2>2, <2>3, <2>4, <2>5, <2>6, <2>7, <2>8, <2>9, <2>10, <2>11
       DEF StreamNext
<1>2. QED
  BY <1>1, StreamBegins, PTL DEF StreamSpec

\* A row from the beginning is what was given first.
LEMMA RowIsPrefix ==
  ASSUME NEW s \in Seq(Nat), Row(s, 0), NEW n \in Nat, Len(s) <= n
  PROVE  IsPrefix(s, Given(n)) /\ (Len(s) = n => s = Given(n))
<1>1. Len(s) \in Nat /\ \A i \in 1..Len(s) : s[i] = i
  BY DEF Row
<1>2. Given(n) \in Seq(Nat) /\ Len(Given(n)) = n
  <2>1. Given(n) \in Seq(Nat)
    BY DEF Given
  <2>2. DOMAIN Given(n) = 1..n
    BY DEF Given
  <2>3. DOMAIN Given(n) = 1..Len(Given(n)) /\ Len(Given(n)) \in Nat
    BY <2>1, LenProperties
  <2>4. QED
    BY <2>1, <2>2, <2>3
<1>3. \A i \in 1..n : Given(n)[i] = i
  BY DEF Given
<1> DEFINE g == Given(n)
<1> HIDE DEF g
<1>4. /\ g \in Seq(Nat) /\ Len(g) = n /\ \A i \in 1..n : g[i] = i
  BY <1>2, <1>3 DEF g
<1>5. IsPrefix(s, g)
  <2> DEFINE l == Len(s)
  <2>1. l \in Nat /\ l <= n
    BY <1>1
  <2>2. \A i \in 1..l : s[i] \in Nat /\ g[i] \in Nat /\ s[i] = g[i]
    BY <1>1, <1>4, <2>1
  <2>3. SubSeq(s, 1, l) = s
    BY SubSeqFull
  <2> HIDE DEF l
  <2>4. /\ SubSeq(g, 1, l) \in Seq(Nat)
        /\ Len(SubSeq(g, 1, l)) = IF 1 <= l THEN l - 1 + 1 ELSE 0
        /\ \A i \in 1..(l - 1 + 1) : SubSeq(g, 1, l)[i] = g[1 + i - 1]
    <3>1. (\A i \in 1..l : g[i] \in Nat) /\ l \in Int /\ 1 \in Int
      BY <2>1, <2>2
    <3>2. QED
      BY ONLY <3>1, SubSeqProperties
  <2>5. Len(SubSeq(g, 1, l)) = l
    BY <2>1, <2>4
  <2>6. ASSUME NEW i \in 1..l PROVE SubSeq(g, 1, l)[i] = s[i]
    <3>1. i \in 1..(l - 1 + 1) /\ 1 + i - 1 = i
      BY <2>1
    <3>2. QED
      BY <2>2, <2>4, <3>1
  <2>7. SubSeq(g, 1, l) = s
    <3>1. Len(s) = l
      BY DEF l
    <3>2. QED
      BY <2>4, <2>5, <2>6, <3>1, SeqEqual
  <2>8. QED
    BY <1>4, <2>1, <2>3, <2>7 DEF IsPrefix, l
<1>6. Len(s) = n => s = g
  BY <1>1, <1>4, SeqEqual
<1>7. QED
  BY <1>5, <1>6 DEF g

\* The reader returns the octets that the writer was given, in order: none is
\* ever skipped, and as long as no write failed or waited none is repeated.
THEOREM OctetsFaithful == StreamSpec => []FaithfulStream
<1>1. StreamInv => FaithfulStream
  <2> SUFFICES ASSUME StreamInv PROVE FaithfulStream
    OBVIOUS
  <2>1. /\ given \in Nat /\ at \in Int /\ sent \in Seq(Nat) /\ Len(sent) \in Nat
        /\ Len(wbuf) \in Nat /\ Len(block) \in Nat /\ Len(direct) \in Nat
    BY DEF StreamInv, StreamTyped
  <2>2. ASSUME ~failed, waits = 0 PROVE Row(sent, 0) /\ Len(sent) <= given
    <3>1. /\ Row(sent, 0) /\ at >= 0
          /\ wpc = "idle" => Len(sent) = Ahead
          /\ wpc \in {"flushing", "closing"} => Len(sent) = Ahead + at
          /\ wpc = "writing" => Len(sent) = given - Len(direct) + at
          /\ wpc = "closed" => Len(sent) = given
      BY <2>2 DEF StreamInv, Undisturbed
    <3>2. /\ wpc = "thrown" => failed
          /\ wpc \in {"flushing", "closing"} => direct = wbuf
          /\ wpc \in {"writing", "flushing", "closing"} => at < Len(direct)
      BY DEF StreamInv, Rows, Busy
    <3>3. wpc \in {"idle", "writing", "flushing", "closing", "thrown", "closed"}
      BY DEF StreamInv, StreamTyped
    <3>4. CASE wpc = "idle"
      BY <2>1, <3>1, <3>4 DEF Ahead
    <3>5. CASE wpc \in {"flushing", "closing"}
      BY <2>1, <3>1, <3>2, <3>5 DEF Ahead
    <3>6. CASE wpc = "writing"
      BY <2>1, <3>1, <3>2, <3>6
    <3>7. CASE wpc = "closed"
      BY <2>1, <3>1, <3>7
    <3>8. QED
      BY <2>2, <3>2, <3>3, <3>4, <3>5, <3>6, <3>7
  <2>3. ~failed /\ waits = 0 => IsPrefix(sent, Given(given))
    BY <2>1, <2>2, RowIsPrefix
  <2>4. ~failed /\ waits = 0 /\ wpc = "closed" => sent = Given(given)
    BY <2>1, <2>2, RowIsPrefix DEF StreamInv, Undisturbed
  <2>5. QED
    BY <2>3, <2>4 DEF FaithfulStream, StreamInv
<1>2. QED
  BY <1>1, StreamInductive, PTL

-----------------------------------------------------------------------------
(* LeapSeconds.                                                             *)

\* A measurement that covers the packet in time gives the true time.
LEMMA CorrectedExactly ==
  ASSUME NEW p \in Stamps, NEW s,
         s.time \in Int, s.state \in {"INS", "OOP", "WAIT"},
         \/ p.ts = p.at /\ p.at <= 4
         \/ p.ts = p.at - 4 /\ p.at >= 4,
         InTime(p, s)
  PROVE  Corrected(p.ts, s) = p.at
<1>1. PICK at1 \in Int : at1 = p.at
  BY DEF Stamps
<1>2. PICK ts1 \in Int : ts1 = p.ts
  BY DEF Stamps
<1>3. PICK t1 \in Int : t1 = s.time
  OBVIOUS
<1>4. s.state \in {"INS", "OOP", "WAIT"}
  OBVIOUS
<1>5. (ts1 = at1 /\ at1 <= 4) \/ (ts1 = at1 - 4 /\ at1 >= 4)
  BY <1>1, <1>2
<1>6. CASE s.state = "INS"
  <2>1. ts1 = at1 /\ at1 <= t1 /\ t1 <= 4
    BY <1>1, <1>2, <1>3, <1>6 DEF InTime, TrueTime
  <2>2. CASE ts1 \in 4..7
    BY <1>1, <1>2, <1>6, <2>1, <2>2
       DEF Corrected, InLeapSecond, Indicated, LastSecond, FirstSecond
  <2>3. CASE ts1 <= 3
    BY <1>1, <1>2, <1>6, <2>1, <2>3
       DEF Corrected, InLeapSecond, Plain, LastSecond, FirstSecond
  <2>4. QED
    BY <2>1, <2>2, <2>3
<1>7. CASE s.state = "OOP"
  <2>1. /\ at1 <= t1 + 4 /\ t1 \in 0..4
        /\ ts1 = at1 /\ at1 >= 0 => (t1 + 4) - at1 < 4
    BY <1>1, <1>2, <1>3, <1>7 DEF InTime, TrueTime, Risky
  <2>2. CASE ts1 = at1 /\ at1 <= 4
    <3>1. CASE at1 < 0
      BY <1>1, <1>2, <1>7, <2>2, <3>1
         DEF Corrected, InLeapSecond, Plain, LastSecond, FirstSecond
    <3>2. CASE at1 \in 0..3
      BY <1>1, <1>2, <1>3, <1>7, <2>1, <2>2, <3>2
         DEF Corrected, InLeapSecond, Plain, LastSecond, FirstSecond
    <3>3. CASE at1 = 4
      BY <1>1, <1>2, <1>3, <1>7, <2>1, <2>2, <3>3
         DEF Corrected, InLeapSecond, Indicated, LastSecond, FirstSecond
    <3>4. QED
      BY <2>2, <3>1, <3>2, <3>3
  <2>3. CASE ts1 = at1 - 4 /\ at1 >= 4
    <3>1. CASE ts1 \in 0..3
      BY <1>1, <1>2, <1>3, <1>7, <2>1, <2>3, <3>1
         DEF Corrected, InLeapSecond, Indicated, LastSecond, FirstSecond
    <3>2. CASE ts1 >= 4
      BY <1>1, <1>2, <1>3, <1>7, <2>1, <2>3, <3>2
         DEF Corrected, InLeapSecond, Plain, LastSecond, FirstSecond
    <3>3. QED
      BY <2>3, <3>1, <3>2
  <2>4. QED
    BY <1>5, <2>2, <2>3
<1>8. CASE s.state = "WAIT"
  <2>1. /\ at1 <= t1 + 4 /\ t1 >= 4
        /\ ts1 = at1 /\ at1 >= 0 => (t1 + 4) - at1 < 4
    BY <1>1, <1>2, <1>3, <1>8 DEF InTime, TrueTime, Risky
  <2>2. CASE ts1 = at1 /\ at1 <= 4
    <3>1. at1 < 0
      BY <2>1, <2>2
    <3>2. QED
      BY <1>1, <1>2, <1>8, <2>2, <3>1
         DEF Corrected, InLeapSecond, Plain, LastSecond, FirstSecond
  <2>3. CASE ts1 = at1 - 4 /\ at1 >= 4
    <3>1. CASE ts1 \in 0..3
      BY <1>1, <1>2, <1>8, <2>3, <3>1
         DEF Corrected, InLeapSecond, Indicated, LastSecond, FirstSecond
    <3>2. CASE ts1 >= 4
      BY <1>1, <1>2, <1>8, <2>3, <3>2
         DEF Corrected, InLeapSecond, Plain, LastSecond, FirstSecond
    <3>3. QED
      BY <2>3, <3>1, <3>2
  <2>4. QED
    BY <1>5, <2>2, <2>3
<1>9. QED
  BY <1>4, <1>6, <1>7, <1>8

LEMMA LeapBegins == LeapStart => LeapInv
<1> SUFFICES ASSUME LeapStart, cleared = 0 PROVE OnTrack
  BY DEF LeapInv
<1>1. /\ now \in -1..8 /\ state = StateAt(now)
      /\ stamps = <<>> /\ states = <<>> /\ results = <<>>
      /\ kpackets = 0 /\ packets = 0 /\ index = 0 /\ measured = 0
      /\ measuring = "no" /\ measurement = Unmeasured /\ looking = "no"
      /\ due = IF now < 1 THEN 1 ELSE now
  BY DEF LeapStart
<1>2. Lateness \in Nat
  BY TimeAssumption
<1>3. Len(<<>>) = 0
  OBVIOUS
<1>4. LeapTyped
  <2>1. state \in {"INS", "OOP", "WAIT"} /\ now \in Int
        /\ (state = "INS" => now <= 4) /\ (state = "OOP" => now \in 4..8)
        /\ (state = "WAIT" => now >= 8) /\ due \in Int /\ measured \in 0..3
    BY <1>1 DEF StateAt
  <2>2. stamps \in Seq(Stamps) /\ states \in Seq(ClockStates)
        /\ results \in Seq([at : Int, utc : Int, look : {"clean", "raced"}])
    BY <1>1
  <2>3. Unmeasured \in ClockStates
    BY DEF Unmeasured, ClockStates
  <2>4. {kpackets, packets, index} \subseteq Nat
    BY <1>1
  <2>5. QED
    BY <1>1, <2>1, <2>2, <2>3, <2>4 DEF LeapTyped
<1>5. AllStamped /\ Uncovered /\ Covered
  BY <1>1, <1>3 DEF AllStamped, Uncovered, Covered
<1>6. Counted /\ InHand
  BY <1>1, <1>3 DEF Counted, InHand, Before
<1>7. Planned
  <2>1. due \in Int /\ 1 <= due /\ due <= now + 2 /\ now <= due
    BY <1>1
  <2>2. QED
    BY <1>1, <1>2, <2>1 DEF Planned
<1>8. ResultsExact
  BY <1>1 DEF ResultsExact
<1>9. QED
  BY <1>4, <1>5, <1>6, <1>7, <1>8 DEF OnTrack

LEMMA LeapTypes ==
  ASSUME OnTrack
  PROVE  /\ now \in Int /\ due \in Int /\ Lateness \in 0..1
         /\ state \in {"INS", "OOP", "WAIT"}
         /\ stamps \in Seq(Stamps) /\ states \in Seq(ClockStates)
         /\ Len(stamps) \in Nat /\ Len(states) \in Nat
         /\ kpackets \in Nat /\ packets \in Nat /\ index \in Nat /\ Before \in Nat
         /\ measured \in 0..3
         /\ measurement \in ClockStates /\ measurement.index \in Nat /\ Tally \in Nat
         /\ \A j \in 1..Len(stamps) :
               stamps[j] \in Stamps /\ stamps[j].at \in Int /\ stamps[j].ts \in Int
         /\ \A i \in 1..Len(states) :
               states[i] \in ClockStates /\ states[i].index \in Nat
<1>1. /\ now \in Int /\ due \in Int
      /\ state \in {"INS", "OOP", "WAIT"}
      /\ stamps \in Seq(Stamps) /\ states \in Seq(ClockStates)
      /\ kpackets \in Nat /\ packets \in Nat /\ index \in Nat
      /\ measured \in 0..3 /\ measurement \in ClockStates
  BY DEF OnTrack, LeapTyped
<1>2. Len(stamps) \in Nat /\ Len(states) \in Nat
  BY <1>1
<1>3. \A j \in 1..Len(stamps) : stamps[j] \in Stamps
  BY <1>1, ElementOfSeq
<1>4. \A i \in 1..Len(states) : states[i] \in ClockStates
  BY <1>1, ElementOfSeq
<1>5. Lateness \in 0..1
  BY TimeAssumption
<1>6. \A j \in 1..Len(stamps) : stamps[j].at \in Int /\ stamps[j].ts \in Int
  BY <1>3 DEF Stamps
<1>7. \A i \in 1..Len(states) : states[i].index \in Nat
  BY <1>4 DEF ClockStates
<1>8. measurement.index \in Nat /\ Tally \in Nat
  BY <1>1 DEF ClockStates, Tally
<1>9. Before \in Nat
  <2>1. looking # "no" => index > 0
    BY DEF OnTrack, LeapTyped
  <2>2. QED
    BY <1>1, <2>1 DEF Before
<1>10. QED
  BY <1>1, <1>2, <1>3, <1>4, <1>5, <1>6, <1>7, <1>8, <1>9

\* What relates the packets to the measurements that are in the queue.
LEMMA SameQueue ==
  ASSUME OnTrack, UNCHANGED <<now, state, stamps, states, measured, due>>,
         Before' = Before
  PROVE  AllStamped' /\ Uncovered' /\ Covered'
<1>1. AllStamped'
  BY DEF OnTrack, AllStamped, Stamped
<1>2. Uncovered'
  BY DEF OnTrack, Uncovered, NoneCovers
<1>3. Covered'
  BY DEF OnTrack, Covered, Covers
<1>4. QED
  BY <1>1, <1>2, <1>3

LEMMA TickKeeps == detecting /\ OnTrack /\ Tick => OnTrack'
<1> SUFFICES ASSUME detecting, OnTrack, Tick PROVE OnTrack'
  OBVIOUS
<1>1. /\ now' = now + 1 /\ measuring = "no" /\ Applied
      /\ UNCHANGED <<state, stamps, kpackets, packets, index, looking, states,
                     results, measured, measuring, measurement, due>>
  BY DEF Tick, Punctual, countVars, monitorVars, correctorVars
<1>2. measured < 3 => now < due + Lateness
  BY DEF Tick, Punctual
<1>3. now \in Int /\ due \in Int /\ Lateness \in 0..1
  BY LeapTypes
<1>4. LeapTyped'
  <2>1. /\ state = "INS" => now + 1 <= 4
        /\ state = "OOP" => now + 1 \in 4..8
        /\ state = "WAIT" => now + 1 >= 8
    BY <1>1, <1>3 DEF OnTrack, LeapTyped, Applied
  <2>2. QED
    BY <1>1, <1>3, <2>1 DEF OnTrack, LeapTyped
<1>5. AllStamped'
  <2>1. ASSUME NEW j \in 1..Len(stamps) PROVE Stamped(stamps[j])'
    <3>1. Stamped(stamps[j]) /\ stamps[j].at \in Int
      BY LeapTypes DEF OnTrack, AllStamped
    <3>2. QED
      BY <1>1, <1>3, <3>1 DEF Stamped
  <2>2. QED
    BY <1>1, <2>1 DEF AllStamped
<1>6. Before' = Before
  BY <1>1 DEF Before
<1>7. Counted' /\ InHand' /\ ResultsExact'
  BY <1>1, <1>6 DEF OnTrack, Counted, InHand, ResultsExact
<1>8. Uncovered' /\ Covered'
  BY <1>1, <1>6 DEF OnTrack, Uncovered, NoneCovers, Covered, Covers
<1>9. Planned'
  BY <1>1, <1>2, <1>3, LeapTypes DEF OnTrack, Planned
<1>10. QED
  BY <1>4, <1>5, <1>7, <1>8, <1>9 DEF OnTrack

LEMMA ApplyKeeps == OnTrack /\ Apply => OnTrack'
<1> SUFFICES ASSUME OnTrack, Apply PROVE OnTrack'
  OBVIOUS
<1>1. /\ state' = StateAt(now)
      /\ UNCHANGED <<now, stamps, kpackets, packets, index, looking, states,
                     results, measured, measuring, measurement, due>>
  BY DEF Apply, countVars, monitorVars, correctorVars
<1>2. (now = 4 /\ state = "INS") \/ (now = 8 /\ state = "OOP")
  BY DEF Apply, Applied
<1>3. (now = 4 /\ state' = "OOP") \/ (now = 8 /\ state' = "WAIT")
  BY <1>1, <1>2 DEF StateAt
<1>4. LeapTyped'
  BY <1>1, <1>3 DEF OnTrack, LeapTyped
<1>5. AllStamped'
  BY <1>1, <1>3 DEF OnTrack, AllStamped, Stamped
<1>6. Before' = Before /\ Tally' = Tally
  BY <1>1 DEF Before, Tally
<1>7. Counted' /\ ResultsExact' /\ Planned'
  BY <1>1, <1>6 DEF OnTrack, Counted, ResultsExact, Planned
<1>8. InHand' /\ Uncovered' /\ Covered'
  BY <1>1, <1>6 DEF OnTrack, InHand, Uncovered, NoneCovers, Covered, Covers
<1>9. QED
  BY <1>4, <1>5, <1>7, <1>8 DEF OnTrack

LEMMA StampKeeps == OnTrack /\ Stamp => OnTrack'
<1> SUFFICES ASSUME OnTrack, Stamp PROVE OnTrack'
  OBVIOUS
<1> DEFINE p == [at |-> now, ts |-> Reading]
<1>1. /\ stamps' = Append(stamps, p) /\ kpackets' = kpackets + 1
      /\ UNCHANGED <<now, state, packets, index, looking, states, results,
                     measured, measuring, measurement, due>>
  BY DEF Stamp, clockVars, monitorVars, correctorVars
<1>2. /\ now \in Int /\ due \in Int /\ state \in {"INS", "OOP", "WAIT"}
      /\ stamps \in Seq(Stamps) /\ states \in Seq(ClockStates)
      /\ Len(stamps) \in Nat /\ Len(states) \in Nat
      /\ kpackets \in Nat /\ packets \in Nat /\ measured \in 0..3
      /\ Before \in Nat
  BY LeapTypes
<1>3. /\ state = "INS" => now <= 4 /\ Reading = now
      /\ state # "INS" => now >= 4 /\ Reading = now - 4
  BY <1>2 DEF OnTrack, LeapTyped, Reading
<1>4. p \in Stamps /\ p.at = now /\ p.ts = Reading
  BY <1>2, <1>3 DEF Stamps
<1> HIDE DEF p
<1>5. PICK l \in Nat : l = Len(stamps)
  BY <1>2
<1>6. /\ stamps' \in Seq(Stamps) /\ Len(stamps') = l + 1
      /\ \A j \in 1..l : stamps'[j] = stamps[j]
      /\ stamps'[l + 1] = p
  BY <1>1, <1>2, <1>4, <1>5, AppendProperties
<1>7. \A j \in 1..(l + 1) : j \in 1..l \/ j = l + 1
  BY <1>5
<1>8. Stamped(stamps[l + 1])'
  <2>1. stamps'[l + 1].at = now /\ stamps'[l + 1].ts = Reading
    BY <1>4, <1>6
  <2>2. CASE state = "INS"
    BY <1>1, <1>2, <1>3, <2>1, <2>2 DEF Stamped
  <2>3. CASE state # "INS"
    <3>1. Reading = now - 4 /\ now >= 4 /\ now <= now
      BY <1>2, <1>3, <2>3
    <3>2. QED
      BY <1>1, <2>1, <2>3, <3>1 DEF Stamped
  <2>4. QED
    BY <2>2, <2>3
<1>9. LeapTyped'
  <2>1. stamps' # <<>>
    BY <1>5, <1>6, EmptySeq
  <2>2. QED
    BY <1>1, <1>2, <1>6, <2>1 DEF OnTrack, LeapTyped
<1>10. AllStamped'
  <2>1. ASSUME NEW j \in 1..(l + 1) PROVE Stamped(stamps[j])'
    <3>1. CASE j \in 1..l
      <4>1. Stamped(stamps[j]) /\ stamps'[j] = stamps[j]
        BY <1>5, <1>6, <3>1 DEF OnTrack, AllStamped
      <4>2. QED
        BY <1>1, <4>1 DEF Stamped
    <3>2. CASE j = l + 1
      BY <1>8, <3>2
    <3>3. QED
      BY <1>7, <3>1, <3>2
  <2>2. QED
    BY <1>6, <2>1 DEF AllStamped
<1>b. Before' = Before /\ Tally' = Tally
  BY <1>1 DEF Before, Tally
<1>c. Before + l = packets + kpackets
  BY <1>5 DEF OnTrack, Counted
<1>11. Counted'
  <2>1. Before' + Len(stamps') = packets' + kpackets'
    <3>1. Before + (l + 1) = packets + (kpackets + 1)
      BY <1>2, <1>c
    <3>2. QED
      BY <1>1, <1>6, <1>b, <3>1
  <2>2. /\ \A i \in 1..Len(states) : states[i].index <= packets
        /\ \A k \in 1..Len(states) : \A i \in 1..k : states[i].index <= states[k].index
    BY DEF OnTrack, Counted
  <2>3. QED
    BY <1>1, <2>1, <2>2 DEF Counted
<1>d. InHand'
  <2>1. ASSUME measuring # "no", NEW j \in 1..(l + 1), Before + j > Tally
        PROVE  stamps'[j].at = now
    <3>1. CASE j \in 1..l
      BY <1>5, <1>6, <2>1, <3>1 DEF OnTrack, InHand
    <3>2. CASE j = l + 1
      BY <1>4, <1>6, <3>2
    <3>3. QED
      BY <1>7, <3>1, <3>2
  <2>2. measuring \in {"taken", "read"} =>
           /\ measurement.index <= packets
           /\ \A i \in 1..Len(states) : states[i].index <= measurement.index
    BY DEF OnTrack, InHand
  <2>3. ASSUME measuring = "read", NEW j \in 1..(l + 1),
               NoneCovers(j), Before + j <= measurement.index
        PROVE  InTime(stamps'[j], measurement)
    <3>1. CASE j \in 1..l
      BY <1>5, <1>6, <2>3, <3>1 DEF OnTrack, InHand
    <3>2. CASE j = l + 1
      <4>1. measurement.index <= packets /\ measurement.index \in Nat
        BY <2>2, <2>3, LeapTypes
      <4>2. FALSE
        BY <1>2, <1>c, <2>3, <3>2, <4>1
      <4>3. QED
        BY <4>2
    <3>3. QED
      BY <1>7, <3>1, <3>2
  <2>4. \A j : NoneCovers(j)' <=> NoneCovers(j)
    BY <1>1, <1>b DEF NoneCovers
  <2>5. QED
    BY <1>1, <1>6, <1>b, <2>1, <2>2, <2>3, <2>4 DEF InHand
<1>12. Planned' /\ ResultsExact'
  BY <1>1 DEF OnTrack, Planned, ResultsExact
<1>13. Uncovered'
  <2>1. ASSUME NEW j \in 1..(l + 1), Risky(stamps'[j]), NoneCovers(j)
        PROVE  measured < 3 /\ due <= stamps'[j].at + 2
    <3>1. CASE j \in 1..l
      BY <1>5, <1>6, <2>1, <3>1 DEF OnTrack, Uncovered
    <3>2. CASE j = l + 1
      <4>1. state = "INS"
        BY <1>2, <1>3, <1>4, <1>6, <2>1, <3>2 DEF Risky
      <4>2. now <= 4 /\ 1 + 2 * measured <= due /\ due <= now + 2
        BY <1>3, <4>1 DEF OnTrack, Planned
      <4>3. stamps'[j].at = now
        BY <1>4, <1>6, <3>2
      <4>4. measured < 3
        BY <1>2, <4>2
      <4>5. QED
        BY <4>2, <4>3, <4>4
    <3>3. QED
      BY <1>7, <3>1, <3>2
  <2>2. \A j : NoneCovers(j)' <=> NoneCovers(j)
    BY <1>1, <1>b DEF NoneCovers
  <2>3. QED
    BY <1>1, <1>6, <2>1, <2>2 DEF Uncovered
<1>14. Covered'
  <2>1. ASSUME NEW j \in 1..(l + 1), NEW i \in 1..Len(states), Covers(i, Before + j)
        PROVE  InTime(stamps'[j], states[i])
    <3>1. CASE j \in 1..l
      BY <1>5, <1>6, <2>1, <3>1 DEF OnTrack, Covered
    <3>2. CASE j = l + 1
      <4>1. states[i].index <= packets
        BY DEF OnTrack, Counted
      <4>2. states[i].index >= Before + (l + 1)
        BY <2>1, <3>2 DEF Covers
      <4>3. states[i].index \in Nat
        BY LeapTypes
      <4>4. FALSE
        BY <1>2, <1>c, <4>1, <4>2, <4>3
      <4>5. QED
        BY <4>4
    <3>3. QED
      BY <1>7, <3>1, <3>2
  <2>2. \A i, n : Covers(i, n)' <=> Covers(i, n)
    BY <1>1 DEF Covers
  <2>3. QED
    BY <1>1, <1>6, <1>b, <2>1, <2>2 DEF Covered
<1>15. QED
  BY <1>9, <1>10, <1>11, <1>d, <1>12, <1>13, <1>14 DEF OnTrack

\* Reading the kernel's count moves it, and nothing that arrived stays uncounted.
LEMMA CountingKeeps ==
  ASSUME OnTrack, CountPackets,
         UNCHANGED <<now, state, stamps, index, looking, states, results, measured, due>>
  PROVE  /\ packets' \in Nat /\ kpackets' \in Nat /\ packets <= packets'
         /\ Before' = Before
         /\ \A j \in 1..Len(stamps) : Before + j <= packets'
         /\ AllStamped' /\ Counted' /\ Uncovered' /\ Covered' /\ ResultsExact'
<1>1. packets' = packets + kpackets /\ kpackets' = 0
  BY DEF CountPackets
<1>2. /\ kpackets \in Nat /\ packets \in Nat /\ Before \in Nat
      /\ Len(stamps) \in Nat
      /\ \A i \in 1..Len(states) : states[i].index \in Nat
  BY LeapTypes
<1>3. Before' = Before
  BY DEF Before
<1>4. AllStamped' /\ Uncovered' /\ Covered'
  BY <1>3, SameQueue
<1>5. ResultsExact'
  BY DEF OnTrack, ResultsExact
<1>6. /\ Before + Len(stamps) = packets + kpackets
      /\ \A i \in 1..Len(states) : states[i].index <= packets
      /\ \A k \in 1..Len(states) : \A i \in 1..k : states[i].index <= states[k].index
  BY DEF OnTrack, Counted
<1>7. \A i \in 1..Len(states) : states[i].index <= packets + kpackets
  BY <1>2, <1>6
<1>8. \A j \in 1..Len(stamps) : Before + j <= packets + kpackets
  BY <1>2, <1>6
<1>9. Before + Len(stamps) = (packets + kpackets) + 0
  BY <1>2, <1>6
<1>10. Counted'
  BY <1>1, <1>3, <1>6, <1>7, <1>9 DEF Counted
<1>11. QED
  BY <1>1, <1>2, <1>3, <1>4, <1>5, <1>8, <1>10

LEMMA ReadDropsKeeps == OnTrack /\ ReadDrops => OnTrack'
<1> SUFFICES ASSUME OnTrack, ReadDrops PROVE OnTrack'
  OBVIOUS
<1>1. /\ CountPackets
      /\ UNCHANGED <<now, state, stamps, index, looking, states, results, measured, due>>
      /\ UNCHANGED <<measuring, measurement>>
  BY DEF ReadDrops, clockVars, monitorVars, correctorVars
<1>2. /\ packets' \in Nat /\ kpackets' \in Nat /\ packets <= packets'
      /\ Before' = Before
      /\ AllStamped' /\ Counted' /\ Uncovered' /\ Covered' /\ ResultsExact'
  BY <1>1, CountingKeeps
<1>3. LeapTyped' /\ Planned'
  BY <1>1, <1>2 DEF OnTrack, LeapTyped, Planned
<1>4. InHand'
  <2>1. /\ packets \in Nat /\ measurement.index \in Nat /\ Before \in Nat
        /\ Tally \in Nat
    BY LeapTypes
  <2>2. Tally <= Tally' /\ Tally' \in Nat
    BY <1>1, <1>2, <2>1 DEF Tally
  <2>3. ASSUME measuring # "no", NEW j \in 1..Len(stamps), Before + j > Tally'
        PROVE  stamps[j].at = now
    <3>1. Before + j > Tally
      BY <2>1, <2>2, <2>3
    <3>2. QED
      BY <2>3, <3>1 DEF OnTrack, InHand
  <2>4. measuring \in {"taken", "read"} =>
           /\ measurement.index <= packets'
           /\ \A i \in 1..Len(states) : states[i].index <= measurement.index
    BY <1>2, <2>1 DEF OnTrack, InHand
  <2>5. \A j : NoneCovers(j)' <=> NoneCovers(j)
    BY <1>1, <1>2 DEF NoneCovers
  <2>6. measuring = "read" =>
           \A j \in 1..Len(stamps) :
               (NoneCovers(j) /\ Before + j <= measurement.index)
                   => InTime(stamps[j], measurement)
    BY DEF OnTrack, InHand
  <2>7. QED
    BY <1>1, <1>2, <2>3, <2>4, <2>5, <2>6 DEF InHand
<1>5. QED
  BY <1>2, <1>3, <1>4 DEF OnTrack

LEMMA Measure1Keeps == OnTrack /\ Measure1 => OnTrack'
<1> SUFFICES ASSUME OnTrack, Measure1 PROVE OnTrack'
  OBVIOUS
<1>1. /\ CountPackets
      /\ UNCHANGED <<now, state, stamps, index, looking, states, results, measured, due>>
      /\ measuring' = "counted" /\ measurement' = measurement
      /\ measured < 3 /\ now >= due
  BY DEF Measure1, clockVars, correctorVars
<1>2. /\ packets' \in Nat /\ kpackets' \in Nat
      /\ Before' = Before
      /\ \A j \in 1..Len(stamps) : Before + j <= packets'
      /\ AllStamped' /\ Counted' /\ Uncovered' /\ Covered' /\ ResultsExact'
  BY <1>1, CountingKeeps
<1>3. LeapTyped' /\ Planned'
  BY <1>1, <1>2 DEF OnTrack, LeapTyped, Planned
<1>4. InHand'
  <2>1. Tally' = packets'
    BY <1>1 DEF Tally
  <2>2. Before \in Nat /\ Len(stamps) \in Nat
    BY LeapTypes
  <2>3. \A j \in 1..Len(stamps) : ~(Before + j > packets')
    BY <1>2, <2>2
  <2>4. QED
    BY <1>1, <1>2, <2>1, <2>3 DEF InHand
<1>5. QED
  BY <1>2, <1>3, <1>4 DEF OnTrack

\* The clock as it is read now does for every packet that no measurement covers.
LEMMA ReadingCovers ==
  ASSUME OnTrack, NEW j \in 1..Len(stamps),
         NoneCovers(j),
         NEW s, s.time = Reading, s.state = state
  PROVE  InTime(stamps[j], s) /\ s.time \in Int
<1>1. /\ now \in Int /\ due \in Int /\ Lateness \in 0..1 /\ measured \in 0..3
      /\ state \in {"INS", "OOP", "WAIT"}
      /\ stamps[j].at \in Int /\ stamps[j].ts \in Int
  BY LeapTypes
<1>2. Stamped(stamps[j])
  BY DEF OnTrack, AllStamped
<1>3. /\ state = "INS" => now <= 4 /\ Reading = now
      /\ state # "INS" => now >= 4 /\ Reading = now - 4
      /\ state = "OOP" => now \in 4..8
      /\ state = "WAIT" => now >= 8
  BY <1>1 DEF OnTrack, LeapTyped, Reading
<1>4. TrueTime(s) = now /\ Reading \in Int
  BY <1>1, <1>3 DEF TrueTime
<1>5. Risky(stamps[j]) => now - stamps[j].at < 4
  <2>1. SUFFICES ASSUME Risky(stamps[j]) PROVE now - stamps[j].at < 4
    OBVIOUS
  <2>2. measured < 3 /\ due <= stamps[j].at + 2
    BY <2>1 DEF OnTrack, Uncovered
  <2>3. now <= due + Lateness
    BY <2>2 DEF OnTrack, Planned
  <2>4. QED
    BY <1>1, <2>2, <2>3
<1>6. stamps[j].at <= now
  BY <1>2 DEF Stamped
<1>7. /\ state = "INS" => stamps[j].ts = stamps[j].at /\ Reading <= 4
      /\ state = "OOP" => Reading \in 0..4
      /\ state = "WAIT" => Reading >= 4
  BY <1>1, <1>2, <1>3 DEF Stamped
<1>8. QED
  BY <1>4, <1>5, <1>6, <1>7 DEF InTime

LEMMA TakeIndexKeeps == OnTrack /\ TakeIndex => OnTrack'
<1> SUFFICES ASSUME OnTrack, TakeIndex PROVE OnTrack'
  OBVIOUS
<1>1. /\ measuring = "counted" /\ measuring' = "taken"
      /\ measurement' = [measurement EXCEPT !.index = packets]
      /\ UNCHANGED <<now, state, stamps, kpackets, packets, index, looking, states,
                     results, measured, due>>
  BY DEF TakeIndex, clockVars, countVars, correctorVars
<1>2. packets \in Nat /\ measurement \in ClockStates
  BY LeapTypes
<1>3. measurement' \in ClockStates /\ measurement'.index = packets
  BY <1>1, <1>2 DEF ClockStates
<1>4. Before' = Before /\ Tally' = packets /\ Tally = packets
  BY <1>1, <1>3 DEF Before, Tally
<1>5. LeapTyped' /\ Planned' /\ Counted' /\ ResultsExact'
  BY <1>1, <1>3, <1>4 DEF OnTrack, LeapTyped, Planned, Counted, ResultsExact
<1>6. InHand'
  <2>1. \A j \in 1..Len(stamps) : Before + j > packets => stamps[j].at = now
    BY <1>1, <1>4 DEF OnTrack, InHand
  <2>2. \A i \in 1..Len(states) : states[i].index <= packets
    BY DEF OnTrack, Counted
  <2>3. packets <= packets
    BY <1>2
  <2>4. QED
    BY <1>1, <1>3, <1>4, <2>1, <2>2, <2>3 DEF InHand
<1>7. QED
  BY <1>1, <1>4, <1>5, <1>6, SameQueue DEF OnTrack

LEMMA ReadClockKeeps == OnTrack /\ ReadClock => OnTrack'
<1> SUFFICES ASSUME OnTrack, ReadClock PROVE OnTrack'
  OBVIOUS
<1> DEFINE s == [index |-> measurement.index, time |-> Reading, state |-> state]
<1>1. /\ measuring = "taken" /\ measuring' = "read" /\ measurement' = s
      /\ UNCHANGED <<now, state, stamps, kpackets, packets, index, looking, states,
                     results, measured, due>>
  BY DEF ReadClock, clockVars, countVars, correctorVars
<1>2. measurement.index \in Nat /\ now \in Int /\ state \in {"INS", "OOP", "WAIT"}
  BY LeapTypes
<1>3. Reading \in Int
  BY <1>2 DEF Reading
<1>4. /\ s \in ClockStates /\ s.index = measurement.index
      /\ s.time = Reading /\ s.state = state
  BY <1>2, <1>3 DEF ClockStates
<1> HIDE DEF s
<1>5. Before' = Before /\ Tally' = Tally
  BY <1>1, <1>4 DEF Before, Tally
<1>6. LeapTyped' /\ Planned' /\ Counted' /\ ResultsExact'
  BY <1>1, <1>4, <1>5 DEF OnTrack, LeapTyped, Planned, Counted, ResultsExact
<1>7. InHand'
  <2>1. /\ \A j \in 1..Len(stamps) : Before + j > Tally => stamps[j].at = now
        /\ measurement.index <= packets
        /\ \A i \in 1..Len(states) : states[i].index <= measurement.index
    BY <1>1 DEF OnTrack, InHand
  <2>2. ASSUME NEW j \in 1..Len(stamps), NoneCovers(j) PROVE InTime(stamps[j], s)
    BY <1>4, <2>2, ReadingCovers
  <2>3. \A j : NoneCovers(j)' <=> NoneCovers(j)
    BY <1>1, <1>5 DEF NoneCovers
  <2>4. QED
    BY <1>1, <1>4, <1>5, <2>1, <2>2, <2>3 DEF InHand
<1>8. QED
  BY <1>1, <1>5, <1>6, <1>7, SameQueue DEF OnTrack

LEMMA RecordClockStateKeeps == OnTrack /\ RecordClockState => OnTrack'
<1> SUFFICES ASSUME OnTrack, RecordClockState PROVE OnTrack'
  OBVIOUS
<1>1. /\ measuring = "read" /\ states' = Append(states, measurement)
      /\ measuring' = "no" /\ measurement' = Unmeasured
      /\ measured' = measured + 1 /\ due' = now + 2
      /\ UNCHANGED <<now, state, stamps, kpackets, packets, index, looking, results>>
  BY DEF RecordClockState, clockVars, countVars, correctorVars
<1>2. /\ now \in Int /\ due \in Int /\ Lateness \in 0..1
      /\ state \in {"INS", "OOP", "WAIT"}
      /\ stamps \in Seq(Stamps) /\ states \in Seq(ClockStates)
      /\ Len(stamps) \in Nat /\ Len(states) \in Nat
      /\ packets \in Nat /\ measured \in 0..3 /\ measurement \in ClockStates
      /\ measurement.index \in Nat /\ Before \in Nat
  BY LeapTypes
<1>3. PICK new \in ClockStates : new = measurement
  BY <1>2
<1>4. Before' = Before
  BY <1>1 DEF Before
<1>5. PICK l \in Nat : l = Len(states)
  BY <1>2
<1>6. /\ \A j \in 1..Len(stamps) : Before + j > new.index => stamps[j].at = now
      /\ new.index <= packets /\ new.index \in Nat
      /\ \A i \in 1..l : states[i].index <= new.index
      /\ \A j \in 1..Len(stamps) :
            (NoneCovers(j) /\ Before + j <= new.index) => InTime(stamps[j], new)
  BY <1>1, <1>2, <1>3, <1>5 DEF OnTrack, InHand, Tally
<1>7. /\ states' \in Seq(ClockStates) /\ Len(states') = l + 1
      /\ \A i \in 1..l : states'[i] = states[i]
      /\ states'[l + 1] = new
  BY <1>1, <1>2, <1>3, <1>5, AppendProperties
<1>9. \A i \in 1..(l + 1) : i \in 1..l \/ i = l + 1
  BY <1>5
<1>10. measured < 3 /\ now >= due /\ 1 + 2 * measured <= due
  BY <1>1 DEF OnTrack, Planned
<1>11. LeapTyped'
  <2>1. Unmeasured \in ClockStates
    BY DEF Unmeasured, ClockStates
  <2>2. measured' \in 0..3 /\ due' \in Int
    BY <1>1, <1>2, <1>10
  <2>3. QED
    BY <1>1, <1>7, <2>1, <2>2 DEF OnTrack, LeapTyped
<1>12. AllStamped' /\ ResultsExact'
  BY <1>1 DEF OnTrack, AllStamped, Stamped, ResultsExact
<1>13. Planned' /\ InHand'
  BY <1>1, <1>2, <1>10 DEF Planned, InHand
<1>14. \A i \in 1..l : states[i].index \in Nat
  BY <1>5, LeapTypes
<1>15. Counted'
  <2>1. \A i \in 1..(l + 1) : states'[i].index <= new.index /\ states'[i].index \in Nat
    BY <1>6, <1>7, <1>9, <1>14
  <2>2. \A i \in 1..(l + 1) : states'[i].index <= packets
    BY <1>2, <1>6, <2>1
  <2>3. ASSUME NEW k \in 1..(l + 1), NEW i \in 1..k
        PROVE  states'[i].index <= states'[k].index
    <3>1. CASE k \in 1..l
      <4>1. i \in 1..l
        BY <3>1
      <4>2. states[i].index <= states[k].index
        BY <1>5, <3>1 DEF OnTrack, Counted
      <4>3. QED
        BY <1>7, <3>1, <4>1, <4>2
    <3>2. CASE k = l + 1
      <4>1. i \in 1..(l + 1)
        BY <3>2
      <4>2. QED
        BY <1>7, <2>1, <3>2, <4>1
    <3>3. QED
      BY <1>9, <3>1, <3>2
  <2>4. Before + Len(stamps) = packets + kpackets
    BY DEF OnTrack, Counted
  <2>5. QED
    BY <1>1, <1>4, <1>7, <2>2, <2>3, <2>4 DEF Counted
<1>16. Uncovered'
  <2>1. ASSUME NEW j \in 1..Len(stamps), Risky(stamps[j]),
               \A i \in 1..(l + 1) : states'[i].index < Before + j
        PROVE  measured + 1 < 3 /\ now + 2 <= stamps[j].at + 2
    <3>1. l + 1 \in 1..(l + 1)
      BY <1>5
    <3>2. new.index < Before + j
      BY <1>7, <2>1, <3>1
    <3>3. stamps[j].at = now
      BY <1>2, <1>6, <3>2
    <3>4. stamps[j].at <= 4
      <4>1. stamps[j].ts = stamps[j].at /\ stamps[j].at \in Int
        BY <2>1, LeapTypes DEF Risky
      <4>2. Stamped(stamps[j])
        BY DEF OnTrack, AllStamped
      <4>3. QED
        BY <4>1, <4>2 DEF Stamped
    <3>5. QED
      BY <1>2, <1>10, <3>3, <3>4
  <2>2. QED
    BY <1>1, <1>4, <1>7, <2>1 DEF Uncovered, NoneCovers
<1>17. Covered'
  <2>1. ASSUME NEW j \in 1..Len(stamps), NEW i \in 1..(l + 1),
               states'[i].index >= Before + j,
               i = 1 \/ states'[i - 1].index < Before + j
        PROVE  InTime(stamps[j], states'[i])
    <3>1. CASE i \in 1..l
      <4>1. i = 1 \/ i - 1 \in 1..l
        BY <3>1
      <4>2. Covers(i, Before + j)
        BY <1>7, <2>1, <3>1, <4>1 DEF Covers
      <4>3. InTime(stamps[j], states[i])
        BY <1>5, <3>1, <4>2 DEF OnTrack, Covered
      <4>4. QED
        BY <1>7, <3>1, <4>3
    <3>2. CASE i = l + 1
      <4>1. ASSUME NEW k \in 1..l PROVE states[k].index < Before + j
        <5>1. i - 1 = l /\ l \in 1..l /\ i # 1 /\ k \in 1..l
          BY <3>2
        <5>2. states[l].index < Before + j
          BY <1>7, <2>1, <5>1
        <5>3. states[k].index <= states[l].index
          BY <1>5, <5>1 DEF OnTrack, Counted
        <5>4. states[k].index \in Nat /\ states[l].index \in Nat
          BY <1>14, <5>1
        <5>5. QED
          BY <1>2, <5>2, <5>3, <5>4
      <4>2. NoneCovers(j)
        BY <1>5, <4>1 DEF NoneCovers
      <4>3. Before + j <= new.index
        BY <1>2, <1>6, <1>7, <2>1, <3>2
      <4>4. QED
        BY <1>6, <1>7, <3>2, <4>2, <4>3
    <3>3. QED
      BY <1>9, <3>1, <3>2
  <2>2. QED
    BY <1>1, <1>4, <1>7, <2>1 DEF Covered, Covers
<1>18. QED
  BY <1>11, <1>12, <1>13, <1>15, <1>16, <1>17 DEF OnTrack

LEMMA ExpireKeeps == OnTrack /\ Expire => OnTrack'
<1> SUFFICES ASSUME OnTrack, Expire PROVE OnTrack'
  OBVIOUS
<1>1. /\ looking = "no" /\ looking' = "expired" /\ stamps # <<>> /\ index' = index + 1
      /\ UNCHANGED <<now, state, stamps, kpackets, packets, results, measured,
                     measuring, measurement, due>>
  BY DEF Expire, clockVars, countVars, monitorVars
<1>2. PICK n \in 0..Len(states) :
         Expired(n) /\ states' = SubSeq(states, n + 1, Len(states))
  BY DEF Expire
<1>3. /\ states \in Seq(ClockStates)
      /\ Len(stamps) \in Nat /\ Len(states) \in Nat
      /\ packets \in Nat /\ index \in Nat /\ measurement.index \in Nat
      /\ \A i \in 1..Len(states) : states[i] \in ClockStates /\ states[i].index \in Nat
  BY LeapTypes
<1>4. PICK l \in Nat : l = Len(states) - n
  <2>1. PICK k \in Nat : k = Len(states)
    BY <1>3
  <2>2. n \in 0..k /\ k - n = Len(states) - n
    BY <2>1
  <2>3. k - n \in Nat
    BY <2>2
  <2>4. QED
    BY <2>2, <2>3
<1>5. Len(states) = n + l /\ n \in Nat
  BY <1>3, <1>4
<1>6. \A i \in 1..(n + l) : states[i] \in ClockStates /\ states[i].index \in Nat
  BY <1>3, <1>5
<1>7. /\ states' \in Seq(ClockStates) /\ Len(states') = l
      /\ \A i \in 1..l : states'[i] = states[n + i]
  <2>1. \A i \in (n + 1)..(n + l) : states[i] \in ClockStates
    BY <1>5, <1>6
  <2>2. n + 1 \in Int /\ n + l \in Int
    BY <1>5
  <2>3. /\ SubSeq(states, n + 1, n + l) \in Seq(ClockStates)
        /\ Len(SubSeq(states, n + 1, n + l)) =
              IF n + 1 <= n + l THEN (n + l) - (n + 1) + 1 ELSE 0
        /\ \A i \in 1..((n + l) - (n + 1) + 1) :
              SubSeq(states, n + 1, n + l)[i] = states[(n + 1) + i - 1]
    BY <2>1, <2>2, SubSeqProperties
  <2>4. states' = SubSeq(states, n + 1, n + l)
    BY <1>2, <1>5
  <2>5. (n + l) - (n + 1) + 1 = l /\ (IF n + 1 <= n + l THEN l ELSE 0) = l
    BY <1>5
  <2>6. \A i \in 1..l : (n + 1) + i - 1 = n + i
    BY <1>5
  <2>7. QED
    BY <2>3, <2>4, <2>5, <2>6
<1>8. \A i \in 1..l : n + i \in 1..Len(states)
  BY <1>5
<1>9. Before = index /\ Before' = index /\ Tally' = Tally
  <2>1. (index + 1) - 1 = index
    BY <1>3
  <2>2. QED
    BY <1>1, <2>1 DEF Before, Tally
\* What has expired covers none of the packets.
<1>10. \A i \in 1..n : \A j \in 1..Len(stamps) : states[i].index < index + j
  <2>1. SUFFICES ASSUME NEW i \in 1..n, NEW j \in 1..Len(stamps)
                 PROVE  states[i].index < index + j
    OBVIOUS
  <2>2. states[i].index <= index
    BY <1>2 DEF Expired
  <2>3. states[i].index \in Nat
    BY <1>5, <1>6
  <2>4. QED
    BY <1>3, <2>2, <2>3
<1>11. ASSUME NEW j \in 1..Len(stamps), NoneCovers(j)' PROVE NoneCovers(j)
  <2>1. ASSUME NEW i \in 1..Len(states) PROVE states[i].index < index + j
    <3>1. CASE i \in 1..n
      BY <1>10, <3>1
    <3>2. CASE i \notin 1..n
      <4>1. i - n \in 1..l /\ n + (i - n) = i
        BY <1>5, <3>2
      <4>2. states'[i - n] = states[i]
        BY <1>7, <4>1
      <4>3. QED
        BY <1>7, <1>9, <1>11, <4>1, <4>2 DEF NoneCovers
    <3>3. QED
      BY <3>1, <3>2
  <2>2. QED
    BY <1>9, <2>1 DEF NoneCovers
<1>12. LeapTyped'
  BY <1>1, <1>3, <1>7 DEF OnTrack, LeapTyped
<1>13. AllStamped' /\ Planned' /\ ResultsExact'
  BY <1>1 DEF OnTrack, AllStamped, Stamped, Planned, ResultsExact
<1>14. Counted'
  <2>1. Before + Len(stamps) = packets + kpackets
    BY DEF OnTrack, Counted
  <2>2. \A i \in 1..l : states'[i].index <= packets
    BY <1>7, <1>8 DEF OnTrack, Counted
  <2>3. ASSUME NEW k \in 1..l, NEW i \in 1..k
        PROVE  states'[i].index <= states'[k].index
    <3>1. n + k \in 1..Len(states) /\ n + i \in 1..(n + k) /\ i \in 1..l
      BY <1>5
    <3>2. states[n + i].index <= states[n + k].index
      BY <3>1 DEF OnTrack, Counted
    <3>3. QED
      BY <1>7, <3>1, <3>2
  <2>4. QED
    BY <1>1, <1>7, <1>9, <2>1, <2>2, <2>3 DEF Counted
<1>15. InHand'
  <2>1. measuring # "no" =>
           \A j \in 1..Len(stamps) : Before + j > Tally => stamps[j].at = now
    BY DEF OnTrack, InHand
  <2>2. measuring \in {"taken", "read"} =>
           /\ measurement.index <= packets
           /\ \A i \in 1..l : states'[i].index <= measurement.index
    BY <1>7, <1>8 DEF OnTrack, InHand
  <2>3. ASSUME measuring = "read", NEW j \in 1..Len(stamps), NoneCovers(j)',
               Before + j <= measurement.index
        PROVE  InTime(stamps[j], measurement)
    BY <1>11, <2>3 DEF OnTrack, InHand
  <2>4. QED
    BY <1>1, <1>7, <1>9, <2>1, <2>2, <2>3 DEF InHand
<1>16. Uncovered'
  <2>1. ASSUME NEW j \in 1..Len(stamps), NoneCovers(j)', Risky(stamps[j])
        PROVE  measured < 3 /\ due <= stamps[j].at + 2
    BY <1>11, <2>1 DEF OnTrack, Uncovered
  <2>2. QED
    BY <1>1, <2>1 DEF Uncovered
<1>17. Covered'
  <2>1. ASSUME NEW j \in 1..Len(stamps), NEW i \in 1..l,
               states'[i].index >= index + j,
               i = 1 \/ states'[i - 1].index < index + j
        PROVE  InTime(stamps[j], states'[i])
    <3>1. n + i \in 1..Len(states) /\ states'[i] = states[n + i]
      BY <1>7, <1>8
    <3>2. n + i = 1 \/ states[(n + i) - 1].index < index + j
      <4>1. CASE i = 1 /\ n = 0
        BY <4>1
      <4>2. CASE i = 1 /\ n # 0
        <5>1. n \in 1..n /\ (n + i) - 1 = n
          BY <1>5, <4>2
        <5>2. QED
          BY <1>10, <5>1
      <4>3. CASE i # 1
        <5>1. i - 1 \in 1..l /\ n + (i - 1) = (n + i) - 1
          BY <1>5, <4>3
        <5>2. states'[i - 1] = states[(n + i) - 1]
          BY <1>7, <5>1
        <5>3. QED
          BY <2>1, <4>3, <5>2
      <4>4. QED
        BY <4>1, <4>2, <4>3
    <3>3. Covers(n + i, Before + j)
      BY <1>9, <2>1, <3>1, <3>2 DEF Covers
    <3>4. QED
      BY <3>1, <3>3 DEF OnTrack, Covered
  <2>2. QED
    BY <1>1, <1>7, <1>9, <2>1 DEF Covered, Covers
<1>18. QED
  BY <1>12, <1>13, <1>14, <1>15, <1>16, <1>17 DEF OnTrack

LEMMA FindEmptyKeeps == OnTrack /\ FindEmpty => OnTrack'
<1> SUFFICES ASSUME OnTrack, FindEmpty PROVE OnTrack'
  OBVIOUS
<1>1. /\ looking = "expired" /\ looking' = "empty"
      /\ UNCHANGED <<now, state, stamps, kpackets, packets, index, states, results,
                     measured, measuring, measurement, due>>
  BY DEF FindEmpty, clockVars, countVars, monitorVars
<1>2. Before' = Before /\ Tally' = Tally
  BY <1>1 DEF Before, Tally
<1>3. LeapTyped' /\ Counted' /\ Planned' /\ ResultsExact'
  BY <1>1, <1>2 DEF OnTrack, LeapTyped, Counted, Planned, ResultsExact
<1>4. InHand'
  BY <1>1, <1>2 DEF OnTrack, InHand, NoneCovers
<1>5. QED
  BY <1>1, <1>2, <1>3, <1>4, SameQueue DEF OnTrack

LEMMA WhileLooking ==
  ASSUME OnTrack, looking # "no"
  PROVE  /\ stamps # <<>> /\ 1 \in 1..Len(stamps) /\ Head(stamps) = stamps[1]
         /\ Before + 1 = index
         /\ stamps[1] \in Stamps /\ stamps[1].at \in Int /\ stamps[1].ts \in Int
         /\ \/ stamps[1].ts = stamps[1].at /\ stamps[1].at <= 4
            \/ stamps[1].ts = stamps[1].at - 4 /\ stamps[1].at >= 4
<1>1. stamps # <<>>
  BY DEF OnTrack, LeapTyped
<1>2. stamps \in Seq(Stamps) /\ index \in Nat
  BY LeapTypes
<1>3. Len(stamps) \in Nat \ {0}
  BY <1>1, <1>2, EmptySeq
<1>4. 1 \in 1..Len(stamps)
  <2>1. \A n \in Nat \ {0} : 1 \in 1..n
    OBVIOUS
  <2>2. QED
    BY ONLY <1>3, <2>1, Zenon
<1>5. Head(stamps) = stamps[1]
  BY <1>1, <1>2
<1>6. Before + 1 = index
  BY <1>2 DEF Before
<1>7. Stamped(stamps[1])
  BY <1>4 DEF OnTrack, AllStamped
<1>8. stamps[1] \in Stamps /\ stamps[1].at \in Int /\ stamps[1].ts \in Int
  BY <1>4, LeapTypes
<1>9. QED
  BY <1>1, <1>4, <1>5, <1>6, <1>7, <1>8 DEF Stamped

\* A packet that has been corrected leaves the rest as it was.
LEMMA FinishKeeps ==
  ASSUME OnTrack, looking # "no", looking' = "no",
         NEW u \in Int, NEW k \in {"clean", "raced"},
         results' = Append(results, [at |-> Head(stamps).at, utc |-> u, look |-> k]),
         stamps' = Tail(stamps),
         k = "clean" => u = stamps[1].at,
         UNCHANGED <<now, state, kpackets, packets, index, states, measured,
                     measuring, measurement, due>>
  PROVE  OnTrack'
<1>1. /\ stamps \in Seq(Stamps) /\ Len(stamps) \in Nat /\ Len(states) \in Nat
      /\ packets \in Nat /\ kpackets \in Nat /\ index \in Nat /\ Before \in Nat
  BY LeapTypes
<1>2. /\ stamps # <<>> /\ Head(stamps) = stamps[1] /\ stamps[1].at \in Int
      /\ Before + 1 = index
  BY WhileLooking
<1>3. PICK m \in Nat : Len(stamps) = m + 1
  <2>1. Len(stamps) \in Nat \ {0}
    BY <1>1, <1>2, EmptySeq
  <2>2. PICK n \in Nat \ {0} : Len(stamps) = n
    BY <2>1
  <2>3. n - 1 \in Nat /\ n = (n - 1) + 1
    OBVIOUS
  <2>4. QED
    BY <2>2, <2>3
<1>4. /\ stamps' \in Seq(Stamps) /\ Len(stamps') = m
      /\ \A j \in 1..m : stamps'[j] = stamps[j + 1]
  <2>1. /\ Tail(stamps) \in Seq(Stamps) /\ Len(Tail(stamps)) = Len(stamps) - 1
        /\ \A j \in 1..Len(Tail(stamps)) : Tail(stamps)[j] = stamps[j + 1]
    BY <1>1, <1>2, HeadTailProperties
  <2>2. Len(stamps) - 1 = m
    BY <1>3
  <2>3. QED
    BY <2>1, <2>2
<1>5. Before' = index /\ Tally' = Tally
  BY DEF Before, Tally
<1>6. \A j \in 1..m : j + 1 \in 1..Len(stamps) /\ index + j = Before + (j + 1)
  BY <1>1, <1>2, <1>3
<1>7. \A j \in 1..m : NoneCovers(j)' => NoneCovers(j + 1)
  BY <1>5, <1>6 DEF NoneCovers
<1>8. ResultsExact' /\ results' \in Seq([at : Int, utc : Int, look : {"clean", "raced"}])
  <2> DEFINE r == [at |-> stamps[1].at, utc |-> u, look |-> k]
             Results == [at : Int, utc : Int, look : {"clean", "raced"}]
  <2>1. results' = Append(results, r)
    BY <1>2
  <2>2. r \in Results /\ (r.look = "clean" => r.utc = r.at)
    BY <1>2
  <2>3. results \in Seq(Results)
    BY DEF OnTrack, LeapTyped
  <2> HIDE DEF r, Results
  <2>4. PICK l \in Nat : l = Len(results)
    BY <2>3
  <2>5. /\ results' \in Seq(Results) /\ Len(results') = l + 1
        /\ \A i \in 1..l : results'[i] = results[i]
        /\ results'[l + 1] = r
    BY <2>1, <2>2, <2>3, <2>4, AppendProperties
  <2>6. DOMAIN results' = 1..(l + 1) /\ DOMAIN results = 1..l
    BY <2>3, <2>4, <2>5, LenProperties
  <2>7. ASSUME NEW i \in 1..(l + 1)
        PROVE  results'[i].look = "clean" => results'[i].utc = results'[i].at
    <3>1. CASE i \in 1..l
      BY <2>5, <2>6, <3>1 DEF OnTrack, ResultsExact
    <3>2. CASE i = l + 1
      BY <2>2, <2>5, <3>2
    <3>3. QED
      BY <2>4, <3>1, <3>2
  <2>8. ResultsExact'
    BY <2>6, <2>7 DEF ResultsExact
  <2>9. QED
    BY <2>5, <2>8 DEF Results
<1>9. LeapTyped'
  BY <1>4, <1>8 DEF OnTrack, LeapTyped
<1>10. AllStamped'
  <2>1. ASSUME NEW j \in 1..m PROVE Stamped(stamps[j])'
    <3>1. Stamped(stamps[j + 1]) /\ stamps'[j] = stamps[j + 1]
      BY <1>4, <1>6 DEF OnTrack, AllStamped
    <3>2. QED
      BY <3>1 DEF Stamped
  <2>2. QED
    BY <1>4, <2>1 DEF AllStamped
<1>11. Counted'
  <2>1. /\ Before + (m + 1) = packets + kpackets
        /\ \A i \in 1..Len(states) : states[i].index <= packets
        /\ \A n \in 1..Len(states) : \A i \in 1..n : states[i].index <= states[n].index
    BY <1>3 DEF OnTrack, Counted
  <2>2. index + m = packets + kpackets
    BY <1>1, <1>2, <2>1
  <2>3. QED
    BY <1>4, <1>5, <2>1, <2>2 DEF Counted
<1>12. InHand'
  <2>1. ASSUME measuring # "no", NEW j \in 1..m, index + j > Tally
        PROVE  stamps'[j].at = now
    BY <1>4, <1>6, <2>1 DEF OnTrack, InHand
  <2>2. measuring \in {"taken", "read"} =>
           /\ measurement.index <= packets
           /\ \A i \in 1..Len(states) : states[i].index <= measurement.index
    BY DEF OnTrack, InHand
  <2>3. ASSUME measuring = "read", NEW j \in 1..m, NoneCovers(j)',
               index + j <= measurement.index
        PROVE  InTime(stamps'[j], measurement)
    BY <1>4, <1>6, <1>7, <2>3 DEF OnTrack, InHand
  <2>4. QED
    BY <1>4, <1>5, <2>1, <2>2, <2>3 DEF InHand
<1>13. Planned'
  BY DEF OnTrack, Planned
<1>14. Uncovered'
  <2>1. ASSUME NEW j \in 1..m, NoneCovers(j)', Risky(stamps'[j])
        PROVE  measured < 3 /\ due <= stamps'[j].at + 2
    BY <1>4, <1>6, <1>7, <2>1 DEF OnTrack, Uncovered
  <2>2. QED
    BY <1>4, <2>1 DEF Uncovered
<1>15. Covered'
  <2>1. ASSUME NEW j \in 1..m, NEW i \in 1..Len(states), Covers(i, index + j)
        PROVE  InTime(stamps'[j], states[i])
    BY <1>4, <1>6, <2>1 DEF OnTrack, Covered
  <2>2. \A i, n : Covers(i, n)' <=> Covers(i, n)
    BY DEF Covers
  <2>3. QED
    BY <1>4, <1>5, <2>1, <2>2 DEF Covered
<1>16. QED
  BY <1>8, <1>9, <1>10, <1>11, <1>12, <1>13, <1>14, <1>15 DEF OnTrack

LEMMA CorrectedType ==
  ASSUME NEW ts \in Int, NEW ref
  PROVE  Plain(ts) \in Int /\ Corrected(ts, ref) \in Int
<1>1. Plain(ts) \in Int /\ Indicated(ts) \in Int
  BY DEF Plain, Indicated
<1>2. QED
  BY <1>1 DEF Corrected

LEMMA CorrectKeeps == OnTrack /\ Correct => OnTrack'
<1> SUFFICES ASSUME OnTrack, Correct PROVE OnTrack'
  OBVIOUS
<1> DEFINE p == stamps[1]
<1>1. /\ looking # "no" /\ looking' = "no"
      /\ UNCHANGED <<now, state, kpackets, packets, index, states, measured,
                     measuring, measurement, due>>
  BY DEF Correct, clockVars, countVars, monitorVars
<1>2. /\ 1 \in 1..Len(stamps) /\ Head(stamps) = p /\ Before + 1 = index
      /\ p \in Stamps /\ p.at \in Int /\ p.ts \in Int
      /\ (p.ts = p.at /\ p.at <= 4) \/ (p.ts = p.at - 4 /\ p.at >= 4)
  BY <1>1, WhileLooking
<1>3. CASE ~NearMidnight(p.ts) /\ Finish(Plain(p.ts), "clean")
  <2>1. Plain(p.ts) = p.at
    BY <1>2, <1>3 DEF NearMidnight, LastSecond, FirstSecond, Plain
  <2>2. QED
    BY <1>1, <1>2, <1>3, <2>1, FinishKeeps DEF Finish
<1>4. CASE /\ states # <<>>
           /\ Finish(Corrected(p.ts, Head(states)),
                      IF Head(states).index < index THEN "raced" ELSE "clean")
  <2>1. states \in Seq(ClockStates) /\ index \in Nat
    BY LeapTypes
  <2>2. 1 \in 1..Len(states) /\ Head(states) = states[1]
    <3>1. Len(states) \in Nat \ {0}
      BY <1>4, <2>1, EmptySeq
    <3>2. QED
      BY <1>4, <2>1, <3>1
  <2>3. states[1] \in ClockStates /\ states[1].index \in Nat
    BY <2>2, LeapTypes
  <2>4. ASSUME ~(states[1].index < index) PROVE Corrected(p.ts, states[1]) = p.at
    <3>1. Covers(1, Before + 1)
      BY <1>2, <2>1, <2>3, <2>4 DEF Covers
    <3>2. InTime(p, states[1])
      BY <1>2, <2>2, <3>1 DEF OnTrack, Covered
    <3>3. states[1].time \in Int /\ states[1].state \in {"INS", "OOP", "WAIT"}
      BY <2>3 DEF ClockStates
    <3>4. QED
      BY <1>2, <3>2, <3>3, CorrectedExactly
  <2>5. Corrected(p.ts, states[1]) \in Int
    BY <1>2, CorrectedType
  <2>6. CASE states[1].index < index
    <3>1. Finish(Corrected(p.ts, states[1]), "raced")
      BY <1>4, <2>2, <2>6
    <3>2. QED
      BY <1>1, <2>5, <3>1, FinishKeeps DEF Finish
  <2>7. CASE ~(states[1].index < index)
    <3>1. Finish(Corrected(p.ts, states[1]), "clean")
      BY <1>4, <2>2, <2>7
    <3>2. QED
      BY <1>1, <2>4, <2>5, <2>7, <3>1, FinishKeeps DEF Finish
  <2>8. QED
    BY <2>6, <2>7
<1>5. QED
  BY <1>2, <1>3, <1>4 DEF Correct

LEMMA CorrectByClockKeeps == OnTrack /\ CorrectByClock => OnTrack'
<1> SUFFICES ASSUME OnTrack, CorrectByClock PROVE OnTrack'
  OBVIOUS
<1> DEFINE p == stamps[1]
           s == [time |-> Reading, state |-> state]
<1>1. /\ looking # "no" /\ looking' = "no"
      /\ UNCHANGED <<now, state, kpackets, packets, index, states, measured,
                     measuring, measurement, due>>
  BY DEF CorrectByClock, clockVars, countVars, monitorVars
<1>2. /\ 1 \in 1..Len(stamps) /\ Head(stamps) = p /\ Before + 1 = index
      /\ p \in Stamps /\ p.at \in Int /\ p.ts \in Int
      /\ (p.ts = p.at /\ p.at <= 4) \/ (p.ts = p.at - 4 /\ p.at >= 4)
  BY <1>1, WhileLooking
<1>3. Finish(Corrected(p.ts, s),
              IF \E i \in 1..Len(states) : states[i].index >= index
              THEN "raced" ELSE "clean")
  BY <1>2 DEF CorrectByClock
<1>4. s.time = Reading /\ s.state = state /\ state \in {"INS", "OOP", "WAIT"}
  BY LeapTypes
<1> HIDE DEF s
<1>5. Corrected(p.ts, s) \in Int
  BY <1>2, CorrectedType
<1>6. CASE \E i \in 1..Len(states) : states[i].index >= index
  <2>1. Finish(Corrected(p.ts, s), "raced")
    BY <1>3, <1>6
  <2>2. QED
    BY <1>1, <1>5, <2>1, FinishKeeps DEF Finish
<1>7. CASE ~\E i \in 1..Len(states) : states[i].index >= index
  <2>1. NoneCovers(1)
    <3>1. index \in Nat /\ \A i \in 1..Len(states) : states[i].index \in Nat
      BY LeapTypes
    <3>2. \A i \in 1..Len(states) : states[i].index < index
      BY <1>7, <3>1
    <3>3. QED
      BY <1>2, <3>2 DEF NoneCovers
  <2>2. InTime(p, s) /\ s.time \in Int
    BY <1>2, <1>4, <2>1, ReadingCovers
  <2>3. Corrected(p.ts, s) = p.at
    BY <1>2, <1>4, <2>2, CorrectedExactly
  <2>4. Finish(Corrected(p.ts, s), "clean")
    BY <1>3, <1>7
  <2>5. QED
    BY <1>1, <1>5, <2>3, <2>4, FinishKeeps DEF Finish
<1>8. QED
  BY <1>6, <1>7

\* LeapInv: what a measurement's count covers, also while it is in the monitor's
\* hands, and by when the next is made.
THEOREM LeapInductive == LeapSpec => []LeapInv
<1>1. LeapInv /\ [LeapNext]_leapVars => LeapInv'
  <2>1. SUFFICES ASSUME LeapInv, [LeapNext]_leapVars, detecting', cleared' = 0
                 PROVE  OnTrack'
    BY DEF LeapInv
  <2>2. UNCHANGED <<detecting, cleared>>
    BY <2>1 DEF leapVars, LeapNext, Tick, Apply, Stamp, ReadDrops, PassOn, Expire,
                Correct, FindEmpty, CorrectByClock, Measure1, TakeIndex, ReadClock,
                RecordClockState
  <2>3. detecting /\ OnTrack
    BY <2>1, <2>2 DEF LeapInv
  <2>4. CASE Tick
    BY <2>3, <2>4, TickKeeps
  <2>5. CASE Apply
    BY <2>3, <2>5, ApplyKeeps
  <2>6. CASE Stamp
    BY <2>3, <2>6, StampKeeps
  <2>7. CASE ReadDrops
    BY <2>3, <2>7, ReadDropsKeeps
  <2>8. CASE Measure1
    BY <2>3, <2>8, Measure1Keeps
  <2>9. CASE TakeIndex
    BY <2>3, <2>9, TakeIndexKeeps
  <2>10. CASE ReadClock
    BY <2>3, <2>10, ReadClockKeeps
  <2>11. CASE RecordClockState
    BY <2>3, <2>11, RecordClockStateKeeps
  <2>12. CASE PassOn
    BY <2>3, <2>12 DEF PassOn
  <2>13. CASE Expire
    BY <2>3, <2>13, ExpireKeeps
  <2>14. CASE Correct
    BY <2>3, <2>14, CorrectKeeps
  <2>15. CASE FindEmpty
    BY <2>3, <2>15, FindEmptyKeeps
  <2>16. CASE CorrectByClock
    BY <2>3, <2>16, CorrectByClockKeeps
  <2>17. CASE UNCHANGED leapVars
    <3>1. UNCHANGED <<now, state, stamps, kpackets, packets, index, looking, states,
                      results, measured, measuring, measurement, due>>
      BY <2>17 DEF leapVars, clockVars, countVars, monitorVars, correctorVars
    <3>2. Before' = Before /\ Tally' = Tally
      BY <3>1 DEF Before, Tally
    <3>3. LeapTyped' /\ Counted' /\ Planned' /\ ResultsExact'
      BY <2>3, <3>1, <3>2 DEF OnTrack, LeapTyped, Counted, Planned, ResultsExact
    <3>4. InHand'
      BY <2>3, <3>1, <3>2 DEF OnTrack, InHand, NoneCovers
    <3>5. QED
      BY <2>3, <3>1, <3>2, <3>3, <3>4, SameQueue DEF OnTrack
  <2>18. QED
    BY <2>1, <2>4, <2>5, <2>6, <2>7, <2>8, <2>9, <2>10, <2>11, <2>12, <2>13, <2>14,
       <2>15, <2>16, <2>17 DEF LeapNext
<1>2. QED
  BY <1>1, LeapBegins, PTL DEF LeapSpec

\* However late a packet is read, it is recorded at the time when it arrived, the
\* leap second included, unless a push raced with the reader's looks at the queue
\* (leap_second_corrector).
THEOREM TimestampsExact == LeapSpec => []LeapSecondExact
<1>1. LeapInv => LeapSecondExact
  BY DEF LeapInv, LeapSecondExact, OnTrack
<1>2. QED
  BY <1>1, LeapInductive, PTL
=============================================================================
