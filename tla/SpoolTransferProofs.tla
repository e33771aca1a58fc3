------------------------ MODULE SpoolTransferProofs ------------------------
(***************************************************************************)
(* More about SpoolForward, for every value of its constants: what reaches *)
(* the files of a session is a prefix of it, what reaches the destination  *)
(* is what the files hold, the forwarder and its destination never         *)
(* disagree, and the whole implements ReliableTransfer.                    *)
(***************************************************************************)
EXTENDS SpoolForwardProofs

-----------------------------------------------------------------------------
(* Records in sequences and files.                                          *)

\* Types, in the form in which the lemmas below use them.
LEMMA StoreFacts ==
  ASSUME IInv
  PROVE  /\ dir \subseteq FileNums /\ kern \in [FileNums -> Seq(SpoolRecs)]
         /\ sealed \in [FileNums -> Nat \cup {Unsealed}]
         /\ \A n \in FileNums :
              /\ n \in Nat /\ n # NoFile
              /\ kern[n] \in Seq(SpoolRecs) /\ Len(kern[n]) \in Nat
              /\ \A i \in 1..Len(kern[n]) : kern[n][i] \in SpoolRecs
         /\ buf \in Seq(SpoolRecs) /\ Len(buf) \in Nat
         /\ \A i \in 1..Len(buf) : buf[i] \in SpoolRecs
         /\ cur \in FileNums \cup {NoFile} /\ nextNum \in Nat
         /\ ssw \in WriterState /\ clock \in 0..MaxTime /\ MaxTime \in Nat
         /\ MaxSeq \in Nat
<1>1. /\ dir \subseteq FileNums /\ kern \in [FileNums -> Seq(SpoolRecs)]
      /\ sealed \in [FileNums -> Nat \cup {Unsealed}]
      /\ buf \in Seq(SpoolRecs)
      /\ cur \in FileNums \cup {NoFile} /\ nextNum \in Nat
      /\ ssw \in WriterState /\ clock \in 0..MaxTime
      /\ {MaxTime, MaxSeq} \subseteq Nat
  BY WriterAssumption DEF IInv, STypeOK, TypeOK, StoreTypeOK, WriterTypeOK
<1>2. \A n \in FileNums : n \in Nat /\ n # NoFile /\ kern[n] \in Seq(SpoolRecs)
  BY <1>1 DEF FileNums, NoFile
<1>3. \A s \in Seq(SpoolRecs) : Len(s) \in Nat /\ \A i \in 1..Len(s) : s[i] \in SpoolRecs
  BY LenProperties, ElementOfSeq
<1>4. QED
  BY <1>1, <1>2, <1>3

\* The same of what is on file and what has been issued.
LEMMA FiledFacts ==
  ASSUME IInv
  PROVE  /\ Filed \subseteq SpoolRecs /\ Issued \subseteq SpoolRecs
         /\ \A n \in FileNums : \A i \in 1..Len(kern[n]) : kern[n][i] \in Filed
         /\ OnFile = {rec \in Filed : IsEvent(rec)}
<1>1. \A n \in FileNums : \A i \in 1..Len(kern[n]) : kern[n][i] \in SpoolRecs
  BY StoreFacts
<1>2. \A i \in 1..Len(buf) : buf[i] \in SpoolRecs
  BY StoreFacts
<1>3. Filed \subseteq SpoolRecs
  BY <1>1 DEF Filed, Elements
<1>4. Issued \subseteq SpoolRecs
  BY <1>2, <1>3 DEF Issued, Elements
<1>5. \A n \in FileNums : \A i \in 1..Len(kern[n]) : kern[n][i] \in Filed
  BY DEF Filed, Elements
<1>6. \A n \in FileNums :
        EventsUpTo(n, Len(kern[n])) = {rec \in Elements(kern[n]) : IsEvent(rec)}
  BY DEF EventsUpTo, Elements, IsEvent
<1>7. OnFile = {rec \in Filed : IsEvent(rec)}
  BY <1>6 DEF OnFile, Filed
<1>8. QED
  BY <1>3, <1>4, <1>5, <1>7

\* Appending a sequence adds its elements.
LEMMA ElementsConcat ==
  ASSUME NEW s \in Seq(SpoolRecs), NEW t \in Seq(SpoolRecs)
  PROVE  Elements(s \o t) = Elements(s) \cup Elements(t)
<1>1. /\ Len(s \o t) = Len(s) + Len(t) /\ Len(s) \in Nat /\ Len(t) \in Nat
      /\ \A i \in 1..(Len(s) + Len(t)) :
           (s \o t)[i] = IF i <= Len(s) THEN s[i] ELSE t[i - Len(s)]
  BY ConcatProperties, LenProperties
<1> DEFINE u == s \o t
<1> HIDE DEF u
<1>2. ASSUME NEW i \in 1..Len(s)
      PROVE  i \in 1..Len(u) /\ u[i] = s[i]
  BY <1>1 DEF u
<1>3. ASSUME NEW i \in 1..Len(t)
      PROVE  i + Len(s) \in 1..Len(u) /\ u[i + Len(s)] = t[i]
  <2>1. i + Len(s) \in 1..(Len(s) + Len(t)) /\ ~(i + Len(s) <= Len(s))
        /\ i + Len(s) - Len(s) = i
    BY <1>1
  <2>2. QED
    BY <1>1, <2>1 DEF u
<1>4. ASSUME NEW i \in 1..Len(u)
      PROVE  u[i] \in Elements(s) \cup Elements(t)
  <2>1. CASE i <= Len(s)
    BY <1>1, <2>1 DEF u, Elements
  <2>2. CASE ~(i <= Len(s))
    <3>1. i - Len(s) \in 1..Len(t) /\ u[i] = t[i - Len(s)]
      BY <1>1, <2>2 DEF u
    <3>2. QED
      BY <3>1 DEF Elements
  <2>3. QED
    BY <2>1, <2>2
<1>5. Elements(u) \subseteq Elements(s) \cup Elements(t)
  BY <1>4 DEF Elements
<1>6. Elements(s) \subseteq Elements(u) /\ Elements(t) \subseteq Elements(u)
  BY <1>2, <1>3 DEF Elements
<1>7. QED
  BY <1>5, <1>6 DEF u

\* A sequence is what is in front of a place in it and what is behind.
LEMMA SplitFacts ==
  ASSUME NEW q \in Seq(SpoolRecs), NEW j \in 0..Len(q)
  PROVE  LET front == SubSeq(q, 1, j)
             back  == SubSeq(q, j + 1, Len(q))
         IN  /\ front \in Seq(SpoolRecs) /\ Len(front) = j
             /\ \A i \in 1..j : front[i] = q[i]
             /\ back \in Seq(SpoolRecs) /\ Len(back) = Len(q) - j
             /\ \A i \in 1..(Len(q) - j) : back[i] = q[i + j]
             /\ Elements(q) = Elements(front) \cup Elements(back)
<1> DEFINE front == SubSeq(q, 1, j)
           back  == SubSeq(q, j + 1, Len(q))
<1>1. Len(q) \in Nat /\ j \in Nat /\ j <= Len(q) /\ \A i \in 1..Len(q) : q[i] \in SpoolRecs
  BY LenProperties, ElementOfSeq
<1>2. front \in Seq(SpoolRecs) /\ Len(front) = j /\ \A i \in 1..j : front[i] = q[i]
  <2>1. /\ front \in Seq(SpoolRecs) /\ Len(front) = IF 1 <= j THEN j - 1 + 1 ELSE 0
        /\ \A i \in 1..(j - 1 + 1) : front[i] = q[1 + i - 1]
    BY <1>1, SubSeqProperties
  <2>2. QED
    BY <1>1, <2>1
<1>3. /\ back \in Seq(SpoolRecs) /\ Len(back) = Len(q) - j
      /\ \A i \in 1..(Len(q) - j) : back[i] = q[i + j]
  <2>1. /\ back \in Seq(SpoolRecs)
        /\ Len(back) = IF j + 1 <= Len(q) THEN Len(q) - (j + 1) + 1 ELSE 0
        /\ \A i \in 1..(Len(q) - (j + 1) + 1) : back[i] = q[j + 1 + i - 1]
    BY <1>1, SubSeqProperties
  <2>2. QED
    BY <1>1, <2>1
<1> HIDE DEF front, back
<1>4. ASSUME NEW i \in 1..Len(q)
      PROVE  q[i] \in Elements(front) \cup Elements(back)
  <2>1. CASE i <= j
    BY <1>1, <1>2, <2>1 DEF Elements
  <2>2. CASE ~(i <= j)
    <3>1. i - j \in 1..(Len(q) - j) /\ i - j + j = i
      BY <1>1, <2>2
    <3>2. back[i - j] = q[i]
      BY <1>3, <3>1
    <3>3. QED
      BY <1>3, <3>1, <3>2 DEF Elements
  <2>3. QED
    BY <2>1, <2>2
<1>5. Elements(front) \subseteq Elements(q)
  BY <1>1, <1>2 DEF Elements
<1>6. ASSUME NEW i \in 1..Len(back)
      PROVE  back[i] \in Elements(q)
  <2>1. i + j \in 1..Len(q) /\ back[i] = q[i + j]
    BY <1>1, <1>3
  <2>2. QED
    BY <2>1 DEF Elements
<1>7. Elements(q) = Elements(front) \cup Elements(back)
  BY <1>4, <1>5, <1>6 DEF Elements
<1>8. QED
  BY <1>2, <1>3, <1>7 DEF front, back

\* Moving the first records of an ordered queue to what it continues leaves
\* the rest in order.
LEMMA InOrderSplit ==
  ASSUME NEW F, NEW q \in Seq(SpoolRecs), NEW j \in 0..Len(q), InOrder(F, q)
  PROVE  InOrder(F \cup Elements(SubSeq(q, 1, j)), SubSeq(q, j + 1, Len(q)))
<1> DEFINE front == SubSeq(q, 1, j)
           back  == SubSeq(q, j + 1, Len(q))
           G     == F \cup Elements(front)
<1>1. /\ Len(front) = j /\ \A i \in 1..j : front[i] = q[i]
      /\ Len(back) = Len(q) - j /\ \A i \in 1..(Len(q) - j) : back[i] = q[i + j]
      /\ Len(q) \in Nat /\ j \in Nat /\ j <= Len(q)
  BY SplitFacts, LenProperties
<1> HIDE DEF front, back
<1>2. ASSUME NEW i \in 1..Len(back)
      PROVE  Before(G, back, i) = Before(F, q, i + j)
  <2>1. ASSUME NEW k \in 1..(i - 1)
        PROVE  k + j \in 1..(i + j - 1) /\ back[k] = q[k + j]
    BY <1>1
  <2>2. ASSUME NEW k \in 1..(i + j - 1)
        PROVE  q[k] \in Before(G, back, i)
    <3>1. CASE k <= j
      BY <1>1, <3>1 DEF Before, Elements
    <3>2. CASE ~(k <= j)
      <4>1. k - j \in 1..(i - 1) /\ k - j \in 1..(Len(q) - j) /\ k - j + j = k
        BY <1>1, <3>2
      <4>2. back[k - j] = q[k]
        BY <1>1, <4>1
      <4>3. QED
        BY <4>1, <4>2 DEF Before
    <3>3. QED
      BY <3>1, <3>2
  <2>3. \A k \in 1..j : k \in 1..(i + j - 1) /\ front[k] = q[k]
    BY <1>1
  <2>4. Elements(front) \subseteq Before(F, q, i + j)
    BY <1>1, <2>3 DEF Elements, Before
  <2>5. QED
    BY <2>1, <2>2, <2>4 DEF Before
<1>3. ASSUME NEW i \in 1..Len(back), IsEvent(back[i])
      PROVE  /\ {back[i], EndRec(back[i].ts)} \cap Before(G, back, i) = {}
             /\ \A n \in 0..(back[i].seq - 1) :
                  EventRec(back[i].ts, n) \in Before(G, back, i)
  <2>1. i + j \in 1..Len(q) /\ back[i] = q[i + j]
    BY <1>1
  <2>2. QED
    BY <1>2, <1>3, <2>1 DEF InOrder
<1>4. QED
  BY <1>3 DEF InOrder, front, back

\* A record may join the queue if it is no event, or the next of its session.
Joins(F, rec) ==
  IsEvent(rec) =>
    /\ {rec, EndRec(rec.ts)} \cap F = {}
    /\ \A n \in 0..(rec.seq - 1) : EventRec(rec.ts, n) \in F

\* A record that may join the queue keeps it in order at its end.
LEMMA InOrderAppend ==
  ASSUME NEW F, NEW q \in Seq(SpoolRecs), NEW rec \in SpoolRecs, InOrder(F, q),
         Joins(F \cup Elements(q), rec)
  PROVE  InOrder(F, q \o <<rec>>)
<1> DEFINE u == q \o <<rec>>
<1>1. /\ Len(u) = Len(q) + 1 /\ Len(q) \in Nat
      /\ \A i \in 1..Len(q) : u[i] = q[i]
      /\ u[Len(q) + 1] = rec
  <2>1. <<rec>> \in Seq(SpoolRecs) /\ Len(<<rec>>) = 1 /\ <<rec>>[1] = rec
    OBVIOUS
  <2>2. QED
    BY <2>1, ConcatProperties, LenProperties
<1> HIDE DEF u
<1>2. ASSUME NEW i \in 1..Len(q)
      PROVE  Before(F, u, i) = Before(F, q, i)
  BY <1>1 DEF Before
<1>3. Before(F, u, Len(q) + 1) = F \cup Elements(q)
  BY <1>1 DEF Before, Elements
<1>4. ASSUME NEW i \in 1..Len(u), IsEvent(u[i])
      PROVE  /\ {u[i], EndRec(u[i].ts)} \cap Before(F, u, i) = {}
             /\ \A n \in 0..(u[i].seq - 1) : EventRec(u[i].ts, n) \in Before(F, u, i)
  <2>1. CASE i \in 1..Len(q)
    BY <1>1, <1>2, <1>4, <2>1 DEF InOrder
  <2>2. CASE i = Len(q) + 1
    BY <1>1, <1>3, <1>4, <2>2 DEF Joins
  <2>3. QED
    BY <1>1, <2>1, <2>2
<1>5. QED
  BY <1>4 DEF InOrder, u

\* The first records of an ordered queue are in order.
LEMMA InOrderFront ==
  ASSUME NEW F, NEW q \in Seq(SpoolRecs), NEW j \in 0..Len(q), InOrder(F, q)
  PROVE  InOrder(F, SubSeq(q, 1, j))
<1> DEFINE front == SubSeq(q, 1, j)
<1>1. /\ Len(front) = j /\ \A i \in 1..j : front[i] = q[i]
      /\ Len(q) \in Nat /\ j \in Nat /\ j <= Len(q)
  BY SplitFacts, LenProperties
<1> HIDE DEF front
<1>2. ASSUME NEW i \in 1..Len(front)
      PROVE  i \in 1..Len(q) /\ front[i] = q[i] /\ Before(F, front, i) = Before(F, q, i)
  BY <1>1 DEF Before
<1>3. QED
  BY <1>2 DEF InOrder, front

-----------------------------------------------------------------------------
(* Records on their way to the files.                                       *)

\* Events on file are the events among the records on file, also afterwards.
LEMMA OnFileFacts ==
  /\ OnFile = {rec \in Filed : IsEvent(rec)}
  /\ OnFile' = {rec \in Filed' : IsEvent(rec)}
<1>1. \A n \in FileNums :
        EventsUpTo(n, Len(kern[n])) = {rec \in Elements(kern[n]) : IsEvent(rec)}
  BY DEF EventsUpTo, Elements, IsEvent
<1>2. \A n \in FileNums :
        EventsUpTo(n, Len(kern[n]))' = {rec \in Elements(kern'[n]) : IsEvent(rec)}
  BY DEF EventsUpTo, Elements, IsEvent
<1>3. OnFile = {rec \in Filed : IsEvent(rec)}
  BY <1>1 DEF OnFile, Filed
<1>4. OnFile' = {rec \in Filed' : IsEvent(rec)}
  BY <1>2 DEF OnFile, Filed, Elements
<1>5. QED
  BY <1>3, <1>4

\* Every record on file is in some place of some file, also afterwards.
LEMMA PlaceFacts ==
  /\ \A n \in FileNums : \A i \in 1..Len(kern[n]) : kern[n][i] \in Filed
  /\ \A rec \in Filed : \E n \in FileNums : \E i \in 1..Len(kern[n]) : rec = kern[n][i]
BY DEF Filed, Elements

\* What an append of records in order does.
LEMMA AppendOrder ==
  ASSUME IInv, NewestOpen, NoHoles, EndsLast, cur # NoFile,
         NEW out \in Seq(SpoolRecs), AppendTo(cur, out), InOrder(Filed, out)
  PROVE  Filed' = Filed \cup Elements(out) /\ NoHoles' /\ EndsLast'
         /\ \A n \in FileNums : n > cur => kern'[n] = kern[n]
<1> DEFINE k == kern[cur]
<1>1. /\ cur \in FileNums /\ kern \in [FileNums -> Seq(SpoolRecs)]
      /\ kern[cur] \in Seq(SpoolRecs)
      /\ \A n \in FileNums : n \in Nat /\ Len(kern[n]) \in Nat
      /\ \A n \in FileNums : \A i \in 1..Len(kern[n]) : kern[n][i] \in SpoolRecs
  BY StoreFacts
<1>2. /\ kern'[cur] = kern[cur] \o out
      /\ \A n \in FileNums : n # cur => kern'[n] = kern[n]
  BY <1>1 DEF AppendTo
<1>3. /\ Len(k \o out) = Len(k) + Len(out) /\ Len(k) \in Nat /\ Len(out) \in Nat
      /\ \A i \in 1..(Len(k) + Len(out)) :
           (k \o out)[i] = IF i <= Len(k) THEN k[i] ELSE out[i - Len(k)]
  BY <1>1, ConcatProperties, LenProperties
<1>4. Elements(k \o out) = Elements(k) \cup Elements(out)
  BY <1>1, ElementsConcat
<1>5. Elements(kern'[cur]) = Elements(kern[cur]) \cup Elements(out)
  BY <1>2, <1>4
<1>6. \A n \in FileNums : n # cur => Elements(kern'[n]) = Elements(kern[n])
  BY <1>2
<1>7. Filed' = UNION {Elements(kern'[n]) : n \in FileNums}
  BY DEF Filed, Elements
<1>8. Filed' = Filed \cup Elements(out)
  BY <1>1, <1>5, <1>6, <1>7 DEF Filed
<1>9. \A i \in 1..Len(out) : out[i] \in SpoolRecs /\ out[i] \in Elements(out)
  BY ElementOfSeq DEF Elements
<1>10. NoHoles'
  <2> SUFFICES ASSUME NEW e \in OnFile', NEW n \in 0..e.seq
               PROVE  EventRec(e.ts, n) \in OnFile'
    BY DEF NoHoles, EventRec
  <2>1. e \in Filed' /\ IsEvent(e) /\ IsEvent(EventRec(e.ts, n))
    BY OnFileFacts DEF EventRec, IsEvent
  <2>2. SUFFICES EventRec(e.ts, n) \in Filed'
    BY <2>1, OnFileFacts
  <2>3. CASE e \in Filed
    <3>1. e \in OnFile
      BY <2>1, <2>3, OnFileFacts
    <3>2. EventRec(e.ts, n) \in OnFile
      BY <3>1 DEF NoHoles
    <3>3. QED
      BY <1>8, <3>2, OnFileFacts
  <2>4. CASE e \in Elements(out)
    <3>1. PICK i \in 1..Len(out) : e = out[i]
      BY <2>4 DEF Elements
    <3>2. e \in EventRecs /\ e.seq \in 0..MaxSeq
      BY <1>9, <2>1, <3>1, RecordFacts
    <3>3. e = EventRec(e.ts, e.seq) /\ e.seq \in Nat
      BY <3>2, WriterAssumption DEF EventRecs, EventRec
    <3>4. CASE n = e.seq
      BY <2>1, <3>3, <3>4
    <3>5. CASE n # e.seq
      <4>1. n \in 0..(e.seq - 1)
        BY <3>3, <3>5
      <4>2. EventRec(e.ts, n) \in Before(Filed, out, i)
        BY <2>1, <3>1, <4>1 DEF InOrder
      <4>3. Before(Filed, out, i) \subseteq Filed \cup Elements(out)
        BY <1>3 DEF Before, Elements
      <4>4. QED
        BY <1>8, <4>2, <4>3
    <3>6. QED
      BY <3>4, <3>5
  <2>5. QED
    BY <1>8, <2>1, <2>3, <2>4
<1> HIDE DEF k
<1>11. EndsLast'
  <2> DEFINE kk == kern'
  <2> SUFFICES ASSUME NEW n \in FileNums, NEW m \in FileNums,
                      NEW i \in 1..Len(kk[n]), NEW j \in 1..Len(kk[m]),
                      IsEvent(kk[m][j]), kk[n][i] = EndRec(kk[m][j].ts)
               PROVE  m < n \/ (m = n /\ j < i)
    BY DEF EndsLast, IsEvent, EndRec
  <2> HIDE DEF kk
  <2>1. /\ \A q \in FileNums : q # cur => kk[q] = kern[q]
        /\ kk[cur] = k \o out
    BY <1>2 DEF kk, k
  <2> DEFINE OldPlace(q, p) == q # cur \/ p <= Len(k)
  <2>2. ASSUME NEW q \in FileNums, NEW p \in 1..Len(kk[q])
        PROVE  /\ OldPlace(q, p) => p \in 1..Len(kern[q]) /\ kk[q][p] = kern[q][p]
               /\ ~OldPlace(q, p) => /\ q = cur /\ p > Len(k) /\ p - Len(k) \in 1..Len(out)
                                     /\ kk[q][p] = out[p - Len(k)]
    <3>1. CASE q # cur
      BY <2>1, <3>1
    <3>2. CASE q = cur
      <4>1. p \in 1..(Len(k) + Len(out)) /\ kk[q][p] = (k \o out)[p]
        BY <1>3, <2>1, <3>2
      <4>2. QED
        BY <1>3, <3>2, <4>1 DEF k
    <3>3. QED
      BY <3>1, <3>2
  <2> HIDE DEF OldPlace
  <2>3. CASE OldPlace(m, j) /\ OldPlace(n, i)
    BY <2>2, <2>3 DEF EndsLast
  <2>4. CASE OldPlace(m, j) /\ ~OldPlace(n, i)
    <3>1. n = cur /\ i > Len(k) /\ j \in 1..Len(kern[m])
      BY <2>2, <2>4
    <3>2. ~(m > cur)
      <4>1. SUFFICES ASSUME m > cur PROVE FALSE
        OBVIOUS
      <4>2. kern[m] = <<>>
        BY <4>1 DEF NewestOpen
      <4>3. Len(kern[m]) = 0
        BY <4>2
      <4>4. QED
        BY <3>1, <4>3
    <3>3. m = cur => j <= Len(k)
      BY <2>4 DEF OldPlace
    <3>4. QED
      BY <1>1, <1>3, <3>1, <3>2, <3>3
  <2>5. CASE ~OldPlace(m, j)
    <3>1. m = cur /\ j > Len(k) /\ j - Len(k) \in 1..Len(out) /\ kk[m][j] = out[j - Len(k)]
      BY <2>2, <2>5
    <3>2. PICK p \in 1..Len(out) : p = j - Len(k) /\ kk[m][j] = out[p]
      BY <3>1
    <3>3. EndRec(out[p].ts) \notin Before(Filed, out, p)
      BY <3>2 DEF InOrder
    <3>4. CASE OldPlace(n, i)
      <4>1. i \in 1..Len(kern[n]) /\ kern[n][i] = EndRec(out[p].ts)
        BY <2>2, <3>2, <3>4
      <4>2. EndRec(out[p].ts) \in Filed
        BY <4>1, PlaceFacts
      <4>3. QED
        BY <3>3, <4>2 DEF Before
    <3>5. CASE ~OldPlace(n, i)
      <4>1. n = cur /\ i > Len(k) /\ i - Len(k) \in 1..Len(out) /\ kk[n][i] = out[i - Len(k)]
        BY <2>2, <3>5
      <4>2. PICK q \in 1..Len(out) : q = i - Len(k) /\ out[q] = EndRec(out[p].ts)
        BY <3>2, <4>1
      <4>3. ~(q < p)
        BY <1>3, <3>3, <4>2 DEF Before
      <4>4. q # p
        BY <3>2, <4>2 DEF IsEvent, EndRec
      <4>5. QED
        BY <1>3, <3>1, <3>2, <4>1, <4>2, <4>3, <4>4
    <3>6. QED
      BY <3>4, <3>5
  <2>6. QED
    BY <2>3, <2>4, <2>5
<1>12. QED
  BY <1>1, <1>2, <1>8, <1>10, <1>11

\* A write moves the first of the buffered and the new records into the open
\* file and keeps the others.
WriteStep(recs) ==
  /\ cur # NoFile
  /\ \E j \in 0..Len(buf \o recs) :
       /\ AppendTo(cur, SubSeq(buf \o recs, 1, j))
       /\ buf' = SubSeq(buf \o recs, j + 1, Len(buf \o recs))

\* What every change to the contents of the files turns out to be.
OrderedExtend == \E out \in Seq(SpoolRecs) : Extend(out) /\ InOrder(Filed, out)
OrderedStep   == UNCHANGED storeVars \/ Create \/ OrderedExtend

\* The writer's two ways to move records are of this kind.
LEMMA BufferedIsWrite ==
  ASSUME IInv, cur # NoFile, NEW recs \in Seq(SpoolRecs), Buffered(cur, buf, recs)
  PROVE  WriteStep(recs)
<1>1. /\ Len(buf \o recs) = Len(buf) + Len(recs)
      /\ Len(buf) \in Nat /\ Len(recs) \in Nat
  BY StoreFacts, ConcatProperties, LenProperties
<1> DEFINE all == buf \o recs
<1>2. PICK j \in {0} \cup Len(buf)..Len(all) :
        AppendTo(cur, SubSeq(all, 1, j)) /\ buf' = SubSeq(all, j + 1, Len(all))
  BY DEF Buffered
<1>3. j \in 0..Len(all)
  BY <1>1, <1>2
<1>4. QED
  BY <1>2, <1>3 DEF WriteStep

\* What a write does to what has been issued and to what is on file.
LEMMA WriteOrder ==
  ASSUME IInv, WriterOrder, NEW recs \in Seq(SpoolRecs), WriteStep(recs),
         InOrder(Filed, buf \o recs)
  PROVE  /\ Filed \subseteq Filed' /\ Issued' = Issued \cup Elements(recs)
         /\ InOrder(Filed', buf') /\ NoHoles' /\ EndsLast' /\ OrderedExtend
         /\ \A n \in FileNums : n > cur => kern'[n] = kern[n]
<1> DEFINE all == buf \o recs
<1>1. all \in Seq(SpoolRecs) /\ buf \in Seq(SpoolRecs)
  BY StoreFacts, ConcatProperties
<1>2. Elements(all) = Elements(buf) \cup Elements(recs)
  BY <1>1, ElementsConcat
<1>3. PICK j \in 0..Len(all) :
        AppendTo(cur, SubSeq(all, 1, j)) /\ buf' = SubSeq(all, j + 1, Len(all))
  BY DEF WriteStep
<1>4. cur # NoFile /\ InOrder(Filed, all)
  BY DEF WriteStep
<1> HIDE DEF all
<1> DEFINE out == SubSeq(all, 1, j)
<1>5. out \in Seq(SpoolRecs) /\ Elements(all) = Elements(out) \cup Elements(buf')
  BY <1>1, <1>3, SplitFacts
<1>6. InOrder(Filed, out)
  BY <1>1, <1>4, InOrderFront
<1>7. InOrder(Filed \cup Elements(out), buf')
  BY <1>1, <1>3, <1>4, InOrderSplit
<1>8. AppendTo(cur, out)
  BY <1>3
<1> HIDE DEF out
<1>9. /\ Filed' = Filed \cup Elements(out) /\ NoHoles' /\ EndsLast'
      /\ \A n \in FileNums : n > cur => kern'[n] = kern[n]
  BY <1>4, <1>5, <1>6, <1>8, AppendOrder DEF WriterOrder
<1>10. Issued' = Issued \cup Elements(recs)
  <2>1. Issued' = Filed' \cup Elements(buf')
    BY DEF Issued, Elements
  <2>2. QED
    BY <1>2, <1>5, <1>9, <2>1 DEF Issued
<1>11. QED
  BY <1>4, <1>5, <1>6, <1>7, <1>8, <1>9, <1>10 DEF OrderedExtend, Extend

\* Nothing is out of order in an empty buffer.
LEMMA EmptyInOrder ==
  ASSUME NEW F
  PROVE  InOrder(F, <<>>) /\ Elements(<<>>) = {}
<1>1. Len(<<>>) = 0
  OBVIOUS
<1>2. QED
  BY <1>1 DEF InOrder, Elements

\* Closing a file puts all that was issued on file.
LEMMA FlushOrder ==
  ASSUME IInv, WriterOrder, cur # NoFile, FlushAll(cur), buf' = <<>>
  PROVE  /\ Filed \subseteq Filed' /\ Issued' = Issued
         /\ InOrder(Filed', buf') /\ NoHoles' /\ EndsLast' /\ OrderedExtend
         /\ \A n \in FileNums : n > cur => kern'[n] = kern[n]
<1>1. buf \in Seq(SpoolRecs) /\ AppendTo(cur, buf) /\ InOrder(Filed, buf)
  BY StoreFacts DEF FlushAll, WriterOrder
<1>2. /\ Filed' = Filed \cup Elements(buf) /\ NoHoles' /\ EndsLast'
      /\ \A n \in FileNums : n > cur => kern'[n] = kern[n]
  BY <1>1, AppendOrder DEF WriterOrder
<1>3. Issued' = Filed' \cup Elements(buf')
  BY DEF Issued, Elements
<1>4. QED
  BY <1>1, <1>2, <1>3, EmptyInOrder DEF Issued, OrderedExtend, Extend

\* Steps that move no records.
LEMMA StillOrder ==
  ASSUME WriterOrder, UNCHANGED kern, UNCHANGED buf
  PROVE  /\ Filed' = Filed /\ Issued' = Issued
         /\ InOrder(Filed', buf') /\ NoHoles' /\ EndsLast'
<1>1. Filed' = Filed
  BY DEF Filed, Elements
<1>2. Issued' = Issued
  BY <1>1 DEF Issued, Elements
<1>3. InOrder(Filed', buf')
  BY <1>1 DEF WriterOrder
<1>4. OnFile' = OnFile
  BY <1>1, OnFileFacts
<1>5. NoHoles'
  BY <1>4 DEF WriterOrder, NoHoles, EventRec
<1>6. EndsLast'
  BY DEF WriterOrder, EndsLast, IsEvent, EndRec
<1>7. QED
  BY <1>1, <1>2, <1>3, <1>5, <1>6

-----------------------------------------------------------------------------
(* Steps of the writer keep WriterOrder.                                    *)

\* The next event of the session in force may be written.
LEMMA NextJoins ==
  ASSUME IInv, NextInOrder, NEW rec \in SpoolRecs, ssw.srec # NoRec,
         IsEvent(rec) => rec = EventRec(clock, ssw.seqnum) /\ ~ssw.ended
  PROVE  Joins(Issued, rec)
<1> SUFFICES ASSUME IsEvent(rec)
             PROVE  /\ {rec, EndRec(rec.ts)} \cap Issued = {}
                    /\ \A n \in 0..(rec.seq - 1) : EventRec(rec.ts, n) \in Issued
  BY DEF Joins
<1>1. rec = EventRec(clock, ssw.seqnum) /\ rec.ts = clock /\ rec.seq = ssw.seqnum
      /\ ~ssw.ended
  BY DEF EventRec
<1>2. ssw.seqnum \in 0..MaxSeq /\ MaxSeq \in Nat
  BY <1>1, RecordFacts, StoreFacts
<1>3. \A q \in 0..MaxSeq : EventRec(clock, q) \in Issued <=> q < ssw.seqnum
  BY DEF NextInOrder
<1>4. rec \notin Issued
  BY <1>1, <1>2, <1>3
<1>5. EndRec(rec.ts) \notin Issued
  BY <1>1 DEF NextInOrder
<1>6. ASSUME NEW n \in 0..(rec.seq - 1)
      PROVE  EventRec(rec.ts, n) \in Issued
  <2>1. n \in 0..MaxSeq /\ n < ssw.seqnum
    BY <1>1, <1>2
  <2>2. QED
    BY <1>1, <1>3, <2>1
<1>7. QED
  BY <1>4, <1>5, <1>6

\* Writing a record of the session in force that is no event before the last
\* keeps the count of what has been issued.
LEMMA NextWritten ==
  ASSUME IInv, NextInOrder, ssw.srec # NoRec, NEW rec \in SpoolRecs, rec.ts = clock,
         IsEvent(rec) => rec = EventRec(clock, ssw.seqnum) /\ ~ssw.ended,
         ~StartsSession(ssw, rec)
  PROVE  LET w == Written(ssw, rec) IN
         /\ \A q \in 0..MaxSeq : EventRec(clock, q) \in Issued \cup {rec} <=> q < w.seqnum
         /\ ~w.ended => EndRec(clock) \notin Issued \cup {rec}
<1> DEFINE w == Written(ssw, rec)
<1>1. /\ ssw.seqnum \in 0..(MaxSeq + 1) /\ MaxSeq \in Nat /\ ssw \in WriterState
      /\ \A q \in 0..MaxSeq : EventRec(clock, q) \in Issued <=> q < ssw.seqnum
      /\ ~ssw.ended => EndRec(clock) \notin Issued
  BY StoreFacts DEF NextInOrder, WriterState
<1>2. rec.chan \in {"session", "event", "end", "signature"}
  BY RecordFacts
<1>3. CASE IsEvent(rec)
  <2>1. w = [ssw EXCEPT !.seqnum = rec.seq + 1]
    BY <1>3 DEF Written, Numbered, IsEvent, StartsSession, IsSession
  <2>2. rec.seq = ssw.seqnum /\ rec # EndRec(clock) /\ rec = EventRec(clock, ssw.seqnum)
    BY <1>3 DEF EventRec, EndRec
  <2>3. w.seqnum = ssw.seqnum + 1 /\ w.ended = ssw.ended
    BY <1>1, <2>1, <2>2 DEF WriterState
  <2>4. \A q \in 0..MaxSeq : EventRec(clock, q) = rec <=> q = ssw.seqnum
    BY <1>1, <2>2 DEF EventRec
  <2> HIDE DEF w
  <2>5. ASSUME NEW q \in 0..MaxSeq
        PROVE  EventRec(clock, q) \in Issued \cup {rec} <=> q < w.seqnum
    <3>1. q < w.seqnum <=> q < ssw.seqnum \/ q = ssw.seqnum
      BY <1>1, <2>3
    <3>2. QED
      BY <1>1, <2>4, <3>1
  <2>6. QED
    BY <1>1, <2>2, <2>3, <2>5 DEF w
<1>4. CASE ~IsEvent(rec)
  <2>1. w \in {[ssw EXCEPT !.ended = TRUE], ssw} /\ (rec.chan = "end" => w.ended)
    BY <1>1, <1>2, <1>4 DEF Written, Numbered, IsEvent, StartsSession, IsSession, WriterState
  <2>2. w.seqnum = ssw.seqnum /\ (~w.ended => ~ssw.ended)
    BY <1>1, <2>1 DEF WriterState
  <2>3. rec = EndRec(clock) => rec.chan = "end"
    BY DEF EndRec
  <2>4. \A q : EventRec(clock, q) # rec
    BY <1>4 DEF EventRec, IsEvent
  <2> HIDE DEF w
  <2>5. QED
    BY <1>1, <2>1, <2>2, <2>3, <2>4 DEF w
<1>5. QED
  BY <1>3, <1>4

\* Creating a file changes no contents: the number has never been used.
LEMMA CreateKeepsFiles ==
  ASSUME IInv, Create
  PROVE  UNCHANGED kern
<1>1. /\ kern \in [FileNums -> Seq(SpoolRecs)] /\ dir \subseteq FileNums
      /\ \A n \in FileNums : n \in Nat
      /\ wpc = "create" /\ nextNum \in FileNums /\ CreateFile(nextNum)
  BY StoreFacts DEF Create
<1>2. \A m \in dir : m < nextNum
  BY <1>1 DEF IInv, WriterNumbering
<1>3. ~ \E m \in dir : nextNum <= m
  BY <1>1, <1>2
<1>4. kern[nextNum] = <<>>
  BY <1>1, <1>3 DEF IInv, SpoolNumbering
<1>5. kern' = [kern EXCEPT ![nextNum] = <<>>]
  BY <1>1 DEF CreateFile
<1>6. QED
  BY <1>1, <1>4, <1>5

\* A session record that follows the last one begins an empty session.
LEMMA SessionOrder ==
  ASSUME IInv, WriterOrder, WriteSession
  PROVE  WriterOrder' /\ OrderedStep
<1> DEFINE rec == Session(clock + 1)
<1>1. /\ clock \in Nat /\ clock' = clock + 1 /\ BeginSpoolfile(rec)
      /\ ssw \in WriterState /\ ssw.srec \in SessionRecs \cup {NoRec}
  BY StoreFacts DEF WriteSession, WriterState
<1>2. rec.ts = clock + 1 /\ rec # NoRec /\ IsSession(rec) /\ ~IsEvent(rec)
  BY DEF Session, SessionRec, NoRec, IsSession, IsEvent
<1> HIDE DEF rec
<1>3. StartsSession(ssw, rec)
  BY <1>1, <1>2 DEF StartsSession, SameTs, IInv, Contents
<1>4. ssw' = [ssw EXCEPT !.srec = rec, !.seqnum = 0, !.ended = FALSE]
  BY <1>1, <1>3 DEF BeginSpoolfile, Started
<1>5. ssw'.seqnum = 0
  BY <1>1, <1>4 DEF WriterState
<1>6. UNCHANGED <<dir, kern, sealed, changed, buf, cur>> /\ pend' = rec
  BY <1>1 DEF BeginSpoolfile, storeVars
<1>7. /\ Filed' = Filed /\ Issued' = Issued
      /\ InOrder(Filed', buf') /\ NoHoles' /\ EndsLast'
  BY <1>6, StillOrder
<1>8. \A r \in Issued : r \in SpoolRecs /\ r.ts <= clock /\ r.ts \in Nat
  BY FiledFacts, RecordFacts DEF WriterOrder, NextInOrder, Times
<1>9. \A r \in Issued : r.ts <= clock'
  BY <1>1, <1>8
<1>10. \A q : EventRec(clock', q) \notin Issued
  BY <1>1, <1>8 DEF EventRec
<1>11. EndRec(clock') \notin Issued
  BY <1>1, <1>8 DEF EndRec
<1>12. NextInOrder'
  <2>1. \A q \in 0..MaxSeq : ~(q < ssw'.seqnum)
    BY <1>5
  <2>2. ~IsEvent(pend')
    BY <1>2, <1>6
  <2>3. QED
    BY <1>7, <1>9, <1>10, <1>11, <2>1, <2>2 DEF NextInOrder, IsEvent, EventRec, EndRec
<1>13. NewestOpen'
  BY <1>6 DEF WriterOrder, NewestOpen
<1>14. QED
  BY <1>6, <1>7, <1>12, <1>13 DEF WriterOrder, OrderedStep, storeVars

\* Records of a session, written to the file that is open ...
LEMMA InPlaceOrder ==
  ASSUME IInv, WriterOrder, NEW rec \in NextRecs, WriteInPlace(rec)
  PROVE  WriterOrder' /\ OrderedStep
<1>1. /\ cur # NoFile /\ cur \in FileNums /\ Buffered(cur, buf, <<rec>>) /\ wpc = "idle"
      /\ ~StartsSession(ssw, rec) /\ UNCHANGED <<cur, wpc, clock>>
      /\ ssw' = Written(ssw, rec) /\ ~Refuses(ssw, rec) /\ ssw \in WriterState
  BY StoreFacts DEF WriteInPlace, NeedsSpoolfile
<1>2. rec \in SpoolRecs /\ rec.ts = clock /\ ssw.srec # NoRec
  BY <1>1, NextRecsFacts
<1>3. IsEvent(rec) => rec = EventRec(clock, ssw.seqnum) /\ ~ssw.ended
  <2>1. rec \in {EndRec(clock), SignatureRec(clock)} \/ rec = EventRec(clock, ssw.seqnum)
    BY DEF NextRecs, ControlRecs
  <2>2. ~IsEvent(EndRec(clock)) /\ ~IsEvent(SignatureRec(clock))
    BY DEF IsEvent, EndRec, SignatureRec
  <2>3. IsEvent(rec) => ~ssw.ended
    BY <1>1, <1>2 DEF Refuses
  <2>4. QED
    BY <2>1, <2>2, <2>3
<1>4. /\ <<rec>> \in Seq(SpoolRecs) /\ Elements(<<rec>>) = {rec}
      /\ buf \in Seq(SpoolRecs)
  BY <1>2, StoreFacts DEF Elements
<1>5. Joins(Filed \cup Elements(buf), rec)
  BY <1>2, <1>3, NextJoins DEF WriterOrder, Issued
<1>6. InOrder(Filed, buf \o <<rec>>)
  BY <1>2, <1>4, <1>5, InOrderAppend DEF WriterOrder
<1>7. WriteStep(<<rec>>)
  BY <1>1, <1>4, BufferedIsWrite
<1>8. /\ Issued' = Issued \cup {rec}
      /\ InOrder(Filed', buf') /\ NoHoles' /\ EndsLast' /\ OrderedExtend
      /\ \A n \in FileNums : n > cur => kern'[n] = kern[n]
  BY <1>4, <1>6, <1>7, WriteOrder
<1>9. /\ \A q \in 0..MaxSeq : EventRec(clock, q) \in Issued \cup {rec} <=> q < ssw'.seqnum
      /\ ~ssw'.ended => EndRec(clock) \notin Issued \cup {rec}
  BY <1>1, <1>2, <1>3, NextWritten DEF WriterOrder
<1>10. \A r \in Issued \cup {rec} : r.ts <= clock
  BY <1>2, StoreFacts DEF WriterOrder, NextInOrder
<1>11. NextInOrder'
  BY <1>1, <1>8, <1>9, <1>10 DEF NextInOrder, IsEvent, EventRec, EndRec
<1>12. NewestOpen'
  BY <1>1, <1>8 DEF WriterOrder, NewestOpen
<1>13. QED
  BY <1>8, <1>11, <1>12 DEF WriterOrder, OrderedStep

\* ... or to a new one, after its session record.
LEMMA HeaderOrder ==
  ASSUME IInv, WriterOrder, WriteHeader
  PROVE  WriterOrder' /\ OrderedStep
<1> DEFINE hdr == ssw.srec
<1>1. /\ cur # NoFile /\ cur \in FileNums /\ buf = <<>>
      /\ hdr # NoRec /\ hdr.ts = clock /\ pend.ts = clock /\ pend # NoRec
      /\ UNCHANGED <<cur, clock>> /\ wpc = "header" /\ wpc' \in {"idle", "overfull"}
      /\ ssw \in WriterState /\ hdr \in SessionRecs
  BY StoreFacts DEF WriteHeader, IInv, WriterNumbering, Contents, NoFile, WriterState
<1>2. hdr \in SpoolRecs /\ pend \in SpoolRecs /\ IsSession(hdr) /\ ~IsEvent(hdr)
      /\ hdr # EndRec(clock) /\ \A q : hdr # EventRec(clock, q)
  BY <1>1, SessionFacts
     DEF IsEvent, EndRec, EventRec, IInv, STypeOK, TypeOK, WriterTypeOK
<1>3. ~StartsSession(ssw, pend)
  BY <1>1 DEF StartsSession, SameTs
<1>4. IsEvent(pend) => pend = EventRec(clock, ssw.seqnum) /\ ~ssw.ended
  BY <1>1 DEF WriterOrder, NextInOrder
<1>5. Issued = Filed
  BY <1>1, EmptyInOrder DEF Issued
<1>6. PICK more \in {<<>>, <<pend>>} :
        /\ Buffered(cur, buf, <<hdr>> \o more) \/ (more = <<>> /\ Buffered(cur, buf, <<hdr>>))
        /\ \/ ssw' = Written(ssw, pend) /\ IsSession(pend) /\ more = <<>>
           \/ ssw' = Written(ssw, pend) /\ ~IsSession(pend) /\ more = <<pend>>
           \/ ssw' = ssw /\ more = <<>>
  BY DEF WriteHeader
<1> HIDE DEF hdr
<1>7. /\ <<hdr>> \in Seq(SpoolRecs) /\ Elements(<<hdr>>) = {hdr}
      /\ <<pend>> \in Seq(SpoolRecs) /\ Elements(<<pend>>) = {pend}
      /\ <<>> \in Seq(SpoolRecs)
  BY <1>2 DEF Elements
<1>8. Joins(Filed, hdr) /\ Joins(Filed \cup {hdr}, pend)
  <2>1. Joins(Filed, hdr)
    BY <1>2 DEF Joins
  <2>2. Joins(Filed, pend)
    BY <1>1, <1>2, <1>4, <1>5, NextJoins DEF WriterOrder, hdr
  <2>3. IsEvent(pend) => pend # hdr /\ EndRec(pend.ts) # hdr
    BY <1>1, <1>2
  <2>4. QED
    BY <2>1, <2>2, <2>3 DEF Joins
<1>9. <<>> \o <<hdr>> = <<hdr>> /\ <<hdr>> \o <<>> = <<hdr>>
  BY <1>7, ConcatEmptySeq, Zenon
<1>10. InOrder(Filed, <<>> \o <<hdr>>)
  BY <1>2, <1>7, <1>8, EmptyInOrder, InOrderAppend
<1>11. InOrder(Filed, <<hdr>> \o <<pend>>)
  BY <1>2, <1>7, <1>8, <1>9, <1>10, InOrderAppend
<1>12. PICK recs \in {<<hdr>>, <<hdr>> \o <<pend>>} :
         /\ Buffered(cur, buf, recs)
         /\ \/ ssw' = Written(ssw, pend) /\ IsSession(pend) /\ recs = <<hdr>>
            \/ ssw' = Written(ssw, pend) /\ ~IsSession(pend) /\ recs = <<hdr>> \o <<pend>>
            \/ ssw' = ssw /\ recs = <<hdr>>
  <2>1. CASE more = <<>>
    BY <1>6, <1>9, <2>1
  <2>2. CASE more = <<pend>>
    <3>1. more # <<>>
      BY <2>2
    <3>2. QED
      BY <1>6, <2>2, <3>1
  <2>3. QED
    BY <1>6, <2>1, <2>2
<1>13. /\ recs \in Seq(SpoolRecs) /\ InOrder(Filed, recs)
       /\ Elements(recs) \in {{hdr}, {hdr, pend}}
       /\ recs = <<hdr>> \o <<pend>> => Elements(recs) = {hdr, pend}
  <2>1. CASE recs = <<hdr>> /\ recs # <<hdr>> \o <<pend>>
    BY <1>7, <1>9, <1>10, <2>1
  <2>2. CASE recs = <<hdr>> \o <<pend>>
    <3>1. recs \in Seq(SpoolRecs)
      BY <1>7, <2>2, ConcatProperties, Zenon
    <3>2. Elements(recs) = {hdr} \cup {pend}
      <4>1. Elements(<<hdr>> \o <<pend>>) = Elements(<<hdr>>) \cup Elements(<<pend>>)
        BY <1>7, ElementsConcat, Zenon
      <4>2. QED
        BY <1>7, <2>2, <4>1, Zenon
    <3>3. QED
      BY <1>11, <2>2, <3>1, <3>2
  <2>3. QED
    BY <1>12, <2>1, <2>2
<1>14. buf \o recs = recs
  BY <1>1, <1>13, ConcatEmptySeq, Zenon
<1>15. WriteStep(recs)
  BY <1>1, <1>12, <1>13, BufferedIsWrite
<1>16. /\ Issued' = Issued \cup Elements(recs)
       /\ InOrder(Filed', buf') /\ NoHoles' /\ EndsLast' /\ OrderedExtend
       /\ \A n \in FileNums : n > cur => kern'[n] = kern[n]
  BY <1>13, <1>14, <1>15, WriteOrder
<1>17. \A r \in Issued' : r.ts <= clock
  BY <1>1, <1>13, <1>16, StoreFacts DEF WriterOrder, NextInOrder
<1>18. /\ \A q \in 0..MaxSeq : EventRec(clock, q) \in Issued' <=> q < ssw'.seqnum
       /\ ~ssw'.ended => EndRec(clock) \notin Issued'
  <2>1. /\ \A q \in 0..MaxSeq : EventRec(clock, q) \in Issued <=> q < ssw.seqnum
        /\ ~ssw.ended => EndRec(clock) \notin Issued
    BY <1>1 DEF WriterOrder, NextInOrder, hdr
  <2>2. /\ \A q \in 0..MaxSeq :
             EventRec(clock, q) \in Issued \cup {pend} <=> q < Written(ssw, pend).seqnum
        /\ ~Written(ssw, pend).ended => EndRec(clock) \notin Issued \cup {pend}
    BY <1>1, <1>2, <1>3, <1>4, NextWritten DEF WriterOrder, hdr
  <2>3. IsSession(pend) =>
          pend # EndRec(clock) /\ \A q : pend # EventRec(clock, q)
    BY DEF IsSession, EndRec, EventRec
  <2>4. CASE ssw' = ssw /\ recs = <<hdr>>
    BY <1>2, <1>7, <1>16, <2>1, <2>4
  <2>5. CASE ssw' = Written(ssw, pend) /\ IsSession(pend) /\ recs = <<hdr>>
    BY <1>2, <1>7, <1>16, <2>2, <2>3, <2>5
  <2>6. CASE /\ ssw' = Written(ssw, pend) /\ ~IsSession(pend)
             /\ recs = <<hdr>> \o <<pend>> /\ Elements(recs) = {hdr, pend}
    <3>1. Issued' = Issued \cup {pend} \cup {hdr}
      BY <1>16, <2>6
    <3>2. QED
      BY <1>2, <2>2, <2>6, <3>1
  <2>7. QED
    BY <1>12, <1>13, <2>4, <2>5, <2>6
<1>19. NextInOrder'
  BY <1>1, <1>17, <1>18 DEF NextInOrder, IsEvent, EventRec, EndRec
<1>20. NewestOpen'
  BY <1>1, <1>16 DEF WriterOrder, NewestOpen
<1>21. QED
  BY <1>16, <1>19, <1>20 DEF WriterOrder, OrderedStep

\* Every step of the writer keeps the order of its records, and changes files
\* by appending to them what is next.
LEMMA WriterOrderStep ==
  ASSUME IInv, WriterOrder, WriterNext
  PROVE  WriterOrder' /\ OrderedStep
<1>1. /\ NextInOrder /\ NewestOpen /\ ssw \in WriterState /\ nextNum \in Nat
      /\ cur \in FileNums \cup {NoFile} /\ \A n \in FileNums : n \in Nat
      /\ WriterNumbering
  BY StoreFacts DEF WriterOrder, IInv
<1>2. FreshWriter.srec = NoRec
  BY DEF FreshWriter
<1>3. ASSUME UNCHANGED <<kern, buf, clock, cur>>,
             \/ ssw'.srec = NoRec
             \/ /\ ssw'.srec = ssw.srec /\ ssw'.seqnum = ssw.seqnum
                /\ ssw'.ended = ssw.ended,
             \/ wpc' \notin {"create", "close", "header"}
             \/ /\ wpc \in {"create", "close", "header"} /\ ssw' = ssw
                /\ pend' = pend
      PROVE  WriterOrder'
  <2>1. /\ Filed' = Filed /\ Issued' = Issued
        /\ InOrder(Filed', buf') /\ NoHoles' /\ EndsLast'
    BY <1>3, StillOrder
  <2>2. NextInOrder'
    BY <1>1, <1>3, <2>1 DEF NextInOrder, IsEvent, EventRec, EndRec
  <2>3. NewestOpen'
    BY <1>1, <1>3 DEF NewestOpen
  <2>4. QED
    BY <2>1, <2>2, <2>3 DEF WriterOrder
<1>4. CASE Open
  BY <1>2, <1>3, <1>4 DEF Open, storeVars, OrderedStep
<1>5. CASE WriteSession
  BY <1>5, SessionOrder
<1>6. ASSUME NEW rec \in NextRecs, WriteInPlace(rec)
      PROVE  WriterOrder' /\ OrderedStep
  BY <1>6, InPlaceOrder
<1>7. ASSUME NEW rec \in NextRecs, BeginSpoolfile(rec), UNCHANGED clock
      PROVE  WriterOrder' /\ OrderedStep
  <2>1. ~IsSession(rec) /\ ssw.srec # NoRec /\ ~Refuses(ssw, rec)
    BY <1>7, NextRecsFacts DEF BeginSpoolfile
  <2>2. ssw' = ssw /\ pend' = rec /\ UNCHANGED <<storeVars, buf, cur>>
    BY <1>7, <2>1 DEF BeginSpoolfile, StartsSession
  <2>3. IsEvent(rec) => rec = EventRec(clock, ssw.seqnum) /\ ~ssw.ended
    <3>1. rec \in {EndRec(clock), SignatureRec(clock)} \/ rec = EventRec(clock, ssw.seqnum)
      BY DEF NextRecs, ControlRecs
    <3>2. ~IsEvent(EndRec(clock)) /\ ~IsEvent(SignatureRec(clock))
      BY DEF IsEvent, EndRec, SignatureRec
    <3>3. IsEvent(rec) => ~ssw.ended
      BY <2>1 DEF Refuses
    <3>4. QED
      BY <3>1, <3>2, <3>3
  <2>4. UNCHANGED kern
    BY <2>2 DEF storeVars
  <2>5. /\ Filed' = Filed /\ Issued' = Issued
        /\ InOrder(Filed', buf') /\ NoHoles' /\ EndsLast'
    BY <2>2, <2>4, StillOrder
  <2>6. NextInOrder'
    BY <1>1, <1>7, <2>2, <2>3, <2>5 DEF NextInOrder, IsEvent, EventRec, EndRec
  <2>7. NewestOpen'
    BY <1>1, <2>2, <2>4 DEF NewestOpen
  <2>8. QED
    BY <2>2, <2>5, <2>6, <2>7 DEF WriterOrder, OrderedStep
<1>8. CASE CreateSpoolfile
  <2>1. Create
    BY <1>1, <1>8, MaxFileAssumption DEF CreateSpoolfile, Create, FileNums
  <2>2. UNCHANGED kern
    BY <2>1, CreateKeepsFiles
  <2>3. QED
    BY <1>3, <1>8, <2>1, <2>2 DEF CreateSpoolfile, OrderedStep
<1>9. CASE CreateThrows
  BY <1>3, <1>9 DEF CreateThrows, storeVars, OrderedStep
<1>10. CASE CloseOld
  <2>1. /\ wpc = "close" /\ cur' = nextNum - 1 /\ buf' = <<>> /\ wpc' = "header"
        /\ UNCHANGED <<ssw, pend, clock>>
        /\ cur = NoFile \/ FlushAll(cur)
    BY <1>10 DEF CloseOld
  <2>2. cur < nextNum - 1 /\ \A m \in dir : m < nextNum
    BY <1>1, <2>1 DEF WriterNumbering
  <2>3. /\ Issued' = Issued /\ InOrder(Filed', buf') /\ NoHoles' /\ EndsLast'
        /\ OrderedStep /\ \A n \in FileNums : n > cur => kern'[n] = kern[n]
    <3>1. CASE cur = NoFile
      <4>1. UNCHANGED storeVars /\ UNCHANGED kern
        BY <1>10, <3>1 DEF CloseOld, storeVars
      <4>2. UNCHANGED buf
        BY <1>1, <2>1, <3>1 DEF NewestOpen
      <4>3. QED
        BY <4>1, <4>2, StillOrder DEF OrderedStep
    <3>2. CASE cur # NoFile
      BY <2>1, <3>2, FlushOrder DEF OrderedStep
    <3>3. QED
      BY <3>1, <3>2
  <2>4. NextInOrder'
    BY <1>1, <2>1, <2>3 DEF NextInOrder, IsEvent, EventRec, EndRec
  <2>5. NewestOpen'
    <3>1. ASSUME NEW n \in FileNums, n > nextNum - 1
          PROVE  kern'[n] = <<>>
      <4>1. n > cur /\ ~ \E m \in dir : n <= m
        <5>1. \A m \in dir : m \in Nat
          BY <1>1, StoreFacts
        <5>2. QED
          BY <1>1, <2>2, <3>1, <5>1 DEF NoFile
      <4>2. kern[n] = <<>>
        BY <4>1 DEF IInv, SpoolNumbering
      <4>3. QED
        BY <2>3, <4>1, <4>2
    <3>2. QED
      BY <2>1, <3>1 DEF NewestOpen
  <2>6. QED
    BY <2>3, <2>4, <2>5 DEF WriterOrder
<1>11. CASE WriteHeader
  BY <1>11, HeaderOrder
<1>12. CASE Poll
  BY <1>3, <1>12 DEF Poll, storeVars, OrderedStep
<1>13. CASE Sync \/ ReadReply
  <2>1. /\ ssw'.srec = ssw.srec /\ ssw'.seqnum = ssw.seqnum /\ ssw'.ended = ssw.ended
    <3>1. Written(ssw, SyncRequest) = [ssw EXCEPT !.reply = SyncReply(ssw)]
      BY DEF Written, Numbered, SyncRequest, StartsSession, IsSession
    <3>2. QED
      BY <1>1, <1>13, <3>1 DEF Sync, ReadReply, Replied, WriterState
  <2>2. wpc' \notin {"create", "close", "header"}
    BY <1>13 DEF Sync, ReadReply
  <2>3. QED
    BY <1>3, <1>13, <2>1, <2>2 DEF Sync, ReadReply, storeVars, OrderedStep
<1>14. ASSUME Closed, Issued' \subseteq Issued, NoHoles', EndsLast'
       PROVE  WriterOrder'
  <2>1. /\ wpc' = "off" /\ cur' = NoFile /\ buf' = <<>> /\ ssw' = FreshWriter
        /\ clock' = clock
    BY <1>14 DEF Closed
  <2>2. NextInOrder'
    BY <1>1, <1>2, <1>14, <2>1 DEF NextInOrder
  <2>3. InOrder(Filed', buf') /\ NewestOpen'
    BY <2>1, EmptyInOrder DEF NewestOpen
  <2>4. QED
    BY <1>14, <2>2, <2>3 DEF WriterOrder
<1>15. CASE Destroy
  <2>1. Closed /\ buf' = <<>>
    BY <1>15 DEF Destroy, Closed
  <2>2. CASE cur = NoFile
    <3>1. UNCHANGED storeVars /\ UNCHANGED kern /\ UNCHANGED buf
      BY <1>1, <1>15, <2>1, <2>2 DEF Destroy, storeVars, NewestOpen
    <3>2. QED
      BY <1>14, <2>1, <3>1, StillOrder DEF OrderedStep
  <2>3. CASE cur # NoFile
    BY <1>14, <1>15, <2>1, <2>3, FlushOrder DEF Destroy, OrderedStep
  <2>4. QED
    BY <2>2, <2>3
<1>16. CASE Kill
  <2>1. Closed /\ buf' = <<>> /\ UNCHANGED <<storeVars, kern>>
    BY <1>16 DEF Kill, Closed, storeVars
  <2>2. Filed' = Filed
    BY <2>1 DEF Filed, Elements
  <2>3. Issued' \subseteq Issued
    <3>1. Issued' = Filed' \cup Elements(buf')
      BY DEF Issued, Elements
    <3>2. QED
      BY <2>1, <2>2, <3>1, EmptyInOrder DEF Issued
  <2>4. OnFile' = OnFile
    BY <2>2, OnFileFacts
  <2>5. NoHoles' /\ EndsLast'
    BY <2>1, <2>4 DEF WriterOrder, NoHoles, EndsLast, EventRec, EndRec, IsEvent
  <2>6. QED
    BY <1>14, <2>1, <2>3, <2>5 DEF OrderedStep
<1>17. QED
  BY <1>4, <1>5, <1>6, <1>7, <1>8, <1>9, <1>10, <1>11, <1>12, <1>13, <1>15, <1>16
     DEF WriterNext, WriteRecord

-----------------------------------------------------------------------------
(* What is on file stays on file.                                           *)

\* Such a step is one of those that SpoolForwardProofs reasons about.
LEMMA OrderedIsStore ==
  ASSUME OrderedStep
  PROVE  StoreStep
BY DEF OrderedStep, OrderedExtend, StoreStep

\* A step of the writer only appends.
LEMMA FilesGrow ==
  ASSUME IInv, OrderedStep
  PROVE  /\ \A n \in FileNums : Extends(kern[n], kern'[n]) /\ Len(kern'[n]) \in Nat
         /\ Filed \subseteq Filed' /\ OnFile \subseteq OnFile'
<1>1. /\ kern \in [FileNums -> Seq(SpoolRecs)] /\ cur \in FileNums \cup {NoFile}
      /\ \A n \in FileNums : Len(kern[n]) \in Nat /\ kern[n] \in Seq(SpoolRecs)
  BY StoreFacts
<1>2. \A n \in FileNums : Len(kern'[n]) \in Nat
  BY OrderedIsStore, StoreGrows, LenProperties DEF StoreTypeOK
<1>3. \A n \in FileNums : Extends(kern[n], kern'[n])
  <2>1. CASE UNCHANGED kern
    BY <1>1, <2>1 DEF Extends
  <2>2. CASE OrderedExtend
    <3>1. PICK out \in Seq(SpoolRecs) : cur # NoFile /\ AppendTo(cur, out)
      BY <2>2 DEF OrderedExtend, Extend
    <3>2. kern' = [kern EXCEPT ![cur] = kern[cur] \o out] /\ cur \in FileNums
      BY <1>1, <3>1 DEF AppendTo
    <3>3. Extends(kern[cur], kern[cur] \o out)
      BY <1>1, <3>2, AppendFacts
    <3>4. QED
      BY <1>1, <3>2, <3>3 DEF Extends
  <2>3. QED
    BY <2>1, <2>2, CreateKeepsFiles DEF OrderedStep, storeVars
<1>4. Filed \subseteq Filed'
  <2> SUFFICES ASSUME NEW rec \in Filed PROVE rec \in Filed'
    OBVIOUS
  <2>1. PICK n \in FileNums : \E i \in 1..Len(kern[n]) : rec = kern[n][i]
    BY PlaceFacts
  <2>2. PICK i \in 1..Len(kern[n]) : rec = kern[n][i]
    BY <2>1
  <2>3. i \in 1..Len(kern'[n]) /\ kern'[n][i] = rec
    BY <1>1, <1>2, <1>3, <2>2 DEF Extends
  <2>4. QED
    BY <2>3 DEF Filed, Elements
<1>5. QED
  BY <1>2, <1>3, <1>4, OnFileFacts

-----------------------------------------------------------------------------
(* What reaches the destination.                                            *)

\* The record that is written to the destination is on file, and goes under
\* its own session.
LEMMA PutFacts ==
  ASSUME IInv, fpc \in {"make", "put"}, fpc = "make" => IsSession(hand),
         hand # SyncRequest,
         ~Refuses(IF fpc = "make" THEN FreshWriter ELSE dst, hand)
  PROVE  LET w == IF fpc = "make" THEN FreshWriter ELSE dst IN
         /\ hand \in SpoolRecs /\ rfile \in FileNums /\ rfile \in dir
         /\ rpos \in 1..Len(kern[rfile]) /\ hand = kern[rfile][rpos] /\ hand \in Filed
         /\ w \in WriterState /\ Written(w, hand) \in WriterState
         /\ Written(w, hand).srec # NoRec /\ Written(w, hand).srec.ts = hand.ts
         /\ Documents(Written(w, hand), hand) \subseteq {Document(hand)}
<1> DEFINE w == IF fpc = "make" THEN FreshWriter ELSE dst
<1>1. /\ hand \in SpoolRecs /\ rfile \in FileNums /\ rfile \in dir
      /\ rpos \in 1..Len(kern[rfile]) /\ hand = kern[rfile][rpos]
  BY HandFacts
<1>2. hand \in Filed
  BY <1>1, PlaceFacts
<1>3. w \in WriterState
  <2>1. 0 \in 0..(MaxSeq + 1)
    BY StoreFacts
  <2>2. FreshWriter \in WriterState
    BY <2>1 DEF FreshWriter, WriterState
  <2>3. QED
    BY <2>2 DEF IInv, STypeOK, ForwardTypeOK
<1>4. /\ Written(w, hand) \in WriterState /\ Written(w, hand).srec # NoRec
      /\ IsSession(hand) => Written(w, hand).srec.ts = hand.ts
  BY <1>1, <1>3, WrittenFacts
<1>5. ASSUME ~IsSession(hand)
      PROVE  Written(w, hand).srec.ts = hand.ts
  <2>1. fpc = "put" /\ w = dst
    BY <1>5
  <2>2. Written(dst, hand).srec = dst.srec
    BY <1>1, <1>3, <1>5, <2>1, WrittenKeepsSession DEF StartsSession
  <2>3. dst.srec.ts = rts /\ rts = kern[rfile][1].ts
    BY <1>1, <1>5, <2>1 DEF IInv, ReaderSession
  <2>4. hand.ts = kern[rfile][1].ts
    BY <1>1, FileFacts
  <2>5. QED
    BY <2>1, <2>2, <2>3, <2>4
<1> HIDE DEF w
<1>6. Written(w, hand).srec.ts = hand.ts
  BY <1>4, <1>5
<1>7. Documents(Written(w, hand), hand) \subseteq {Document(hand)}
  BY <1>6 DEF Documents, Document
<1>8. QED
  BY <1>1, <1>2, <1>3, <1>4, <1>6, <1>7 DEF w

\* A step of the forwarder adds the document of a record on file, in a file
\* that still has its name, or none.
LEMMA DeliveryFacts ==
  ASSUME IInv, ForwardNext
  PROVE  \/ UNCHANGED db
         \/ /\ hand \in SpoolRecs /\ hand \in Filed /\ db' = db \cup {Document(hand)}
            /\ rfile \in dir /\ rfile \in FileNums
            /\ rpos \in 1..Len(kern[rfile]) /\ hand = kern[rfile][rpos]
            /\ PutSession \/ PutRecord \/ PutThrows
<1> DEFINE w == IF fpc = "make" THEN FreshWriter ELSE dst
<1>1. CASE PutSession \/ PutRecord
  <2>1. /\ fpc \in {"make", "put"} /\ (fpc = "make" => IsSession(hand))
        /\ hand # SyncRequest /\ ~Refuses(w, hand)
        /\ db' = db \cup Documents(Written(w, hand), hand)
    BY <1>1 DEF PutSession, PutRecord, SyncRequest, IsSession
  <2>2. QED
    BY <1>1, <2>1, PutFacts
<1>2. CASE PutThrows
  <2>1. /\ fpc \in {"make", "put"} /\ (fpc = "make" => IsSession(hand))
        /\ ~Refuses(w, hand)
        /\ db' \in {db, db \cup Documents(Written(w, hand), hand)}
    BY <1>2 DEF PutThrows
  <2>2. CASE hand = SyncRequest
    BY <2>1, <2>2 DEF Documents, SyncRequest
  <2>3. CASE hand # SyncRequest
    BY <1>2, <2>1, <2>3, PutFacts
  <2>4. QED
    BY <2>2, <2>3
<1>3. CASE Scan \/ ScanEmpty \/ OpenSpoolfile \/ OpenThrows \/ ReadRecord \/ ReadNothing
  BY <1>3 DEF Scan, ScanEmpty, OpenSpoolfile, OpenThrows, ReadRecord, ReadNothing
<1>4. CASE SeeSuccessor \/ SeeNoSuccessor \/ Wake \/ ReadEnd \/ NotASession
  BY <1>4 DEF SeeSuccessor, SeeNoSuccessor, Wake, ReadEnd, NotASession
<1>5. CASE PutSync \/ Unlink \/ Advance \/ Start \/ Stop
  BY <1>5 DEF PutSync, Unlink, Advance, Start, Stop
<1>6. QED
  BY <1>1, <1>2, <1>3, <1>4, <1>5 DEF ForwardNext, ForwardStep

\* So nothing in the destination is under a session that did not produce it.
LEMMA AttributionStep ==
  ASSUME IInv, NothingMisattributed,
         \/ OrderedStep /\ UNCHANGED forwardVars
         \/ ForwardNext
  PROVE  NothingMisattributed'
<1>1. CASE OrderedStep /\ UNCHANGED forwardVars
  <2>1. UNCHANGED db /\ OnFile \subseteq OnFile'
    BY <1>1, FilesGrow DEF forwardVars
  <2>2. QED
    BY <2>1 DEF NothingMisattributed, IsEvent
<1>2. CASE ForwardNext
  <2>1. UNCHANGED kern
    BY <1>2, ForwardFrame DEF IInv, STypeOK, TypeOK, StoreTypeOK
  <2>2. OnFile' = OnFile
    BY <2>1, OnFileFacts DEF Filed, Elements
  <2>3. CASE UNCHANGED db
    BY <2>2, <2>3 DEF NothingMisattributed, IsEvent
  <2>4. CASE hand \in Filed /\ db' = db \cup {Document(hand)}
    <3>1. Document(hand).ts = Document(hand).rec.ts /\ Document(hand).rec = hand
      BY DEF Document
    <3>2. IsEvent(hand) => hand \in OnFile
      BY <2>4, OnFileFacts
    <3>3. QED
      BY <2>2, <2>4, <3>1, <3>2 DEF NothingMisattributed, IsEvent
  <2>5. QED
    BY <1>2, <2>3, <2>4, DeliveryFacts
<1>3. QED
  BY <1>1, <1>2

-----------------------------------------------------------------------------
(* Reader and destination count alike.                                      *)

\* How the base class's count changes.
LEMMA CountFacts ==
  ASSUME NEW w \in WriterState, NEW r \in SpoolRecs
  PROVE  /\ StartsSession(w, r) => Written(w, r).seqnum = 0
         /\ ~StartsSession(w, r) =>
              Written(w, r).seqnum = IF IsEvent(r) THEN r.seq + 1 ELSE w.seqnum
<1>1. r.chan \in {"session", "event", "end", "signature"}
  BY RecordFacts
<1>2. ASSUME StartsSession(w, r)
      PROVE  Written(w, r).seqnum = 0
  <2>1. Written(w, r) = [w EXCEPT !.srec = r, !.seqnum = 0, !.ended = FALSE]
    BY <1>2 DEF Written, Numbered, Started, StartsSession, IsSession
  <2>2. QED
    BY <2>1 DEF WriterState
<1>3. ASSUME ~StartsSession(w, r)
      PROVE  Written(w, r).seqnum = IF IsEvent(r) THEN r.seq + 1 ELSE w.seqnum
  <2>1. CASE IsEvent(r)
    <3>1. Written(w, r) = [w EXCEPT !.seqnum = r.seq + 1]
      BY <1>3, <2>1 DEF Written, Numbered, IsEvent
    <3>2. QED
      BY <2>1, <3>1 DEF WriterState
  <2>2. CASE ~IsEvent(r)
    <3>1. Written(w, r) \in {[w EXCEPT !.ended = TRUE], w}
      BY <1>1, <1>3, <2>2 DEF Written, Numbered, IsEvent
    <3>2. QED
      BY <2>2, <3>1 DEF WriterState
  <2>3. QED
    BY <2>1, <2>2
<1>4. QED
  BY <1>2, <1>3

\* The same of a sync request, which changes nothing but the reply.
LEMMA RequestFacts ==
  ASSUME NEW w \in WriterState
  PROVE  LET u == Written(w, SyncRequest) IN
         /\ u.srec = w.srec /\ u.seqnum = w.seqnum /\ u.ended = w.ended
         /\ u.reply = SyncReply(w)
         /\ Replied(u).srec = w.srec /\ Replied(u).seqnum = w.seqnum
         /\ Replied(u).ended = w.ended
<1>1. Written(w, SyncRequest) = [w EXCEPT !.reply = SyncReply(w)]
  BY DEF Written, Numbered, SyncRequest, StartsSession, IsSession
<1>2. QED
  BY <1>1 DEF Replied, WriterState

\* Each step keeps the counts equal.
LEMMA CountedStep ==
  ASSUME IInv, CountedAlike, ForwardNext
  PROVE  CountedAlike'
<1>1. /\ dst \in WriterState /\ ReaderPlace /\ ReaderSession
      /\ rpos \in Nat /\ rfile \in FileNums \cup {NoFile} /\ rseq \in 0..(MaxSeq + 1)
      /\ FreshWriter \in WriterState
  <2>1. 0 \in 0..(MaxSeq + 1)
    BY StoreFacts
  <2>2. FreshWriter \in WriterState
    BY <2>1 DEF FreshWriter, WriterState
  <2>3. QED
    BY <2>2 DEF IInv, STypeOK, ForwardTypeOK
<1>2. ASSUME UNCHANGED <<fpc, rts, rseq, hand, dst>>
      PROVE  CountedAlike'
  BY <1>2 DEF CountedAlike, IsSession, Written, StartsSession, Started, Numbered,
              SyncReply, SameTs, FreshWriter
<1>3. CASE Scan \/ ScanEmpty \/ OpenSpoolfile \/ ReadNothing \/ SeeSuccessor
           \/ SeeNoSuccessor \/ Wake
  BY <1>2, <1>3 DEF Scan, ScanEmpty, OpenSpoolfile, ReadNothing, SeeSuccessor,
                    SeeNoSuccessor, Wake
<1>4. ASSUME fpc' \in {"down", "start"}, rts' = 0, rseq' = 0
      PROVE  CountedAlike'
  BY <1>4 DEF CountedAlike
<1>5. CASE OpenThrows
  <2>1. fpc \in {"down", "start"} /\ UNCHANGED <<rts, rseq>> /\ fpc' = "start"
    BY <1>1, <1>5 DEF OpenThrows, ReaderPlace
  <2>2. QED
    BY <1>4, <2>1 DEF CountedAlike
<1>6. CASE NotASession \/ PutThrows
  <2>1. Retry /\ fpc \in {"make", "put"}
    BY <1>6 DEF NotASession, PutThrows
  <2>2. rfile # NoFile
    BY <1>1, <2>1 DEF ReaderPlace
  <2>3. QED
    BY <1>4, <2>1, <2>2 DEF Retry
<1>7. CASE Stop
  BY <1>4, <1>7 DEF Stop
<1>8. CASE Start
  <2>1. fpc = "down" /\ fpc' = "start" /\ UNCHANGED <<rts, rseq>>
    BY <1>8 DEF Start, readerVars
  <2>2. QED
    BY <1>4, <2>1 DEF CountedAlike
<1>9. CASE ReadRecord
  <2> DEFINE rec == kern[rfile][rpos + 1]
  <2>1. /\ rfile \in FileNums /\ rpos < Len(kern[rfile]) /\ rpos + 1 \in 1..Len(kern[rfile])
        /\ Observe(rec) /\ dst' = dst /\ hand' = rec /\ fpc \in {"start", "loop"}
        /\ fpc' = (IF fpc = "loop" THEN "put" ELSE "make")
        /\ 1 \in 1..Len(kern[rfile])
    BY <1>1, <1>9, StoreFacts DEF ReadRecord, Return, Reading
  <2>2. rec \in SpoolRecs
    BY <2>1, FileFacts
  <2>3. rec.ts \in Times /\ rec.ts # 0
    BY <2>2, RecordFacts DEF Times
  <2>4. CASE fpc = "start"
    <3>1. rpos = 0 /\ rts = 0 /\ rseq = 0
      BY <1>1, <2>4 DEF ReaderPlace, CountedAlike
    <3>2. IsSession(rec)
      BY <2>1, <3>1, FileFacts
    <3> HIDE DEF rec
    <3>3. rseq' = 0
      BY <2>1, <2>3, <3>1, <3>2 DEF Observe
    <3>4. StartsSession(FreshWriter, rec)
      BY <3>2 DEF StartsSession, FreshWriter
    <3>5. Written(FreshWriter, rec).seqnum = 0
      BY <1>1, <2>2, <3>4, CountFacts
    <3>6. QED
      BY <2>1, <2>4, <3>3, <3>5 DEF CountedAlike, FreshWriter
  <2>5. CASE fpc = "loop"
    <3>1. dst.seqnum = rseq /\ dst.srec # NoRec /\ dst.srec.ts = rts
      BY <1>1, <2>5 DEF CountedAlike, ReaderSession
    <3> HIDE DEF rec
    <3>2. StartsSession(dst, rec) <=> IsSession(rec) /\ rec.ts # rts
      BY <3>1 DEF StartsSession, SameTs
    <3>3. ~(IsSession(rec) /\ IsEvent(rec))
      BY DEF IsSession, IsEvent
    <3>4. Written(dst, rec).seqnum = rseq'
      BY <1>1, <2>1, <2>2, <3>1, <3>2, <3>3, CountFacts DEF Observe
    <3>5. Written(dst', hand').seqnum = rseq' /\ fpc' = "put"
      BY <2>1, <2>5, <3>4
    <3>6. QED
      BY <3>5 DEF CountedAlike
  <2>6. QED
    BY <2>1, <2>4, <2>5
<1>10. CASE ReadEnd
  <2>1. /\ hand' = SyncRequest /\ fpc \in {"start", "loop"} /\ UNCHANGED <<dst, rseq>>
        /\ fpc' = (IF fpc = "loop" THEN "put" ELSE "make")
    BY <1>10 DEF ReadEnd, Return, Reading
  <2>2. ~IsSession(hand')
    BY <2>1 DEF IsSession, SyncRequest
  <2>3. fpc = "loop" => Written(dst', hand').seqnum = rseq'
    BY <1>1, <2>1, RequestFacts DEF CountedAlike
  <2>4. QED
    BY <2>1, <2>2, <2>3 DEF CountedAlike
<1>11. CASE PutSession \/ PutRecord
  <2>1. dst'.seqnum = rseq /\ rseq' = rseq /\ fpc' = "loop"
    BY <1>11 DEF PutSession, PutRecord, CountedAlike, readerVars
  <2>2. QED
    BY <2>1 DEF CountedAlike
<1>12. CASE PutSync
  <2>1. hand = SyncRequest /\ fpc = "put"
    <3>1. hand \in SpoolRecs => hand.chan # "sync"
      BY RecordFacts
    <3>2. QED
      BY <1>12, <3>1, HandFacts DEF PutSync
  <2>2. /\ dst' = Replied(Written(dst, SyncRequest)) /\ hand' = Written(dst, SyncRequest).reply
        /\ fpc' = "ack" /\ rseq' = rseq /\ Written(dst, SyncRequest).seqnum = rseq
    BY <1>12, <2>1 DEF PutSync, readerVars, CountedAlike
  <2>3. dst'.seqnum = rseq' /\ dst'.srec = dst.srec /\ dst'.seqnum = dst.seqnum
        /\ hand' = SyncReply(dst)
    BY <1>1, <2>2, RequestFacts
  <2>4. hand' = SyncReply(dst)'
    BY <2>3 DEF SyncReply
  <2>5. QED
    BY <2>2, <2>3, <2>4 DEF CountedAlike
<1>13. CASE Unlink \/ Advance
  <2>1. fpc \in {"ack", "advance"} /\ fpc' \in {"advance", "loop"}
        /\ UNCHANGED <<dst, rseq>>
    BY <1>13 DEF Unlink, Advance, readerVars
  <2>2. QED
    BY <2>1 DEF CountedAlike
<1>14. QED
  BY <1>3, <1>5, <1>6, <1>7, <1>8, <1>9, <1>10, <1>11, <1>12, <1>13
     DEF ForwardNext, ForwardStep

-----------------------------------------------------------------------------
(* The end of a session is passed on when it has been read.                 *)

\* How the end of a session reaches the base class.
LEMMA EndedFacts ==
  ASSUME NEW w \in WriterState, NEW r \in SpoolRecs
  PROVE  /\ StartsSession(w, r) => ~Written(w, r).ended
         /\ ~StartsSession(w, r) =>
              /\ Written(w, r).srec = w.srec
              /\ Written(w, r).ended => w.ended \/ r.chan = "end"
<1>1. r.chan \in {"session", "event", "end", "signature"}
  BY RecordFacts
<1>2. ASSUME StartsSession(w, r)
      PROVE  ~Written(w, r).ended
  <2>1. Written(w, r) = [w EXCEPT !.srec = r, !.seqnum = 0, !.ended = FALSE]
    BY <1>2 DEF Written, Numbered, Started, StartsSession, IsSession
  <2>2. QED
    BY <2>1 DEF WriterState
<1>3. ASSUME ~StartsSession(w, r), Written(w, r).ended
      PROVE  w.ended \/ r.chan = "end"
  <2>1. r.chan = "end" \/ Written(w, r) \in {w, [w EXCEPT !.seqnum = r.seq + 1]}
    BY <1>1, <1>3 DEF Written, Numbered
  <2>2. QED
    BY <1>3, <2>1 DEF WriterState
<1>4. QED
  BY <1>2, <1>3, WrittenKeepsSession

\* What EndWasRead says of session t and k records of spoolfile n.
EndUpTo(t, n, k) ==
  \E m \in FileNums : \E i \in 1..Len(kern[m]) :
    kern[m][i] = EndRec(t) /\ (m < n \/ (m = n /\ i <= k))

\* Each step keeps it: forwarder ...
LEMMA EndStep ==
  ASSUME IInv, EndWasRead, ForwardNext
  PROVE  EndWasRead'
<1>1. /\ dst \in WriterState /\ ReaderPlace /\ ReaderSession
      /\ rpos \in Nat /\ rfile \in FileNums \cup {NoFile}
      /\ FreshWriter \in WriterState
      /\ \A n \in FileNums : n \in Nat /\ Len(kern[n]) \in Nat
  <2>1. 0 \in 0..(MaxSeq + 1)
    BY StoreFacts
  <2>2. FreshWriter \in WriterState
    BY <2>1 DEF FreshWriter, WriterState
  <2>3. QED
    BY <2>2, StoreFacts DEF IInv, STypeOK, ForwardTypeOK
<1>2. UNCHANGED kern
  BY ForwardFrame DEF IInv, STypeOK, TypeOK, StoreTypeOK
<1>3. dst.srec # NoRec /\ dst.ended => EndUpTo(dst.srec.ts, rfile, Passed)
  BY DEF EndWasRead, EndUpTo, EndRec
<1>4. SUFFICES ASSUME dst'.srec # NoRec, dst'.ended
               PROVE  EndUpTo(dst'.srec.ts, rfile', Passed')
  BY <1>2 DEF EndWasRead, EndUpTo, EndRec
<1>5. Passed \in Int /\ Passed <= rpos
  BY <1>1 DEF Passed
<1>6. ASSUME dst'.srec = dst.srec, dst'.ended = dst.ended,
             rfile' = NoFile \/ rfile' \in FileNums, Passed' \in Int,
             \/ rfile' = rfile /\ Passed <= Passed'
             \/ rfile \in FileNums /\ rfile' > rfile
             \/ rfile = NoFile
      PROVE  EndUpTo(dst'.srec.ts, rfile', Passed')
  <2>1. PICK m \in FileNums : \E i \in 1..Len(kern[m]) :
          kern[m][i] = EndRec(dst.srec.ts) /\ (m < rfile \/ (m = rfile /\ i <= Passed))
    BY <1>3, <1>4, <1>6 DEF EndUpTo
  <2>2. PICK i \in 1..Len(kern[m]) :
          kern[m][i] = EndRec(dst.srec.ts) /\ (m < rfile \/ (m = rfile /\ i <= Passed))
    BY <2>1
  <2>3. rfile # NoFile /\ rfile \in Nat
    BY <1>1, <2>2 DEF NoFile
  <2>4. m < rfile' \/ (m = rfile' /\ i <= Passed')
    <3>1. m \in Nat /\ i \in Int /\ rfile' \in Int
      BY <1>1, <1>6 DEF NoFile
    <3>2. CASE rfile' = rfile /\ Passed <= Passed'
      BY <1>5, <1>6, <2>2, <3>1, <3>2
    <3>3. CASE rfile \in FileNums /\ rfile' > rfile
      BY <2>2, <2>3, <3>1, <3>3
    <3>4. QED
      BY <1>6, <2>3, <3>2, <3>3
  <2>5. QED
    BY <1>6, <2>2, <2>4 DEF EndUpTo
<1>7. CASE Scan \/ ScanEmpty \/ ReadNothing \/ SeeSuccessor \/ SeeNoSuccessor \/ Wake
  <2>1. UNCHANGED <<fpc, rfile, rpos, hand, dst>>
    BY <1>7 DEF Scan, ScanEmpty, ReadNothing, SeeSuccessor, SeeNoSuccessor, Wake
  <2>2. Passed' = Passed
    BY <2>1 DEF Passed
  <2>3. QED
    BY <1>1, <1>5, <1>6, <2>1, <2>2
<1>8. CASE OpenSpoolfile
  <2>1. /\ rfile = NoFile /\ rfile' \in FileNums /\ UNCHANGED dst /\ rpos' = 0
        /\ fpc \in {"start", "loop"} /\ fpc' = fpc
    BY <1>8, StoreFacts DEF OpenSpoolfile, Reading
  <2>2. Passed' \in Int
    BY <2>1 DEF Passed
  <2>3. QED
    BY <1>6, <2>1, <2>2
<1>9. CASE OpenThrows \/ NotASession \/ PutThrows \/ Stop
  <2>1. dst' = FreshWriter
    BY <1>9 DEF OpenThrows, NotASession, PutThrows, Stop, Retry
  <2>2. QED
    BY <1>4, <2>1 DEF FreshWriter
<1>10. CASE ReadRecord
  <2>1. /\ UNCHANGED <<rfile, dst>> /\ rpos' = rpos + 1 /\ hand' = kern[rfile][rpos + 1]
        /\ fpc \in {"start", "loop"} /\ fpc' \in {"make", "put"}
    BY <1>10 DEF ReadRecord, Return, Reading
  <2>2. Passed = rpos /\ Passed' \in Int /\ Passed <= Passed'
    BY <1>1, <2>1 DEF Passed
  <2>3. QED
    BY <1>1, <1>6, <2>1, <2>2
<1>11. CASE ReadEnd
  <2>1. /\ UNCHANGED <<rfile, rpos, dst>> /\ hand' = SyncRequest
        /\ fpc \in {"start", "loop"}
    BY <1>11 DEF ReadEnd, Return, Reading
  <2>2. Passed = rpos /\ Passed' = rpos
    BY <1>1, <2>1 DEF Passed
  <2>3. QED
    BY <1>1, <1>6, <2>1, <2>2
<1>12. CASE PutSession
  <2>1. /\ dst' = Written(FreshWriter, hand) /\ fpc = "make" /\ IsSession(hand)
        /\ hand # SyncRequest
    BY <1>12 DEF PutSession, IsSession, SyncRequest
  <2>2. hand \in SpoolRecs
    BY <2>1, HandFacts
  <2>3. StartsSession(FreshWriter, hand)
    BY <2>1 DEF StartsSession, FreshWriter
  <2>4. ~dst'.ended
    BY <1>1, <2>1, <2>2, <2>3, EndedFacts
  <2>5. QED
    BY <1>4, <2>4
<1>13. CASE PutRecord
  <2>1. /\ fpc = "put" /\ dst' = Written(dst, hand) /\ hand # SyncRequest
        /\ UNCHANGED <<rfile, rpos>> /\ fpc' = "loop" /\ ~Refuses(dst, hand)
    BY <1>13 DEF PutRecord, SyncRequest, readerVars
  <2>2. /\ hand \in SpoolRecs /\ rfile \in FileNums
        /\ rpos \in 1..Len(kern[rfile]) /\ hand = kern[rfile][rpos]
    BY <2>1, HandFacts
  <2>3. Passed = rpos - 1 /\ Passed' = rpos
    BY <2>1 DEF Passed
  <2>4. ~StartsSession(dst, hand)
    BY <1>1, <1>4, <2>1, <2>2, EndedFacts
  <2>5. dst'.srec = dst.srec /\ (dst.ended \/ hand.chan = "end")
    BY <1>1, <1>4, <2>1, <2>2, <2>4, EndedFacts
  <2>6. CASE dst.ended
    BY <1>1, <1>4, <1>6, <2>1, <2>2, <2>3, <2>5, <2>6
  <2>7. CASE hand.chan = "end"
    <3>1. hand = EndRec(hand.ts)
      BY <2>2, <2>7 DEF SpoolRecs, SessionRecs, EventRecs, Session, SessionRec, EventRec,
                        EndRec, SignatureRec
    <3>2. ~IsSession(hand)
      BY <2>7 DEF IsSession
    <3>3. hand.ts = rts
      BY <1>1, <2>1, <2>2, FileFacts DEF ReaderSession
    <3>4. dst.srec.ts = rts
      BY <1>1, <2>1, <3>2 DEF ReaderSession
    <3>5. kern[rfile][rpos] = EndRec(dst'.srec.ts)
      BY <2>2, <2>5, <3>1, <3>3, <3>4
    <3>6. rfile = rfile /\ rpos <= rpos
      BY <1>1
    <3>7. EndUpTo(dst'.srec.ts, rfile, rpos)
      BY <2>2, <3>5, <3>6, Zenon DEF EndUpTo
    <3>8. QED
      BY <2>1, <2>3, <3>7
  <2>8. QED
    BY <2>5, <2>6, <2>7
<1>14. CASE PutSync
  <2>1. hand = SyncRequest /\ fpc = "put"
    <3>1. hand \in SpoolRecs => hand.chan # "sync"
      BY RecordFacts
    <3>2. QED
      BY <1>14, <3>1, HandFacts DEF PutSync
  <2>2. /\ dst' = Replied(Written(dst, SyncRequest)) /\ UNCHANGED <<rfile, rpos>>
        /\ fpc' = "ack"
    BY <1>14, <2>1 DEF PutSync, readerVars
  <2>3. dst'.srec = dst.srec /\ dst'.ended = dst.ended
    BY <1>1, <2>2, RequestFacts
  <2>4. Passed = rpos /\ Passed' = rpos
    BY <2>1, <2>2 DEF Passed
  <2>5. QED
    BY <1>1, <1>6, <2>2, <2>3, <2>4
<1>15. CASE Unlink \/ Start
  <2>1. UNCHANGED <<rfile, rpos, dst>> /\ fpc # "put" /\ fpc' # "put"
    BY <1>15 DEF Unlink, Start, readerVars
  <2>2. Passed = rpos /\ Passed' = rpos
    BY <2>1 DEF Passed
  <2>3. QED
    BY <1>1, <1>6, <2>1, <2>2
<1>16. CASE Advance
  <2>1. /\ fpc = "advance" /\ rfile' = rnext - 1 /\ rfile' \in dir /\ UNCHANGED dst
        /\ rpos' = 0 /\ fpc' = "loop"
    BY <1>16 DEF Advance, Successor
  <2>2. rfile # NoFile /\ rnext = rfile + 2
    BY <1>1, <2>1 DEF ReaderPlace
  <2>3. rfile \in FileNums /\ rfile' > rfile /\ rfile' \in FileNums
    BY <1>1, <2>1, <2>2, StoreFacts
  <2>4. Passed' \in Int
    BY <2>1 DEF Passed
  <2>5. QED
    BY <1>6, <2>1, <2>3, <2>4
<1>17. QED
  BY <1>7, <1>8, <1>9, <1>10, <1>11, <1>12, <1>13, <1>14, <1>15, <1>16
     DEF ForwardNext, ForwardStep

\* ... and writer.
LEMMA EndUnderWriter ==
  ASSUME IInv, EndWasRead, CountedAlike, OrderedStep, UNCHANGED forwardVars
  PROVE  EndWasRead' /\ CountedAlike'
<1>1. UNCHANGED <<fpc, rfile, rpos, rts, rseq, hand, dst>>
  BY DEF forwardVars, readerVars
<1>2. CountedAlike'
  BY <1>1 DEF CountedAlike, IsSession, Written, StartsSession, Started, Numbered,
              SyncReply, SameTs, FreshWriter
<1>3. Passed' = Passed
  BY <1>1 DEF Passed
<1>4. \A n \in FileNums : \A i \in 1..Len(kern[n]) :
        i \in 1..Len(kern'[n]) /\ kern'[n][i] = kern[n][i]
  BY FilesGrow, StoreFacts DEF Extends
<1>5. EndWasRead'
  <2> SUFFICES ASSUME dst.srec # NoRec, dst.ended
               PROVE  \E n \in FileNums : \E i \in 1..Len(kern'[n]) :
                        /\ kern'[n][i] = EndRec(dst.srec.ts)
                        /\ n < rfile \/ (n = rfile /\ i <= Passed)
    BY <1>1, <1>3 DEF EndWasRead, EndRec
  <2>1. PICK n \in FileNums : \E i \in 1..Len(kern[n]) :
          kern[n][i] = EndRec(dst.srec.ts) /\ (n < rfile \/ (n = rfile /\ i <= Passed))
    BY DEF EndWasRead
  <2>2. PICK i \in 1..Len(kern[n]) :
          kern[n][i] = EndRec(dst.srec.ts) /\ (n < rfile \/ (n = rfile /\ i <= Passed))
    BY <2>1
  <2>3. QED
    BY <1>4, <2>2
<1>6. QED
  BY <1>2, <1>5

-----------------------------------------------------------------------------
(* The invariant.                                                           *)

\* It holds to begin with.
LEMMA InitTInv ==
  ASSUME SInit
  PROVE  TInv
<1>1. /\ \A n \in FileNums : kern[n] = <<>>
      /\ buf = <<>> /\ cur = NoFile /\ wpc = "off" /\ ssw.srec = NoRec
      /\ fpc = "down" /\ rts = 0 /\ rseq = 0 /\ dst.srec = NoRec /\ db = {}
  BY DEF SInit, StoreInit, WriterInit, ForwardInit, FreshWriter
<1>2. Filed = {}
  BY <1>1, EmptyInOrder DEF Filed
<1>3. Issued = {}
  BY <1>1, <1>2, EmptyInOrder DEF Issued
<1>4. InOrder(Filed, buf)
  BY <1>1, EmptyInOrder
<1>5. NextInOrder /\ NewestOpen
  BY <1>1, <1>3 DEF NextInOrder, NewestOpen
<1>6. OnFile = {}
  BY <1>2, OnFileFacts
<1>7. NoHoles
  BY <1>6 DEF NoHoles
<1>8. EndsLast
  <2>1. \A n \in FileNums : Len(kern[n]) = 0
    BY <1>1
  <2>2. QED
    BY <2>1 DEF EndsLast
<1>9. NothingMisattributed /\ CountedAlike /\ EndWasRead
  BY <1>1 DEF NothingMisattributed, CountedAlike, EndWasRead
<1>10. QED
  BY <1>4, <1>5, <1>7, <1>8, <1>9 DEF TInv, WriterOrder

\* A step that leaves the writer and the contents of the files alone leaves
\* their order alone.
LEMMA OrderUnderReader ==
  ASSUME WriterOrder, UNCHANGED <<kern, writerVars>>
  PROVE  WriterOrder'
<1>1. UNCHANGED <<kern, buf, cur, wpc, ssw, clock, pend>>
  BY DEF writerVars
<1>2. /\ Filed' = Filed /\ Issued' = Issued
      /\ InOrder(Filed', buf') /\ NoHoles' /\ EndsLast'
  BY <1>1, StillOrder
<1>3. NextInOrder'
  BY <1>1, <1>2 DEF WriterOrder, NextInOrder, IsEvent, EventRec, EndRec
<1>4. NewestOpen'
  BY <1>1 DEF WriterOrder, NewestOpen
<1>5. QED
  BY <1>2, <1>3, <1>4 DEF WriterOrder

\* Every step of either process keeps the invariant.
LEMMA NextTInv ==
  ASSUME IInv, TInv, [SNext]_allVars
  PROVE  TInv'
<1>1. WriterOrder /\ NothingMisattributed /\ CountedAlike /\ EndWasRead
  BY DEF TInv
<1>2. CASE WriterNext /\ UNCHANGED forwardVars
  <2>1. WriterOrder' /\ OrderedStep
    BY <1>1, <1>2, WriterOrderStep
  <2>2. NothingMisattributed'
    BY <1>1, <1>2, <2>1, AttributionStep
  <2>3. CountedAlike' /\ EndWasRead'
    BY <1>1, <1>2, <2>1, EndUnderWriter
  <2>4. QED
    BY <2>1, <2>2, <2>3 DEF TInv
<1>3. CASE ForwardNext
  <2>1. WriterOrder'
    BY <1>1, <1>3, ForwardFrame, OrderUnderReader
       DEF IInv, STypeOK, TypeOK, StoreTypeOK
  <2>2. NothingMisattributed' /\ CountedAlike' /\ EndWasRead'
    BY <1>1, <1>3, AttributionStep, CountedStep, EndStep
  <2>3. QED
    BY <2>1, <2>2 DEF TInv
<1>4. CASE UNCHANGED allVars
  <2>1. UNCHANGED storeVars /\ UNCHANGED writerVars /\ UNCHANGED forwardVars
        /\ UNCHANGED kern
    BY <1>4 DEF allVars, storeVars
  <2>2. OrderedStep
    BY <2>1 DEF OrderedStep
  <2>3. WriterOrder'
    BY <1>1, <2>1, OrderUnderReader
  <2>4. NothingMisattributed' /\ CountedAlike' /\ EndWasRead'
    BY <1>1, <2>1, <2>2, AttributionStep, EndUnderWriter
  <2>5. QED
    BY <2>3, <2>4 DEF TInv
<1>5. QED
  BY <1>2, <1>3, <1>4 DEF SNext

\* SpoolInv is an invariant of the composed system: whatever is killed, restarted
\* or fails, records reach the files of a session in order and without a gap,
\* and the forwarder counts what its destination counts.
THEOREM TransferInductive == SSpec => []SpoolInv
<1>1. SInit => IInv /\ TInv
  BY InitIInv, InitTInv
<1>2. (IInv /\ TInv) /\ [SNext]_allVars => (IInv /\ TInv)'
  BY NextIInv, NextTInv
<1>3. QED
  BY <1>1, <1>2, PTL DEF SSpec, SpoolInv

\* What reaches the files of a session is a prefix of what was written in it,
\* across every change of spoolfile: of the events of a session a kill of the
\* capturing process loses the newest only.
THEOREM PrefixOnFile == SSpec => []NoHoles
<1>1. IInv /\ TInv => NoHoles
  BY DEF TInv, WriterOrder
<1>2. QED
  BY <1>1, TransferInductive, PTL DEF SpoolInv

\* No event in the destination is under a session other than the one that
\* captured it, and none was made up on the way, however often spoolfiles are
\* forwarded again.
THEOREM RightlyAttributed == SSpec => []NothingMisattributed
<1>1. IInv /\ TInv => NothingMisattributed
  BY DEF TInv
<1>2. QED
  BY <1>1, TransferInductive, PTL DEF SpoolInv

\* None of the exceptions that would reset the reader is raised unless a fault
\* is: reader and destination agree at every sync, the destination is never
\* given a record it refuses, and the next spoolfile is always there.
THEOREM NeverStuck == SSpec => []ForwardNeverStuck
<1>1. ASSUME IInv, TInv
      PROVE  ForwardNeverStuck
  <2>1. /\ dst \in WriterState /\ rfile \in FileNums \cup {NoFile} /\ rpos \in Nat
        /\ ReaderPlace /\ ReaderSession /\ CountedAlike /\ EndWasRead /\ EndsLast
        /\ \A n \in FileNums : n \in Nat
        /\ \A n \in FileNums : Len(kern[n]) \in Nat
    BY <1>1, StoreFacts
       DEF IInv, TInv, WriterOrder, STypeOK, ForwardTypeOK
  <2>2. fpc \in {"put", "ack"} => dst.srec \in SessionRecs
    BY <2>1 DEF ReaderSession, WriterState
  <2>3. ASSUME fpc = "ack"
        PROVE  AckMatches
    <3>1. dst.srec.src = SrcId /\ dst.srec.ts = rts /\ dst.seqnum = rseq
          /\ hand = SyncReply(dst) /\ awaiting
      BY <2>1, <2>2, <2>3, SessionFacts DEF ReaderSession, ReaderPlace, CountedAlike
    <3>2. QED
      BY <3>1 DEF AckMatches, SyncReply
  <2>4. ASSUME fpc = "put"
        PROVE  ~Refuses(dst, hand)
    <3>1. dst.srec \in SessionRecs /\ dst.srec # NoRec
      BY <2>1, <2>2, <2>4 DEF ReaderSession
    <3>2. CASE hand = SyncRequest
      BY <3>1, <3>2 DEF Refuses, IsSession, IsEvent, SyncRequest
    <3>3. CASE hand # SyncRequest
      <4>1. /\ hand \in SpoolRecs /\ rfile \in FileNums
            /\ rpos \in 1..Len(kern[rfile]) /\ hand = kern[rfile][rpos]
        BY <1>1, <2>4, <3>3, HandFacts
      <4>2. hand.ts = rts
        BY <1>1, <2>1, <2>4, <4>1, FileFacts DEF ReaderSession
      <4>3. ~(dst.ended /\ IsEvent(hand))
        <5>1. SUFFICES ASSUME dst.ended, IsEvent(hand) PROVE FALSE
          OBVIOUS
        <5>2. ~IsSession(hand)
          BY <5>1 DEF IsEvent, IsSession
        <5>3. dst.srec.ts = hand.ts
          BY <2>1, <2>4, <4>2, <5>2 DEF ReaderSession
        <5>4. Passed = rpos - 1
          BY <2>4, <3>3 DEF Passed
        <5>5. PICK n \in FileNums : \E i \in 1..Len(kern[n]) :
                /\ kern[n][i] = EndRec(dst.srec.ts)
                /\ n < rfile \/ (n = rfile /\ i <= Passed)
          BY <2>1, <3>1, <5>1 DEF EndWasRead
        <5>6. PICK i \in 1..Len(kern[n]) :
                /\ kern[n][i] = EndRec(dst.srec.ts)
                /\ n < rfile \/ (n = rfile /\ i <= Passed)
          BY <5>5
        <5>7. rfile < n \/ (rfile = n /\ rpos < i)
          BY <2>1, <4>1, <5>1, <5>3, <5>6 DEF EndsLast
        <5>8. QED
          BY <2>1, <4>1, <5>4, <5>6, <5>7
      <4>4. ASSUME IsSession(hand), SameTs(dst.srec, hand)
            PROVE  dst.srec = hand
        BY <3>1, <4>1, <4>4, RecordFacts, SessionFacts DEF SameTs
      <4>5. IsSession(hand) => hand.src = SrcId
        BY <4>1, RecordFacts, SessionFacts
      <4>6. QED
        BY <3>1, <4>3, <4>4, <4>5 DEF Refuses
    <3>4. QED
      BY <3>2, <3>3
  <2>5. ASSUME fpc = "make", IsSession(hand)
        PROVE  ~Refuses(FreshWriter, hand)
    <3>1. hand \in SpoolRecs
      BY <1>1, <2>5, HandFacts DEF IsSession, SyncRequest
    <3>2. hand.src = SrcId
      BY <2>5, <3>1, RecordFacts, SessionFacts
    <3>3. QED
      BY <2>5, <3>2 DEF Refuses, FreshWriter
  <2>6. ASSUME fpc = "advance"
        PROVE  Successor \in dir
    <3>1. rfile # NoFile
      BY <2>1, <2>6 DEF ReaderPlace
    <3>2. rfile \in Nat /\ rnext = rfile + 2 /\ rfile + 1 \in dir
      BY <2>1, <2>6, <3>1 DEF ReaderPlace
    <3>3. rnext - 1 = rfile + 1
      BY <3>2
    <3>4. QED
      BY <3>2, <3>3 DEF Successor
  <2>7. QED
    BY <2>3, <2>4, <2>5, <2>6 DEF ForwardNeverStuck
<1>2. IInv /\ TInv => ForwardNeverStuck
  BY <1>1
<1>3. QED
  BY <1>2, TransferInductive, PTL DEF SpoolInv

-----------------------------------------------------------------------------
(* The refinement of ReliableTransfer.                                      *)

\* A step of the writer makes events timely that have never been on file, and
\* makes them so in a file that has a name.
LEMMA TimelyGrows ==
  ASSUME IInv, OrderedStep
  PROVE  /\ dir \subseteq dir'
         /\ \A n \in FileNums : TimelyEvents(n) \subseteq TimelyEvents(n)'
         /\ \A n \in FileNums : \A e \in TimelyEvents(n)' :
              e \in TimelyEvents(n) \/ (n \in dir /\ e \notin Filed)
         /\ \A n \in dir' \ dir : TimelyEvents(n)' = {}
<1>1. /\ kern \in [FileNums -> Seq(SpoolRecs)] /\ dir \subseteq FileNums
      /\ sealed \in [FileNums -> Nat \cup {Unsealed}]
      /\ cur \in FileNums \cup {NoFile}
      /\ \A n \in FileNums : n \in Nat /\ Len(kern[n]) \in Nat /\ kern[n] \in Seq(SpoolRecs)
      /\ SpoolNumbering /\ WriterNumbering
  BY StoreFacts DEF IInv
<1>2. ASSUME NEW n \in FileNums, sealed'[n] = sealed[n], kern'[n] = kern[n]
      PROVE  TimelyEvents(n)' = TimelyEvents(n)
  BY <1>2 DEF TimelyEvents, EventsUpTo, IsEvent
<1>3. CASE UNCHANGED storeVars
  BY <1>2, <1>3 DEF storeVars
<1>4. CASE Create
  <2>1. /\ nextNum \in FileNums /\ dir' = dir \cup {nextNum}
        /\ sealed' = IF nextNum = 0 THEN sealed
                     ELSE [sealed EXCEPT ![nextNum - 1] = Len(kern[nextNum - 1])]
        /\ kern' = kern /\ kern'[nextNum] = <<>>
    BY <1>1, <1>4, CreateKeepsFiles DEF Create, CreateFile
  <2>2. /\ \A m \in dir : m < nextNum
        /\ nextNum > 0 => nextNum - 1 \in dir
    BY <1>1, <1>4 DEF Create, WriterNumbering
  <2>3. ASSUME NEW p \in FileNums, nextNum # 0, p = nextNum - 1
        PROVE  TimelyEvents(p)' = TimelyEvents(p)
    <3>1. p \in dir
      BY <1>1, <2>1, <2>2, <2>3
    <3>2. ~ \E m \in dir : p < m
      BY <1>1, <2>1, <2>2, <2>3
    <3>3. sealed[p] = Unsealed
      BY <1>1, <3>2 DEF SpoolNumbering
    <3>4. sealed'[p] = Len(kern[p]) /\ sealed'[p] # Unsealed
      BY <1>1, <2>1, <2>3 DEF Unsealed
    <3>5. QED
      BY <2>1, <3>3, <3>4 DEF TimelyEvents, EventsUpTo, IsEvent
  <2>4. ASSUME NEW n \in FileNums
        PROVE  TimelyEvents(n)' = TimelyEvents(n)
    <3>1. CASE nextNum # 0 /\ n = nextNum - 1
      BY <2>3, <3>1
    <3>2. CASE ~(nextNum # 0 /\ n = nextNum - 1)
      <4>1. sealed'[n] = sealed[n] /\ kern'[n] = kern[n]
        BY <1>1, <2>1, <3>2
      <4>2. QED
        BY <1>2, <4>1
    <3>3. QED
      BY <3>1, <3>2
  <2>5. ASSUME NEW n \in dir' \ dir
        PROVE  TimelyEvents(n)' = {}
    <3>1. n = nextNum /\ n \in FileNums
      BY <2>1, <2>5
    <3>2. Len(kern[n]) = 0
      BY <2>1, <3>1
    <3>3. ~ \E m \in dir : n < m
      BY <1>1, <2>1, <2>2, <3>1
    <3>4. sealed[n] = Unsealed
      BY <1>1, <3>1, <3>3 DEF SpoolNumbering
    <3>5. TimelyEvents(n) = {}
      BY <3>2, <3>4 DEF TimelyEvents, EventsUpTo
    <3>6. QED
      BY <2>4, <3>1, <3>5
  <2>6. QED
    BY <2>1, <2>4, <2>5
<1>5. CASE OrderedExtend
  <2>1. PICK out \in Seq(SpoolRecs) :
          cur # NoFile /\ AppendTo(cur, out) /\ InOrder(Filed, out)
    BY <1>5 DEF OrderedExtend, Extend
  <2>2. /\ cur \in FileNums /\ dir' = dir /\ sealed' = sealed
        /\ kern' = [kern EXCEPT ![cur] = kern[cur] \o out]
    BY <1>1, <2>1 DEF AppendTo
  <2> PICK c \in FileNums : c = cur
    BY <2>2
  <2>3. \A n \in FileNums : n # c => TimelyEvents(n)' = TimelyEvents(n)
    BY <1>1, <1>2, <2>2
  <2> DEFINE k  == kern[c]
             k2 == kern'[c]
  <2>4. /\ Len(k2) = Len(k) + Len(out) /\ Len(k) \in Nat /\ Len(out) \in Nat
        /\ \A i \in 1..(Len(k) + Len(out)) :
             k2[i] = IF i <= Len(k) THEN k[i] ELSE out[i - Len(k)]
    BY <1>1, <2>1, <2>2, ConcatProperties, LenProperties
  <2> HIDE DEF k, k2
  <2>5. \A i \in 1..Len(k) : k2[i] = k[i] /\ i \in 1..Len(k2)
    BY <2>4
  <2>6. ASSUME sealed[c] # Unsealed
        PROVE  TimelyEvents(c)' = TimelyEvents(c)
    <3>1. sealed[c] <= Len(k) /\ sealed[c] \in Nat
      BY <1>1, <2>2, <2>6 DEF SpoolNumbering, k
    <3>2. \A i \in 1..sealed[c] : k2[i] = k[i]
      BY <2>4, <2>5, <3>1
    <3>3. TimelyEvents(c) = {k[i] : i \in {j \in 1..sealed[c] : IsEvent(k[j])}}
      BY <2>6 DEF TimelyEvents, EventsUpTo, k
    <3>4. TimelyEvents(c)' = {k2[i] : i \in {j \in 1..sealed[c] : IsEvent(k2[j])}}
      BY <2>2, <2>6 DEF TimelyEvents, EventsUpTo, k2, IsEvent
    <3>5. QED
      BY <3>2, <3>3, <3>4
  <2>7. ASSUME sealed[c] = Unsealed
        PROVE  /\ TimelyEvents(c) \subseteq TimelyEvents(c)' /\ c \in dir
               /\ \A e \in TimelyEvents(c)' : e \in TimelyEvents(c) \/ e \notin Filed
    <3>1. c \in dir
      <4>1. PICK m \in dir : cur <= m
        BY <1>1, <2>1 DEF WriterNumbering
      <4>2. ~(cur < m)
        BY <1>1, <2>2, <2>7 DEF SpoolNumbering
      <4>3. QED
        BY <1>1, <2>2, <4>1, <4>2
    <3>2. TimelyEvents(c) = {k[i] : i \in {j \in 1..Len(k) : IsEvent(k[j])}}
      BY <2>7 DEF TimelyEvents, EventsUpTo, k
    <3>3. TimelyEvents(c)' = {k2[i] : i \in {j \in 1..Len(k2) : IsEvent(k2[j])}}
      BY <2>2, <2>7 DEF TimelyEvents, EventsUpTo, k2, IsEvent
    <3>4. TimelyEvents(c) \subseteq TimelyEvents(c)'
      BY <2>5, <3>2, <3>3
    <3>5. ASSUME NEW i \in 1..Len(k2), IsEvent(k2[i])
          PROVE  k2[i] \in TimelyEvents(c) \/ k2[i] \notin Filed
      <4>1. CASE i <= Len(k)
        <5>1. i \in 1..Len(k) /\ k2[i] = k[i]
          BY <2>4, <4>1
        <5>2. QED
          BY <3>2, <3>5, <5>1
      <4>2. CASE ~(i <= Len(k))
        <5>1. i - Len(k) \in 1..Len(out) /\ k2[i] = out[i - Len(k)]
          BY <2>4, <4>2
        <5>2. PICK p \in 1..Len(out) : k2[i] = out[p]
          BY <5>1
        <5>3. out[p] \notin Before(Filed, out, p)
          BY <2>1, <3>5, <5>2 DEF InOrder
        <5>4. QED
          BY <5>2, <5>3 DEF Before
      <4>3. QED
        BY <4>1, <4>2
    <3>6. QED
      BY <3>1, <3>3, <3>4, <3>5
  <2>8. QED
    BY <2>2, <2>3, <2>6, <2>7
<1>6. QED
  BY <1>3, <1>4, <1>5 DEF OrderedStep

\* Timely events are events, and on file.
LEMMA TimelyFacts ==
  ASSUME IInv, NEW n \in FileNums, NEW e \in TimelyEvents(n)
  PROVE  IsEvent(e) /\ e \in Filed /\ e \in EventRecs /\ e \in AllTimely
<1>1. /\ Len(kern[n]) \in Nat /\ sealed[n] \in Nat \cup {Unsealed}
      /\ sealed[n] <= Len(kern[n])
  BY StoreFacts DEF IInv, SpoolNumbering
<1>2. PICK i \in 1..(IF sealed[n] = Unsealed THEN Len(kern[n]) ELSE sealed[n]) :
        e = kern[n][i] /\ IsEvent(kern[n][i])
  BY DEF TimelyEvents, EventsUpTo
<1>3. i \in 1..Len(kern[n])
  BY <1>1, <1>2
<1>4. e \in Filed /\ e \in SpoolRecs
  BY <1>2, <1>3, PlaceFacts, StoreFacts
<1>5. QED
  BY <1>2, <1>4, RecordFacts DEF AllTimely

\* A step of the writer captures events, or nothing.
LEMMA WriterCaptures ==
  ASSUME IInv, IInv', NothingMisattributed, OrderedStep, UNCHANGED forwardVars
  PROVE  Transfer!Capture \/ UNCHANGED <<Held, Delivered>>
<1> DEFINE Events == {EventRec(t, q) : t \in Times, q \in 0..MaxSeq}
           S      == Held' \ Held
<1>1. /\ Held = UNION {TimelyEvents(n) : n \in dir}
      /\ Held' = UNION {TimelyEvents(n)' : n \in dir'}
      /\ AllTimely' = UNION {TimelyEvents(n)' : n \in FileNums}
      /\ dir \subseteq FileNums /\ dir' \subseteq FileNums /\ db' = db
  BY StoreFacts, OrderedIsStore, StoreGrows
     DEF Held, AllTimely, StoreTypeOK, forwardVars
<1>2. Held \subseteq Held' /\ AllTimely \subseteq AllTimely'
  BY <1>1, TimelyGrows DEF AllTimely
<1>3. ASSUME NEW e \in S
      PROVE  e \notin Filed /\ e \in Events
  <2>1. PICK n \in dir' : e \in TimelyEvents(n)'
    BY <1>1
  <2>2. n \in dir
    BY <2>1, TimelyGrows
  <2>3. e \notin TimelyEvents(n)
    BY <1>1, <2>2
  <2>4. e \notin Filed
    BY <1>1, <2>1, <2>2, <2>3, TimelyGrows
  <2>5. e \in EventRecs
    <3>1. PICK i \in 1..(IF sealed'[n] = Unsealed THEN Len(kern'[n]) ELSE sealed'[n]) :
            e = kern'[n][i] /\ IsEvent(kern'[n][i])
      BY <2>1 DEF TimelyEvents, EventsUpTo, IsEvent
    <3>2. /\ kern'[n] \in Seq(SpoolRecs) /\ sealed'[n] \in Nat \cup {Unsealed}
          /\ sealed'[n] <= Len(kern'[n])
      BY <1>1, <2>1 DEF IInv, STypeOK, TypeOK, StoreTypeOK, SpoolNumbering
    <3>3. i \in 1..Len(kern'[n])
      BY <3>1, <3>2, LenProperties
    <3>4. e \in SpoolRecs
      BY <3>1, <3>2, <3>3, ElementOfSeq
    <3>5. QED
      BY <3>1, <3>4, RecordFacts
  <2>6. QED
    BY <2>4, <2>5 DEF EventRecs
<1>4. Delivered \subseteq Filed
  BY TimelyFacts DEF Delivered, AllTimely
<1>5. Held \subseteq Filed
  BY <1>1, TimelyFacts
<1>6. ASSUME NEW e \in AllTimely', Document(e) \in db
      PROVE  e \in AllTimely
  <2>1. PICK n \in FileNums : e \in TimelyEvents(n)'
    BY <1>1
  <2>2. IsEvent(e)
    BY <2>1 DEF TimelyEvents, EventsUpTo, IsEvent
  <2>3. Document(e).rec = e
    BY DEF Document
  <2>4. e \in OnFile
    BY <1>6, <2>2, <2>3 DEF NothingMisattributed
  <2>5. e \in Filed
    BY <2>4, OnFileFacts
  <2>6. e \in TimelyEvents(n)
    BY <2>1, <2>5, TimelyGrows
  <2>7. QED
    BY <2>6 DEF AllTimely
<1>7. Delivered' = {e \in AllTimely' : Document(e) \in db}
  BY <1>1 DEF Delivered, Document
<1>8. Delivered' = Delivered
  BY <1>2, <1>6, <1>7 DEF Delivered
<1>9. S \in SUBSET (Events \ (Held \cup Delivered))
  BY <1>3, <1>4, <1>5
<1>10. Held' = Held \cup S
  BY <1>2
<1> HIDE DEF S, Events
<1>11. Transfer!Capture
  BY <1>8, <1>9, <1>10 DEF Transfer!Capture, Events
<1>12. QED
  BY <1>11

\* A step of the forwarder delivers an event, releases some or does neither.
LEMMA ForwarderDelivers ==
  ASSUME IInv, IInv', ForwardNext
  PROVE  Transfer!Deliver \/ Transfer!Release \/ UNCHANGED <<Held, Delivered>>
<1>1. UNCHANGED <<kern, sealed>> /\ (Unlink \/ UNCHANGED dir) /\ dir \subseteq FileNums
  BY ForwardFrame, StoreFacts DEF IInv, STypeOK, TypeOK, StoreTypeOK
<1>2. \A n \in FileNums : TimelyEvents(n)' = TimelyEvents(n)
  BY <1>1 DEF TimelyEvents, EventsUpTo, IsEvent
<1>3. AllTimely' = AllTimely
  BY <1>2 DEF AllTimely
<1>4. Delivered' = {e \in AllTimely : Document(e) \in db'}
  BY <1>3 DEF Delivered, Document
<1>5. UNCHANGED dir => Held' = Held
  BY <1>1, <1>2 DEF Held
<1>6. UNCHANGED db => Delivered' = Delivered
  BY <1>4 DEF Delivered
<1>7. CASE Unlink
  <2>1. dir' \subseteq dir /\ UNCHANGED db
    BY <1>7 DEF Unlink
  <2> DEFINE S == Held \ Held'
  <2>2. Held' \subseteq Held
    BY <1>1, <1>2, <2>1 DEF Held
  <2>3. ASSUME NEW e \in S
        PROVE  e \in Held /\ e \in Delivered
    <3>1. PICK n \in dir : e \in TimelyEvents(n)
      BY DEF Held
    <3>2. n \in FileNums \ dir'
      BY <1>1, <1>2, <3>1 DEF Held
    <3>3. NoTimelyLoss'
      BY <1>7, UnlinkStep
    <3>4. Document(e) \in db
      <4>1. e \in TimelyEvents(n)'
        BY <1>2, <3>1, <3>2
      <4>2. QED
        BY <2>1, <3>2, <3>3, <4>1 DEF NoTimelyLoss, Document
    <3>5. e \in AllTimely
      BY <3>1, <3>2 DEF AllTimely
    <3>6. QED
      BY <3>4, <3>5 DEF Delivered
  <2>4. S \in SUBSET (Held \cap Delivered) /\ Held' = Held \ S
    BY <2>2, <2>3
  <2> HIDE DEF S
  <2>5. Transfer!Release
    BY <1>6, <2>1, <2>4 DEF Transfer!Release
  <2>6. QED
    BY <2>5
<1>8. CASE PutSession \/ PutRecord \/ PutThrows
  <2>1. UNCHANGED dir
    BY <1>8 DEF PutSession, PutRecord, PutThrows, storeVars
  <2>2. CASE UNCHANGED db
    BY <1>5, <1>6, <2>1, <2>2
  <2>3. CASE hand \in Filed /\ db' = db \cup {Document(hand)}
    <3>1. ASSUME NEW e
          PROVE  Document(e) = Document(hand) => e = hand
      BY DEF Document
    <3>2. Delivered' = IF hand \in AllTimely THEN Delivered \cup {hand} ELSE Delivered
      BY <1>4, <2>3, <3>1 DEF Delivered
    <3>3. CASE hand \notin AllTimely
      BY <1>5, <2>1, <3>2, <3>3
    <3>4. CASE hand \in AllTimely
      <4>1. PICK n \in FileNums : hand \in TimelyEvents(n)
        BY <3>4 DEF AllTimely
      <4>2. CASE n \in dir
        <5>1. hand \in Held
          BY <4>1, <4>2 DEF Held
        <5>2. Transfer!Deliver
          BY <1>5, <2>1, <3>2, <3>4, <5>1 DEF Transfer!Deliver
        <5>3. QED
          BY <5>2
      <4>3. CASE n \notin dir
        <5>1. Document(hand) \in db
          BY <4>1, <4>3 DEF IInv, NoTimelyLoss
        <5>2. hand \in Delivered
          BY <3>4, <5>1 DEF Delivered
        <5>3. QED
          BY <1>5, <2>1, <3>2, <5>2
      <4>4. QED
        BY <4>2, <4>3
    <3>5. QED
      BY <3>3, <3>4
  <2>4. QED
    BY <2>2, <2>3, DeliveryFacts
<1>9. CASE UNCHANGED dir /\ UNCHANGED db
  BY <1>5, <1>6, <1>9
<1>10. QED
  BY <1>1, <1>7, <1>8, <1>9, DeliveryFacts

\* The spool, its writer, its forwarder and their faults are a reliable
\* transfer of the events that reach a spoolfile in time: nothing is let go
\* before it has been delivered, and nothing is delivered that was not held.
THEOREM Refinement == SSpec => ImplementsTransfer
<1>1. ASSUME SInit
      PROVE  Transfer!Init
  <2>1. dir = {} /\ db = {}
    BY <1>1 DEF SInit, StoreInit, ForwardInit
  <2>2. QED
    BY <2>1 DEF Transfer!Init, Held, Delivered
<1>2. ASSUME IInv, TInv, IInv', [SNext]_allVars
      PROVE  [Transfer!Next]_(Transfer!vars)
  <2>1. CASE WriterNext /\ UNCHANGED forwardVars
    <3>1. OrderedStep /\ NothingMisattributed
      BY <1>2, <2>1, WriterOrderStep DEF TInv
    <3>2. QED
      BY <1>2, <2>1, <3>1, WriterCaptures DEF Transfer!Next, Transfer!vars
  <2>2. CASE ForwardNext
    BY <1>2, <2>2, ForwarderDelivers DEF Transfer!Next, Transfer!vars
  <2>3. CASE UNCHANGED allVars
    <3>1. UNCHANGED <<dir, kern, sealed, db>>
      BY <2>3 DEF allVars, storeVars, forwardVars
    <3>2. \A n : TimelyEvents(n)' = TimelyEvents(n)
      BY <3>1 DEF TimelyEvents, EventsUpTo, IsEvent
    <3>3. Held' = Held /\ Delivered' = Delivered
      BY <3>1, <3>2 DEF Held, Delivered, AllTimely, Document
    <3>4. QED
      BY <3>3 DEF Transfer!vars
  <2>4. QED
    BY <1>2, <2>1, <2>2, <2>3 DEF SNext
<1>3. SInit => Transfer!Init
  BY <1>1
<1>4. IInv /\ TInv /\ IInv' /\ [SNext]_allVars => [Transfer!Next]_(Transfer!vars)
  BY <1>2
<1>5. QED
  BY <1>3, <1>4, TransferInductive, PTL DEF SSpec, SpoolInv, ImplementsTransfer,
     Transfer!Spec
=============================================================================
